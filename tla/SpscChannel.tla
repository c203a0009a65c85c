----------------------------- MODULE SpscChannel -----------------------------
(***************************************************************************)
(* A channel of kind SPSC: Channel over SpscRing, with one producer thread *)
(* and the loop's thread.                                                  *)
(***************************************************************************)
EXTENDS Channel, SpscRing

CONSTANT MaxDrain   \* 1024: values one drain delivers

ASSUME DrainAssumption == MaxDrain \in Nat \ {0}

VARIABLES spc,   \* the producer: "idle", "pushing", "poke" or "post"
          rx     \* the loop: "idle", "load" or "batch"

spscChanVars == <<chanVars, spscVars, spc, rx>>

SpscChanInit == ChanInit /\ SpscInit /\ spc = "idle" /\ rx = "idle"

-----------------------------------------------------------------------------
(* push and push_bulk *)

push(vs) ==
  /\ spc = "idle"
  /\ PushLoad(vs)
  /\ spc' = "pushing"
  /\ UNCHANGED <<chanVars, rx>>

PushWrite == SpscWrite /\ UNCHANGED <<chanVars, spc, rx>>

PushPublish ==
  /\ SpscPublish
  /\ spc' = "poke"
  /\ UNCHANGED <<chanVars, rx>>

Poke ==
  /\ spc = "poke"
  /\ PokeExchange
  /\ spc' = IF PokePosts THEN "post" ELSE "idle"
  /\ UNCHANGED <<spscVars, rx>>

Post ==
  /\ spc = "post"
  /\ PokePost
  /\ spc' = "idle"
  /\ UNCHANGED <<spscVars, rx>>

-----------------------------------------------------------------------------
(* attach and drain, on the loop's thread *)

Attach == rx = "idle" /\ attach /\ UNCHANGED <<spscVars, spc, rx>>

DrainReset ==
  /\ rx = "idle"
  /\ DrainRun \/ poll
  /\ rx' = "load"
  /\ UNCHANGED <<spscVars, spc>>

\* without a callback nothing is drained; a drain that leaves values behind is
\* noted in missed
DrainLoad ==
  /\ rx = "load"
  /\ IF ~attached \/ head = tail
       THEN rx' = "idle" /\ UNCHANGED <<spscVars, missed>>
       ELSE /\ rx' = "batch" /\ drain_contiguous(MaxDrain)
            /\ missed' = IF ContiguousLen(MaxDrain) < tail - head
                           THEN missed \cup {"short_drain"} ELSE missed
  /\ UNCHANGED <<attached, dposted, fbuf, mbox, spc>>

DrainDone ==
  /\ rx = "batch"
  /\ DrainEnd
  /\ rx' = "idle"
  /\ UNCHANGED <<chanVars, spc>>

DrainDropped == rx = "idle" /\ DrainShed /\ UNCHANGED <<spscVars, spc, rx>>

Others ==
  /\ OtherPost \/ (rx = "idle" /\ OtherLeaves) \/ CommitFlag
  /\ UNCHANGED <<spscVars, spc, rx>>

SpscChanNext ==
  \/ \E vs \in Bulks : tail < MaxTail /\ push(vs)
  \/ PushWrite \/ PushPublish \/ Poke \/ Post
  \/ Attach \/ DrainReset \/ DrainLoad \/ DrainDone \/ DrainDropped \/ Others

SpscChanSpec == SpscChanInit /\ [][SpscChanNext]_spscChanVars

-----------------------------------------------------------------------------
(* Properties *)

\* The channel, its ring and both threads keep to their shapes (ChannelState).
SpscChanTypeOK ==
  /\ ChanTypeOK /\ SpscTypeOK
  /\ spc \in {"idle", "pushing", "poke", "post"} /\ rx \in {"idle", "load", "batch"}

\* Nothing is going on that would still see to the values in the ring.
Quiet == attached /\ spc = "idle" /\ rx = "idle" /\ ~fbuf /\ ~Queued("drain")

\* A value is left behind in the ring of a quiet channel only if its push met no
\* receiver, a full mailbox or a flag whose reset was under way, if the drain was
\* shed with the deadline of the producer that posted it, or if the last drain
\* stopped short, at the wrap of the ring or at its limit (poke, drain, drain_mailbox).
StrandExcused == Quiet /\ head # tail => missed # {}

\* The flag never stays set with no drain to come: the next push after a value was
\* left behind posts again, unless the mailbox refused the task or the loop shed it:
\* then the flag stays set and no push posts until a poll() (poke, drain_mailbox).
FlagHonest ==
  dposted => Queued("drain") \/ spc = "post" \/ fbuf \/ DrainLost

\* A value left behind has one of the named reasons, and the next push picks it up unless
\* its drain was refused or shed (push, poke, drain, attach, drain_mailbox); what is drained is what was pushed, once and in order, and a
\* batch the callback still reads is not overwritten (try_push, push_bulk, drain).
SpscStranding == SpscChanTypeOK /\ StrandExcused /\ FlagHonest /\ SpscOrdered
=============================================================================
