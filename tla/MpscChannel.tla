----------------------------- MODULE MpscChannel -----------------------------
(***************************************************************************)
(* A channel of kind MPSC: Channel over MpscRing, with several producer    *)
(* threads and the loop's thread, which pops value by value and delivers   *)
(* them in chunks.                                                         *)
(***************************************************************************)
EXTENDS Channel, MpscRing

CONSTANTS Chunk,     \* 64
          BulkLen,   \* bound: values passed to one try_push_bulk
          Bulks      \* what the producers pass to it: sequences of values

ASSUME ChunkAssumption == Chunk \in Nat \ {0} /\ BulkLen \in Nat \ {0}

ASSUME BulksAssumption ==
  \A vs \in Bulks : vs \in Seq(Items \ {NoTask}) /\ Len(vs) \in 1 .. BulkLen

VARIABLES spc, args, npush,  \* per producer: where it is, values left, values pushed
          rx,                \* the loop: "idle" or "pop"
          chunk,             \* the values popped and not yet delivered
          got                \* history: values delivered, in order

mpscVars == <<spc, args, npush, rx, chunk, got>>
vars == <<chanVars, ringVars, mpscVars>>

Init ==
  /\ ChanInit /\ RingInit
  /\ spc = [p \in Producers |-> "idle"]
  /\ args = [p \in Producers |-> << >>]
  /\ npush = [p \in Producers |-> 0]
  /\ rx = "idle" /\ chunk = << >> /\ got = << >>

-----------------------------------------------------------------------------
(* push and push_bulk: values are pushed one by one, then one poke *)

push(p, vs) ==
  /\ spc[p] = "idle"
  /\ PushBegin(p, Head(vs))
  /\ spc' = [spc EXCEPT ![p] = "pushing"]
  /\ args' = [args EXCEPT ![p] = Tail(vs)]
  /\ npush' = [npush EXCEPT ![p] = 0]
  /\ UNCHANGED <<chanVars, rx, chunk, got>>

Pushing(p) == (PushStep(p) \/ Commit(p)) /\ UNCHANGED <<chanVars, mpscVars>>

\* try_push returned true; the next value, if any, is tried at once
PushOk(p) ==
  /\ spc[p] = "pushing" /\ rpc[p] = "ok"
  /\ npush' = [npush EXCEPT ![p] = @ + 1]
  /\ IF args[p] = << >>
       THEN /\ PushReturn(p)
            /\ spc' = [spc EXCEPT ![p] = "poke"]
            /\ UNCHANGED args
       ELSE /\ rpc' = [rpc EXCEPT ![p] = "seq"]
            /\ rpos' = [rpos EXCEPT ![p] = enq]
            /\ ritem' = [ritem EXCEPT ![p] = Head(args[p])]
            /\ args' = [args EXCEPT ![p] = Tail(@)]
            /\ UNCHANGED <<enq, deq, seq, data, pbuf, log, consVars, spc>>
  /\ UNCHANGED <<chanVars, rx, chunk, got>>

\* Mutant of PushFull: a bulk cut short does not poke.
PushFullSilent(p) ==
  /\ spc[p] = "pushing" /\ rpc[p] = "full"
  /\ PushReturn(p)
  /\ spc' = [spc EXCEPT ![p] = "idle"]
  /\ args' = [args EXCEPT ![p] = << >>]
  /\ UNCHANGED <<chanVars, npush, rx, chunk, got>>

\* the ring is full: poke only if something was pushed
PushFull(p) ==
  /\ spc[p] = "pushing" /\ rpc[p] = "full"
  /\ PushReturn(p)
  /\ spc' = [spc EXCEPT ![p] = IF npush[p] > 0 THEN "poke" ELSE "idle"]
  /\ args' = [args EXCEPT ![p] = << >>]
  /\ UNCHANGED <<chanVars, npush, rx, chunk, got>>

\* the exchange is not overtaken by the producer's own stores to the ring
Poke(p) ==
  /\ spc[p] = "poke"
  /\ pbuf[p] = {}
  /\ PokeExchange
  /\ spc' = [spc EXCEPT ![p] = IF PokePosts THEN "post" ELSE "idle"]
  /\ UNCHANGED <<ringVars, args, npush, rx, chunk, got>>

Post(p) ==
  /\ spc[p] = "post"
  /\ PokePost
  /\ spc' = [spc EXCEPT ![p] = "idle"]
  /\ UNCHANGED <<ringVars, args, npush, rx, chunk, got>>

-----------------------------------------------------------------------------
(* attach and drain, on the loop's thread *)

Attach == rx = "idle" /\ attach /\ UNCHANGED <<ringVars, mpscVars>>

DrainReset ==
  /\ rx = "idle"
  /\ DrainRun \/ poll
  /\ rx' = "pop"
  /\ UNCHANGED <<ringVars, spc, args, npush, chunk, got>>

DrainPop ==
  /\ rx = "pop" /\ attached
  /\ PopStep
  /\ UNCHANGED <<chanVars, mpscVars>>

\* a value joins the chunk; a full chunk is delivered
DrainFill ==
  /\ rx = "pop"
  /\ PopReturn
  /\ IF Len(chunk) + 1 = Chunk
       THEN got' = got \o Append(chunk, cout) /\ chunk' = << >>
       ELSE chunk' = Append(chunk, cout) /\ UNCHANGED got
  /\ UNCHANGED <<chanVars, spc, args, npush, rx>>

\* Mutant of DrainDone: the last, partial chunk is dropped.
DrainDoneShort ==
  /\ rx = "pop" /\ cst = "out"
  /\ RingEmpty \/ ~attached
  /\ chunk' = << >>
  /\ rx' = "idle"
  /\ UNCHANGED <<chanVars, ringVars, spc, args, npush, got>>

\* try_pop found nothing: the rest is delivered
DrainDone ==
  /\ rx = "pop" /\ cst = "out"
  /\ RingEmpty \/ ~attached
  /\ got' = got \o chunk /\ chunk' = << >>
  /\ rx' = "idle"
  /\ UNCHANGED <<chanVars, ringVars, spc, args, npush>>

DrainDropped == rx = "idle" /\ DrainShed /\ UNCHANGED <<ringVars, mpscVars>>

Others ==
  /\ OtherPost \/ (rx = "idle" /\ OtherLeaves) \/ CommitFlag
  /\ UNCHANGED <<ringVars, mpscVars>>

ProducerStep(p) == Pushing(p) \/ PushOk(p) \/ PushFull(p) \/ Poke(p) \/ Post(p)

Next ==
  \/ \E p \in Producers : (\E vs \in Bulks : enq < MaxPush /\ push(p, vs)) \/ ProducerStep(p)
  \/ Attach \/ DrainReset \/ DrainPop \/ DrainFill \/ DrainDone \/ DrainDropped \/ Others

Spec == Init /\ [][Next]_vars

-----------------------------------------------------------------------------
(* Properties *)

\* The channel, its ring and its threads keep to their shapes; the chunk array is
\* not written past its end (ChannelState).
TypeOK ==
  /\ ChanTypeOK /\ RingTypeOK
  /\ spc \in [Producers -> {"idle", "pushing", "poke", "post"}]
  /\ args \in [Producers -> Seq(Items)] /\ npush \in [Producers -> 0 .. BulkLen]
  /\ rx \in {"idle", "pop"}
  /\ chunk \in Seq(Items) /\ Len(chunk) < Chunk
  /\ got \in Seq(Items)

Posting == {p \in Producers : spc[p] = "post"}

\* Every value popped is delivered, once and in order, by the end of the drain.
DrainDelivers == rx = "idle" => got = outs

\* Nothing is going on that would still see to the values in the ring.
Quiet ==
  /\ attached /\ rx = "idle" /\ ~fbuf /\ ~Queued("drain")
  /\ \A p \in Producers : spc[p] = "idle"

\* A value is left behind in the ring of a quiet channel only if its push met no
\* receiver, a full mailbox or a flag whose reset was under way, or if the drain was
\* shed with the deadline of the producer that posted it, however many producers
\* push while the loop drains (poke, drain, drain_mailbox).
StrandExcused == Quiet /\ enq # deq => missed # {}

\* The flag never stays set with no drain to come: the next push after a value was
\* left behind posts again, unless the mailbox refused the task or the loop shed it:
\* then the flag stays set and no push posts until a poll() (poke, drain_mailbox).
FlagHonest ==
  dposted => Queued("drain") \/ Posting # {} \/ fbuf \/ DrainLost

\* A value left behind has one of the named reasons, and the next push picks it up unless
\* its drain was refused or shed (push, poke, drain, attach, drain_mailbox).
MpscStranding == TypeOK /\ StrandExcused /\ FlagHonest

\* A push that races the reset of the flag needs no second look at the ring: with a
\* receiver and room in its mailbox, no value stays behind (drain's last comment).
ResetRaceHarmless == Quiet /\ missed \subseteq {"late_reset"} => enq = deq
=============================================================================
