-------------------------- MODULE MpscChannel_proof --------------------------
(***************************************************************************)
(* Proofs about MpscChannel for every number of producers, every capacity  *)
(* of the ring of at least two cells, and every size of the mailbox, the   *)
(* bulks and the chunks: what is popped is delivered, and a value that     *)
(* stays behind in a quiet channel has one of the named reasons.           *)
(***************************************************************************)
EXTENDS MpscChannel, MpscRing_proof

(* The parts of the inductive invariant *)

\* A producer is in push_impl exactly while it is pushing, and has values left for the rest
\* of its bulk.
Producing ==
  /\ spc \in [Producers -> {"idle", "pushing", "poke", "post"}]
  /\ args \in [Producers -> Seq(Items)] /\ npush \in [Producers -> 0 .. BulkLen]
  /\ \A p \in Producers :
       /\ rpc[p] # "out" <=> spc[p] = "pushing"
       /\ spc[p] = "pushing" => npush[p] + Len(args[p]) < BulkLen

\* The values moved out of the ring are those delivered, those in the chunk and the one in hand.
Delivering ==
  /\ rx \in {"idle", "pop"}
  /\ chunk \in Seq(Items) /\ Len(chunk) < Chunk /\ got \in Seq(Items)
  /\ rx = "idle" => chunk = << >> /\ cst = "out"
  /\ outs = IF cst \in {"free", "got"} THEN (got \o chunk) \o <<cout>> ELSE got \o chunk

\* A cell that is claimed and not visibly published is some producer's.
Claimed ==
  \A i \in Nat : deq <= i /\ i < enq /\ seq[Slot(i)] = i => \E p \in Producers : i \in Held(p)

\* p has something in the ring that it has not poked for, and will.
WillPoke(p) ==
  \/ spc[p] = "poke"
  \/ spc[p] = "pushing" /\ (npush[p] > 0 \/ rpc[p] \in {"write", "publish", "ok"})

HoldersPoke == \A p \in Producers : Held(p) # {} => WillPoke(p)

\* With a receiver the values in the ring are seen to; without one only a push that has not
\* poked yet may be.
SeenTo ==
  /\ attached /\ enq # deq /\ missed = {} =>
       Queued("drain") \/ rx = "pop" \/ (\E p \in Producers : WillPoke(p)) \/ Posting # {}
  /\ ~attached => /\ Posting = {}
                  /\ enq # deq /\ missed = {} => \E p \in Producers : WillPoke(p)

MpscInv ==
  ChanTypeOK /\ RingInv /\ Producing /\ Delivering /\ Claimed /\ HoldersPoke /\ FlagHonest /\ SeenTo

-----------------------------------------------------------------------------
(* What the accesses to the ring change *)

\* Claimed positions stay with their holders.
LEMMA ClaimedFrame ==
  ASSUME Claimed, UNCHANGED <<deq, enq, seq>>, \A q \in Producers : Held(q) \subseteq Held(q)'
  PROVE  Claimed'
  BY Zenon DEF Claimed

\* Outside the two accesses that hold it, the position of a producer does not matter.
LEMMA HeldFrame ==
  ASSUME NEW q \in Producers, pbuf'[q] = pbuf[q], rpc[q] \notin {"write", "publish"},
         rpc'[q] \notin {"write", "publish"}
  PROVE  Held(q)' = Held(q)
  BY DEF Held

LEMMA HeldSame ==
  ASSUME NEW q \in Producers, pbuf'[q] = pbuf[q], rpc'[q] = rpc[q], rpos'[q] = rpos[q]
  PROVE  Held(q)' = Held(q)
  BY Zenon DEF Held

\* An access that moves only the program counter and the locals of p, which holds no position
\* before or after it.
LEMMA LocalFacts ==
  ASSUME RingInv, NEW p \in Producers, NEW to, NEW at,
         rpc[p] \notin {"write", "publish"}, to \notin {"write", "publish"},
         rpc' = [rpc EXCEPT ![p] = to],
         rpos' = rpos \/ rpos' = [rpos EXCEPT ![p] = at],
         UNCHANGED <<enq, deq, seq, pbuf>>
  PROVE  /\ \A q \in Producers : Held(q)' = Held(q)
         /\ rpc'[p] = to /\ \A q \in Producers \ {p} : rpc'[q] = rpc[q]
         /\ Claimed => Claimed'
<1>1. RingTypeOK
  BY Zenon DEF RingInv
<1>2. DOMAIN rpc = Producers /\ DOMAIN rpos = Producers
  BY <1>1 DEF RingTypeOK
<1>3. rpc'[p] = to /\ \A q \in Producers \ {p} : rpc'[q] = rpc[q] /\ rpos'[q] = rpos[q]
  BY <1>2, Zenon
<1>4. ASSUME NEW q \in Producers PROVE Held(q)' = Held(q)
  <2>1. CASE q = p
    BY <1>3, <2>1, HeldFrame, Zenon
  <2>2. CASE q # p
    BY <1>3, <2>2, HeldSame, Zenon
  <2> QED BY <2>1, <2>2
<1>5. Claimed => Claimed'
  BY <1>4, ClaimedFrame, Zenon
<1> QED BY <1>3, <1>4, <1>5

\* An access of push_impl: what p holds it will poke for, and the others hold what they held.
LEMMA PushStepFacts ==
  ASSUME RingInv, NEW p \in Producers, PushStep(p)
  PROVE  /\ rpc[p] # "out" /\ rpc'[p] # "out"
         /\ \A q \in Producers \ {p} : rpc'[q] = rpc[q] /\ Held(q)' = Held(q)
         /\ rpc[p] \in {"write", "publish", "ok"} => rpc'[p] \in {"write", "publish", "ok"}
         /\ enq' # enq => rpc'[p] \in {"write", "publish", "ok"}
         /\ Held(p)' # {} => Held(p) # {} \/ rpc'[p] \in {"write", "publish", "ok"}
         /\ Claimed => Claimed'
         /\ UNCHANGED <<deq, cst, cout, outs>>
<1>1. RingTypeOK
  BY Zenon DEF RingInv
<1>2. DOMAIN rpc = Producers /\ DOMAIN rpos = Producers /\ DOMAIN pbuf = Producers
  BY <1>1 DEF RingTypeOK
<1>3. ASSUME NEW to \in {"cas", "full", "reload", "seq"}, rpc[p] \in {"seq", "reload", "cas"},
             rpc' = [rpc EXCEPT ![p] = to], rpos' = rpos \/ rpos' = [rpos EXCEPT ![p] = enq],
             UNCHANGED <<enq, deq, seq, pbuf, cst, cout, outs>>
      PROVE  /\ rpc[p] # "out" /\ rpc'[p] # "out"
             /\ \A q \in Producers \ {p} : rpc'[q] = rpc[q] /\ Held(q)' = Held(q)
             /\ rpc[p] \notin {"write", "publish", "ok"} /\ enq' = enq /\ Held(p)' = Held(p)
             /\ Claimed => Claimed'
             /\ UNCHANGED <<deq, cst, cout, outs>>
  <2>1. rpc[p] \notin {"write", "publish"} /\ to \notin {"write", "publish"}
    BY <1>3
  <2>2. /\ \A q \in Producers : Held(q)' = Held(q)
        /\ rpc'[p] = to /\ \A q \in Producers \ {p} : rpc'[q] = rpc[q]
        /\ Claimed => Claimed'
    BY <1>3, <2>1, LocalFacts, Zenon
  <2>3. rpc[p] # "out" /\ to # "out" /\ rpc[p] \notin {"write", "publish", "ok"}
    BY <1>3
  <2> QED BY <1>3, <2>2, <2>3, Zenon
<1>4. CASE PushLoadSeq(p)
  <2>1. PICK to \in {"cas", "full", "reload", "seq"} : rpc' = [rpc EXCEPT ![p] = to]
    BY <1>4, Zenon DEF PushLoadSeq
  <2>2. rpc[p] = "seq" /\ UNCHANGED rpos /\ UNCHANGED <<enq, deq, seq, pbuf, cst, cout, outs>>
    BY <1>4, Zenon DEF PushLoadSeq, consVars
  <2> QED BY <1>3, <2>1, <2>2
<1>5. CASE PushReload(p)
  <2>1. /\ rpc[p] = "reload" /\ rpc' = [rpc EXCEPT ![p] = "seq"] /\ rpos' = [rpos EXCEPT ![p] = enq]
        /\ UNCHANGED <<enq, deq, seq, pbuf, cst, cout, outs>>
    BY <1>5, Zenon DEF PushReload, consVars
  <2> QED BY <1>3, <2>1
<1>6. CASE PushLose(p)
  <2>1. /\ rpc[p] = "cas" /\ rpc' = [rpc EXCEPT ![p] = "seq"] /\ rpos' = [rpos EXCEPT ![p] = enq]
        /\ UNCHANGED <<enq, deq, seq, pbuf, cst, cout, outs>>
    BY <1>6, Zenon DEF PushLose, consVars
  <2> QED BY <1>3, <2>1
<1>7. CASE PushClaim(p)
  <2>1. /\ rpc[p] = "cas" /\ rpc' = [rpc EXCEPT ![p] = "write"] /\ enq = rpos[p] /\ enq' = enq + 1
        /\ UNCHANGED <<deq, seq, pbuf, rpos, cst, cout, outs>>
    BY <1>7, Zenon DEF PushClaim, consVars
  <2>2. rpc'[p] = "write" /\ \A q \in Producers \ {p} : rpc'[q] = rpc[q]
    BY <1>2, <2>1, Zenon
  <2>3. \A q \in Producers \ {p} : Held(q)' = Held(q)
    BY <2>1, <2>2, HeldSame, Zenon
  <2>4. Held(p) \subseteq Held(p)' /\ enq \in Held(p)'
    BY <2>1, <2>2 DEF Held
  <2>5. ASSUME Claimed PROVE Claimed'
    <3>1. ASSUME NEW i \in Nat, deq' <= i, i < enq', seq'[Slot(i)] = i
          PROVE  \E q \in Producers : i \in Held(q)'
      <4>1. i < enq \/ i = enq
        BY <1>1, <2>1, <3>1 DEF RingTypeOK
      <4>2. CASE i = enq
        BY <2>4, <4>2, Zenon
      <4>3. CASE i < enq
        <5>1. PICK q \in Producers : i \in Held(q)
          BY <2>1, <2>5, <3>1, <4>3, Zenon DEF Claimed
        <5>2. i \in Held(q)'
          BY <2>3, <2>4, <5>1, Zenon
        <5> QED BY <5>2
      <4> QED BY <4>1, <4>2, <4>3
    <3> QED BY <3>1, Zenon DEF Claimed
  <2> QED BY <2>1, <2>2, <2>3, <2>5
<1>8. CASE PushWrite(p)
  <2>1. /\ rpc[p] = "write" /\ rpc' = [rpc EXCEPT ![p] = "publish"]
        /\ UNCHANGED <<enq, deq, seq, pbuf, rpos, cst, cout, outs>>
    BY <1>8, Zenon DEF PushWrite, consVars
  <2>2. rpc'[p] = "publish" /\ \A q \in Producers \ {p} : rpc'[q] = rpc[q]
    BY <1>2, <2>1, Zenon
  <2>3. \A q \in Producers \ {p} : Held(q)' = Held(q)
    BY <2>1, <2>2, HeldSame, Zenon
  <2>4. Held(p)' = Held(p)
    BY <2>1, <2>2 DEF Held
  <2>5. Claimed => Claimed'
    BY <2>1, <2>3, <2>4, ClaimedFrame, Zenon
  <2> QED BY <2>1, <2>2, <2>3, <2>5
<1>9. CASE PushPublish(p)
  <2>1. /\ rpc[p] = "publish" /\ rpc' = [rpc EXCEPT ![p] = "ok"]
        /\ pbuf' = [pbuf EXCEPT ![p] = @ \cup {rpos[p]}]
        /\ UNCHANGED <<enq, deq, seq, rpos, cst, cout, outs>>
    BY <1>9, Zenon DEF PushPublish, consVars
  <2>2. /\ rpc'[p] = "ok" /\ pbuf'[p] = pbuf[p] \cup {rpos[p]}
        /\ \A q \in Producers \ {p} : rpc'[q] = rpc[q] /\ pbuf'[q] = pbuf[q]
    BY <1>2, <2>1, Zenon
  <2>3. \A q \in Producers \ {p} : Held(q)' = Held(q)
    BY <2>1, <2>2, HeldSame, Zenon
  <2>4. Held(p)' = Held(p)
    BY <2>1, <2>2 DEF Held
  <2>5. Claimed => Claimed'
    BY <2>1, <2>3, <2>4, ClaimedFrame, Zenon
  <2> QED BY <2>1, <2>2, <2>3, <2>5
<1> QED BY <1>4, <1>5, <1>6, <1>7, <1>8, <1>9, Zenon DEF PushStep

\* A store that becomes visible publishes its position and touches no other.
LEMMA CommitFacts ==
  ASSUME Cap > 1, RingInv, NEW p \in Producers, Commit(p)
  PROVE  /\ \A q \in Producers : Held(q)' \subseteq Held(q)
         /\ Claimed => Claimed'
         /\ UNCHANGED <<deq, enq, rpc, cst, cout, outs>>
<1>1. RingTypeOK /\ Ownership
  BY Zenon DEF RingInv
<1>2. PICK i \in pbuf[p] :
        /\ seq' = [seq EXCEPT ![Slot(i)] = i + 1] /\ pbuf' = [pbuf EXCEPT ![p] = @ \ {i}]
        /\ UNCHANGED <<enq, deq, rpc, rpos, cst, cout, outs>>
  BY Zenon DEF Commit, consVars
<1>3. DOMAIN pbuf = Producers /\ DOMAIN seq = Slots /\ i \in Nat /\ Slot(i) \in Slots
  BY <1>1, <1>2, SlotType DEF RingTypeOK
<1>4. pbuf'[p] = pbuf[p] \ {i} /\ \A q \in Producers \ {p} : pbuf'[q] = pbuf[q]
  BY <1>2, <1>3, Zenon
<1>5. \A q \in Producers \ {p} : Held(q)' = Held(q)
  BY <1>2, <1>4, HeldSame, Zenon
<1>6. Held(p)' \subseteq Held(p) /\ \A j \in Held(p) : j = i \/ j \in Held(p)'
  BY <1>2, <1>4 DEF Held
<1>7. ASSUME Claimed PROVE Claimed'
  <2>1. ASSUME NEW j \in Nat, deq' <= j, j < enq', seq'[Slot(j)] = j
        PROVE  \E q \in Producers : j \in Held(q)'
    <3>1. Slot(j) # Slot(i)
      <4>1. CASE Slot(j) = Slot(i)
        <5>1. j = i + 1
          BY <1>2, <1>3, <2>1, <4>1
        <5>2. i + Cap <= j
          BY <1>3, <4>1, <5>1, SlotInj
        <5> QED BY <1>3, <5>1, <5>2, CapAssumption
      <4> QED BY <4>1
    <3>2. seq[Slot(j)] = j /\ deq <= j /\ j < enq
      BY <1>2, <1>3, <2>1, <3>1, SlotType
    <3>3. PICK q \in Producers : j \in Held(q)
      BY <1>7, <3>2, Zenon DEF Claimed
    <3>4. j # i
      BY <3>1
    <3> QED BY <1>5, <1>6, <3>3, <3>4, Zenon
  <2> QED BY <2>1, Zenon DEF Claimed
<1>8. UNCHANGED <<deq, enq, rpc, cst, cout, outs>>
  BY <1>2
<1>9. \A q \in Producers : Held(q)' \subseteq Held(q)
  BY <1>5, <1>6, Zenon
<1> QED BY <1>7, <1>8, <1>9

\* try_pop moves on past what is published, and gives back a cell that nobody has claimed.
LEMMA PopStepFacts ==
  ASSUME RingInv, PopStep
  PROVE  /\ \A q \in Producers : Held(q)' = Held(q)
         /\ Claimed => Claimed'
         /\ UNCHANGED <<enq, rpc>>
<1>1. RingTypeOK /\ Positions
  BY Zenon DEF RingInv
<1>2. UNCHANGED <<enq, pbuf, rpc, rpos>>
  BY Zenon DEF PopStep, PopHit, PopMove, PopFree, prodVars
<1>3. \A q \in Producers : Held(q)' = Held(q)
  BY <1>2, HeldSame, Zenon
<1>4. ASSUME Claimed PROVE Claimed'
  <2>1. CASE PopHit
    <3>1. deq' = deq + 1 /\ UNCHANGED seq
      BY <2>1, Zenon DEF PopHit
    <3>2. \A j \in Nat : deq' <= j => deq <= j
      BY <1>1, <3>1 DEF RingTypeOK
    <3> QED BY <1>2, <1>3, <1>4, <3>1, <3>2, Zenon DEF Claimed
  <2>2. CASE PopMove
    <3>1. UNCHANGED <<deq, enq, seq>>
      BY <2>2, Zenon DEF PopMove
    <3> QED BY <1>3, <1>4, <3>1, Zenon DEF Claimed
  <2>3. CASE PopFree
    <3>1. cst = "free" /\ seq' = [seq EXCEPT ![Slot(cpos)] = cpos + Cap] /\ UNCHANGED deq
      BY <2>3, Zenon DEF PopFree
    <3>2. cpos + 1 = deq /\ enq <= cpos + Cap /\ cpos \in Nat /\ seq \in [Slots -> Nat] /\ enq \in Nat
      BY <1>1, <3>1 DEF RingTypeOK, Positions, Freed
    <3>3. ASSUME NEW j \in Nat, deq' <= j, j < enq', seq'[Slot(j)] = j
          PROVE  \E q \in Producers : j \in Held(q)'
      <4>1. j < cpos + Cap /\ cpos < j
        BY <1>2, <3>1, <3>2, <3>3, CapAssumption
      <4>2. Slot(j) # Slot(cpos)
        <5>1. CASE Slot(j) = Slot(cpos)
          <6>1. cpos + Cap <= j
            BY <3>2, <4>1, <5>1, SlotInj
          <6> QED BY <3>2, <4>1, <6>1, CapAssumption
        <5> QED BY <5>1
      <4>3. seq[Slot(j)] = j
        BY <3>1, <3>2, <3>3, <4>2, SlotType
      <4>4. PICK q \in Producers : j \in Held(q)
        BY <1>2, <1>4, <3>1, <3>3, <4>3, Zenon DEF Claimed
      <4> QED BY <1>3, <4>4, Zenon
    <3> QED BY <3>3, Zenon DEF Claimed
  <2> QED BY <2>1, <2>2, <2>3, Zenon DEF PopStep
<1> QED BY <1>2, <1>3, <1>4

-----------------------------------------------------------------------------
(* The mailbox *)

\* A task joins those that are queued.
LEMMA MboxAppend ==
  ASSUME ChanTypeOK, NEW t \in {"drain", "other"}, Len(mbox) < MboxCap, mbox' = Append(mbox, t)
  PROVE  /\ mbox' \in Seq({"drain", "other"}) /\ Len(mbox') <= MboxCap
         /\ Queued("drain") => Queued("drain")'
         /\ t = "drain" => Queued("drain")'
<1>1. mbox \in Seq({"drain", "other"}) /\ Len(mbox) \in Nat /\ DOMAIN mbox = 1 .. Len(mbox)
  BY DEF ChanTypeOK
<1>2. /\ mbox' \in Seq({"drain", "other"}) /\ Len(mbox') = Len(mbox) + 1
      /\ DOMAIN mbox' = 1 .. Len(mbox) + 1 /\ mbox'[Len(mbox) + 1] = t
      /\ \A i \in 1 .. Len(mbox) : mbox'[i] = mbox[i]
  BY <1>1
<1>3. Len(mbox') <= MboxCap
  BY <1>1, <1>2, ChannelAssumption
<1>4. /\ \A i \in 1 .. Len(mbox) : i \in 1 .. Len(mbox) + 1
      /\ Len(mbox) + 1 \in 1 .. Len(mbox) + 1
  BY <1>1
<1> QED BY <1>1, <1>2, <1>3, <1>4, Zenon DEF Queued

\* Running another task takes no drain out of the queue.
LEMMA MboxTail ==
  ASSUME ChanTypeOK, mbox # << >>, mbox' = Tail(mbox)
  PROVE  /\ mbox' \in Seq({"drain", "other"}) /\ Len(mbox') <= MboxCap
         /\ Head(mbox) = "other" /\ Queued("drain") => Queued("drain")'
<1>1. /\ mbox \in Seq({"drain", "other"}) /\ Len(mbox) \in Nat /\ DOMAIN mbox = 1 .. Len(mbox)
      /\ Len(mbox) <= MboxCap
  BY DEF ChanTypeOK
<1>2. /\ mbox' \in Seq({"drain", "other"}) /\ Len(mbox') = Len(mbox) - 1 /\ Len(mbox) > 0
      /\ DOMAIN mbox' = 1 .. Len(mbox) - 1 /\ Head(mbox) = mbox[1]
      /\ \A i \in 1 .. Len(mbox) - 1 : mbox'[i] = mbox[i + 1]
  BY <1>1
<1>3. Len(mbox') <= MboxCap
  BY <1>1, <1>2, ChannelAssumption
<1>4. ASSUME Head(mbox) = "other", Queued("drain") PROVE Queued("drain")'
  <2>1. PICK i \in 1 .. Len(mbox) : mbox[i] = "drain"
    BY <1>1, <1>4, Zenon DEF Queued
  <2>2. i # 1
    BY <1>2, <1>4, <2>1
  <2>3. i - 1 \in DOMAIN mbox' /\ mbox'[i - 1] = mbox[i]
    BY <1>1, <1>2, <2>2
  <2> QED BY <2>1, <2>3, Zenon DEF Queued
<1> QED BY <1>2, <1>3, <1>4

\* The queue of the mailbox as it was.
LEMMA MboxStays == ASSUME UNCHANGED mbox PROVE Queued("drain")' <=> Queued("drain")
  BY Zenon DEF Queued

-----------------------------------------------------------------------------
(* What the steps leave alone *)

LEMMA ChanStays ==
  ASSUME ChanTypeOK, UNCHANGED chanVars
  PROVE  ChanTypeOK' /\ UNCHANGED <<attached, dposted, fbuf, mbox, missed>>
  BY Zenon DEF ChanTypeOK, chanVars

LEMMA DeliverStays ==
  ASSUME Delivering, UNCHANGED <<rx, chunk, got, cst, cout, outs>>
  PROVE  Delivering'
  BY Zenon DEF Delivering

\* Whether p will poke is up to p.
LEMMA PokeStays ==
  ASSUME NEW p \in Producers, spc'[p] = spc[p], npush'[p] = npush[p], rpc'[p] = rpc[p]
  PROVE  WillPoke(p)' <=> WillPoke(p)
  BY Zenon DEF WillPoke

\* What p is at changes for p alone.
LEMMA ProducingKeeps ==
  ASSUME Producing, NEW p \in Producers, NEW s \in {"idle", "pushing", "poke", "post"},
         NEW a \in Seq(Items), NEW n \in 0 .. BulkLen,
         spc' = [spc EXCEPT ![p] = s], args' = [args EXCEPT ![p] = a], npush' = [npush EXCEPT ![p] = n],
         \A q \in Producers \ {p} : rpc'[q] = rpc[q],
         rpc'[p] # "out" <=> s = "pushing", s = "pushing" => n + Len(a) < BulkLen
  PROVE  Producing'
<1>1. /\ spc' \in [Producers -> {"idle", "pushing", "poke", "post"}]
      /\ args' \in [Producers -> Seq(Items)] /\ npush' \in [Producers -> 0 .. BulkLen]
  BY Zenon DEF Producing
<1>2. spc'[p] = s /\ args'[p] = a /\ npush'[p] = n
  BY Zenon DEF Producing
<1>3. \A q \in Producers \ {p} : spc'[q] = spc[q] /\ args'[q] = args[q] /\ npush'[q] = npush[q]
  BY Zenon DEF Producing
<1>4. \A q \in Producers :
        /\ rpc'[q] # "out" <=> spc'[q] = "pushing"
        /\ spc'[q] = "pushing" => npush'[q] + Len(args'[q]) < BulkLen
  <2>1. ASSUME NEW q \in Producers, q # p
        PROVE  /\ rpc'[q] # "out" <=> spc'[q] = "pushing"
               /\ spc'[q] = "pushing" => npush'[q] + Len(args'[q]) < BulkLen
    BY <1>3, <2>1, Zenon DEF Producing
  <2> QED BY <1>2, <2>1, Zenon
<1> QED BY <1>1, <1>4, Zenon DEF Producing

\* A step of a producer before its poke: if it may leave something in the ring, it will poke.
LEMMA ProducerKeeps ==
  ASSUME FlagHonest, SeenTo, HoldersPoke, NEW p \in Producers,
         UNCHANGED <<attached, dposted, fbuf, mbox, missed>>, UNCHANGED <<rx, deq>>,
         \A q \in Producers \ {p} : spc'[q] = spc[q] /\ npush'[q] = npush[q] /\ rpc'[q] = rpc[q],
         \A q \in Producers \ {p} : Held(q)' \subseteq Held(q),
         spc[p] # "post", spc'[p] # "post",
         WillPoke(p) => WillPoke(p)', enq' = enq \/ WillPoke(p)', Held(p)' # {} => WillPoke(p)'
  PROVE  FlagHonest' /\ SeenTo' /\ HoldersPoke'
<1>1. \A q \in Producers \ {p} : WillPoke(q)' <=> WillPoke(q)
  BY PokeStays, Zenon
<1>2. (\E q \in Producers : WillPoke(q)) => \E q \in Producers : WillPoke(q)'
  BY <1>1, Zenon
<1>3. Posting' = Posting
  <2>1. \A q \in Producers : spc'[q] = "post" <=> spc[q] = "post"
    BY Zenon
  <2> QED BY <2>1 DEF Posting
<1>4. Queued("drain")' <=> Queued("drain")
  BY MboxStays
<1>5. FlagHonest'
  BY <1>3, <1>4, Zenon DEF FlagHonest, DrainLost
<1>6. HoldersPoke'
  <2>1. ASSUME NEW q \in Producers, q # p, Held(q)' # {} PROVE WillPoke(q)'
    <3>1. Held(q) # {}
      BY <2>1
    <3> QED BY <1>1, <2>1, <3>1, Zenon DEF HoldersPoke
  <2> QED BY <2>1, Zenon DEF HoldersPoke
<1>7. SeenTo'
  <2>1. CASE WillPoke(p)'
    BY <1>3, <2>1, Zenon DEF SeenTo
  <2>2. CASE enq' = enq
    BY <1>2, <1>3, <1>4, <2>2, Zenon DEF SeenTo
  <2> QED BY <2>1, <2>2
<1> QED BY <1>5, <1>6, <1>7

-----------------------------------------------------------------------------
(* The producers *)

\* A push begins with the first value of its bulk.
LEMMA ChanPushInv ==
  ASSUME MpscInv, NEW p \in Producers, NEW vs \in Bulks, push(p, vs) PROVE MpscInv'
<1>1. /\ ChanTypeOK /\ RingInv /\ Producing /\ Delivering
      /\ Claimed /\ HoldersPoke /\ FlagHonest /\ SeenTo
  BY Zenon DEF MpscInv
<1>2. /\ spc[p] = "idle" /\ PushBegin(p, Head(vs)) /\ spc' = [spc EXCEPT ![p] = "pushing"]
      /\ args' = [args EXCEPT ![p] = Tail(vs)] /\ npush' = [npush EXCEPT ![p] = 0]
      /\ UNCHANGED chanVars /\ UNCHANGED <<rx, chunk, got>>
  BY Zenon DEF push
<1>3. /\ rpc[p] = "out" /\ rpc' = [rpc EXCEPT ![p] = "seq"] /\ rpos' = [rpos EXCEPT ![p] = enq]
      /\ UNCHANGED <<enq, deq, seq, pbuf>> /\ UNCHANGED <<cst, cout, outs>>
  BY <1>2, Zenon DEF PushBegin, consVars
<1>4. /\ Head(vs) \in Items /\ Tail(vs) \in Seq(Items)
      /\ Len(Tail(vs)) \in Nat /\ Len(Tail(vs)) < BulkLen
  <2>1. vs \in Seq(Items \ {NoTask}) /\ Len(vs) \in 1 .. BulkLen
    BY BulksAssumption, Zenon
  <2>2. PICK n \in Nat : n = Len(vs) /\ n > 0 /\ n <= BulkLen
    BY <2>1, ChunkAssumption
  <2>3. vs \in Seq(Items)
    BY <2>1
  <2> QED BY <2>2, <2>3, HeadTailProperties, ChunkAssumption
<1>5. RingInv'
  BY <1>1, <1>2, <1>4, PushBeginInv, Zenon
<1>6. rpc[p] \notin {"write", "publish"} /\ "seq" \notin {"write", "publish"}
  BY <1>3
<1>7. /\ \A q \in Producers : Held(q)' = Held(q)
      /\ rpc'[p] = "seq" /\ \A q \in Producers \ {p} : rpc'[q] = rpc[q]
      /\ Claimed => Claimed'
  BY <1>1, <1>3, <1>6, LocalFacts, Zenon
<1>8. Producing'
  <2>1. "pushing" \in {"idle", "pushing", "poke", "post"} /\ rpc'[p] # "out"
    BY <1>7
  <2>2. 0 \in 0 .. BulkLen /\ 0 + Len(Tail(vs)) < BulkLen
    BY <1>4, ChunkAssumption
  <2> QED BY <1>1, <1>2, <1>4, <1>7, <2>1, <2>2, ProducingKeeps, Zenon
<1>9. /\ spc'[p] = "pushing" /\ \A q \in Producers \ {p} : spc'[q] = spc[q] /\ npush'[q] = npush[q]
  BY <1>1, <1>2, Zenon DEF Producing
<1>10. ChanTypeOK' /\ UNCHANGED <<attached, dposted, fbuf, mbox, missed>>
  BY <1>1, <1>2, ChanStays, Zenon
<1>11. Delivering'
  BY <1>1, <1>2, <1>3, DeliverStays, Zenon
<1>12. ~WillPoke(p) /\ Held(p)' = {}
  <2>1. ~WillPoke(p)
    BY <1>2 DEF WillPoke
  <2> QED BY <1>1, <1>7, <2>1, Zenon DEF HoldersPoke
<1>13. FlagHonest' /\ SeenTo' /\ HoldersPoke'
  <2>1. spc[p] # "post" /\ spc'[p] # "post"
    BY <1>2, <1>9
  <2> QED BY <1>1, <1>2, <1>3, <1>7, <1>9, <1>10, <1>12, <2>1, ProducerKeeps, Zenon
<1> QED BY <1>1, <1>5, <1>7, <1>8, <1>10, <1>11, <1>13, Zenon DEF MpscInv

\* The accesses of push_impl.
LEMMA ChanPushingInv == ASSUME Cap > 1, MpscInv, NEW p \in Producers, Pushing(p) PROVE MpscInv'
<1>1. /\ ChanTypeOK /\ RingInv /\ Producing /\ Delivering
      /\ Claimed /\ HoldersPoke /\ FlagHonest /\ SeenTo
  BY Zenon DEF MpscInv
<1>2. /\ PushStep(p) \/ Commit(p)
      /\ UNCHANGED chanVars /\ UNCHANGED <<spc, args, npush>> /\ UNCHANGED <<rx, chunk, got>>
  BY Zenon DEF Pushing, mpscVars
<1>3. ChanTypeOK' /\ UNCHANGED <<attached, dposted, fbuf, mbox, missed>>
  BY <1>1, <1>2, ChanStays, Zenon
<1>4. CASE PushStep(p)
  <2>1. /\ rpc[p] # "out" /\ rpc'[p] # "out"
        /\ \A q \in Producers \ {p} : rpc'[q] = rpc[q] /\ Held(q)' = Held(q)
        /\ rpc[p] \in {"write", "publish", "ok"} => rpc'[p] \in {"write", "publish", "ok"}
        /\ enq' # enq => rpc'[p] \in {"write", "publish", "ok"}
        /\ Held(p)' # {} => Held(p) # {} \/ rpc'[p] \in {"write", "publish", "ok"}
        /\ Claimed => Claimed'
        /\ UNCHANGED <<deq, cst, cout, outs>>
    BY <1>1, <1>4, PushStepFacts, Zenon
  <2>2. RingInv'
    BY <1>1, <1>4, RingStepInv, Zenon DEF RingNext
  <2>3. Producing'
    BY <1>1, <1>2, <2>1, Zenon DEF Producing
  <2>4. Delivering'
    BY <1>1, <1>2, <2>1, DeliverStays, Zenon
  <2>5. spc[p] = "pushing" /\ spc'[p] = "pushing" /\ spc[p] # "post"
    <3>1. spc[p] = "pushing"
      BY <1>1, <2>1, Zenon DEF Producing
    <3> QED BY <1>2, <3>1
  <2>6. /\ WillPoke(p) => WillPoke(p)'
        /\ enq' = enq \/ WillPoke(p)'
        /\ Held(p)' # {} => WillPoke(p)'
    <3>1. rpc'[p] \in {"write", "publish", "ok"} => WillPoke(p)'
      BY <2>5, Zenon DEF WillPoke
    <3>2. WillPoke(p) => npush[p] > 0 \/ rpc[p] \in {"write", "publish", "ok"}
      BY <2>5 DEF WillPoke
    <3>3. WillPoke(p) => WillPoke(p)'
      BY <1>2, <2>1, <2>5, <3>1, <3>2, Zenon DEF WillPoke
    <3> QED BY <1>1, <2>1, <3>1, <3>3, Zenon DEF HoldersPoke
  <2>7. FlagHonest' /\ SeenTo' /\ HoldersPoke'
    <3>1. spc'[p] # "post"
      BY <2>5
    <3>2. \A q \in Producers \ {p} : Held(q)' \subseteq Held(q)
      BY <2>1, Zenon
    <3> QED BY <1>1, <1>2, <1>3, <2>1, <2>5, <2>6, <3>1, <3>2, ProducerKeeps, Zenon
  <2> QED BY <1>1, <1>3, <2>1, <2>2, <2>3, <2>4, <2>7, Zenon DEF MpscInv
<1>5. CASE Commit(p)
  <2>1. /\ \A q \in Producers : Held(q)' \subseteq Held(q)
        /\ Claimed => Claimed'
        /\ UNCHANGED <<deq, enq, rpc, cst, cout, outs>>
    BY <1>1, <1>5, CommitFacts, Zenon
  <2>2. RingInv'
    BY <1>1, <1>5, RingStepInv, Zenon DEF RingNext
  <2>3. Producing'
    BY <1>1, <1>2, <2>1, Zenon DEF Producing
  <2>4. Delivering'
    BY <1>1, <1>2, <2>1, DeliverStays, Zenon
  <2>5. WillPoke(p)' <=> WillPoke(p)
    BY <1>2, <2>1, PokeStays, Zenon
  <2>6. WillPoke(p)
    <3>1. pbuf[p] # {}
      BY <1>5, Zenon DEF Commit
    <3>2. Held(p) # {}
      BY <3>1 DEF Held
    <3> QED BY <1>1, <3>2, Zenon DEF HoldersPoke
  <2>7. spc[p] # "post"
    BY <2>6 DEF WillPoke
  <2>8. FlagHonest' /\ SeenTo' /\ HoldersPoke'
    <3>1. spc'[p] # "post"
      BY <1>2, <2>7
    <3> QED BY <1>1, <1>2, <1>3, <2>1, <2>5, <2>6, <2>7, <3>1, ProducerKeeps, Zenon
  <2> QED BY <1>1, <1>3, <2>1, <2>2, <2>3, <2>4, <2>8, Zenon DEF MpscInv
<1> QED BY <1>2, <1>4, <1>5

\* The next value of a bulk is tried as the first one was.
LEMMA PushAgainInv ==
  ASSUME RingInv, NEW p \in Producers, NEW v \in Items, rpc[p] = "ok",
         rpc' = [rpc EXCEPT ![p] = "seq"], rpos' = [rpos EXCEPT ![p] = enq],
         ritem' = [ritem EXCEPT ![p] = v],
         UNCHANGED <<enq, deq, seq, data, pbuf, log>>, UNCHANGED <<cst, cpos, cout, outs>>
  PROVE  RingInv'
<1> USE CapAssumption DEF RingInv
<1>1. RingTypeOK'
  BY DEF RingTypeOK
<1>2. Positions'
  BY DEF Positions, Freed, RingTypeOK
<1>3. Lap'
  BY DEF Lap, Freed
<1>4. Ownership'
  BY DEF Ownership, Held, RingTypeOK
<1>5. Contents'
  BY DEF Contents, Published, InFlight, Delivered, RingTypeOK
<1> QED BY <1>1, <1>2, <1>3, <1>4, <1>5

\* A value is in the ring: the poke comes, now or after the rest of the bulk.
LEMMA ChanPushOkInv == ASSUME MpscInv, NEW p \in Producers, PushOk(p) PROVE MpscInv'
<1>1. /\ ChanTypeOK /\ RingInv /\ Producing /\ Delivering
      /\ Claimed /\ HoldersPoke /\ FlagHonest /\ SeenTo
  BY Zenon DEF MpscInv
<1>2. /\ spc[p] = "pushing" /\ rpc[p] = "ok" /\ npush' = [npush EXCEPT ![p] = @ + 1]
      /\ IF args[p] = << >>
           THEN PushReturn(p) /\ spc' = [spc EXCEPT ![p] = "poke"] /\ UNCHANGED args
           ELSE /\ rpc' = [rpc EXCEPT ![p] = "seq"]
                /\ rpos' = [rpos EXCEPT ![p] = enq]
                /\ ritem' = [ritem EXCEPT ![p] = Head(args[p])]
                /\ args' = [args EXCEPT ![p] = Tail(@)]
                /\ UNCHANGED <<enq, deq, seq, data, pbuf, log, consVars, spc>>
      /\ UNCHANGED chanVars /\ UNCHANGED <<rx, chunk, got>>
  BY Zenon DEF PushOk
<1>3. /\ args[p] \in Seq(Items) /\ npush[p] \in 0 .. BulkLen /\ npush[p] + Len(args[p]) < BulkLen
      /\ Len(args[p]) \in Nat /\ npush[p] + 1 \in 0 .. BulkLen
  <2>1. args[p] \in Seq(Items) /\ npush[p] \in 0 .. BulkLen /\ npush[p] + Len(args[p]) < BulkLen
    BY <1>1, <1>2, Zenon DEF Producing
  <2> QED BY <2>1, ChunkAssumption
<1>4. ChanTypeOK' /\ UNCHANGED <<attached, dposted, fbuf, mbox, missed>>
  BY <1>1, <1>2, ChanStays, Zenon
<1>5. rpc[p] \notin {"write", "publish"} /\ spc[p] # "post"
  BY <1>2
<1>6. npush' = [npush EXCEPT ![p] = npush[p] + 1] /\ npush'[p] > 0
      /\ \A q \in Producers \ {p} : npush'[q] = npush[q]
  <2>1. npush' = [npush EXCEPT ![p] = npush[p] + 1] /\ npush \in [Producers -> 0 .. BulkLen]
    BY <1>1, <1>2, Zenon DEF Producing
  <2>2. npush'[p] = npush[p] + 1 /\ \A q \in Producers \ {p} : npush'[q] = npush[q]
    BY <2>1, Zenon
  <2> QED BY <1>3, <2>1, <2>2
<1>7. CASE args[p] = << >>
  <2>1. PushReturn(p) /\ spc' = [spc EXCEPT ![p] = "poke"] /\ UNCHANGED args
    BY <1>2, <1>7, Zenon
  <2>2. /\ rpc' = [rpc EXCEPT ![p] = "out"] /\ UNCHANGED rpos /\ UNCHANGED <<enq, deq, seq, pbuf>>
        /\ UNCHANGED <<cst, cout, outs>>
    BY <2>1, Zenon DEF PushReturn, consVars
  <2>3. /\ \A q \in Producers : Held(q)' = Held(q)
        /\ rpc'[p] = "out" /\ \A q \in Producers \ {p} : rpc'[q] = rpc[q]
        /\ Claimed => Claimed'
    <3>1. "out" \notin {"write", "publish"}
      OBVIOUS
    <3> QED BY <1>1, <1>5, <2>2, <3>1, LocalFacts, Zenon
  <2>4. RingInv'
    BY <1>1, <2>1, PushReturnInv, Zenon
  <2>5. Producing'
    <3>1. "poke" \in {"idle", "pushing", "poke", "post"} /\ "poke" # "pushing"
      OBVIOUS
    <3>2. args' = [args EXCEPT ![p] = args[p]]
      BY <1>1, <2>1, Zenon DEF Producing
    <3> QED BY <1>1, <1>3, <1>6, <2>1, <2>3, <3>1, <3>2, ProducingKeeps, Zenon
  <2>6. spc'[p] = "poke" /\ \A q \in Producers \ {p} : spc'[q] = spc[q]
    BY <1>1, <2>1, Zenon DEF Producing
  <2>7. Delivering'
    BY <1>1, <1>2, <2>2, DeliverStays, Zenon
  <2>8. WillPoke(p)' /\ spc'[p] # "post"
    BY <2>6 DEF WillPoke
  <2>9. FlagHonest' /\ SeenTo' /\ HoldersPoke'
    BY <1>1, <1>2, <1>4, <1>5, <1>6, <2>2, <2>3, <2>6, <2>8, ProducerKeeps, Zenon
  <2> QED BY <1>1, <1>4, <2>3, <2>4, <2>5, <2>7, <2>9, Zenon DEF MpscInv
<1>8. CASE args[p] # << >>
  <2>1. /\ rpc' = [rpc EXCEPT ![p] = "seq"] /\ rpos' = [rpos EXCEPT ![p] = enq]
        /\ ritem' = [ritem EXCEPT ![p] = Head(args[p])] /\ args' = [args EXCEPT ![p] = Tail(args[p])]
        /\ UNCHANGED <<enq, deq, seq, data, pbuf, log>> /\ UNCHANGED <<cst, cpos, cout, outs>>
        /\ UNCHANGED spc
    BY <1>2, <1>8, Zenon DEF consVars
  <2>2. /\ Head(args[p]) \in Items /\ Tail(args[p]) \in Seq(Items)
        /\ npush[p] + 1 + Len(Tail(args[p])) < BulkLen
    <3>1. /\ Head(args[p]) \in Items /\ Tail(args[p]) \in Seq(Items)
          /\ Len(Tail(args[p])) = Len(args[p]) - 1
      BY <1>3, <1>8, HeadTailProperties
    <3> QED BY <1>3, <3>1, ChunkAssumption
  <2>3. /\ \A q \in Producers : Held(q)' = Held(q)
        /\ rpc'[p] = "seq" /\ \A q \in Producers \ {p} : rpc'[q] = rpc[q]
        /\ Claimed => Claimed'
    <3>1. "seq" \notin {"write", "publish"} /\ UNCHANGED <<enq, deq, seq, pbuf>>
      BY <2>1
    <3> QED BY <1>1, <1>5, <2>1, <3>1, LocalFacts, Zenon
  <2>4. RingInv'
    BY <1>1, <1>2, <2>1, <2>2, PushAgainInv, Zenon
  <2>5. Producing'
    <3>1. "pushing" \in {"idle", "pushing", "poke", "post"} /\ rpc'[p] # "out"
      BY <2>3
    <3>2. spc' = [spc EXCEPT ![p] = "pushing"]
      BY <1>1, <1>2, <2>1, Zenon DEF Producing
    <3> QED BY <1>1, <1>3, <1>6, <2>1, <2>2, <2>3, <3>1, <3>2, ProducingKeeps, Zenon
  <2>6. Delivering'
    BY <1>1, <1>2, <2>1, DeliverStays, Zenon
  <2>7. WillPoke(p)'
    BY <1>2, <1>6, <2>1, Zenon DEF WillPoke
  <2>8. FlagHonest' /\ SeenTo' /\ HoldersPoke'
    BY <1>1, <1>2, <1>4, <1>5, <1>6, <2>1, <2>3, <2>7, ProducerKeeps, Zenon
  <2> QED BY <1>1, <1>4, <2>3, <2>4, <2>5, <2>6, <2>8, Zenon DEF MpscInv
<1> QED BY <1>7, <1>8

\* A full ring ends the bulk; what was pushed of it is poked for.
LEMMA ChanPushFullInv == ASSUME MpscInv, NEW p \in Producers, PushFull(p) PROVE MpscInv'
<1> DEFINE next == IF npush[p] > 0 THEN "poke" ELSE "idle"
<1>1. /\ ChanTypeOK /\ RingInv /\ Producing /\ Delivering
      /\ Claimed /\ HoldersPoke /\ FlagHonest /\ SeenTo
  BY Zenon DEF MpscInv
<1>2. /\ spc[p] = "pushing" /\ rpc[p] = "full" /\ PushReturn(p) /\ spc' = [spc EXCEPT ![p] = next]
      /\ args' = [args EXCEPT ![p] = << >>]
      /\ UNCHANGED chanVars /\ UNCHANGED npush /\ UNCHANGED <<rx, chunk, got>>
  BY Zenon DEF PushFull
<1>3. next \in {"idle", "pushing", "poke", "post"} /\ next # "pushing" /\ next # "post"
  OBVIOUS
<1>4. ChanTypeOK' /\ UNCHANGED <<attached, dposted, fbuf, mbox, missed>>
  BY <1>1, <1>2, ChanStays, Zenon
<1>5. /\ rpc' = [rpc EXCEPT ![p] = "out"] /\ UNCHANGED rpos /\ UNCHANGED <<enq, deq, seq, pbuf>>
      /\ UNCHANGED <<cst, cout, outs>>
  BY <1>2, Zenon DEF PushReturn, consVars
<1>6. /\ \A q \in Producers : Held(q)' = Held(q)
      /\ rpc'[p] = "out" /\ \A q \in Producers \ {p} : rpc'[q] = rpc[q]
      /\ Claimed => Claimed'
  <2>1. "out" \notin {"write", "publish"} /\ rpc[p] \notin {"write", "publish"}
    BY <1>2
  <2> QED BY <1>1, <1>5, <2>1, LocalFacts, Zenon
<1>7. RingInv'
  BY <1>1, <1>2, PushReturnInv, Zenon
<1>8. spc'[p] = next /\ \A q \in Producers \ {p} : spc'[q] = spc[q]
  BY <1>1, <1>2, Zenon DEF Producing
<1>9. WillPoke(p) => WillPoke(p)'
  <2>1. WillPoke(p) => npush[p] > 0
    BY <1>2 DEF WillPoke
  <2>2. npush[p] > 0 => spc'[p] = "poke"
    BY <1>8
  <2> QED BY <2>1, <2>2, Zenon DEF WillPoke
<1> HIDE DEF next
<1>10. Producing'
  <2>1. << >> \in Seq(Items)
    OBVIOUS
  <2>2. npush' = [npush EXCEPT ![p] = npush[p]] /\ npush[p] \in 0 .. BulkLen
    BY <1>1, <1>2, Zenon DEF Producing
  <2> QED BY <1>1, <1>2, <1>3, <1>6, <2>1, <2>2, ProducingKeeps, Zenon
<1>11. Delivering'
  BY <1>1, <1>2, <1>5, DeliverStays, Zenon
<1>12. Held(p)' # {} => WillPoke(p)'
  BY <1>1, <1>6, <1>9, Zenon DEF HoldersPoke
<1>13. FlagHonest' /\ SeenTo' /\ HoldersPoke'
  <2>1. spc[p] # "post" /\ spc'[p] # "post"
    BY <1>2, <1>3, <1>8
  <2> QED BY <1>1, <1>2, <1>4, <1>5, <1>6, <1>8, <1>9, <1>12, <2>1, ProducerKeeps, Zenon
<1> QED BY <1>1, <1>4, <1>6, <1>7, <1>10, <1>11, <1>13, Zenon DEF MpscInv

\* A step outside the ring.
LEMMA RingStill ==
  ASSUME RingInv, UNCHANGED ringVars
  PROVE  /\ RingInv' /\ (Claimed => Claimed') /\ \A q \in Producers : Held(q)' = Held(q)
         /\ UNCHANGED <<enq, deq, rpc, pbuf>> /\ UNCHANGED <<cst, cout, outs>>
<1>1. /\ UNCHANGED <<enq, deq, seq>> /\ UNCHANGED <<pbuf, rpc, rpos>>
      /\ UNCHANGED <<cst, cout, outs>>
  BY Zenon DEF ringVars, prodVars, consVars
<1>2. RingInv'
  BY RingStutterInv
<1>3. \A q \in Producers : Held(q)' = Held(q)
  BY <1>1, HeldSame, Zenon
<1>4. Claimed => Claimed'
  BY <1>1, <1>3, ClaimedFrame, Zenon
<1> QED BY <1>1, <1>2, <1>3, <1>4, Zenon

\* A step of the loop.
LEMMA ProducersStay ==
  ASSUME UNCHANGED <<spc, args, npush>>, UNCHANGED rpc, \A q \in Producers : Held(q)' = Held(q)
  PROVE  /\ Producing => Producing'
         /\ HoldersPoke => HoldersPoke'
         /\ Posting' = Posting
         /\ (\E q \in Producers : WillPoke(q)') <=> \E q \in Producers : WillPoke(q)
<1>1. \A q \in Producers : WillPoke(q)' <=> WillPoke(q)
  BY PokeStays, Zenon
<1>2. Producing => Producing'
  BY Zenon DEF Producing
<1>3. HoldersPoke => HoldersPoke'
  BY <1>1, Zenon DEF HoldersPoke
<1>4. Posting' = Posting
  BY Zenon DEF Posting
<1> QED BY <1>1, <1>2, <1>3, <1>4, Zenon

\* A poke that does not post finds a drain that is queued or about to be, or notes why it may
\* miss.
LEMMA ChanPokeInv == ASSUME MpscInv, NEW p \in Producers, Poke(p) PROVE MpscInv'
<1> DEFINE next == IF PokePosts THEN "post" ELSE "idle"
<1>1. /\ ChanTypeOK /\ RingInv /\ Producing /\ Delivering
      /\ Claimed /\ HoldersPoke /\ FlagHonest /\ SeenTo
  BY Zenon DEF MpscInv
<1>2. /\ spc[p] = "poke" /\ pbuf[p] = {} /\ spc' = [spc EXCEPT ![p] = next]
      /\ dposted' = (dposted \/ attached) /\ missed' = missed \cup Misses
      /\ UNCHANGED <<attached, fbuf, mbox>> /\ UNCHANGED ringVars
      /\ UNCHANGED <<args, npush>> /\ UNCHANGED <<rx, chunk, got>>
  BY Zenon DEF Poke, PokeExchange
<1>3. /\ RingInv' /\ (Claimed => Claimed') /\ \A q \in Producers : Held(q)' = Held(q)
      /\ UNCHANGED <<enq, deq, rpc, pbuf>> /\ UNCHANGED <<cst, cout, outs>>
  BY <1>1, <1>2, RingStill, Zenon
<1>4. /\ next \in {"idle", "pushing", "poke", "post"} /\ next # "pushing"
      /\ (PokePosts => next = "post") /\ (~PokePosts => next = "idle")
  OBVIOUS
<1>5. spc'[p] = next /\ \A q \in Producers \ {p} : spc'[q] = spc[q]
  BY <1>1, <1>2, Zenon DEF Producing
<1>6. PokePosts => spc'[p] = "post"
  BY <1>5
<1>7. ~PokePosts => spc'[p] = "idle"
  BY <1>5
<1> HIDE DEF next
<1>8. rpc[p] = "out"
  <2>1. spc[p] # "pushing"
    BY <1>2
  <2> QED BY <1>1, <2>1, Zenon DEF Producing
<1>9. Producing'
  <2>1. /\ args' = [args EXCEPT ![p] = args[p]] /\ npush' = [npush EXCEPT ![p] = npush[p]]
        /\ args[p] \in Seq(Items) /\ npush[p] \in 0 .. BulkLen
    BY <1>1, <1>2, Zenon DEF Producing
  <2> QED BY <1>1, <1>2, <1>3, <1>4, <1>8, <2>1, ProducingKeeps, Zenon
<1>10. Delivering'
  BY <1>1, <1>2, <1>3, DeliverStays, Zenon
<1>11. ChanTypeOK'
  <2>1. missed' \subseteq {"unattached", "late_reset", "full_mailbox", "shed", "short_drain"}
    BY <1>1, <1>2 DEF ChanTypeOK, Misses
  <2>2. dposted' \in BOOLEAN
    BY <1>2, Zenon
  <2> QED BY <1>1, <1>2, <2>1, <2>2, Zenon DEF ChanTypeOK
<1>12. \A q \in Producers \ {p} : WillPoke(q)' <=> WillPoke(q)
  BY <1>2, <1>3, <1>5, PokeStays, Zenon
<1>13. HoldersPoke'
  <2>1. Held(p)' = {}
    BY <1>2, <1>3, <1>8 DEF Held
  <2> QED BY <1>1, <1>3, <1>12, <2>1, Zenon DEF HoldersPoke
<1>14. Queued("drain")' <=> Queued("drain")
  BY <1>2, MboxStays
<1>15. /\ DrainLost => DrainLost'
       /\ missed' = {} => missed = {} /\ Misses = {}
  BY <1>2 DEF DrainLost
<1>16. PokePosts => Posting' # {}
  BY <1>6, Zenon DEF Posting
<1>17. ASSUME NEW q \in Posting PROVE q \in Posting'
  <2>1. q \in Producers /\ spc[q] = "post"
    BY Zenon DEF Posting
  <2>2. q # p
    BY <1>2, <2>1
  <2> QED BY <1>5, <2>1, <2>2, Zenon DEF Posting
<1>18. FlagHonest'
  <2>1. CASE PokePosts
    BY <1>16, <2>1, Zenon DEF FlagHonest, DrainLost
  <2>2. CASE ~PokePosts
    <3>1. dposted' => dposted
      BY <1>1, <1>2, <2>2, Zenon DEF PokePosts, ChanTypeOK
    <3>2. Posting # {} => Posting' # {}
      BY <1>17
    <3> QED BY <1>1, <1>2, <1>14, <1>15, <3>1, <3>2, Zenon DEF FlagHonest, DrainLost
  <2> QED BY <2>1, <2>2
<1>19. SeenTo'
  <2>1. CASE PokePosts
    <3>1. attached
      BY <2>1 DEF PokePosts
    <3> QED BY <1>2, <1>16, <2>1, <3>1, Zenon DEF SeenTo
  <2>2. CASE ~attached
    <3>1. ~PokePosts /\ Misses = {"unattached"}
      BY <2>2 DEF PokePosts, Misses
    <3>2. missed' # {}
      BY <1>2, <3>1
    <3>3. Posting' = {}
      <4>1. \A q \in Producers : spc[q] # "post"
        BY <1>1, <2>2 DEF SeenTo, Posting
      <4>2. \A q \in Producers : spc'[q] # "post"
        BY <1>5, <1>7, <3>1, <4>1
      <4> QED BY <4>2 DEF Posting
    <3> QED BY <1>2, <2>2, <3>2, <3>3, Zenon DEF SeenTo
  <2>3. CASE attached /\ ~PokePosts
    <3>1. dposted
      BY <2>3, Zenon DEF PokePosts
    <3>2. ASSUME missed' = {} PROVE Queued("drain") \/ Posting' # {}
      <4>1. missed = {} /\ Misses = {}
        BY <1>15, <3>2
      <4>2. ~(fbuf /\ ~Queued("drain"))
        BY <2>3, <3>1, <4>1 DEF Misses
      <4>3. Queued("drain") \/ Posting # {} \/ fbuf
        BY <1>1, <3>1, <4>1 DEF FlagHonest, DrainLost
      <4>4. Posting # {} => Posting' # {}
        BY <1>17
      <4> QED BY <4>2, <4>3, <4>4
    <3> QED BY <1>2, <1>14, <2>3, <3>2, Zenon DEF SeenTo
  <2> QED BY <2>1, <2>2, <2>3
<1> QED BY <1>1, <1>3, <1>9, <1>10, <1>11, <1>13, <1>18, <1>19, Zenon DEF MpscInv

\* A drain is queued, or the mailbox is full and that is noted.
LEMMA ChanPostInv == ASSUME MpscInv, NEW p \in Producers, Post(p) PROVE MpscInv'
<1>1. /\ ChanTypeOK /\ RingInv /\ Producing /\ Delivering
      /\ Claimed /\ HoldersPoke /\ FlagHonest /\ SeenTo
  BY Zenon DEF MpscInv
<1>2. /\ spc[p] = "post" /\ PokePost /\ spc' = [spc EXCEPT ![p] = "idle"]
      /\ UNCHANGED <<attached, dposted, fbuf>> /\ UNCHANGED ringVars
      /\ UNCHANGED <<args, npush>> /\ UNCHANGED <<rx, chunk, got>>
  BY Zenon DEF Post, PokePost
<1>3. /\ RingInv' /\ (Claimed => Claimed') /\ \A q \in Producers : Held(q)' = Held(q)
      /\ UNCHANGED <<enq, deq, rpc, pbuf>> /\ UNCHANGED <<cst, cout, outs>>
  BY <1>1, <1>2, RingStill, Zenon
<1>4. spc'[p] = "idle" /\ \A q \in Producers \ {p} : spc'[q] = spc[q]
  BY <1>1, <1>2, Zenon DEF Producing
<1>5. rpc[p] = "out"
  <2>1. spc[p] # "pushing"
    BY <1>2
  <2> QED BY <1>1, <2>1, Zenon DEF Producing
<1>6. Producing'
  <2>1. /\ args' = [args EXCEPT ![p] = args[p]] /\ npush' = [npush EXCEPT ![p] = npush[p]]
        /\ args[p] \in Seq(Items) /\ npush[p] \in 0 .. BulkLen
    BY <1>1, <1>2, Zenon DEF Producing
  <2>2. "idle" \in {"idle", "pushing", "poke", "post"} /\ "idle" # "pushing"
    OBVIOUS
  <2> QED BY <1>1, <1>2, <1>3, <1>5, <2>1, <2>2, ProducingKeeps, Zenon
<1>7. Delivering'
  BY <1>1, <1>2, <1>3, DeliverStays, Zenon
<1>8. HoldersPoke'
  <2>1. \A q \in Producers \ {p} : WillPoke(q)' <=> WillPoke(q)
    BY <1>2, <1>3, <1>4, PokeStays, Zenon
  <2>2. ~WillPoke(p)
    BY <1>2 DEF WillPoke
  <2> QED BY <1>1, <1>3, <2>1, <2>2, Zenon DEF HoldersPoke
<1>9. attached
  <2>1. p \in Posting
    BY <1>2, Zenon DEF Posting
  <2> QED BY <1>1, <2>1 DEF SeenTo
<1>10. CASE Len(mbox) < MboxCap
  <2>1. mbox' = Append(mbox, "drain") /\ missed' = {}
    BY <1>2, <1>10, Zenon DEF PokePost
  <2>2. mbox' \in Seq({"drain", "other"}) /\ Len(mbox') <= MboxCap /\ Queued("drain")'
    BY <1>1, <1>10, <2>1, MboxAppend
  <2>3. ChanTypeOK'
    BY <1>1, <1>2, <2>1, <2>2 DEF ChanTypeOK
  <2>4. FlagHonest' /\ SeenTo'
    BY <1>2, <1>9, <2>2, Zenon DEF FlagHonest, DrainLost, SeenTo
  <2> QED BY <1>1, <1>3, <1>6, <1>7, <1>8, <2>3, <2>4, Zenon DEF MpscInv
<1>11. CASE ~(Len(mbox) < MboxCap)
  <2>1. UNCHANGED mbox /\ missed' = missed \cup {"full_mailbox"}
    BY <1>2, <1>11, Zenon DEF PokePost
  <2>2. DrainLost' /\ missed' # {}
    BY <2>1 DEF DrainLost
  <2>3. ChanTypeOK'
    BY <1>1, <1>2, <2>1 DEF ChanTypeOK
  <2>4. FlagHonest' /\ SeenTo'
    BY <1>2, <1>9, <2>2, Zenon DEF FlagHonest, DrainLost, SeenTo
  <2> QED BY <1>1, <1>3, <1>6, <1>7, <1>8, <2>3, <2>4, Zenon DEF MpscInv
<1> QED BY <1>10, <1>11

-----------------------------------------------------------------------------
(* The loop *)

LEMMA ChanAttachInv == ASSUME MpscInv, Attach PROVE MpscInv'
<1>1. /\ ChanTypeOK /\ RingInv /\ Producing /\ Delivering
      /\ Claimed /\ HoldersPoke /\ FlagHonest /\ SeenTo
  BY Zenon DEF MpscInv
<1>2. /\ ~attached /\ attached' = TRUE /\ UNCHANGED <<dposted, fbuf, mbox, missed>>
      /\ UNCHANGED ringVars /\ UNCHANGED <<spc, args, npush>> /\ UNCHANGED <<rx, chunk, got>>
  BY Zenon DEF Attach, attach, mpscVars
<1>3. /\ RingInv' /\ (Claimed => Claimed') /\ \A q \in Producers : Held(q)' = Held(q)
      /\ UNCHANGED <<enq, deq, rpc, pbuf>> /\ UNCHANGED <<cst, cout, outs>>
  BY <1>1, <1>2, RingStill, Zenon
<1>4. /\ Producing' /\ HoldersPoke' /\ Posting' = Posting
      /\ (\E q \in Producers : WillPoke(q)') <=> \E q \in Producers : WillPoke(q)
  BY <1>1, <1>2, <1>3, ProducersStay, Zenon
<1>5. Delivering'
  BY <1>1, <1>2, <1>3, DeliverStays, Zenon
<1>6. Queued("drain")' <=> Queued("drain")
  BY <1>2, MboxStays
<1>7. ChanTypeOK'
  BY <1>1, <1>2, Zenon DEF ChanTypeOK
<1>8. FlagHonest'
  BY <1>1, <1>2, <1>4, <1>6, Zenon DEF FlagHonest, DrainLost
<1>9. SeenTo'
  BY <1>1, <1>2, <1>3, <1>4, Zenon DEF SeenTo
<1> QED BY <1>1, <1>3, <1>4, <1>5, <1>7, <1>8, <1>9, Zenon DEF MpscInv

LEMMA ChanDrainResetInv == ASSUME MpscInv, DrainReset PROVE MpscInv'
<1>1. /\ ChanTypeOK /\ RingInv /\ Producing /\ Delivering
      /\ Claimed /\ HoldersPoke /\ FlagHonest /\ SeenTo
  BY Zenon DEF MpscInv
<1>2. /\ DrainRun \/ poll
      /\ rx' = "pop" /\ UNCHANGED ringVars /\ UNCHANGED <<spc, args, npush>> /\ UNCHANGED <<chunk, got>>
  BY Zenon DEF DrainReset
<1>3. fbuf' = TRUE /\ UNCHANGED <<attached, dposted, missed>>
  BY <1>2, Zenon DEF DrainRun, poll
<1>4. mbox' \in Seq({"drain", "other"}) /\ Len(mbox') <= MboxCap
  <2>1. CASE DrainRun
    BY <1>1, <2>1, MboxTail, Zenon DEF DrainRun
  <2>2. CASE poll
    BY <1>1, <2>2, Zenon DEF poll, ChanTypeOK
  <2> QED BY <1>2, <2>1, <2>2
<1>5. /\ RingInv' /\ (Claimed => Claimed') /\ \A q \in Producers : Held(q)' = Held(q)
      /\ UNCHANGED <<enq, deq, rpc, pbuf>> /\ UNCHANGED <<cst, cout, outs>>
  BY <1>1, <1>2, RingStill, Zenon
<1>6. /\ Producing' /\ HoldersPoke' /\ Posting' = Posting
      /\ (\E q \in Producers : WillPoke(q)') <=> \E q \in Producers : WillPoke(q)
  BY <1>1, <1>2, <1>5, ProducersStay, Zenon
<1>7. Delivering'
  <2>1. rx' \in {"idle", "pop"} /\ rx' # "idle"
    BY <1>2
  <2> QED BY <1>1, <1>2, <1>5, <2>1, Zenon DEF Delivering
<1>8. ChanTypeOK'
  BY <1>1, <1>3, <1>4 DEF ChanTypeOK
<1>9. FlagHonest'
  BY <1>3, Zenon DEF FlagHonest, DrainLost
<1>10. SeenTo'
  BY <1>1, <1>2, <1>3, <1>5, <1>6, Zenon DEF SeenTo
<1> QED BY <1>1, <1>5, <1>6, <1>7, <1>8, <1>9, <1>10, Zenon DEF MpscInv

\* An access of try_pop.
LEMMA ChanDrainPopInv == ASSUME Cap > 1, MpscInv, DrainPop PROVE MpscInv'
<1>1. /\ ChanTypeOK /\ RingInv /\ Producing /\ Delivering
      /\ Claimed /\ HoldersPoke /\ FlagHonest /\ SeenTo
  BY Zenon DEF MpscInv
<1>2. /\ rx = "pop" /\ attached /\ PopStep
      /\ UNCHANGED chanVars /\ UNCHANGED <<spc, args, npush>> /\ UNCHANGED <<rx, chunk, got>>
  BY Zenon DEF DrainPop, mpscVars
<1>3. ChanTypeOK' /\ UNCHANGED <<attached, dposted, fbuf, mbox, missed>>
  BY <1>1, <1>2, ChanStays, Zenon
<1>4. /\ \A q \in Producers : Held(q)' = Held(q)
      /\ Claimed => Claimed'
      /\ UNCHANGED <<enq, rpc>>
  BY <1>1, <1>2, PopStepFacts, Zenon
<1>5. RingInv'
  BY <1>1, <1>2, RingStepInv, Zenon DEF RingNext
<1>6. /\ Producing' /\ HoldersPoke' /\ Posting' = Posting
      /\ (\E q \in Producers : WillPoke(q)') <=> \E q \in Producers : WillPoke(q)
  BY <1>1, <1>2, <1>4, ProducersStay, Zenon
<1>7. Delivering'
  <2>1. /\ chunk \in Seq(Items) /\ got \in Seq(Items) /\ Len(chunk) < Chunk
        /\ rx' = "pop" /\ rx' \in {"idle", "pop"} /\ rx' # "idle"
    BY <1>1, <1>2 DEF Delivering
  <2>2. outs' = IF cst' \in {"free", "got"} THEN (got \o chunk) \o <<cout'>> ELSE got \o chunk
    <3>1. CASE PopHit
      <4>1. cst = "out" /\ cst' = "move" /\ UNCHANGED <<cout, outs>>
        BY <3>1, Zenon DEF PopHit
      <4>2. outs = got \o chunk
        BY <1>1, <4>1 DEF Delivering
      <4> QED BY <4>1, <4>2
    <3>2. CASE PopMove
      <4>1. cst = "move" /\ cst' = "free" /\ outs' = Append(outs, cout')
        BY <3>2, Zenon DEF PopMove
      <4>2. outs = got \o chunk
        BY <1>1, <4>1 DEF Delivering
      <4>3. cout' \in Items /\ got \o chunk \in Seq(Items)
        BY <1>5, <2>1 DEF RingInv, RingTypeOK
      <4>4. Append(got \o chunk, cout') = (got \o chunk) \o <<cout'>>
        BY <4>3, AppendIsConcat
      <4> QED BY <4>1, <4>2, <4>4
    <3>3. CASE PopFree
      <4>1. cst = "free" /\ cst' = "got" /\ UNCHANGED <<cout, outs>>
        BY <3>3, Zenon DEF PopFree
      <4>2. outs = (got \o chunk) \o <<cout>>
        BY <1>1, <4>1 DEF Delivering
      <4> QED BY <4>1, <4>2
    <3> QED BY <1>2, <3>1, <3>2, <3>3, Zenon DEF PopStep
  <2> QED BY <1>2, <2>1, <2>2, Zenon DEF Delivering
<1>8. FlagHonest'
  <2>1. Queued("drain")' <=> Queued("drain")
    BY <1>3, MboxStays
  <2> QED BY <1>1, <1>3, <1>6, <2>1, Zenon DEF FlagHonest, DrainLost
<1>9. SeenTo'
  BY <1>2, <1>3, Zenon DEF SeenTo
<1> QED BY <1>1, <1>3, <1>4, <1>5, <1>6, <1>7, <1>8, <1>9, Zenon DEF MpscInv

\* The value in hand joins the chunk.
LEMMA ChanDrainFillInv == ASSUME Cap > 1, MpscInv, DrainFill PROVE MpscInv'
<1>1. /\ ChanTypeOK /\ RingInv /\ Producing /\ Delivering
      /\ Claimed /\ HoldersPoke /\ FlagHonest /\ SeenTo
  BY Zenon DEF MpscInv
<1>2. /\ rx = "pop" /\ PopReturn
      /\ IF Len(chunk) + 1 = Chunk
           THEN got' = got \o Append(chunk, cout) /\ chunk' = << >>
           ELSE chunk' = Append(chunk, cout) /\ UNCHANGED got
      /\ UNCHANGED chanVars /\ UNCHANGED <<spc, args, npush>> /\ UNCHANGED rx
  BY Zenon DEF DrainFill
<1>3. ChanTypeOK' /\ UNCHANGED <<attached, dposted, fbuf, mbox, missed>>
  BY <1>1, <1>2, ChanStays, Zenon
<1>4. /\ cst = "got" /\ cst' = "out" /\ UNCHANGED <<cout, outs>>
      /\ UNCHANGED <<enq, deq, seq>> /\ UNCHANGED <<pbuf, rpc, rpos>>
  BY <1>2, Zenon DEF PopReturn, prodVars
<1>5. \A q \in Producers : Held(q)' = Held(q)
  BY <1>4, HeldSame, Zenon
<1>6. RingInv' /\ Claimed'
  BY <1>1, <1>2, <1>4, <1>5, PopReturnInv, ClaimedFrame, Zenon
<1>7. /\ Producing' /\ HoldersPoke' /\ Posting' = Posting
      /\ (\E q \in Producers : WillPoke(q)') <=> \E q \in Producers : WillPoke(q)
  BY <1>1, <1>2, <1>4, <1>5, ProducersStay, Zenon
<1>8. Delivering'
  <2>1. /\ chunk \in Seq(Items) /\ got \in Seq(Items) /\ Len(chunk) < Chunk /\ cout \in Items
        /\ outs = (got \o chunk) \o <<cout>> /\ rx' \in {"idle", "pop"} /\ rx' # "idle"
    BY <1>1, <1>2, <1>4 DEF Delivering, RingInv, RingTypeOK
  <2>2. /\ Append(chunk, cout) \in Seq(Items) /\ Len(Append(chunk, cout)) = Len(chunk) + 1
        /\ got \o Append(chunk, cout) \in Seq(Items)
        /\ got \o Append(chunk, cout) = (got \o chunk) \o <<cout>>
        /\ Len(chunk) \in Nat
    BY <2>1
  <2>3. CASE Len(chunk) + 1 = Chunk
    <3>1. got' = got \o Append(chunk, cout) /\ chunk' = << >>
      BY <1>2, <2>3, Zenon
    <3>2. << >> \in Seq(Items) /\ Len(<< >>) < Chunk /\ got' \o << >> = got'
      BY <2>2, <3>1, ChunkAssumption
    <3>3. outs' = got' \o chunk' /\ cst' \notin {"free", "got"}
      BY <1>4, <2>1, <2>2, <3>1, <3>2
    <3> QED BY <2>1, <2>2, <3>1, <3>2, <3>3, Zenon DEF Delivering
  <2>4. CASE Len(chunk) + 1 # Chunk
    <3>1. chunk' = Append(chunk, cout) /\ got' = got
      BY <1>2, <2>4, Zenon
    <3>2. Len(chunk') < Chunk
      BY <2>1, <2>2, <2>4, <3>1, ChunkAssumption
    <3>3. outs' = got' \o chunk' /\ cst' \notin {"free", "got"}
      BY <1>4, <2>1, <2>2, <3>1
    <3> QED BY <2>1, <2>2, <3>1, <3>2, <3>3, Zenon DEF Delivering
  <2> QED BY <2>3, <2>4
<1>9. Queued("drain")' <=> Queued("drain")
  BY <1>3, MboxStays
<1>10. FlagHonest'
  BY <1>1, <1>3, <1>7, <1>9, Zenon DEF FlagHonest, DrainLost
<1>11. SeenTo'
  BY <1>1, <1>2, <1>3, <1>4, <1>7, Zenon DEF SeenTo
<1> QED BY <1>1, <1>3, <1>6, <1>7, <1>8, <1>10, <1>11, Zenon DEF MpscInv

\* A drain ends when try_pop finds nothing published: what is in the ring then is some
\* producer's, who has not poked yet.
LEMMA ChanDrainDoneInv == ASSUME MpscInv, DrainDone PROVE MpscInv'
<1>1. /\ ChanTypeOK /\ RingInv /\ Producing /\ Delivering
      /\ Claimed /\ HoldersPoke /\ FlagHonest /\ SeenTo
  BY Zenon DEF MpscInv
<1>2. /\ cst = "out" /\ (RingEmpty \/ ~attached)
      /\ got' = got \o chunk /\ chunk' = << >> /\ rx' = "idle"
      /\ UNCHANGED chanVars /\ UNCHANGED ringVars /\ UNCHANGED <<spc, args, npush>>
  BY Zenon DEF DrainDone
<1>3. ChanTypeOK' /\ UNCHANGED <<attached, dposted, fbuf, mbox, missed>>
  BY <1>1, <1>2, ChanStays, Zenon
<1>4. /\ RingInv' /\ (Claimed => Claimed') /\ \A q \in Producers : Held(q)' = Held(q)
      /\ UNCHANGED <<enq, deq, rpc, pbuf>> /\ UNCHANGED <<cst, cout, outs>>
  BY <1>1, <1>2, RingStill, Zenon
<1>5. /\ Producing' /\ HoldersPoke' /\ Posting' = Posting
      /\ (\E q \in Producers : WillPoke(q)') <=> \E q \in Producers : WillPoke(q)
  BY <1>1, <1>2, <1>4, ProducersStay, Zenon
<1>6. Delivering'
  <2>1. chunk \in Seq(Items) /\ got \in Seq(Items) /\ outs = got \o chunk
    BY <1>1, <1>2 DEF Delivering
  <2>2. got' \in Seq(Items) /\ << >> \in Seq(Items) /\ Len(<< >>) < Chunk /\ got' \o << >> = got'
    BY <1>2, <2>1, ChunkAssumption
  <2>3. outs' = got' \o chunk' /\ cst' \notin {"free", "got"} /\ rx' \in {"idle", "pop"}
    BY <1>2, <1>4, <2>1, <2>2
  <2> QED BY <1>2, <1>4, <2>2, <2>3, Zenon DEF Delivering
<1>7. Queued("drain")' <=> Queued("drain")
  BY <1>3, MboxStays
<1>8. FlagHonest'
  BY <1>1, <1>3, <1>5, <1>7, Zenon DEF FlagHonest, DrainLost
<1>9. attached /\ enq # deq => \E q \in Producers : WillPoke(q)
  <2> SUFFICES ASSUME attached, enq # deq PROVE \E q \in Producers : WillPoke(q)
    OBVIOUS
  <2>1. RingTypeOK /\ Positions /\ Lap
    BY <1>1, Zenon DEF RingInv
  <2>2. deq \in Nat /\ enq \in Nat /\ deq <= enq /\ deq < enq /\ Freed = deq
    BY <1>2, <2>1 DEF RingTypeOK, Positions, Freed
  <2>3. seq[Slot(deq)] \in {deq, deq + 1} /\ deq <= deq
    BY <2>1, <2>2 DEF Lap
  <2>4. seq[Slot(deq)] = deq
    BY <1>2, <2>3 DEF RingEmpty
  <2>5. PICK q \in Producers : deq \in Held(q)
    BY <1>1, <2>2, <2>3, <2>4, Zenon DEF Claimed
  <2>6. Held(q) # {}
    BY <2>5
  <2> QED BY <1>1, <2>6, Zenon DEF HoldersPoke
<1>10. SeenTo'
  BY <1>1, <1>3, <1>4, <1>5, <1>9, Zenon DEF SeenTo
<1> QED BY <1>1, <1>3, <1>4, <1>5, <1>6, <1>8, <1>10, Zenon DEF MpscInv

\* A drain that is shed leaves the flag set and the values behind: it is noted.
LEMMA DrainDroppedInv == ASSUME MpscInv, DrainDropped PROVE MpscInv'
<1>1. /\ ChanTypeOK /\ RingInv /\ Producing /\ Delivering
      /\ Claimed /\ HoldersPoke /\ FlagHonest /\ SeenTo
  BY Zenon DEF MpscInv
<1>2. /\ UNCHANGED <<attached, dposted, fbuf>>
      /\ mbox # << >> /\ mbox' = Tail(mbox) /\ missed' = missed \cup {"shed"}
      /\ UNCHANGED ringVars /\ UNCHANGED <<spc, args, npush>> /\ UNCHANGED <<rx, chunk, got>>
  BY Zenon DEF DrainDropped, DrainShed, mpscVars
<1>3. /\ RingInv' /\ (Claimed => Claimed') /\ \A q \in Producers : Held(q)' = Held(q)
      /\ UNCHANGED <<enq, deq, rpc, pbuf>> /\ UNCHANGED <<cst, cout, outs>>
  BY <1>1, <1>2, RingStill, Zenon
<1>4. Producing' /\ HoldersPoke' /\ Posting' = Posting
  BY <1>1, <1>2, <1>3, ProducersStay, Zenon
<1>5. Delivering'
  BY <1>1, <1>2, <1>3, DeliverStays, Zenon
<1>6. mbox' \in Seq({"drain", "other"}) /\ Len(mbox') <= MboxCap
  BY <1>1, <1>2, MboxTail, Zenon
<1>7. ChanTypeOK'
  BY <1>1, <1>2, <1>6 DEF ChanTypeOK
<1>8. DrainLost' /\ missed' # {}
  BY <1>2 DEF DrainLost
<1>9. FlagHonest' /\ SeenTo'
  BY <1>1, <1>2, <1>4, <1>8, Zenon DEF FlagHonest, SeenTo
<1> QED BY <1>1, <1>3, <1>4, <1>5, <1>7, <1>9, Zenon DEF MpscInv

LEMMA ChanOthersInv == ASSUME MpscInv, Others PROVE MpscInv'
<1>1. /\ ChanTypeOK /\ RingInv /\ Producing /\ Delivering
      /\ Claimed /\ HoldersPoke /\ FlagHonest /\ SeenTo
  BY Zenon DEF MpscInv
<1>2. /\ OtherPost \/ OtherLeaves \/ CommitFlag
      /\ UNCHANGED ringVars /\ UNCHANGED <<spc, args, npush>> /\ UNCHANGED <<rx, chunk, got>>
  BY Zenon DEF Others, mpscVars
<1>3. /\ RingInv' /\ (Claimed => Claimed') /\ \A q \in Producers : Held(q)' = Held(q)
      /\ UNCHANGED <<enq, deq, rpc, pbuf>> /\ UNCHANGED <<cst, cout, outs>>
  BY <1>1, <1>2, RingStill, Zenon
<1>4. /\ Producing' /\ HoldersPoke' /\ Posting' = Posting
      /\ (\E q \in Producers : WillPoke(q)') <=> \E q \in Producers : WillPoke(q)
  BY <1>1, <1>2, <1>3, ProducersStay, Zenon
<1>5. Delivering'
  BY <1>1, <1>2, <1>3, DeliverStays, Zenon
<1>6. UNCHANGED <<attached, missed>>
  BY <1>2, Zenon DEF OtherPost, OtherLeaves, CommitFlag
<1>7. /\ mbox' \in Seq({"drain", "other"}) /\ Len(mbox') <= MboxCap
      /\ Queued("drain") => Queued("drain")'
  <2>1. CASE OtherPost
    BY <1>1, <2>1, MboxAppend DEF OtherPost
  <2>2. CASE OtherLeaves
    BY <1>1, <2>2, MboxTail DEF OtherLeaves
  <2>3. CASE CommitFlag
    BY <1>1, <2>3, MboxStays DEF CommitFlag, ChanTypeOK
  <2> QED BY <1>2, <2>1, <2>2, <2>3
<1>8. UNCHANGED <<dposted, fbuf>> \/ (fbuf' = FALSE /\ dposted' = FALSE)
  BY <1>2, Zenon DEF OtherPost, OtherLeaves, CommitFlag
<1>9. ChanTypeOK'
  BY <1>1, <1>6, <1>7, <1>8, Zenon DEF ChanTypeOK
<1>10. FlagHonest'
  BY <1>1, <1>4, <1>6, <1>7, <1>8, Zenon DEF FlagHonest, DrainLost
<1>11. SeenTo'
  BY <1>1, <1>2, <1>3, <1>4, <1>6, <1>7, Zenon DEF SeenTo
<1> QED BY <1>1, <1>3, <1>4, <1>5, <1>9, <1>10, <1>11, Zenon DEF MpscInv

LEMMA ChanStutterInv == ASSUME MpscInv, UNCHANGED vars PROVE MpscInv'
<1>1. /\ ChanTypeOK /\ RingInv /\ Producing /\ Delivering
      /\ Claimed /\ HoldersPoke /\ FlagHonest /\ SeenTo
  BY Zenon DEF MpscInv
<1>2. /\ UNCHANGED chanVars /\ UNCHANGED ringVars
      /\ UNCHANGED <<spc, args, npush>> /\ UNCHANGED <<rx, chunk, got>>
  BY Zenon DEF vars, mpscVars
<1>3. ChanTypeOK' /\ UNCHANGED <<attached, dposted, fbuf, mbox, missed>>
  BY <1>1, <1>2, ChanStays, Zenon
<1>4. /\ RingInv' /\ (Claimed => Claimed') /\ \A q \in Producers : Held(q)' = Held(q)
      /\ UNCHANGED <<enq, deq, rpc, pbuf>> /\ UNCHANGED <<cst, cout, outs>>
  BY <1>1, <1>2, RingStill, Zenon
<1>5. /\ Producing' /\ HoldersPoke' /\ Posting' = Posting
      /\ (\E q \in Producers : WillPoke(q)') <=> \E q \in Producers : WillPoke(q)
  BY <1>1, <1>2, <1>4, ProducersStay, Zenon
<1>6. Delivering'
  BY <1>1, <1>2, <1>4, DeliverStays, Zenon
<1>7. Queued("drain")' <=> Queued("drain")
  BY <1>3, MboxStays
<1>8. FlagHonest'
  BY <1>1, <1>3, <1>5, <1>7, Zenon DEF FlagHonest, DrainLost
<1>9. SeenTo'
  BY <1>1, <1>2, <1>3, <1>4, <1>5, <1>7, Zenon DEF SeenTo
<1> QED BY <1>1, <1>3, <1>4, <1>5, <1>6, <1>8, <1>9, Zenon DEF MpscInv

-----------------------------------------------------------------------------
(* The theorems *)

LEMMA MpscInitInv == Init => MpscInv
<1> SUFFICES ASSUME Init PROVE MpscInv
  OBVIOUS
<1>1. /\ attached = FALSE /\ dposted = FALSE /\ fbuf = FALSE /\ mbox = << >> /\ missed = {}
      /\ spc = [p \in Producers |-> "idle"] /\ args = [p \in Producers |-> << >>]
      /\ npush = [p \in Producers |-> 0] /\ rx = "idle" /\ chunk = << >> /\ got = << >>
  BY Zenon DEF Init, ChanInit
<1>2. /\ enq = 0 /\ deq = 0 /\ pbuf = [p \in Producers |-> {}] /\ rpc = [p \in Producers |-> "out"]
      /\ cst = "out" /\ outs = << >>
  BY Zenon DEF Init, RingInit
<1>3. RingInv
  BY RingInvInit, Zenon DEF Init
<1>4. ChanTypeOK
  <2>1. mbox \in Seq({"drain", "other"}) /\ Len(mbox) <= MboxCap
    BY <1>1, ChannelAssumption
  <2>2. missed \subseteq {"unattached", "late_reset", "full_mailbox", "shed", "short_drain"}
    BY <1>1
  <2> QED BY <1>1, <2>1, <2>2, Zenon DEF ChanTypeOK
<1>5. Producing
  BY <1>1, <1>2, ChunkAssumption DEF Producing
<1>6. Delivering
  BY <1>1, <1>2, ChunkAssumption DEF Delivering
<1>7. Claimed
  BY <1>2 DEF Claimed
<1>8. HoldersPoke
  BY <1>2 DEF HoldersPoke, Held
<1>9. FlagHonest
  BY <1>1, Zenon DEF FlagHonest, DrainLost
<1>10. SeenTo
  BY <1>1, <1>2 DEF SeenTo, Posting
<1> QED BY <1>3, <1>4, <1>5, <1>6, <1>7, <1>8, <1>9, <1>10, Zenon DEF MpscInv

LEMMA MpscStepInv == ASSUME Cap > 1, MpscInv, [Next]_vars PROVE MpscInv'
<1>1. ASSUME NEW p \in Producers, NEW vs \in Bulks, push(p, vs) PROVE MpscInv'
  BY <1>1, ChanPushInv, Zenon
<1>2. ASSUME NEW p \in Producers, ProducerStep(p) PROVE MpscInv'
  BY <1>2, ChanPushingInv, ChanPushOkInv, ChanPushFullInv, ChanPokeInv, ChanPostInv, Zenon
     DEF ProducerStep
<1>3. CASE Attach
  BY <1>3, ChanAttachInv, Zenon
<1>4. CASE DrainReset
  BY <1>4, ChanDrainResetInv, Zenon
<1>5. CASE DrainPop
  BY <1>5, ChanDrainPopInv, Zenon
<1>6. CASE DrainFill
  BY <1>6, ChanDrainFillInv, Zenon
<1>7. CASE DrainDone
  BY <1>7, ChanDrainDoneInv, Zenon
<1>8. CASE Others
  BY <1>8, ChanOthersInv, Zenon
<1>9. CASE DrainDropped
  BY <1>9, DrainDroppedInv, Zenon
<1>10. CASE UNCHANGED vars
  BY <1>10, ChanStutterInv, Zenon
<1> QED BY <1>1, <1>2, <1>3, <1>4, <1>5, <1>6, <1>7, <1>8, <1>9, <1>10, Zenon DEF Next

\* A value that stays behind in a quiet channel has one of the named reasons, and the flag
\* never stays set with no drain to come but for a full mailbox or a drain shed at its deadline:
\* for any number of producers, whatever they push while the loop drains (push, push_bulk, poke,
\* drain, attach, drain_mailbox).
THEOREM MpscChannelSound == Cap > 1 => (Spec => []MpscStranding)
<1> SUFFICES ASSUME Cap > 1 PROVE Spec => []MpscStranding
  OBVIOUS
<1>1. Init => MpscInv
  BY MpscInitInv
<1>2. MpscInv /\ [Next]_vars => MpscInv'
  BY MpscStepInv
<1>3. MpscInv => MpscStranding
  <2> SUFFICES ASSUME MpscInv PROVE MpscStranding
    OBVIOUS
  <2>1. ChanTypeOK /\ RingInv /\ Producing /\ Delivering /\ FlagHonest /\ SeenTo
    BY Zenon DEF MpscInv
  <2>2. TypeOK
    BY <2>1, Zenon DEF TypeOK, RingInv, Producing, Delivering
  <2>3. StrandExcused
    <3> SUFFICES ASSUME Quiet, enq # deq PROVE missed # {}
      BY Zenon DEF StrandExcused
    <3>1. attached /\ rx = "idle" /\ ~Queued("drain") /\ \A p \in Producers : spc[p] = "idle"
      BY Zenon DEF Quiet
    <3>2. Posting = {} /\ \A p \in Producers : ~WillPoke(p)
      BY <3>1 DEF Posting, WillPoke
    <3>3. rx # "pop"
      BY <3>1
    <3> QED BY <2>1, <3>1, <3>2, <3>3, Zenon DEF SeenTo
  <2> QED BY <2>1, <2>2, <2>3, Zenon DEF MpscStranding
<1> QED BY <1>1, <1>2, <1>3, PTL DEF Spec

\* Every value popped is delivered, once and in order, by the end of the drain, whatever the
\* size of the chunks (drain).
THEOREM MpscChannelDelivers == Cap > 1 => (Spec => []DrainDelivers)
<1> SUFFICES ASSUME Cap > 1 PROVE Spec => []DrainDelivers
  OBVIOUS
<1>1. Init => MpscInv
  BY MpscInitInv
<1>2. MpscInv /\ [Next]_vars => MpscInv'
  BY MpscStepInv
<1>3. MpscInv => DrainDelivers
  <2> SUFFICES ASSUME MpscInv, rx = "idle" PROVE got = outs
    BY Zenon DEF DrainDelivers
  <2>1. Delivering
    BY Zenon DEF MpscInv
  <2> QED BY <2>1 DEF Delivering
<1> QED BY <1>1, <1>2, <1>3, PTL DEF Spec

\* The ring under the channel is not used in any way the ring's own proof does not cover:
\* plain accesses to its cells never race (push_impl, try_pop).
THEOREM MpscChannelSafe == Cap > 1 => (Spec => []CellExclusive)
<1> SUFFICES ASSUME Cap > 1 PROVE Spec => []CellExclusive
  OBVIOUS
<1>1. Init => MpscInv
  BY MpscInitInv
<1>2. MpscInv /\ [Next]_vars => MpscInv'
  BY MpscStepInv
<1>3. MpscInv => CellExclusive
  BY RingInvImplies, Zenon DEF MpscInv
<1> QED BY <1>1, <1>2, <1>3, PTL DEF Spec
=============================================================================
