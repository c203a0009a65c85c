--------------------------- MODULE MpscRing_proof ---------------------------
(***************************************************************************)
(* Proofs about MpscRing for every number of producers and every capacity  *)
(* of at least two cells.  With one, the sequence number of a published    *)
(* task is that of a free cell of the next lap, and Bounded fails.         *)
(***************************************************************************)
EXTENDS MpscRing, Integers, SequenceTheorems, TLAPS

\* The positions p has claimed and not yet visibly published.
Held(p) == pbuf[p] \cup (IF rpc[p] \in {"write", "publish"} THEN {rpos[p]} ELSE {})

(* The parts of the inductive invariant *)

\* How the positions relate.
Positions ==
  /\ deq <= enq /\ enq <= Freed + Cap
  /\ Len(log) = enq
  /\ Len(outs) = IF cst = "move" THEN cpos ELSE deq
  /\ cst \in {"move", "free"} => cpos + 1 = deq /\ seq[Slot(cpos)] = cpos + 1
  /\ \A p \in Producers : rpos[p] <= enq
  /\ \A p \in Producers : rpc[p] = "cas" => rpos[p] < Freed + Cap

\* The current lap: a cell is free for its position, or claimed for it and then
\* published; cells of finished positions have moved on.
Lap ==
  /\ \A i \in Nat : enq <= i /\ i < Freed + Cap => seq[Slot(i)] = i
  /\ \A i \in Nat : Freed <= i /\ i < enq => seq[Slot(i)] \in {i, i + 1}
  /\ \A i \in Nat : i < Freed => seq[Slot(i)] > i

\* A claimed position is held by one producer until its cell is published.
Ownership ==
  /\ \A p \in Producers : \A i \in Held(p) :
       deq <= i /\ i < enq /\ seq[Slot(i)] = i
  /\ \A p, q \in Producers : p # q => Held(p) \cap Held(q) = {}
  /\ \A p \in Producers : rpc[p] \in {"write", "publish"} => rpos[p] \notin pbuf[p]

\* A published cell holds the task logged for its position,
Published ==
  \A i \in Nat : Len(outs) <= i /\ i < enq /\ seq[Slot(i)] = i + 1
                   => data[Slot(i)] = log[i + 1]

\* so does a cell whose publication is on its way,
InFlight ==
  \A p \in Producers :
    /\ \A i \in pbuf[p] : data[Slot(i)] = log[i + 1]
    /\ rpc[p] = "publish" => data[Slot(rpos[p])] = log[rpos[p] + 1]
    /\ rpc[p] = "write" => ritem[p] = log[rpos[p] + 1]

\* and the tasks handed out are the first ones logged.
Delivered == \A i \in 1 .. Len(outs) : outs[i] = log[i]

Contents == Published /\ InFlight /\ Delivered

RingInv == RingTypeOK /\ Positions /\ Lap /\ Ownership /\ Contents

-----------------------------------------------------------------------------
(* Cells: pos & mask_ *)

\* Every position has a cell.
LEMMA SlotType == \A i \in Nat : Slot(i) \in Slots
  BY CapAssumption DEF Slot, Slots

\* Two positions share a cell only if they are at least one lap apart.
LEMMA SlotInj ==
  ASSUME NEW i \in Nat, NEW j \in Nat, Slot(i) = Slot(j), i < j
  PROVE  i + Cap <= j
<1> DEFINE a == i \div Cap
           b == j \div Cap
<1>1. /\ a \in Nat /\ b \in Nat
      /\ i = Cap * a + Slot(i) /\ j = Cap * b + Slot(j)
  BY CapAssumption DEF Slot
<1> HIDE DEF a, b
<1>2. Slot(i) \in Nat
  BY SlotType DEF Slots
<1>3. j - i = Cap * (b - a)
  BY <1>1, <1>2, CapAssumption
<1>4. b - a >= 1
  <2>1. CASE b - a <= 0
    <3>1. Cap * (b - a) <= 0
      BY <2>1, <1>1, CapAssumption
    <3> QED BY <3>1, <1>3
  <2> QED BY <2>1, <1>1
<1>5. Cap * (b - a) >= Cap
  BY <1>4, <1>1, CapAssumption
<1> QED BY <1>3, <1>5, CapAssumption

\* The next lap of a position uses the same cell.
LEMMA SlotNext == ASSUME NEW i \in Nat PROVE Slot(i + Cap) = Slot(i)
<1> DEFINE a == i \div Cap
           b == (i + Cap) \div Cap
           d == 1 + a - b
<1>1. /\ a \in Nat /\ b \in Nat
      /\ i = Cap * a + Slot(i) /\ i + Cap = Cap * b + Slot(i + Cap)
  BY CapAssumption DEF Slot
<1>2. Slot(i) \in 0 .. Cap - 1 /\ Slot(i + Cap) \in 0 .. Cap - 1
  BY SlotType, CapAssumption DEF Slots
<1> HIDE DEF a, b
<1>3. d \in Int /\ Slot(i + Cap) - Slot(i) = Cap * d
  BY <1>1, <1>2, CapAssumption
<1> HIDE DEF d
<1>4. CASE d >= 1
  <2>1. Cap * d >= Cap
    BY <1>4, <1>3, CapAssumption
  <2> QED BY <2>1, <1>2, <1>3, CapAssumption
<1>5. CASE d <= -1
  <2>1. Cap * d <= -Cap
    BY <1>5, <1>3, CapAssumption
  <2> QED BY <2>1, <1>2, <1>3, CapAssumption
<1>6. CASE d = 0
  BY <1>6, <1>2, <1>3, CapAssumption
<1> QED BY <1>3, <1>4, <1>5, <1>6

-----------------------------------------------------------------------------
(* Each access preserves the invariant *)

\* The constructor numbers every cell for the first lap.
LEMMA RingInvInit == RingInit => RingInv
<1> SUFFICES ASSUME RingInit PROVE RingInv
  OBVIOUS
<1> USE CapAssumption, NoTaskAssumption DEF RingInit
<1>1. RingTypeOK
  BY DEF RingTypeOK, Slots
<1>2. Positions
  BY DEF Positions, Freed
<1>3. Lap
  <2>1. \A i \in Nat : i < Cap => Slot(i) = i
    BY DEF Slot
  <2> QED BY <2>1, SlotType DEF Lap, Freed, Slots
<1>4. Ownership
  BY DEF Ownership, Held
<1>5. Contents
  BY DEF Contents, Published, InFlight, Delivered
<1> QED BY <1>1, <1>2, <1>3, <1>4, <1>5 DEF RingInv

\* Accesses that change only the program counter and locals of one producer.
LEMMA PushBeginInv ==
  ASSUME NEW p \in Producers, NEW v \in Items, RingInv, PushBegin(p, v)
  PROVE  RingInv'
<1> USE CapAssumption DEF RingInv, PushBegin, consVars
<1>1. RingTypeOK'
  BY DEF RingTypeOK
<1>2. Positions'
  BY DEF Positions, Freed, RingTypeOK
<1>3. Lap'
  BY DEF Lap, Freed
<1>4. Ownership'
  BY DEF Ownership, Held, RingTypeOK
<1>5. Contents'
  BY DEF Contents, Published, InFlight, Delivered, RingTypeOK
<1> QED BY <1>1, <1>2, <1>3, <1>4, <1>5

\* A cell whose number equals pos is free for it, so the claim may be tried.
LEMMA PushLoadSeqInv ==
  ASSUME Cap > 1, NEW p \in Producers, RingInv, PushLoadSeq(p)
  PROVE  RingInv'
<1> USE CapAssumption DEF RingInv, PushLoadSeq, consVars
<1>1. RingTypeOK'
  BY DEF RingTypeOK
<1>2. Positions'
  <2>1. Freed \in Nat /\ rpos[p] \in Nat /\ Freed <= enq /\ rpos[p] <= Freed + Cap
    BY DEF Positions, Freed, RingTypeOK
  <2>2. seq[Slot(rpos[p])] = rpos[p] => rpos[p] < Freed + Cap
    <3> SUFFICES ASSUME seq[Slot(rpos[p])] = rpos[p], rpos[p] = Freed + Cap PROVE FALSE
      BY <2>1
    <3>1. Slot(rpos[p]) = Slot(Freed)
      BY <2>1, SlotNext
    <3>2. seq[Slot(Freed)] \in {Freed, Freed + 1}
      BY <2>1 DEF Positions, Lap, RingTypeOK, Freed
    <3> QED BY <3>1, <3>2, <2>1
  <2> QED BY <2>2 DEF Positions, Freed, RingTypeOK
<1>3. Lap'
  BY DEF Lap, Freed
<1>4. Ownership'
  BY DEF Ownership, Held, RingTypeOK
<1>5. Contents'
  BY DEF Contents, Published, InFlight, Delivered, RingTypeOK
<1> QED BY <1>1, <1>2, <1>3, <1>4, <1>5

\* Reloading pos disturbs nothing.
LEMMA PushReloadInv == ASSUME NEW p \in Producers, RingInv, PushReload(p) PROVE RingInv'
<1> USE CapAssumption DEF RingInv, PushReload, consVars
<1>1. RingTypeOK'
  BY DEF RingTypeOK
<1>2. Positions'
  BY DEF Positions, Freed, RingTypeOK
<1>3. Lap'
  BY DEF Lap, Freed
<1>4. Ownership'
  BY DEF Ownership, Held, RingTypeOK
<1>5. Contents'
  BY DEF Contents, Published, InFlight, Delivered, RingTypeOK
<1> QED BY <1>1, <1>2, <1>3, <1>4, <1>5

\* A failed compare-and-swap only refreshes pos.
LEMMA PushLoseInv == ASSUME NEW p \in Producers, RingInv, PushLose(p) PROVE RingInv'
<1> USE CapAssumption DEF RingInv, PushLose, consVars
<1>1. RingTypeOK'
  BY DEF RingTypeOK
<1>2. Positions'
  BY DEF Positions, Freed, RingTypeOK
<1>3. Lap'
  BY DEF Lap, Freed
<1>4. Ownership'
  BY DEF Ownership, Held, RingTypeOK
<1>5. Contents'
  BY DEF Contents, Published, InFlight, Delivered, RingTypeOK
<1> QED BY <1>1, <1>2, <1>3, <1>4, <1>5

\* Returning from try_push leaves the ring alone.
LEMMA PushReturnInv == ASSUME NEW p \in Producers, RingInv, PushReturn(p) PROVE RingInv'
<1> USE CapAssumption DEF RingInv, PushReturn, consVars
<1>1. RingTypeOK'
  BY DEF RingTypeOK
<1>2. Positions'
  BY DEF Positions, Freed, RingTypeOK
<1>3. Lap'
  BY DEF Lap, Freed
<1>4. Ownership'
  BY DEF Ownership, Held, RingTypeOK
<1>5. Contents'
  BY DEF Contents, Published, InFlight, Delivered, RingTypeOK
<1> QED BY <1>1, <1>2, <1>3, <1>4, <1>5

\* Claiming a position: the cell is the free one of the current lap, and no
\* producer holds it.
LEMMA PushClaimInv == ASSUME NEW p \in Producers, RingInv, PushClaim(p) PROVE RingInv'
<1> USE CapAssumption DEF RingInv
<1>1. RingTypeOK'
  BY DEF RingTypeOK, PushClaim, consVars
<1>2. rpos[p] = enq /\ seq[Slot(enq)] = enq /\ enq \in Nat
  BY DEF Positions, Lap, RingTypeOK, Freed, PushClaim
<1>3. Positions'
  BY DEF Positions, Freed, RingTypeOK, PushClaim, consVars
<1>4. Lap'
  BY SMTT(60), <1>2 DEF Lap, Freed, RingTypeOK, Positions, PushClaim, consVars
<1>5. Ownership'
  BY <1>2 DEF Ownership, Held, RingTypeOK, Positions, PushClaim, consVars
<1>6. Contents'
  <2>1. /\ enq' = enq + 1 /\ outs' = outs /\ seq' = seq /\ data' = data
        /\ pbuf' = pbuf /\ rpos' = rpos /\ ritem' = ritem
        /\ rpc' = [rpc EXCEPT ![p] = "write"]
    BY DEF PushClaim, consVars
  <2>2. \A i \in 0 .. enq - 1 : log'[i + 1] = log[i + 1]
    BY DEF RingTypeOK, Positions, PushClaim
  <2>3. log'[enq + 1] = ritem[p]
    BY SMTT(60) DEF RingTypeOK, Positions, PushClaim
  <2>4. Published'
    <3> SUFFICES ASSUME NEW i \in Nat, Len(outs) <= i, i < enq + 1, seq[Slot(i)] = i + 1
                 PROVE  data[Slot(i)] = log'[i + 1]
      BY <2>1 DEF Published
    <3>1. i # enq /\ i < enq /\ i \in 0 .. enq - 1
      BY <1>2
    <3>2. data[Slot(i)] = log[i + 1]
      BY <3>1 DEF Contents, Published
    <3> QED BY <3>1, <3>2, <2>2
  <2>5. InFlight'
    <3> HIDE DEF PushClaim
    <3>1. \A q \in Producers : \A i \in Held(q) : i \in 0 .. enq - 1
      BY DEF Ownership, Held, RingTypeOK
    <3>2. \A q \in Producers : \A i \in pbuf[q] : data[Slot(i)] = log'[i + 1]
      BY <2>2, <3>1 DEF Contents, InFlight, Held
    <3>3. \A q \in Producers \ {p} :
            /\ rpc[q] = "publish" => data[Slot(rpos[q])] = log'[rpos[q] + 1]
            /\ rpc[q] = "write" => ritem[q] = log'[rpos[q] + 1]
      BY <2>2, <3>1 DEF Contents, InFlight, Held
    <3>4. rpc'[p] = "write" /\ rpos[p] = enq /\ \A q \in Producers \ {p} : rpc'[q] = rpc[q]
      BY SMTT(60), <1>2, <2>1 DEF RingTypeOK
    <3> QED
      BY <2>1, <2>3, <3>2, <3>3, <3>4 DEF InFlight
  <2>6. Delivered'
    <3>1. \A i \in 1 .. Len(outs) : i - 1 \in 0 .. enq - 1 /\ i = (i - 1) + 1
      BY DEF RingTypeOK, Positions
    <3> QED BY <2>1, <2>2, <3>1 DEF Contents, Delivered
  <2> QED BY <2>4, <2>5, <2>6 DEF Contents
<1> QED BY <1>1, <1>3, <1>4, <1>5, <1>6

\* Writing the cell of a held position disturbs no other cell of the lap.
LEMMA PushWriteInv == ASSUME NEW p \in Producers, RingInv, PushWrite(p) PROVE RingInv'
<1> USE CapAssumption DEF RingInv, PushWrite, consVars
<1>1. RingTypeOK'
  BY ZenonT(60), SlotType DEF RingTypeOK
<1>2. Positions'
  BY DEF Positions, Freed, RingTypeOK
<1>3. Lap'
  BY DEF Lap, Freed
<1>4. Ownership'
  BY DEF Ownership, Held, RingTypeOK
<1>5. Contents'
  <2>1. /\ rpos[p] \in Held(p) /\ rpos[p] \in Nat
        /\ deq <= rpos[p] /\ rpos[p] < enq /\ seq[Slot(rpos[p])] = rpos[p]
    BY DEF Ownership, Held, RingTypeOK
  <2>2. data'[Slot(rpos[p])] = log[rpos[p] + 1]
    BY ZenonT(60), <2>1, SlotType DEF Contents, InFlight, RingTypeOK
  <2>3. \A i \in Nat : Len(outs) <= i /\ i < enq /\ seq[Slot(i)] = i + 1
                         => Slot(i) # Slot(rpos[p])
    BY SMTT(60), <2>1, SlotInj DEF RingTypeOK, Positions, Freed
  <2>4. \A q \in Producers : \A i \in Held(q) : i # rpos[p] => Slot(i) # Slot(rpos[p])
    BY SMTT(60), <2>1, SlotInj DEF Ownership, RingTypeOK, Held
  <2>5. \A q \in Producers : q # p => rpos[p] \notin Held(q)
    BY <2>1 DEF Ownership
  <2>6. \A i \in Nat : Slot(i) # Slot(rpos[p]) => data'[Slot(i)] = data[Slot(i)]
    BY SlotType DEF RingTypeOK
  <2>7. Published'
    BY SMTT(60), <2>3, <2>6 DEF Contents, Published
  <2>8. InFlight'
    BY SMTT(60), <2>1, <2>2, <2>4, <2>5, <2>6 DEF Contents, InFlight, RingTypeOK, Held, Ownership
  <2>9. Delivered'
    BY SMTT(60) DEF Contents, Delivered
  <2> QED BY <2>7, <2>8, <2>9 DEF Contents
<1> QED BY <1>1, <1>2, <1>3, <1>4, <1>5

\* Issuing the release store.
LEMMA PushPublishInv == ASSUME NEW p \in Producers, RingInv, PushPublish(p) PROVE RingInv'
<1> USE CapAssumption DEF RingInv, PushPublish, consVars
<1>1. RingTypeOK'
  BY SMTT(60) DEF RingTypeOK
<1>2. Positions'
  BY SMTT(60) DEF Positions, Freed, RingTypeOK
<1>3. Lap'
  BY DEF Lap, Freed
<1>4. Ownership'
  BY SMTT(60) DEF Ownership, Held, RingTypeOK
<1>5. Contents'
  BY DEF Contents, Published, InFlight, Delivered, RingTypeOK
<1> QED BY <1>1, <1>2, <1>3, <1>4, <1>5

\* The release store becomes visible: a held cell is published.
LEMMA CommitInv ==
  ASSUME Cap > 1, NEW p \in Producers, RingInv, Commit(p) PROVE RingInv'
<1> PICK k \in pbuf[p] : /\ seq' = [seq EXCEPT ![Slot(k)] = k + 1]
                         /\ pbuf' = [pbuf EXCEPT ![p] = @ \ {k}]
                         /\ UNCHANGED <<enq, deq, data, rpc, rpos, ritem, log, consVars>>
  BY ZenonT(60) DEF Commit
<1> USE CapAssumption DEF RingInv, consVars
<1>1. RingTypeOK'
  <2>1. k \in Nat /\ k + 1 \in Nat
    BY DEF RingTypeOK
  <2>2. seq' \in [Slots -> Nat] /\ pbuf' \in [Producers -> SUBSET Nat]
    BY ZenonT(60), <2>1, SlotType DEF RingTypeOK
  <2> QED BY SMTT(60), <2>2 DEF RingTypeOK
<1>2. k \in Nat /\ deq <= k /\ k < enq /\ seq[Slot(k)] = k /\ k \in Held(p)
  BY DEF Ownership, Held, RingTypeOK
<1>3. seq'[Slot(k)] = k + 1 /\ \A i \in Nat : Slot(i) # Slot(k) => seq'[Slot(i)] = seq[Slot(i)]
  BY SMTT(60), <1>2, SlotType DEF RingTypeOK
<1>4. Positions'
  <2>1. cst \in {"move", "free"} => Slot(cpos) # Slot(k)
    BY SMTT(60), <1>2, SlotInj DEF Positions, RingTypeOK
  <2> QED BY <2>1, <1>3 DEF Positions, Freed, RingTypeOK
<1>5. Lap'
  <2>1. \A i \in Nat : Freed <= i /\ i < Freed + Cap /\ Slot(i) = Slot(k) => i = k
    BY <1>2, SlotInj DEF RingTypeOK, Positions, Freed
  <2>2. \A i \in Nat : i < Freed => i < k
    BY SMTT(60), <1>2 DEF RingTypeOK, Positions, Freed
  <2> QED BY SMTT(60), <1>2, <1>3, <2>1, <2>2 DEF Lap, Freed, RingTypeOK, Positions
<1>6. Ownership'
  <2>1. \A q \in Producers : \A i \in Held(q) : i # k => Slot(i) # Slot(k)
    BY <1>2 DEF Ownership, RingTypeOK, Held
  <2>2. \A q \in Producers : Held(q)' = IF q = p THEN Held(p) \ {k} ELSE Held(q)
    BY SMTT(60), <1>2 DEF Held, Ownership, RingTypeOK
  <2>3. \A q \in Producers : q # p => k \notin Held(q)
    BY <1>2 DEF Ownership
  <2> QED BY SMTT(60), <1>2, <1>3, <2>1, <2>2, <2>3 DEF Ownership, Held, RingTypeOK
<1>7. Contents'
  <2>1. Published'
    <3> SUFFICES ASSUME NEW i \in Nat, Len(outs) <= i, i < enq, seq'[Slot(i)] = i + 1
                 PROVE  data[Slot(i)] = log[i + 1]
      BY DEF Published
    <3>1. CASE Slot(i) = Slot(k)
      BY <3>1, <1>2, <1>3 DEF Contents, InFlight, RingTypeOK
    <3>2. CASE Slot(i) # Slot(k)
      BY SMTT(60), <3>2, <1>3 DEF Contents, Published
    <3> QED BY SMTT(60), <3>1, <3>2
  <2>2. InFlight' /\ Delivered'
    BY DEF Contents, InFlight, Delivered, RingTypeOK
  <2> QED BY SMTT(60), <2>1, <2>2 DEF Contents
<1> QED BY <1>1, <1>4, <1>5, <1>6, <1>7

\* The consumer takes the published cell at deq_pos_.
LEMMA PopHitInv == ASSUME RingInv, PopHit PROVE RingInv'
<1> USE CapAssumption DEF RingInv, PopHit, prodVars
<1>1. RingTypeOK'
  BY SMTT(60) DEF RingTypeOK
<1>2. /\ cst = "out" /\ cst' = "move" /\ cpos' = deq /\ deq' = deq + 1
      /\ Freed = deq /\ Freed' = deq /\ deq \in Nat /\ enq \in Nat
      /\ seq[Slot(deq)] = deq + 1
  BY SMTT(60) DEF RingEmpty, Freed, RingTypeOK
<1>3. deq < enq
  <2> SUFFICES ASSUME deq = enq PROVE FALSE
    BY SMTT(60), <1>2 DEF Positions
  <2> QED BY <1>2 DEF Lap, RingTypeOK
<1>4. Positions'
  BY SMTT(60), <1>2, <1>3 DEF Positions, RingTypeOK
<1>5. Lap'
  BY SMTT(60), <1>2 DEF Lap
<1>6. Ownership'
  BY SMTT(60), <1>2 DEF Ownership, Held, RingTypeOK
<1>7. Contents'
  BY <1>2 DEF Contents, Published, InFlight, Delivered, RingTypeOK, Positions
<1> QED BY <1>1, <1>4, <1>5, <1>6, <1>7

\* Moving the task out empties a cell nobody else uses.
LEMMA PopMoveInv == ASSUME Cap > 1, RingInv, PopMove PROVE RingInv'
<1> USE CapAssumption, NoTaskAssumption DEF RingInv
<1>1. /\ cst = "move" /\ cst' = "free" /\ cpos' = cpos /\ deq' = deq /\ enq' = enq
      /\ seq' = seq /\ log' = log /\ pbuf' = pbuf /\ rpc' = rpc /\ rpos' = rpos
      /\ ritem' = ritem /\ cpos \in Nat /\ deq = cpos + 1 /\ seq[Slot(cpos)] = cpos + 1
      /\ Len(outs) = cpos /\ cpos < enq /\ Len(log) = enq /\ Freed' = Freed /\ Freed = cpos
      /\ enq \in Nat /\ Slot(cpos) \in Slots /\ outs \in Seq(Items)
  BY SlotType DEF PopMove, prodVars, Positions, RingTypeOK, Freed
<1>2. cout' = log[cpos + 1] /\ cout' \in Items
  BY <1>1 DEF PopMove, Contents, Published, RingTypeOK
<1>3. outs' = Append(outs, cout')
  BY DEF PopMove
<1>4. Len(outs') = cpos + 1 /\ outs' \in Seq(Items)
  BY <1>1, <1>2, <1>3
<1>5. data' \in [Slots -> Items]
      /\ \A s \in Slots : s # Slot(cpos) => data'[s] = data[s]
  BY SMTT(60), <1>1 DEF PopMove, RingTypeOK
<1>6. RingTypeOK'
  BY SMTT(60), <1>1, <1>2, <1>4, <1>5 DEF RingTypeOK
<1>7. Positions'
  BY <1>1, <1>4 DEF Positions
<1>8. Lap'
  BY SMTT(60), <1>1 DEF Lap
<1>9. Ownership'
  BY SMTT(60), <1>1 DEF Ownership, Held
<1>10. \A i \in Nat : cpos < i /\ i < enq /\ i < cpos + Cap => Slot(i) # Slot(cpos)
  BY <1>1, SlotInj
<1>11. enq <= cpos + Cap
  BY SMTT(60), <1>1 DEF Positions
<1>12. Published'
  BY SMTT(60), <1>1, <1>4, <1>5, <1>10, <1>11, SlotType DEF Contents, Published, RingTypeOK, Lap
<1>13. InFlight'
  BY SMTT(60), <1>1, <1>5, <1>10, <1>11, SlotType DEF Contents, InFlight, Ownership, Held, RingTypeOK
<1>14. Delivered'
  <2>1. \A i \in 1 .. cpos : outs'[i] = outs[i]
    BY <1>1, <1>3
  <2>2. outs'[cpos + 1] = cout'
    BY <1>1, <1>3
  <2>3. \A i \in 1 .. cpos : outs[i] = log[i]
    BY <1>1 DEF Contents, Delivered
  <2> HIDE DEF RingInv
  <2>4. \A i \in 1 .. cpos + 1 : i \in 1 .. cpos \/ i = cpos + 1
    BY <1>1
  <2>5. \A i \in 1 .. cpos + 1 : outs'[i] = log'[i]
    BY <2>1, <2>2, <2>3, <2>4, <1>1, <1>2, Zenon
  <2> QED BY <1>4, <2>5, Zenon DEF Delivered
<1> QED BY SMTT(60), <1>6, <1>7, <1>8, <1>9, <1>12, <1>13, <1>14 DEF Contents

\* Giving the cell back opens it for the position one lap later.
LEMMA PopFreeInv == ASSUME Cap > 1, RingInv, PopFree PROVE RingInv'
<1> USE CapAssumption DEF RingInv
<1>1. /\ cst = "free" /\ cst' = "got" /\ UNCHANGED <<cpos, cout, deq, enq, data, log>>
      /\ UNCHANGED <<pbuf, rpc, rpos, ritem, outs>>
      /\ cpos \in Nat /\ enq \in Nat /\ deq = cpos + 1 /\ Len(outs) = deq
      /\ Freed = cpos /\ Freed' = cpos + 1 /\ deq <= enq /\ enq <= cpos + Cap
  BY DEF PopFree, prodVars, Positions, RingTypeOK, Freed
<1>2. /\ seq' \in [Slots -> Nat] /\ seq'[Slot(cpos)] = cpos + Cap
      /\ \A i \in Nat : Slot(i) # Slot(cpos) => seq'[Slot(i)] = seq[Slot(i)]
  BY <1>1, SlotType DEF PopFree, RingTypeOK
<1>3. \A i \in Nat : cpos < i /\ i < cpos + Cap => Slot(i) # Slot(cpos)
  BY <1>1, SlotInj
<1>4. RingTypeOK'
  BY SMTT(60), <1>1, <1>2 DEF RingTypeOK
<1>5. Positions'
  BY <1>1 DEF Positions, RingTypeOK
<1>6. Lap'
  <2>1. ASSUME NEW i \in Nat, enq <= i, i < cpos + 1 + Cap PROVE seq'[Slot(i)] = i
    <3>1. CASE i = cpos + Cap
      BY SMTT(60), <3>1, <1>1, <1>2, SlotNext
    <3>2. CASE i < cpos + Cap
      BY SMTT(60), <3>2, <2>1, <1>1, <1>2, <1>3 DEF Lap
    <3> QED BY <3>1, <3>2, <2>1, <1>1
  <2>2. ASSUME NEW i \in Nat, cpos + 1 <= i, i < enq PROVE seq'[Slot(i)] \in {i, i + 1}
    BY <2>2, <1>1, <1>2, <1>3 DEF Lap
  <2>3. ASSUME NEW i \in Nat, i < cpos + 1 PROVE seq'[Slot(i)] > i
    <3>1. CASE Slot(i) = Slot(cpos)
      BY SMTT(60), <3>1, <2>3, <1>1, <1>2
    <3>2. CASE Slot(i) # Slot(cpos)
      BY SMTT(60), <3>2, <2>3, <1>1, <1>2 DEF Lap
    <3> QED BY <3>1, <3>2
  <2> QED BY <2>1, <2>2, <2>3, <1>1 DEF Lap
<1>7. Ownership'
  <2>1. \A p \in Producers : Held(p)' = Held(p)
    BY SMTT(60), <1>1 DEF Held
  <2>2. \A p \in Producers : \A i \in Held(p) :
          i \in Nat /\ deq <= i /\ i < enq /\ seq[Slot(i)] = i /\ Slot(i) # Slot(cpos)
    BY SMTT(60), <1>1, <1>3 DEF Held, Ownership, RingTypeOK
  <2>3. Ownership
    OBVIOUS
  <2> HIDE DEF RingInv
  <2>4. \A p \in Producers : \A i \in Held(p)' : deq <= i /\ i < enq /\ seq'[Slot(i)] = i
    BY <1>2, <2>1, <2>2, Zenon
  <2> QED BY <1>1, <2>1, <2>3, <2>4, Zenon DEF Ownership
<1>8. Contents'
  <2>1. Contents
    OBVIOUS
  <2> HIDE DEF RingInv
  <2>2. Published'
    <3>1. \A i \in Nat : deq <= i /\ i < enq => seq'[Slot(i)] = seq[Slot(i)]
      BY <1>1, <1>2, <1>3
    <3> QED BY <1>1, <2>1, <3>1, Zenon DEF Contents, Published
  <2>3. InFlight' /\ Delivered'
    BY <1>1, <2>1, Zenon DEF Contents, InFlight, Delivered
  <2> QED BY <2>2, <2>3 DEF Contents
<1> QED BY SMTT(60), <1>4, <1>5, <1>6, <1>7, <1>8

\* Returning from try_pop leaves the ring alone.
LEMMA PopReturnInv == ASSUME RingInv, PopReturn PROVE RingInv'
<1> USE CapAssumption DEF RingInv, PopReturn, prodVars
<1>1. RingTypeOK'
  BY DEF RingTypeOK
<1>2. Positions'
  BY DEF Positions, Freed, RingTypeOK
<1>3. Lap'
  BY SMTT(60) DEF Lap, Freed
<1>4. Ownership'
  BY SMTT(60) DEF Ownership, Held, RingTypeOK
<1>5. Contents'
  BY DEF Contents, Published, InFlight, Delivered, RingTypeOK
<1> QED BY <1>1, <1>2, <1>3, <1>4, <1>5

\* The invariant speaks of the ring only.
LEMMA RingStutterInv == ASSUME RingInv, UNCHANGED ringVars PROVE RingInv'
<1> USE DEF ringVars, prodVars, consVars
<1>1. RingTypeOK' /\ Positions'
  BY SMTT(60) DEF RingInv, RingTypeOK, Positions, Freed
<1>2. Lap' /\ Ownership'
  <2>1. Freed' = Freed /\ \A p \in Producers : Held(p)' = Held(p)
    BY Zenon DEF Freed, Held
  <2>2. Lap'
    BY <2>1, Zenon DEF RingInv, Lap
  <2> QED BY <2>1, <2>2, Zenon DEF RingInv, Ownership
<1>3. Contents'
  BY DEF RingInv, Contents, Published, InFlight, Delivered
<1> QED BY SMTT(60), <1>1, <1>2, <1>3 DEF RingInv

-----------------------------------------------------------------------------
(* Theorems *)

\* Every access of push_impl and try_pop keeps the invariant.
LEMMA RingStepInv == ASSUME Cap > 1, RingInv, [RingNext]_ringVars PROVE RingInv'
<1>1. ASSUME NEW p \in Producers, NEW v \in Items, PushBegin(p, v) PROVE RingInv'
  BY <1>1, PushBeginInv
<1>2. ASSUME NEW p \in Producers, PushStep(p) PROVE RingInv'
  BY <1>2, PushLoadSeqInv, PushReloadInv, PushClaimInv, PushLoseInv,
     PushWriteInv, PushPublishInv DEF PushStep
<1>3. ASSUME NEW p \in Producers, Commit(p) \/ PushReturn(p) PROVE RingInv'
  BY <1>3, CommitInv, PushReturnInv
<1>4. ASSUME PopStep \/ PopReturn PROVE RingInv'
  BY <1>4, PopHitInv, PopMoveInv, PopFreeInv, PopReturnInv DEF PopStep
<1>5. ASSUME UNCHANGED ringVars PROVE RingInv'
  BY <1>5, RingStutterInv
<1> QED BY <1>1, <1>2, <1>3, <1>4, <1>5 DEF RingNext

\* The invariant bounds the ring and keeps the data accesses apart.
LEMMA RingInvImplies == ASSUME Cap > 1, RingInv PROVE Bounded /\ CellExclusive
<1>1. Bounded
  BY SMTT(60), CapAssumption DEF RingInv, Positions, Bounded, RingTypeOK, Freed
<1>2. CellExclusive
  <2> SUFFICES ASSUME NEW p \in Producers, rpc[p] \in {"write", "publish"}
               PROVE  /\ \A q \in Producers \ {p} : rpc[q] \in {"write", "publish"}
                                => Slot(rpos[q]) # Slot(rpos[p])
                      /\ cst = "move" => Slot(cpos) # Slot(rpos[p])
    BY SMTT(60) DEF CellExclusive
  <2>1. rpos[p] \in Held(p) /\ seq[Slot(rpos[p])] = rpos[p] /\ rpos[p] \in Nat /\ deq <= rpos[p]
    BY SMTT(60) DEF RingInv, Ownership, Held, RingTypeOK
  <2>2. ASSUME NEW q \in Producers \ {p}, rpc[q] \in {"write", "publish"}
        PROVE  Slot(rpos[q]) # Slot(rpos[p])
    <3>1. rpos[q] \in Held(q) /\ seq[Slot(rpos[q])] = rpos[q]
      <4>1. rpos[q] \in Held(q)
        BY <2>2, Zenon DEF Held
      <4>2. \A i \in Held(q) : seq[Slot(i)] = i
        BY Zenon DEF RingInv, Ownership
      <4> QED BY <4>1, <4>2, Zenon
    <3>2. rpos[q] # rpos[p]
      <4>1. Held(p) \cap Held(q) = {}
        BY Zenon DEF RingInv, Ownership
      <4> QED BY <2>1, <3>1, <4>1, Zenon
    <3> QED BY <2>1, <3>1, <3>2, Zenon
  <2>3. cst = "move" => Slot(cpos) # Slot(rpos[p])
    BY <2>1, SlotInj, CapAssumption DEF RingInv, Positions, RingTypeOK
  <2> QED BY <2>2, <2>3, Zenon
<1> QED BY <1>1, <1>2

\* Type correctness, the bound and the absence of races on cell->data hold for
\* any number of producers and any capacity above one.
THEOREM RingSafe == Cap > 1 => (RingSpec => [](RingTypeOK /\ Bounded /\ CellExclusive))
<1> SUFFICES ASSUME Cap > 1 PROVE RingSpec => [](RingTypeOK /\ Bounded /\ CellExclusive)
  OBVIOUS
<1>1. RingInit => RingInv
  BY RingInvInit
<1>2. RingInv /\ [RingNext]_ringVars => RingInv'
  BY RingStepInv
<1>3. RingInv => RingTypeOK /\ Bounded /\ CellExclusive
  BY RingInvImplies DEF RingInv
<1> QED BY <1>1, <1>2, <1>3, PTL DEF RingSpec

\* A cell number behind the position it is loaded for is not ahead of it.
LEMMA NotBelow == ASSUME NEW a \in Nat, NEW b \in Nat, NEW c \in Nat, c < a, a < b => c > a PROVE ~(a < b)
OBVIOUS

\* try_push fails only on a ring whose Cap cells are all claimed and unreturned:
\* a stale pos cannot make it report full.
THEOREM RingFullIsHonest == Cap > 1 => (RingSpec => FullIsHonest)
<1> SUFFICES ASSUME Cap > 1 PROVE RingSpec => FullIsHonest
  OBVIOUS
<1> DEFINE Honest == \A p \in Producers :
                       rpc[p] # "full" /\ rpc'[p] = "full" => enq - Freed = Cap
<1>1. RingInit => RingInv
  BY RingInvInit
<1>2. RingInv /\ [RingNext]_ringVars => RingInv'
  BY RingStepInv
<1>3. RingInv /\ [RingNext]_ringVars => [Honest]_ringVars
  <2> SUFFICES ASSUME RingInv, RingNext, NEW p \in Producers,
                      rpc[p] # "full", rpc'[p] = "full"
               PROVE  enq - Freed = Cap
    BY SMTT(60)
  <2>1. PushLoadSeq(p)
    <3>0. rpc \in [Producers -> {"out", "seq", "reload", "cas", "write", "publish", "ok", "full"}]
      BY DEF RingInv, RingTypeOK
    <3>1. ASSUME NEW q \in Producers, NEW x, x # "full", rpc' = [rpc EXCEPT ![q] = x]
          PROVE  FALSE
      BY <3>0, <3>1
    <3>2. rpc' # rpc
      OBVIOUS
    <3>3. ASSUME NEW q \in Producers, PushLoadSeq(q), q # p
          PROVE  FALSE
      <4>1. PICK x : rpc' = [rpc EXCEPT ![q] = x]
        BY <3>3 DEF PushLoadSeq
      <4> QED BY <4>1, <3>3, <3>0
    <3>4. ASSUME NEW q \in Producers, NEW v \in Items, PushBegin(q, v) PROVE FALSE
      BY <3>4, <3>1 DEF PushBegin
    <3>5. ASSUME NEW q \in Producers, PushReload(q) PROVE FALSE
      BY <3>5, <3>1 DEF PushReload
    <3>6. ASSUME NEW q \in Producers, PushClaim(q) PROVE FALSE
      BY <3>6, <3>1 DEF PushClaim
    <3>7. ASSUME NEW q \in Producers, PushLose(q) PROVE FALSE
      BY <3>7, <3>1 DEF PushLose
    <3>8. ASSUME NEW q \in Producers, PushWrite(q) PROVE FALSE
      BY <3>8, <3>1 DEF PushWrite
    <3>9. ASSUME NEW q \in Producers, PushPublish(q) PROVE FALSE
      BY <3>9, <3>1 DEF PushPublish
    <3>10. ASSUME NEW q \in Producers, Commit(q) PROVE FALSE
      BY <3>10, <3>2 DEF Commit
    <3>11. ASSUME NEW q \in Producers, PushReturn(q) PROVE FALSE
      BY <3>11, <3>1 DEF PushReturn
    <3>12. ~PopStep /\ ~PopReturn
      BY <3>2 DEF PopStep, PopHit, PopMove, PopFree, PopReturn, prodVars
    <3> QED BY <3>3, <3>4, <3>5, <3>6, <3>7, <3>8, <3>9, <3>10, <3>11, <3>12 DEF RingNext, PushStep
  <2>2. seq[Slot(rpos[p])] < rpos[p]
    <3>1. rpc \in [Producers -> {"out", "seq", "reload", "cas", "write", "publish", "ok", "full"}]
      BY Zenon DEF RingInv, RingTypeOK
    <3> QED BY <2>1, <3>1, SMTT(20) DEF PushLoadSeq
  <2>3. rpos[p] >= Freed + Cap
    <3>1. Freed \in Nat /\ rpos[p] \in Nat /\ enq \in Nat /\ seq[Slot(rpos[p])] \in Nat
      BY SMTT(60), SlotType DEF RingInv, RingTypeOK, Freed
    <3>2. ~(rpos[p] < Freed)
      <4>1. rpos[p] < Freed => seq[Slot(rpos[p])] > rpos[p]
        BY <3>1, Zenon DEF RingInv, Lap
      <4> QED BY <2>2, <3>1, <4>1, NotBelow, Zenon
    <3>3. ~(Freed <= rpos[p] /\ rpos[p] < Freed + Cap)
      BY SMTT(60), <2>2, <3>1, CapAssumption DEF RingInv, Lap
    <3> QED BY <3>1, <3>2, <3>3, CapAssumption
  <2>4. /\ Freed \in Nat /\ rpos[p] \in Nat /\ enq \in Nat
        /\ enq <= Freed + Cap /\ rpos[p] <= enq
    BY DEF RingInv, Positions, RingTypeOK, Freed
  <2> QED BY <2>3, <2>4, CapAssumption
<1> QED BY <1>1, <1>2, <1>3, PTL DEF RingSpec, FullIsHonest

\* What remains of a sequence after its first n elements, one element appended
\* and one element removed.
LEMMA RestAppend ==
  ASSUME NEW l \in Seq(Items), NEW v \in Items, NEW n \in 0 .. Len(l)
  PROVE  SubSeq(Append(l, v), n + 1, Len(l) + 1) = Append(SubSeq(l, n + 1, Len(l)), v)
<1> DEFINE r == SubSeq(l, n + 1, Len(l))
           t == SubSeq(Append(l, v), n + 1, Len(l) + 1)
<1>1. Len(l) \in Nat /\ n \in Nat /\ n <= Len(l)
  OBVIOUS
<1>2. /\ r \in Seq(Items) /\ Len(r) = Len(l) - n
      /\ \A i \in 1 .. Len(l) - n : r[i] = l[n + i]
  <2>1. \A i \in n + 1 .. Len(l) : l[i] \in Items
    BY <1>1, ElementOfSeq
  <2> QED BY <1>1, <2>1, SubSeqProperties
<1>3. /\ t \in Seq(Items) /\ Len(t) = Len(l) + 1 - n
      /\ \A i \in 1 .. Len(l) + 1 - n : t[i] = Append(l, v)[n + i]
  <2>1. \A i \in n + 1 .. Len(l) + 1 : Append(l, v)[i] \in Items
    <3>1. Append(l, v) \in Seq(Items) /\ Len(Append(l, v)) = Len(l) + 1
      BY SMTT(60), AppendProperties
    <3> QED BY SMTT(60), <1>1, <3>1, ElementOfSeq
  <2> QED BY SMTT(60), <1>1, <2>1, SubSeqProperties
<1>4. /\ Append(r, v) \in Seq(Items) /\ Len(Append(r, v)) = Len(l) + 1 - n
      /\ \A i \in 1 .. Len(l) - n : Append(r, v)[i] = r[i]
      /\ Append(r, v)[Len(l) + 1 - n] = v
  BY SMTT(60), <1>1, <1>2, AppendProperties
<1>5. /\ \A i \in 1 .. Len(l) : Append(l, v)[i] = l[i]
      /\ Append(l, v)[Len(l) + 1] = v
  BY SMTT(60), AppendProperties
<1> HIDE DEF r, t
<1>6. \A i \in 1 .. Len(t) : t[i] = Append(r, v)[i]
  <2> TAKE i \in 1 .. Len(t)
  <2>1. CASE i = Len(l) + 1 - n
    BY SMTT(60), <2>1, <1>1, <1>3, <1>4, <1>5
  <2>2. CASE i \in 1 .. Len(l) - n
    <3>1. n + i \in 1 .. Len(l)
      BY <2>2, <1>1
    <3>2. t[i] = l[n + i]
      BY SMTT(60), <2>2, <3>1, <1>1, <1>3, <1>5
    <3>3. Append(r, v)[i] = l[n + i]
      BY SMTT(60), <2>2, <1>1, <1>2, <1>4
    <3> QED BY SMTT(60), <3>2, <3>3
  <2>3. i = Len(l) + 1 - n \/ i \in 1 .. Len(l) - n
    BY <1>1, <1>3
  <2> QED BY ZenonT(60), <2>1, <2>2, <2>3
<1>7. t = Append(r, v)
  BY ZenonT(60), <1>3, <1>4, <1>6, SeqEqual
<1> QED BY ZenonT(60), <1>7 DEF r, t

\* Removing its head leaves what follows the first n + 1 elements.
LEMMA RestTail ==
  ASSUME NEW l \in Seq(Items), NEW n \in Nat, n < Len(l)
  PROVE  /\ SubSeq(l, n + 1, Len(l)) # << >>
         /\ Head(SubSeq(l, n + 1, Len(l))) = l[n + 1]
         /\ Tail(SubSeq(l, n + 1, Len(l))) = SubSeq(l, n + 2, Len(l))
<1>1. n + 1 \in 1 .. Len(l) /\ Len(l) \in n + 1 .. Len(l) /\ n + 1 + 1 = n + 2
  OBVIOUS
<1>2. Len(SubSeq(l, n + 1, Len(l))) = Len(l) - n /\ SubSeq(l, n + 1, Len(l)) \in Seq(Items)
  <2>1. \A i \in n + 1 .. Len(l) : l[i] \in Items
    BY ElementOfSeq
  <2> QED BY <1>1, <2>1, SubSeqProperties
<1>3. SubSeq(l, n + 1, Len(l)) # << >>
  <2>1. Len(l) - n # 0 /\ Len(<< >>) = 0
    OBVIOUS
  <2>2. Len(SubSeq(l, n + 1, Len(l))) # Len(<< >>)
    BY SMTT(60), <1>2, <2>1
  <2> QED BY <2>2, Zenon
<1>4. /\ Head(SubSeq(l, n + 1, Len(l))) = l[n + 1]
      /\ Tail(SubSeq(l, n + 1, Len(l))) = SubSeq(l, n + 1 + 1, Len(l))
  BY <1>1, HeadTailOfSubSeq
<1> QED BY <1>1, <1>3, <1>4

\* The ring implements the bounded FIFO queue: the claim is the enqueue, the
\* move out of the cell is the dequeue, every other access is a stutter.
THEOREM RingRefinesTaskQueue == Cap > 1 => (RingSpec => RefinesTaskQueue)
<1> SUFFICES ASSUME Cap > 1 PROVE RingSpec => TQ!QSpec
  BY DEF RefinesTaskQueue
<1> DEFINE q == SubSeq(log, Len(outs) + 1, Len(log))
<1>1. RingInit => RingInv /\ TQ!QInit
  <2> SUFFICES ASSUME RingInit PROVE TQ!QInit
    BY RingInvInit
  <2> QED BY SubSeqEmpty DEF RingInit, TQ!QInit
<1>2. RingInv /\ [RingNext]_ringVars => RingInv'
  BY RingStepInv
<1>3. RingInv /\ [RingNext]_ringVars => [TQ!QNext]_<<q, outs>>
  <2> SUFFICES ASSUME RingInv, [RingNext]_ringVars PROVE [TQ!QNext]_<<q, outs>>
    OBVIOUS
  <2> USE CapAssumption
  <2>1. CASE \E p \in Producers : PushClaim(p)
    <3> PICK p \in Producers : PushClaim(p)
      BY SMTT(60), <2>1
    <3>1. /\ log \in Seq(Items) /\ ritem[p] \in Items /\ log' = Append(log, ritem[p])
          /\ outs' = outs /\ Len(outs) \in 0 .. Len(log) /\ Len(log) - Len(outs) < Cap
      <4>1. /\ log \in Seq(Items) /\ ritem[p] \in Items /\ log' = Append(log, ritem[p])
            /\ outs' = outs
        BY SMTT(60) DEF PushClaim, consVars, RingInv, RingTypeOK
      <4>2. enq \in Nat /\ Len(log) = enq /\ enq < Freed + Cap
        BY SMTT(60) DEF PushClaim, RingInv, RingTypeOK, Positions
      <4>3. Freed \in Nat /\ Len(outs) \in Nat /\ Freed <= Len(outs) /\ Len(outs) <= enq
        BY DEF RingInv, RingTypeOK, Positions, Freed
      <4> QED BY SMTT(60), <4>1, <4>2, <4>3
    <3>2. q' = Append(q, ritem[p])
      <4>1. Len(log') = Len(log) + 1
        BY <3>1, AppendProperties
      <4> QED BY ZenonT(60), <3>1, <4>1, RestAppend
    <3>3. Len(q) < Cap
      <4>1. \A i \in Len(outs) + 1 .. Len(log) : log[i] \in Items
        BY <3>1, ElementOfSeq
      <4> QED BY SMTT(60), <3>1, <4>1, SubSeqProperties
    <3> QED BY ZenonT(60), <3>1, <3>2, <3>3 DEF TQ!QNext, TQ!Enqueue
  <2>2. CASE PopMove
    <3>1. /\ log \in Seq(Items) /\ log' = log /\ Len(outs) \in Nat /\ Len(outs) < Len(log)
          /\ cout' = log[Len(outs) + 1] /\ outs' = Append(outs, cout')
          /\ outs \in Seq(Items) /\ cout' \in Items
      <4>1. /\ log \in Seq(Items) /\ log' = log /\ outs \in Seq(Items)
            /\ outs' = Append(outs, cout') /\ cout' = data[Slot(cpos)] /\ cpos \in Nat
        BY SMTT(60), <2>2 DEF PopMove, RingInv, RingTypeOK
      <4>2. Len(outs) = cpos /\ cpos < enq /\ Len(log) = enq /\ seq[Slot(cpos)] = cpos + 1
        BY <2>2 DEF PopMove, RingInv, RingTypeOK, Positions
      <4>3. cout' = log[cpos + 1]
        <5>1. Len(outs) <= cpos /\ cpos < enq
          BY <4>1, <4>2
        <5>2. data[Slot(cpos)] = log[cpos + 1]
          BY <4>1, <4>2, <5>1, Zenon DEF RingInv, Contents, Published
        <5> QED BY <4>1, <5>2
      <4>4. cpos + 1 \in 1 .. Len(log)
        BY SMTT(60), <4>1, <4>2 DEF RingInv, RingTypeOK
      <4>5. cout' \in Items
        BY SMTT(60), <4>1, <4>3, <4>4, ElementOfSeq
      <4> QED BY SMTT(60), <4>1, <4>2, <4>3, <4>5
    <3>2. Len(outs') = Len(outs) + 1
      BY <3>1, AppendProperties
    <3>3. q # << >> /\ Head(q) = log[Len(outs) + 1] /\ q' = Tail(q)
      <4>1. Len(outs') + 1 = Len(outs) + 2
        BY <3>1, <3>2
      <4> QED BY ZenonT(60), <3>1, <4>1, RestTail
    <3> QED BY SMTT(60), <3>1, <3>3 DEF TQ!QNext, TQ!Dequeue
  <2>3. CASE ~PopMove /\ ~(\E p \in Producers : PushClaim(p))
    <3>1. log' = log /\ outs' = outs
      <4>1. ASSUME NEW p \in Producers, NEW v \in Items, PushBegin(p, v)
            PROVE  log' = log /\ outs' = outs
        BY SMTT(60), <4>1 DEF PushBegin, consVars
      <4>2. ASSUME NEW p \in Producers, PushStep(p) PROVE log' = log /\ outs' = outs
        BY <4>2, <2>3, Zenon DEF PushStep, PushLoadSeq, PushReload, PushLose, PushWrite,
                          PushPublish, consVars
      <4>3. ASSUME NEW p \in Producers, Commit(p) \/ PushReturn(p)
            PROVE  log' = log /\ outs' = outs
        BY <4>3 DEF Commit, PushReturn, consVars
      <4>4. ASSUME PopStep \/ PopReturn PROVE log' = log /\ outs' = outs
        BY <4>4, <2>3 DEF PopStep, PopHit, PopFree, PopReturn
      <4>5. UNCHANGED ringVars => log' = log /\ outs' = outs
        BY DEF ringVars, consVars
      <4> QED BY <4>1, <4>2, <4>3, <4>4, <4>5 DEF RingNext
    <3> QED BY <3>1
  <2> QED BY <2>1, <2>2, <2>3
<1> QED BY <1>1, <1>2, <1>3, PTL DEF RingSpec, TQ!QSpec
=============================================================================
