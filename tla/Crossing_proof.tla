--------------------------- MODULE Crossing_proof ---------------------------
(***************************************************************************)
(* Proofs about what crosses from one thread to another by posting a task. *)
(* SpscChannel, for every size of the ring, the mailbox and the batches:   *)
(* values leave the ring once and in order, and one that stays behind in a *)
(* quiet channel has one of the named reasons.  Resolver, for any number   *)
(* of requests and any timeouts: a request is answered at most once.       *)
(***************************************************************************)
EXTENDS SpscChannel, Resolver, SequenceTheorems, TLAPS

(* SpscChannel: the parts of the inductive invariant *)

\* What the producer is about to publish is in its cells.
Written == ppc = "publish" => \A i \in 1 .. Len(pvals) : buf[Cell(tail + i - 1)] = pvals[i]

RingInv == SpscTypeOK /\ BatchStable /\ SpscFifo /\ Written

\* The ring's two sides are in use only while their threads are in it.
RingUse ==
  /\ spc \in {"idle", "pushing", "poke", "post"} /\ rx \in {"idle", "load", "batch"}
  /\ ppc # "out" <=> spc = "pushing"
  /\ dpc = "batch" <=> rx = "batch"

\* Somebody is going to see to the values in the ring.
Attended ==
  \/ spc \in {"poke", "post"} \/ Queued("drain") \/ rx = "load"
  \/ rx = "batch" /\ dn = tail - head

\* With a receiver they are seen to; without one only a push that has not poked yet may be.
SeenTo ==
  /\ attached /\ head # tail /\ missed = {} => Attended
  /\ ~attached => /\ spc # "post" /\ rx # "batch"
                  /\ head # tail /\ missed = {} => spc = "poke"

SpscInv == ChanTypeOK /\ RingInv /\ RingUse /\ FlagHonest /\ SeenTo

-----------------------------------------------------------------------------
(* Cells of the ring *)

\* A remainder is unique.
LEMMA RemainderUnique ==
  ASSUME NEW k \in 0 .. Size - 1, NEW d \in Int
  PROVE  Cell(k - Size * d) = k
<1> DEFINE x == k - Size * d
           e == x \div Size
           r == x % Size
<1>1. Size \in Nat /\ Size > 0 /\ x \in Int /\ Size * d \in Int
  BY SizeAssumption
<1>2. e \in Int /\ r \in 0 .. Size - 1 /\ x = Size * e + r
  BY <1>1
<1> HIDE DEF e, r
<1>3. Size * (d + e) = k - r
  BY <1>1, <1>2
<1>4. d + e = 0
  <2>1. CASE d + e >= 1
    <3>1. Size * (d + e) >= Size
      BY <1>1, <1>2, <2>1
    <3> QED BY <1>1, <1>2, <1>3, <3>1
  <2>2. CASE d + e <= -1
    <3>1. Size * (d + e) <= -Size
      BY <1>1, <1>2, <2>2
    <3> QED BY <1>1, <1>2, <1>3, <3>1
  <2> QED BY <1>2, <2>1, <2>2
<1>5. r = k
  BY <1>1, <1>2, <1>3, <1>4
<1> QED BY <1>5 DEF Cell, r

\* The place of an index in the bulk that starts at t: try_push_bulk writes the cells that
\* follow t, and within a lap no others.
LEMMA CellPlace ==
  ASSUME NEW t \in Nat, NEW j \in Nat, NEW k \in 0 .. Size - 1, j - t = k \/ j - t = k - Size
  PROVE  Cell(j) \in Cells /\ Cell(Cell(j) - t) = k
<1> DEFINE q == j \div Size
<1>1. /\ Size \in Nat /\ Size > 0 /\ q \in Int /\ j = Size * q + Cell(j)
      /\ Cell(j) \in 0 .. Size - 1 /\ Size * q \in Int
  BY SizeAssumption DEF Cell
<1> HIDE DEF q
<1>2. CASE j - t = k
  <2>1. Cell(j) - t = k - Size * q
    <3>1. \A w, x \in Int : j = w + x => x - t = k - w
      <4>1. k \in Int /\ t + k = j
        BY <1>1, <1>2
      <4> QED BY <4>1
    <3>2. Cell(j) \in Int
      BY <1>1
    <3> QED BY <1>1, <3>1, <3>2, Zenon
  <2>2. Cell(k - Size * q) = k
    BY <1>1, RemainderUnique, Zenon
  <2> QED BY <1>1, <2>1, <2>2 DEF Cells
<1>3. CASE j - t = k - Size
  <2>1. Cell(j) - t = k - Size * (q + 1)
    BY <1>1, <1>3
  <2>2. q + 1 \in Int
    BY <1>1
  <2>3. Cell(k - Size * (q + 1)) = k
    BY <2>2, RemainderUnique, Zenon
  <2> QED BY <1>1, <2>1, <2>3 DEF Cells
<1> QED BY <1>2, <1>3

-----------------------------------------------------------------------------
(* Sequences *)

\* A function on 1 .. n is a sequence.
LEMMA FcnIsSeq ==
  ASSUME NEW S, NEW n \in Nat, NEW f \in [1 .. n -> S]
  PROVE  f \in Seq(S) /\ Len(f) = n
  OBVIOUS

-----------------------------------------------------------------------------
(* The ring *)

LEMMA RingStays == ASSUME RingInv, UNCHANGED spscVars PROVE RingInv'
<1>1. /\ UNCHANGED <<head, tail, buf, ppc, pvals>>
      /\ UNCHANGED <<dpc, dn, pushed, outs>>
  BY Zenon DEF spscVars
<1> QED BY <1>1, Zenon DEF RingInv, SpscTypeOK, BatchStable, SpscFifo, Written

\* A bulk that is begun fits into the room there is.
LEMMA PushLoadRing == ASSUME RingInv, NEW vs \in Bulks, PushLoad(vs) PROVE RingInv'
<1>1. /\ ppc = "out" /\ Room > 0 /\ ppc' = "write"
      /\ pvals' = SubSeq(vs, 1, Least(Len(vs), Room))
      /\ UNCHANGED <<head, tail, buf, dpc, dn, pushed, outs>>
  BY Zenon DEF PushLoad
<1>2. SpscTypeOK /\ BatchStable /\ SpscFifo /\ Written
  BY Zenon DEF RingInv
<1>3. head \in Nat /\ tail \in Nat /\ Size \in Nat /\ Room \in Nat
  BY <1>1, <1>2, SizeAssumption DEF SpscTypeOK, Room
<1>4. vs \in Seq(Vals)
  BY ValsAssumption DEF Bulks
<1>5. Least(Len(vs), Room) \in 0 .. Len(vs) /\ Least(Len(vs), Room) <= Room
  BY <1>3, <1>4 DEF Least
<1>6. SubSeq(vs, 1, Least(Len(vs), Room)) \in Seq(Vals)
      /\ Len(SubSeq(vs, 1, Least(Len(vs), Room))) = Least(Len(vs), Room)
  BY <1>4, <1>5, SubSeqProperties
<1>7. SpscTypeOK'
  BY <1>1, <1>2, <1>3, <1>5, <1>6 DEF SpscTypeOK, Room
<1>8. BatchStable' /\ SpscFifo'
  BY <1>1, <1>2, Zenon DEF BatchStable, SpscFifo
<1>9. Written'
  BY <1>1 DEF Written
<1> QED BY <1>7, <1>8, <1>9 DEF RingInv

\* The cells of the bulk are those behind tail_: none of them holds a value that is published.
LEMMA SpscWriteRing == ASSUME RingInv, SpscWrite PROVE RingInv'
<1>1. /\ ppc = "write" /\ ppc' = "publish" /\ UNCHANGED <<head, tail, pvals, dpc, dn, pushed, outs>>
      /\ buf' = [c \in Cells |-> LET i == Cell(c - tail)
                                 IN  IF i < Len(pvals) THEN pvals[i + 1] ELSE buf[c]]
  BY Zenon DEF SpscWrite
<1>2. SpscTypeOK /\ BatchStable /\ SpscFifo /\ Written
  BY Zenon DEF RingInv
<1>3. /\ head \in Nat /\ tail \in Nat /\ Size \in Nat /\ head <= tail /\ tail - head <= Size
      /\ pvals \in Seq(Vals) /\ Len(pvals) \in Nat /\ Len(pvals) <= Size - (tail - head)
  BY <1>2, SizeAssumption DEF SpscTypeOK
<1>4. SpscTypeOK'
  <2>1. \A c \in Cells : Cell(c - tail) \in Nat
    BY <1>3, SizeAssumption DEF Cell, Cells
  <2>2. \A i \in Nat : i < Len(pvals) => pvals[i + 1] \in Vals
    BY <1>3
  <2>3. buf \in [Cells -> Vals \cup {NoVal}]
    BY <1>2 DEF SpscTypeOK
  <2>4. buf' \in [Cells -> Vals \cup {NoVal}]
    BY <1>1, <2>1, <2>2, <2>3
  <2> QED BY <1>1, <1>2, <2>4 DEF SpscTypeOK
<1>5. BatchStable'
  <2>1. ASSUME NEW j \in head .. tail - 1 PROVE buf'[Cell(j)] = pushed[j + 1]
    <3> DEFINE k == j - tail + Size
    <3>1. j \in Nat /\ k \in 0 .. Size - 1 /\ j - tail = k - Size /\ k >= Len(pvals)
      BY <1>3
    <3> HIDE DEF k
    <3>2. Cell(j) \in Cells /\ Cell(Cell(j) - tail) = k
      BY <1>3, <3>1, CellPlace
    <3>3. buf'[Cell(j)] = buf[Cell(j)]
      BY <1>1, <1>3, <3>1, <3>2
    <3> QED BY <1>2, <3>3 DEF BatchStable
  <2> QED BY <1>1, <2>1, Zenon DEF BatchStable
<1>6. SpscFifo'
  BY <1>1, <1>2, Zenon DEF SpscFifo
<1>7. Written'
  <2>1. ASSUME NEW i \in 1 .. Len(pvals) PROVE buf'[Cell(tail + i - 1)] = pvals[i]
    <3>1. /\ tail + i - 1 \in Nat /\ i - 1 \in 0 .. Size - 1 /\ tail + i - 1 - tail = i - 1
          /\ i - 1 < Len(pvals) /\ i - 1 + 1 = i
      BY <1>3
    <3>2. Cell(tail + i - 1) \in Cells /\ Cell(Cell(tail + i - 1) - tail) = i - 1
      BY <1>3, <3>1, CellPlace
    <3> QED BY <1>1, <3>1, <3>2
  <2> QED BY <1>1, <2>1, Zenon DEF Written
<1> QED BY <1>4, <1>5, <1>6, <1>7 DEF RingInv

\* What is published is what was written.
LEMMA SpscPublishRing == ASSUME RingInv, SpscPublish PROVE RingInv'
<1>1. /\ ppc = "publish" /\ ppc' = "out" /\ pvals' = << >>
      /\ tail' = tail + Len(pvals) /\ pushed' = pushed \o pvals
      /\ UNCHANGED <<head, buf, dpc, dn, outs>>
  BY Zenon DEF SpscPublish
<1>2. SpscTypeOK /\ BatchStable /\ SpscFifo /\ Written
  BY Zenon DEF RingInv
<1>3. /\ head \in Nat /\ tail \in Nat /\ head <= tail
      /\ pvals \in Seq(Vals) /\ Len(pvals) \in Nat /\ pushed \in Seq(Vals) /\ Len(pushed) = tail
  BY <1>2 DEF SpscTypeOK
<1>4. /\ pushed' \in Seq(Vals) /\ Len(pushed') = tail + Len(pvals)
      /\ \A i \in 1 .. tail : pushed'[i] = pushed[i]
      /\ \A i \in 1 .. Len(pvals) : pushed'[tail + i] = pvals[i]
  <2>1. pushed \in Seq(Vals) /\ pvals \in Seq(Vals)
    BY <1>3
  <2>2. /\ pushed \o pvals \in Seq(Vals) /\ Len(pushed \o pvals) = Len(pushed) + Len(pvals)
        /\ \A i \in 1 .. Len(pushed) : (pushed \o pvals)[i] = pushed[i]
        /\ \A i \in 1 .. Len(pvals) : (pushed \o pvals)[Len(pushed) + i] = pvals[i]
    BY <2>1
  <2> QED BY <1>1, <1>3, <2>2, Zenon
<1>5. SpscTypeOK'
  <2>0. head' = head /\ tail' = tail + Len(pvals) /\ pvals' = << >> /\ dn' = dn
    BY <1>1, Zenon
  <2>1. << >> \in Seq(Vals) /\ Len(<< >>) = 0
    OBVIOUS
  <2>2. Len(pvals) <= Size - (tail - head) /\ dn \in 0 .. tail - head
    BY <1>2, Zenon DEF SpscTypeOK
  <2>3. /\ tail + Len(pvals) \in Nat /\ 0 <= Size - (tail + Len(pvals) - head)
        /\ dn \in 0 .. tail + Len(pvals) - head
    BY <1>3, <2>2, SizeAssumption
  <2>4. head' \in Nat /\ tail' \in Nat /\ dn' \in 0 .. tail' - head'
    BY <1>3, <2>3, <2>0
  <2>5. pvals' \in Seq(Vals) /\ Len(pvals') <= Size - (tail' - head')
    <3>1. pvals' \in Seq(Vals) /\ Len(pvals') = 0
      BY <2>0, <2>1, Zenon
    <3>2. 0 <= Size - (tail' - head')
      BY <1>3, <2>0, <2>3, SizeAssumption
    <3> QED BY <3>1, <3>2, Zenon
  <2>6. pushed' \in Seq(Vals) /\ Len(pushed') = tail'
    BY <1>1, <1>4, Zenon
  <2>7. /\ buf' \in [Cells -> Vals \cup {NoVal}]
        /\ ppc' \in {"out", "write", "publish"} /\ dpc' \in {"out", "batch"}
        /\ outs' \in Seq(Vals \cup {NoVal})
    BY <1>1, <1>2, Zenon DEF SpscTypeOK
  <2> QED BY <2>4, <2>5, <2>6, <2>7, Zenon DEF SpscTypeOK
<1>6. BatchStable'
  <2>1. ASSUME NEW j \in head .. tail' - 1 PROVE buf[Cell(j)] = pushed'[j + 1]
    <3>1. CASE j < tail
      <4>1. j \in head .. tail - 1 /\ j + 1 \in 1 .. tail
        BY <1>3, <3>1
      <4> QED BY <1>2, <1>4, <4>1 DEF BatchStable
    <3>2. CASE j >= tail
      <4> DEFINE i == j - tail + 1
      <4>1. i \in 1 .. Len(pvals) /\ tail + i - 1 = j /\ tail + i = j + 1
        BY <1>1, <1>3, <3>2
      <4> HIDE DEF i
      <4>2. buf[Cell(tail + i - 1)] = pvals[i] /\ pushed'[tail + i] = pvals[i]
        BY <1>1, <1>2, <1>4, <4>1, Zenon DEF Written
      <4> QED BY <4>1, <4>2
    <3>3. j < tail \/ j >= tail
      BY <1>1, <1>3
    <3> QED BY <3>1, <3>2, <3>3
  <2> QED BY <1>1, <2>1, Zenon DEF BatchStable
<1>7. SpscFifo'
  <2>1. \A i \in 1 .. head : i \in 1 .. tail
    BY <1>3
  <2> QED BY <1>1, <1>2, <1>4, <2>1, Zenon DEF SpscFifo
<1>8. Written'
  BY <1>1 DEF Written
<1> QED BY <1>5, <1>6, <1>7, <1>8 DEF RingInv

\* A drain claims no more than there is.
LEMMA DrainBeginRing ==
  ASSUME RingInv, drain_contiguous(MaxDrain)
  PROVE  RingInv' /\ dpc' = "batch" /\ dn' = ContiguousLen(MaxDrain)
<1>1. /\ dn' = ContiguousLen(MaxDrain) /\ ContiguousLen(MaxDrain) > 0 /\ dpc' = "batch"
      /\ UNCHANGED <<head, tail, buf, ppc, pvals, pushed, outs>>
  BY Zenon DEF drain_contiguous, DrainBegin
<1>2. SpscTypeOK /\ BatchStable /\ SpscFifo /\ Written
  BY Zenon DEF RingInv
<1>3. head \in Nat /\ tail \in Nat /\ Cell(head) \in 0 .. Size - 1
  BY <1>2, SizeAssumption DEF SpscTypeOK, Cell
<1>4. ContiguousLen(MaxDrain) \in 0 .. tail - head
  BY <1>1, <1>3, SizeAssumption, DrainAssumption DEF ContiguousLen, Least
<1>5. SpscTypeOK'
  BY <1>1, <1>2, <1>4 DEF SpscTypeOK
<1>6. BatchStable' /\ SpscFifo' /\ Written'
  BY <1>1, <1>2, Zenon DEF BatchStable, SpscFifo, Written
<1> QED BY <1>1, <1>5, <1>6 DEF RingInv

\* What the callback was handed is what was pushed next.
LEMMA DrainEndRing == ASSUME RingInv, DrainEnd PROVE RingInv'
<1> DEFINE batch == [i \in 1 .. dn |-> buf[Cell(head + i - 1)]]
<1>1. /\ outs' = outs \o batch /\ head' = head + dn /\ dpc' = "out" /\ dn' = 0
      /\ UNCHANGED <<tail, buf, ppc, pvals, pushed>>
  BY Zenon DEF DrainEnd
<1>2. SpscTypeOK /\ BatchStable /\ SpscFifo /\ Written
  BY Zenon DEF RingInv
<1>3. /\ head \in Nat /\ tail \in Nat /\ dn \in Nat /\ head + dn <= tail
      /\ outs \in Seq(Vals \cup {NoVal}) /\ Len(outs) = head
  BY <1>2 DEF SpscTypeOK, SpscFifo
<1>4. \A i \in 1 .. dn : head + i - 1 \in head .. tail - 1 /\ Cell(head + i - 1) \in Cells
  BY <1>3, SizeAssumption DEF Cell, Cells
<1>5. batch \in Seq(Vals \cup {NoVal}) /\ Len(batch) = dn
  <2>1. \A i \in 1 .. dn : buf[Cell(head + i - 1)] \in Vals \cup {NoVal}
    BY <1>2, <1>4 DEF SpscTypeOK
  <2>2. batch \in [1 .. dn -> Vals \cup {NoVal}]
    BY <2>1, Zenon
  <2> QED BY <1>3, <2>2, FcnIsSeq, Zenon
<1>6. \A i \in 1 .. dn : batch[i] = pushed[head + i]
  <2>1. ASSUME NEW i \in 1 .. dn PROVE batch[i] = pushed[head + i]
    <3>1. batch[i] = buf[Cell(head + i - 1)]
      BY Zenon
    <3>2. buf[Cell(head + i - 1)] = pushed[head + i - 1 + 1]
      BY <1>2, <1>4, Zenon DEF BatchStable
    <3>3. head + i - 1 + 1 = head + i
      BY <1>3
    <3> QED BY <3>1, <3>2, <3>3, Zenon
  <2> QED BY <2>1
<1> HIDE DEF batch
<1>7. /\ outs' \in Seq(Vals \cup {NoVal}) /\ Len(outs') = head + dn
      /\ \A i \in 1 .. head : outs'[i] = outs[i]
      /\ \A i \in 1 .. dn : outs'[head + i] = batch[i]
  <2>1. outs \in Seq(Vals \cup {NoVal}) /\ batch \in Seq(Vals \cup {NoVal})
    BY <1>3, <1>5
  <2>2. /\ outs \o batch \in Seq(Vals \cup {NoVal}) /\ Len(outs \o batch) = Len(outs) + Len(batch)
        /\ \A i \in 1 .. Len(outs) : (outs \o batch)[i] = outs[i]
        /\ \A i \in 1 .. Len(batch) : (outs \o batch)[Len(outs) + i] = batch[i]
    BY <2>1
  <2> QED BY <1>1, <1>3, <1>5, <2>2, Zenon
<1>8. SpscTypeOK'
  BY <1>1, <1>2, <1>3, <1>7, SizeAssumption DEF SpscTypeOK
<1>9. BatchStable' /\ Written'
  <2>1. \A i \in head + dn .. tail - 1 : i \in head .. tail - 1
    BY <1>3
  <2> QED BY <1>1, <1>2, <2>1, Zenon DEF BatchStable, Written
<1>10. SpscFifo'
  <2>1. ASSUME NEW i \in 1 .. head + dn PROVE outs'[i] = pushed[i]
    <3>1. CASE i <= head
      <4>1. i \in 1 .. head
        BY <1>3, <3>1
      <4> QED BY <1>2, <1>7, <4>1 DEF SpscFifo
    <3>2. CASE i > head
      <4>1. i - head \in 1 .. dn /\ head + (i - head) = i
        BY <1>3, <3>2
      <4>2. outs'[head + (i - head)] = pushed[head + (i - head)]
        BY <1>6, <1>7, <4>1, Zenon
      <4> QED BY <4>1, <4>2
    <3> QED BY <1>3, <3>1, <3>2
  <2> QED BY <1>1, <1>7, <2>1, Zenon DEF SpscFifo
<1> QED BY <1>8, <1>9, <1>10 DEF RingInv

-----------------------------------------------------------------------------
(* The mailbox *)

\* A task joins those that are queued.
LEMMA MboxAppend ==
  ASSUME ChanTypeOK, NEW t \in {"drain", "other"}, Len(mbox) < MboxCap, mbox' = Append(mbox, t)
  PROVE  /\ mbox' \in Seq({"drain", "other"}) /\ Len(mbox') <= MboxCap
         /\ Queued("drain") => Queued("drain")'
         /\ t = "drain" => Queued("drain")'
<1>1. mbox \in Seq({"drain", "other"}) /\ Len(mbox) \in Nat /\ DOMAIN mbox = 1 .. Len(mbox)
  BY DEF ChanTypeOK
<1>2. /\ mbox' \in Seq({"drain", "other"}) /\ Len(mbox') = Len(mbox) + 1
      /\ DOMAIN mbox' = 1 .. Len(mbox) + 1 /\ mbox'[Len(mbox) + 1] = t
      /\ \A i \in 1 .. Len(mbox) : mbox'[i] = mbox[i]
  BY <1>1
<1>3. Len(mbox') <= MboxCap
  BY <1>1, <1>2, ChannelAssumption
<1>4. /\ \A i \in 1 .. Len(mbox) : i \in 1 .. Len(mbox) + 1
      /\ Len(mbox) + 1 \in 1 .. Len(mbox) + 1
  BY <1>1
<1> QED BY <1>1, <1>2, <1>3, <1>4, Zenon DEF Queued

\* Running another task takes no drain out of the queue.
LEMMA MboxTail ==
  ASSUME ChanTypeOK, mbox # << >>, mbox' = Tail(mbox)
  PROVE  /\ mbox' \in Seq({"drain", "other"}) /\ Len(mbox') <= MboxCap
         /\ Head(mbox) = "other" /\ Queued("drain") => Queued("drain")'
<1>1. /\ mbox \in Seq({"drain", "other"}) /\ Len(mbox) \in Nat /\ DOMAIN mbox = 1 .. Len(mbox)
      /\ Len(mbox) <= MboxCap
  BY DEF ChanTypeOK
<1>2. /\ mbox' \in Seq({"drain", "other"}) /\ Len(mbox') = Len(mbox) - 1 /\ Len(mbox) > 0
      /\ DOMAIN mbox' = 1 .. Len(mbox) - 1 /\ Head(mbox) = mbox[1]
      /\ \A i \in 1 .. Len(mbox) - 1 : mbox'[i] = mbox[i + 1]
  BY <1>1
<1>3. Len(mbox') <= MboxCap
  BY <1>1, <1>2, ChannelAssumption
<1>4. ASSUME Head(mbox) = "other", Queued("drain") PROVE Queued("drain")'
  <2>1. PICK i \in 1 .. Len(mbox) : mbox[i] = "drain"
    BY <1>1, <1>4, Zenon DEF Queued
  <2>2. i # 1
    BY <1>2, <1>4, <2>1
  <2>3. i - 1 \in DOMAIN mbox' /\ mbox'[i - 1] = mbox[i]
    BY <1>1, <1>2, <2>2
  <2> QED BY <2>1, <2>3, Zenon DEF Queued
<1> QED BY <1>2, <1>3, <1>4

\* The queue of the mailbox as it was.
LEMMA MboxStays == ASSUME UNCHANGED mbox PROVE Queued("drain")' <=> Queued("drain")
  BY Zenon DEF Queued

-----------------------------------------------------------------------------
(* The producer *)

LEMMA PushInv == ASSUME SpscInv, NEW vs \in Bulks, push(vs) PROVE SpscInv'
<1>1. /\ spc = "idle" /\ PushLoad(vs) /\ spc' = "pushing" /\ UNCHANGED rx
      /\ UNCHANGED <<attached, dposted, fbuf, mbox, missed>>
  BY Zenon DEF push, chanVars
<1>2. ChanTypeOK /\ RingInv /\ RingUse /\ FlagHonest /\ SeenTo
  BY Zenon DEF SpscInv
<1>3. RingInv'
  BY <1>1, <1>2, PushLoadRing, Zenon
<1>4. ppc' = "write" /\ UNCHANGED <<head, tail, dpc, dn>>
  BY <1>1, Zenon DEF PushLoad
<1>5. Queued("drain")' <=> Queued("drain")
  BY <1>1, MboxStays
<1>6. ChanTypeOK'
  BY <1>1, <1>2, Zenon DEF ChanTypeOK
<1>7. RingUse'
  BY <1>1, <1>2, <1>4 DEF RingUse
<1>8. FlagHonest'
  BY <1>1, <1>2, <1>5, Zenon DEF FlagHonest, DrainLost
<1>9. SeenTo'
  BY <1>1, <1>2, <1>4, <1>5, Zenon DEF SeenTo, Attended
<1> QED BY <1>3, <1>6, <1>7, <1>8, <1>9 DEF SpscInv

LEMMA PushWriteInv == ASSUME SpscInv, PushWrite PROVE SpscInv'
<1>1. SpscWrite /\ UNCHANGED <<spc, rx>> /\ UNCHANGED <<attached, dposted, fbuf, mbox, missed>>
  BY Zenon DEF PushWrite, chanVars
<1>2. ChanTypeOK /\ RingInv /\ RingUse /\ FlagHonest /\ SeenTo
  BY Zenon DEF SpscInv
<1>3. RingInv'
  BY <1>1, <1>2, SpscWriteRing, Zenon
<1>4. ppc = "write" /\ ppc' = "publish" /\ UNCHANGED <<head, tail, dpc, dn>>
  BY <1>1, Zenon DEF SpscWrite
<1>5. Queued("drain")' <=> Queued("drain")
  BY <1>1, MboxStays
<1>6. ChanTypeOK'
  BY <1>1, <1>2, Zenon DEF ChanTypeOK
<1>7. RingUse'
  BY <1>1, <1>2, <1>4 DEF RingUse
<1>8. FlagHonest'
  BY <1>1, <1>2, <1>5, Zenon DEF FlagHonest, DrainLost
<1>9. SeenTo'
  BY <1>1, <1>2, <1>4, <1>5, Zenon DEF SeenTo, Attended
<1> QED BY <1>3, <1>6, <1>7, <1>8, <1>9 DEF SpscInv

LEMMA PushPublishInv == ASSUME SpscInv, PushPublish PROVE SpscInv'
<1>1. SpscPublish /\ spc' = "poke" /\ UNCHANGED rx /\ UNCHANGED <<attached, dposted, fbuf, mbox, missed>>
  BY Zenon DEF PushPublish, chanVars
<1>2. ChanTypeOK /\ RingInv /\ RingUse /\ FlagHonest /\ SeenTo
  BY Zenon DEF SpscInv
<1>3. RingInv'
  BY <1>1, <1>2, SpscPublishRing, Zenon
<1>4. ppc = "publish" /\ ppc' = "out" /\ UNCHANGED <<head, dpc, dn>>
  BY <1>1, Zenon DEF SpscPublish
<1>5. Queued("drain")' <=> Queued("drain")
  BY <1>1, MboxStays
<1>6. ChanTypeOK'
  BY <1>1, <1>2, Zenon DEF ChanTypeOK
<1>7. RingUse'
  BY <1>1, <1>2, <1>4 DEF RingUse
<1>8. FlagHonest'
  <2>1. spc # "post"
    BY <1>2, <1>4 DEF RingUse
  <2> QED BY <1>1, <1>2, <1>5, <2>1, Zenon DEF FlagHonest, DrainLost
<1>9. SeenTo'
  BY <1>1, <1>2, Zenon DEF SeenTo, Attended
<1> QED BY <1>3, <1>6, <1>7, <1>8, <1>9 DEF SpscInv

\* A poke that does not post finds a drain that is queued, or notes why it may miss.
LEMMA PokeInv == ASSUME SpscInv, Poke PROVE SpscInv'
<1>1. /\ spc = "poke" /\ spc' = IF PokePosts THEN "post" ELSE "idle"
      /\ UNCHANGED rx /\ UNCHANGED spscVars /\ UNCHANGED <<attached, fbuf, mbox>>
      /\ dposted' = (dposted \/ attached) /\ missed' = missed \cup Misses
  BY Zenon DEF Poke, PokeExchange
<1>2. ChanTypeOK /\ RingInv /\ RingUse /\ FlagHonest /\ SeenTo
  BY Zenon DEF SpscInv
<1>3. RingInv'
  BY <1>1, <1>2, RingStays, Zenon
<1>4. UNCHANGED <<head, tail, ppc, dpc, dn>>
  BY <1>1, Zenon DEF spscVars
<1>5. Queued("drain")' <=> Queued("drain")
  BY <1>1, MboxStays
<1>6. ChanTypeOK'
  <2>1. missed' \subseteq {"unattached", "late_reset", "full_mailbox", "shed", "short_drain"}
    BY <1>1, <1>2 DEF ChanTypeOK, Misses
  <2>2. dposted' \in BOOLEAN
    BY <1>1, Zenon
  <2> QED BY <1>1, <1>2, <2>1, <2>2, Zenon DEF ChanTypeOK
<1>7. RingUse'
  BY <1>1, <1>2, <1>4 DEF RingUse
<1>8. /\ PokePosts => spc' = "post"
      /\ DrainLost => DrainLost'
      /\ missed' = {} => missed = {} /\ Misses = {}
  BY <1>1 DEF DrainLost
<1>9. FlagHonest'
  <2>1. CASE PokePosts
    BY <1>8, <2>1, Zenon DEF FlagHonest, DrainLost
  <2>2. CASE ~PokePosts
    <3>1. dposted' => dposted
      BY <1>1, <1>2, <2>2, Zenon DEF PokePosts, ChanTypeOK
    <3> QED BY <1>1, <1>2, <1>5, <1>8, <3>1 DEF FlagHonest, DrainLost
  <2> QED BY <2>1, <2>2
<1>10. SeenTo'
  <2>1. CASE PokePosts
    <3>1. attached
      BY <2>1 DEF PokePosts
    <3> QED BY <1>1, <1>8, <2>1, <3>1, Zenon DEF SeenTo, Attended
  <2>2. CASE ~attached
    <3>1. spc' = "idle" /\ Misses = {"unattached"}
      BY <1>1, <2>2 DEF PokePosts, Misses
    <3>2. spc' # "post" /\ missed' # {}
      BY <1>1, <3>1
    <3> QED BY <1>1, <1>2, <2>2, <3>2, Zenon DEF SeenTo
  <2>3. CASE attached /\ ~PokePosts
    <3>1. dposted
      BY <2>3, Zenon DEF PokePosts
    <3>2. ASSUME missed' = {} PROVE Queued("drain")
      <4>1. missed = {} /\ Misses = {}
        BY <1>8, <3>2
      <4>2. ~(fbuf /\ ~Queued("drain"))
        BY <2>3, <3>1, <4>1 DEF Misses
      <4>3. Queued("drain") \/ fbuf
        BY <1>1, <1>2, <3>1, <4>1 DEF FlagHonest, DrainLost
      <4> QED BY <4>2, <4>3
    <3> QED BY <1>1, <1>5, <2>3, <3>2, Zenon DEF SeenTo, Attended
  <2> QED BY <2>1, <2>2, <2>3
<1> QED BY <1>3, <1>6, <1>7, <1>9, <1>10 DEF SpscInv

LEMMA PostInv == ASSUME SpscInv, Post PROVE SpscInv'
<1>1. /\ spc = "post" /\ spc' = "idle" /\ PokePost /\ UNCHANGED rx /\ UNCHANGED spscVars
      /\ UNCHANGED <<attached, dposted, fbuf>>
  BY Zenon DEF Post, PokePost
<1>2. ChanTypeOK /\ RingInv /\ RingUse /\ FlagHonest /\ SeenTo
  BY Zenon DEF SpscInv
<1>3. RingInv'
  BY <1>1, <1>2, RingStays, Zenon
<1>4. UNCHANGED <<head, tail, ppc, dpc, dn>>
  BY <1>1, Zenon DEF spscVars
<1>5. RingUse'
  BY <1>1, <1>2, <1>4 DEF RingUse
<1>6. attached
  BY <1>1, <1>2, Zenon DEF SeenTo
<1>7. CASE Len(mbox) < MboxCap
  <2>1. mbox' = Append(mbox, "drain") /\ missed' = {}
    BY <1>1, <1>7, Zenon DEF PokePost
  <2>2. mbox' \in Seq({"drain", "other"}) /\ Len(mbox') <= MboxCap /\ Queued("drain")'
    BY <1>2, <1>7, <2>1, MboxAppend
  <2>3. ChanTypeOK'
    BY <1>1, <1>2, <2>1, <2>2 DEF ChanTypeOK
  <2>4. FlagHonest' /\ SeenTo'
    BY <1>1, <1>6, <2>2, Zenon DEF FlagHonest, DrainLost, SeenTo, Attended
  <2> QED BY <1>3, <1>5, <2>3, <2>4 DEF SpscInv
<1>8. CASE ~(Len(mbox) < MboxCap)
  <2>1. UNCHANGED mbox /\ missed' = missed \cup {"full_mailbox"}
    BY <1>1, <1>8, Zenon DEF PokePost
  <2>2. DrainLost' /\ missed' # {}
    BY <2>1 DEF DrainLost
  <2>3. ChanTypeOK'
    BY <1>1, <1>2, <2>1 DEF ChanTypeOK
  <2>4. FlagHonest' /\ SeenTo'
    BY <1>1, <1>6, <2>2, Zenon DEF FlagHonest, DrainLost, SeenTo
  <2> QED BY <1>3, <1>5, <2>3, <2>4 DEF SpscInv
<1> QED BY <1>7, <1>8

-----------------------------------------------------------------------------
(* The loop *)

\* The values that were there before the receiver are a push's that has not poked.
LEMMA AttachInv == ASSUME SpscInv, Attach PROVE SpscInv'
<1>1. /\ ~attached /\ attached' = TRUE /\ UNCHANGED <<dposted, fbuf, mbox, missed>>
      /\ UNCHANGED spscVars /\ UNCHANGED <<spc, rx>>
  BY Zenon DEF Attach, attach
<1>2. ChanTypeOK /\ RingInv /\ RingUse /\ FlagHonest /\ SeenTo
  BY Zenon DEF SpscInv
<1>3. RingInv'
  BY <1>1, <1>2, RingStays, Zenon
<1>4. UNCHANGED <<head, tail, ppc, dpc, dn>>
  BY <1>1, Zenon DEF spscVars
<1>5. Queued("drain")' <=> Queued("drain")
  BY <1>1, MboxStays
<1>6. ChanTypeOK'
  BY <1>1, <1>2, Zenon DEF ChanTypeOK
<1>7. RingUse'
  BY <1>1, <1>2, <1>4 DEF RingUse
<1>8. FlagHonest'
  BY <1>1, <1>2, <1>5, Zenon DEF FlagHonest, DrainLost
<1>9. SeenTo'
  BY <1>1, <1>2, <1>4, Zenon DEF SeenTo, Attended
<1> QED BY <1>3, <1>6, <1>7, <1>8, <1>9 DEF SpscInv

LEMMA DrainResetInv == ASSUME SpscInv, DrainReset PROVE SpscInv'
<1>1. /\ DrainRun \/ poll
      /\ rx = "idle" /\ rx' = "load" /\ UNCHANGED spscVars /\ UNCHANGED spc
  BY Zenon DEF DrainReset
<1>2. fbuf' = TRUE /\ UNCHANGED <<attached, dposted, missed>>
  BY <1>1, Zenon DEF DrainRun, poll
<1>3. ChanTypeOK /\ RingInv /\ RingUse /\ FlagHonest /\ SeenTo
  BY Zenon DEF SpscInv
<1>4. mbox' \in Seq({"drain", "other"}) /\ Len(mbox') <= MboxCap
  <2>1. CASE DrainRun
    BY <1>3, <2>1, MboxTail, Zenon DEF DrainRun
  <2>2. CASE poll
    BY <1>3, <2>2, Zenon DEF poll, ChanTypeOK
  <2> QED BY <1>1, <2>1, <2>2
<1>5. RingInv'
  BY <1>1, <1>3, RingStays, Zenon
<1>6. UNCHANGED <<head, tail, ppc, dpc, dn>>
  BY <1>1, Zenon DEF spscVars
<1>7. ChanTypeOK'
  BY <1>2, <1>3, <1>4 DEF ChanTypeOK
<1>8. RingUse'
  BY <1>1, <1>3, <1>6 DEF RingUse
<1>9. FlagHonest'
  BY <1>2, Zenon DEF FlagHonest, DrainLost
<1>10. SeenTo'
  <2>1. rx' # "batch"
    BY <1>1
  <2> QED BY <1>1, <1>2, <1>3, <1>6, <2>1, Zenon DEF SeenTo, Attended
<1> QED BY <1>5, <1>7, <1>8, <1>9, <1>10 DEF SpscInv

\* A drain takes all there is or is noted to stop short.
LEMMA DrainLoadInv == ASSUME SpscInv, DrainLoad PROVE SpscInv'
<1>1. /\ rx = "load" /\ UNCHANGED <<attached, dposted, fbuf, mbox, spc>>
      /\ IF ~attached \/ head = tail
           THEN rx' = "idle" /\ UNCHANGED <<spscVars, missed>>
           ELSE /\ rx' = "batch" /\ drain_contiguous(MaxDrain)
                /\ missed' = IF ContiguousLen(MaxDrain) < tail - head
                               THEN missed \cup {"short_drain"} ELSE missed
  BY Zenon DEF DrainLoad
<1>2. ChanTypeOK /\ RingInv /\ RingUse /\ FlagHonest /\ SeenTo
  BY Zenon DEF SpscInv
<1>3. Queued("drain")' <=> Queued("drain")
  BY <1>1, MboxStays
<1>4. CASE ~attached \/ head = tail
  <2>1. rx' = "idle" /\ UNCHANGED missed /\ UNCHANGED spscVars
    BY <1>1, <1>4, Zenon
  <2>2. RingInv'
    BY <1>2, <2>1, RingStays, Zenon
  <2>3. UNCHANGED <<head, tail, ppc, dpc, dn>>
    BY <2>1, Zenon DEF spscVars
  <2>4. ChanTypeOK'
    BY <1>1, <1>2, <2>1, Zenon DEF ChanTypeOK
  <2>5. RingUse'
    BY <1>1, <1>2, <2>1, <2>3 DEF RingUse
  <2>6. FlagHonest'
    BY <1>1, <1>2, <1>3, <2>1, Zenon DEF FlagHonest, DrainLost
  <2>7. rx' # "batch"
    BY <2>1
  <2>8. SeenTo'
    BY <1>1, <1>2, <1>4, <2>1, <2>3, <2>7, Zenon DEF SeenTo
  <2> QED BY <2>2, <2>4, <2>5, <2>6, <2>8 DEF SpscInv
<1>5. CASE ~(~attached \/ head = tail)
  <2>1. /\ attached /\ rx' = "batch" /\ drain_contiguous(MaxDrain)
        /\ missed' = IF ContiguousLen(MaxDrain) < tail - head
                       THEN missed \cup {"short_drain"} ELSE missed
    BY <1>1, <1>5, Zenon
  <2>2. RingInv' /\ dpc' = "batch" /\ dn' = ContiguousLen(MaxDrain)
    BY <1>2, <2>1, DrainBeginRing, Zenon
  <2>3. UNCHANGED <<head, tail, ppc>>
    BY <2>1, Zenon DEF drain_contiguous, DrainBegin
  <2>4. ChanTypeOK'
    BY <1>1, <1>2, <2>1 DEF ChanTypeOK
  <2>5. RingUse'
    BY <1>1, <1>2, <2>1, <2>2, <2>3 DEF RingUse
  <2>6. DrainLost => DrainLost'
    BY <2>1 DEF DrainLost
  <2>7. FlagHonest'
    BY <1>1, <1>2, <1>3, <2>6, Zenon DEF FlagHonest, DrainLost
  <2>8. missed' = {} => dn' = tail' - head'
    <3>1. dn' \in 0 .. tail' - head' /\ head' \in Nat /\ tail' \in Nat
      BY <2>2 DEF RingInv, SpscTypeOK
    <3> QED BY <2>1, <2>2, <2>3, <3>1
  <2>9. SeenTo'
    BY <1>1, <2>1, <2>8, Zenon DEF SeenTo, Attended
  <2> QED BY <2>2, <2>4, <2>5, <2>7, <2>9 DEF SpscInv
<1> QED BY <1>4, <1>5

LEMMA DrainDoneInv == ASSUME SpscInv, DrainDone PROVE SpscInv'
<1>1. /\ rx = "batch" /\ rx' = "idle" /\ DrainEnd /\ UNCHANGED spc
      /\ UNCHANGED <<attached, dposted, fbuf, mbox, missed>>
  BY Zenon DEF DrainDone, chanVars
<1>2. ChanTypeOK /\ RingInv /\ RingUse /\ FlagHonest /\ SeenTo
  BY Zenon DEF SpscInv
<1>3. RingInv'
  BY <1>1, <1>2, DrainEndRing, Zenon
<1>4. head' = head + dn /\ dpc' = "out" /\ UNCHANGED <<tail, ppc>>
  BY <1>1, Zenon DEF DrainEnd
<1>5. Queued("drain")' <=> Queued("drain")
  BY <1>1, MboxStays
<1>6. ChanTypeOK'
  BY <1>1, <1>2, Zenon DEF ChanTypeOK
<1>7. RingUse'
  BY <1>1, <1>2, <1>4 DEF RingUse
<1>8. FlagHonest'
  BY <1>1, <1>2, <1>5, Zenon DEF FlagHonest, DrainLost
<1>9. SeenTo'
  <2>1. head' # tail' => dn # tail - head /\ head # tail
    BY <1>2, <1>4 DEF RingInv, SpscTypeOK
  <2>2. attached /\ rx # "load" /\ rx' # "batch"
    BY <1>1, <1>2 DEF SeenTo
  <2> QED BY <1>1, <1>2, <1>5, <2>1, <2>2, Zenon DEF SeenTo, Attended
<1> QED BY <1>3, <1>6, <1>7, <1>8, <1>9 DEF SpscInv

\* A drain that is shed leaves the flag set and the values behind: it is noted.
LEMMA DrainDroppedInv == ASSUME SpscInv, DrainDropped PROVE SpscInv'
<1>1. /\ UNCHANGED spscVars /\ UNCHANGED <<spc, rx>> /\ UNCHANGED <<attached, dposted, fbuf>>
      /\ mbox # << >> /\ mbox' = Tail(mbox) /\ missed' = missed \cup {"shed"}
  BY Zenon DEF DrainDropped, DrainShed
<1>2. ChanTypeOK /\ RingInv /\ RingUse /\ FlagHonest /\ SeenTo
  BY Zenon DEF SpscInv
<1>3. RingInv'
  BY <1>1, <1>2, RingStays, Zenon
<1>4. UNCHANGED <<head, tail, ppc, dpc, dn>>
  BY <1>1, Zenon DEF spscVars
<1>5. RingUse'
  BY <1>1, <1>2, <1>4 DEF RingUse
<1>6. mbox' \in Seq({"drain", "other"}) /\ Len(mbox') <= MboxCap
  BY <1>1, <1>2, MboxTail, Zenon
<1>7. ChanTypeOK'
  BY <1>1, <1>2, <1>6 DEF ChanTypeOK
<1>8. DrainLost' /\ missed' # {}
  BY <1>1 DEF DrainLost
<1>9. FlagHonest' /\ SeenTo'
  BY <1>1, <1>2, <1>8, Zenon DEF FlagHonest, SeenTo
<1> QED BY <1>3, <1>5, <1>7, <1>9 DEF SpscInv

LEMMA OthersInv == ASSUME SpscInv, Others PROVE SpscInv'
<1>1. UNCHANGED spscVars /\ UNCHANGED <<spc, rx>> /\ (OtherPost \/ OtherLeaves \/ CommitFlag)
  BY Zenon DEF Others
<1>2. ChanTypeOK /\ RingInv /\ RingUse /\ FlagHonest /\ SeenTo
  BY Zenon DEF SpscInv
<1>3. RingInv'
  BY <1>1, <1>2, RingStays, Zenon
<1>4. UNCHANGED <<head, tail, ppc, dpc, dn>>
  BY <1>1, Zenon DEF spscVars
<1>5. RingUse'
  BY <1>1, <1>2, <1>4 DEF RingUse
<1>6. UNCHANGED <<attached, missed>>
  BY <1>1, Zenon DEF OtherPost, OtherLeaves, CommitFlag
<1>7. /\ mbox' \in Seq({"drain", "other"}) /\ Len(mbox') <= MboxCap
      /\ Queued("drain") => Queued("drain")'
  <2>1. CASE OtherPost
    BY <1>2, <2>1, MboxAppend DEF OtherPost
  <2>2. CASE OtherLeaves
    BY <1>2, <2>2, MboxTail DEF OtherLeaves
  <2>3. CASE CommitFlag
    BY <1>2, <2>3, MboxStays DEF CommitFlag, ChanTypeOK
  <2> QED BY <1>1, <2>1, <2>2, <2>3
<1>8. UNCHANGED <<dposted, fbuf>> \/ (fbuf' = FALSE /\ dposted' = FALSE)
  BY <1>1, Zenon DEF OtherPost, OtherLeaves, CommitFlag
<1>9. ChanTypeOK'
  BY <1>2, <1>6, <1>7, <1>8, Zenon DEF ChanTypeOK
<1>10. FlagHonest'
  BY <1>1, <1>2, <1>6, <1>7, <1>8, Zenon DEF FlagHonest, DrainLost
<1>11. SeenTo'
  BY <1>1, <1>2, <1>4, <1>6, <1>7, Zenon DEF SeenTo, Attended
<1> QED BY <1>3, <1>5, <1>9, <1>10, <1>11 DEF SpscInv

LEMMA SpscStutterInv == ASSUME SpscInv, UNCHANGED spscChanVars PROVE SpscInv'
<1>1. /\ UNCHANGED spscVars /\ UNCHANGED <<spc, rx>>
      /\ UNCHANGED <<attached, dposted, fbuf, mbox, missed>>
  BY Zenon DEF spscChanVars, chanVars
<1>2. ChanTypeOK /\ RingInv /\ RingUse /\ FlagHonest /\ SeenTo
  BY Zenon DEF SpscInv
<1>3. RingInv'
  BY <1>1, <1>2, RingStays, Zenon
<1>4. UNCHANGED <<head, tail, ppc, dpc, dn>>
  BY <1>1, Zenon DEF spscVars
<1>5. Queued("drain")' <=> Queued("drain")
  BY <1>1, MboxStays
<1>6. ChanTypeOK' /\ RingUse'
  BY <1>1, <1>2, <1>4, Zenon DEF ChanTypeOK, RingUse
<1>7. FlagHonest'
  BY <1>1, <1>2, <1>5, Zenon DEF FlagHonest, DrainLost
<1>8. SeenTo'
  BY <1>1, <1>2, <1>4, <1>5, Zenon DEF SeenTo, Attended
<1> QED BY <1>3, <1>6, <1>7, <1>8 DEF SpscInv

-----------------------------------------------------------------------------
(* The theorem *)

LEMMA SpscInitInv == SpscChanInit => SpscInv
<1> SUFFICES ASSUME SpscChanInit PROVE SpscInv
  OBVIOUS
<1>1. /\ attached = FALSE /\ dposted = FALSE /\ fbuf = FALSE /\ mbox = << >> /\ missed = {}
      /\ head = 0 /\ tail = 0 /\ buf = [c \in Cells |-> NoVal] /\ ppc = "out" /\ pvals = << >>
      /\ dpc = "out" /\ dn = 0 /\ pushed = << >> /\ outs = << >> /\ spc = "idle" /\ rx = "idle"
  BY Zenon DEF SpscChanInit, ChanInit, SpscInit
<1>2. ChanTypeOK
  <2>1. mbox \in Seq({"drain", "other"}) /\ Len(mbox) <= MboxCap
    BY <1>1, ChannelAssumption
  <2>2. missed \subseteq {"unattached", "late_reset", "full_mailbox", "shed", "short_drain"}
    BY <1>1
  <2> QED BY <1>1, <2>1, <2>2, Zenon DEF ChanTypeOK
<1>3. RingInv
  <2>1. SpscTypeOK
    BY <1>1, SizeAssumption DEF SpscTypeOK
  <2>2. BatchStable /\ SpscFifo /\ Written
    BY <1>1 DEF BatchStable, SpscFifo, Written
  <2> QED BY <2>1, <2>2 DEF RingInv
<1>4. RingUse
  BY <1>1 DEF RingUse
<1>5. FlagHonest
  BY <1>1, Zenon DEF FlagHonest, DrainLost
<1>6. SeenTo
  BY <1>1 DEF SeenTo
<1> QED BY <1>2, <1>3, <1>4, <1>5, <1>6 DEF SpscInv

LEMMA SpscStepInv == ASSUME SpscInv, [SpscChanNext]_spscChanVars PROVE SpscInv'
<1>1. ASSUME NEW vs \in Bulks, push(vs) PROVE SpscInv'
  BY <1>1, PushInv, Zenon
<1>2. CASE PushWrite
  BY <1>2, PushWriteInv, Zenon
<1>3. CASE PushPublish
  BY <1>3, PushPublishInv, Zenon
<1>4. CASE Poke
  BY <1>4, PokeInv, Zenon
<1>5. CASE Post
  BY <1>5, PostInv, Zenon
<1>6. CASE Attach
  BY <1>6, AttachInv, Zenon
<1>7. CASE DrainReset
  BY <1>7, DrainResetInv, Zenon
<1>8. CASE DrainLoad
  BY <1>8, DrainLoadInv, Zenon
<1>9. CASE DrainDone
  BY <1>9, DrainDoneInv, Zenon
<1>10. CASE Others
  BY <1>10, OthersInv, Zenon
<1>11. CASE DrainDropped
  BY <1>11, DrainDroppedInv, Zenon
<1>12. CASE UNCHANGED spscChanVars
  BY <1>12, SpscStutterInv, Zenon
<1> QED
  BY <1>1, <1>2, <1>3, <1>4, <1>5, <1>6, <1>7, <1>8, <1>9, <1>10, <1>11, <1>12, Zenon
     DEF SpscChanNext

\* A value that stays behind in a quiet channel has one of the named reasons, the flag never
\* stays set with no drain to come but for a full mailbox or a drain shed at its deadline, and
\* values leave the ring as they were pushed, once and in order, under any wrap, bulk and batch:
\* for every size of the ring, the mailbox, the bulks and the drains (try_push_bulk,
\* drain_contiguous, poke, drain, attach, drain_mailbox).
THEOREM SpscChannelSound == SpscChanSpec => []SpscStranding
<1>1. SpscChanInit => SpscInv
  BY SpscInitInv
<1>2. SpscInv /\ [SpscChanNext]_spscChanVars => SpscInv'
  BY SpscStepInv
<1>3. SpscInv => SpscStranding
  <2> SUFFICES ASSUME SpscInv PROVE SpscStranding
    OBVIOUS
  <2>1. ChanTypeOK /\ RingInv /\ RingUse /\ FlagHonest /\ SeenTo
    BY Zenon DEF SpscInv
  <2>2. SpscChanTypeOK /\ SpscOrdered
    BY <2>1, Zenon DEF SpscChanTypeOK, SpscOrdered, RingInv, RingUse
  <2>3. StrandExcused
    <3>1. spc = "idle" /\ rx = "idle" /\ ~Queued("drain") => ~Attended
      BY DEF Attended
    <3> QED BY <2>1, <3>1, Zenon DEF StrandExcused, Quiet, SeenTo
  <2> QED BY <2>1, <2>2, <2>3, Zenon DEF SpscStranding
<1> QED BY <1>1, <1>2, <1>3, PTL DEF SpscChanSpec
-----------------------------------------------------------------------------
(* Resolver: queues *)

\* v is in the queue q.
In(q, v) == \E k \in DOMAIN q : q[k] = v

LEMMA InAppend ==
  ASSUME NEW S, NEW q \in Seq(S), NEW x \in S
  PROVE  Append(q, x) \in Seq(S) /\ \A v : In(Append(q, x), v) <=> In(q, v) \/ v = x
<1>1. /\ Len(q) \in Nat /\ DOMAIN q = 1 .. Len(q) /\ DOMAIN Append(q, x) = 1 .. Len(q) + 1
      /\ Append(q, x)[Len(q) + 1] = x /\ \A i \in 1 .. Len(q) : Append(q, x)[i] = q[i]
      /\ Append(q, x) \in Seq(S)
  BY AppendProperties
<1>2. /\ \A i \in 1 .. Len(q) + 1 : i \in 1 .. Len(q) \/ i = Len(q) + 1
      /\ 1 .. Len(q) \subseteq 1 .. Len(q) + 1 /\ Len(q) + 1 \in 1 .. Len(q) + 1
  BY <1>1
<1> QED BY <1>1, <1>2, Zenon DEF In

LEMMA InTail ==
  ASSUME NEW S, NEW q \in Seq(S), q # << >>
  PROVE  /\ Head(q) \in S /\ Tail(q) \in Seq(S) /\ In(q, Head(q))
         /\ \A v : In(q, v) <=> v = Head(q) \/ In(Tail(q), v)
<1>1. /\ Len(q) \in Nat /\ Len(q) > 0 /\ DOMAIN q = 1 .. Len(q) /\ Head(q) = q[1] /\ 1 \in 1 .. Len(q)
      /\ Head(q) \in S /\ Tail(q) \in Seq(S) /\ DOMAIN Tail(q) = 1 .. Len(q) - 1
      /\ \A i \in 1 .. Len(q) - 1 : i + 1 \in 1 .. Len(q) /\ Tail(q)[i] = q[i + 1]
  BY HeadTailProperties
<1>2. \A i \in 1 .. Len(q) : i = 1 \/ (i - 1 \in 1 .. Len(q) - 1 /\ Tail(q)[i - 1] = q[i])
  BY <1>1
<1>3. \A v : In(q, v) => v = Head(q) \/ In(Tail(q), v)
  BY <1>1, <1>2, Zenon DEF In
<1>4. (\A v : In(Tail(q), v) => In(q, v)) /\ In(q, Head(q))
  BY <1>1, Zenon DEF In
<1> QED BY <1>1, <1>3, <1>4

LEMMA InEmpty == \A v : ~In(<< >>, v)
BY DEF In

-----------------------------------------------------------------------------
(* Resolver: the parts of the inductive invariant *)

Replies == [id : DnsIds, res : {"addrs", "failed", "empty"}]
Requests ==
  [made : BOOLEAN, due : Nat, timer : BOOLEAN, done : BOOLEAN,
   got : Seq({"addrs", "failed", "empty", "expired"})]
Works == Replies \cup {Idle}
DnsStates ==
  [clock : Nat, seen : Nat, stage : {"user", "mail", "timers"}, req : [DnsIds -> Requests],
   jobs : Seq(DnsIds), work : Works, mail : Seq(Replies), up : BOOLEAN, lost : SUBSET DnsIds]
DnsTypeOK == dns \in DnsStates /\ dns.seen <= dns.clock

\* The deadline of request i is over.
Over(i) == dns.req[i].due # 0 /\ dns.clock >= dns.req[i].due

\* A reply is to a request that was made, and says that it was too late only if it was.
Honest(m) == dns.req[m.id].made /\ (m.res = "empty" => Over(m.id))
RepliesHonest ==
  /\ \A i \in DnsIds : In(dns.jobs, i) => dns.req[i].made
  /\ dns.work # Idle => Honest(dns.work)
  /\ \A m : In(dns.mail, m) => Honest(m)

\* The worker, its mailbox or the requester's has request i, or it was lost on the way.
OnTheWay(i) ==
  In(dns.jobs, i) \/ dns.work.id = i \/ (\E m : In(dns.mail, m) /\ m.id = i) \/ i \in dns.lost

\* A request that is not answered has a timer if it has a deadline, and is on the way if not.
Settled(i) ==
  LET r == dns.req[i] IN
  /\ ~r.made => ~r.timer /\ ~r.done
  /\ ~r.done => r.got = << >>
  /\ r.done => ~r.timer /\ \E x : r.got = <<x>> /\ (x \in {"expired", "empty"} => Over(i))
  /\ r.timer => r.due # 0
  /\ r.made /\ ~r.done => IF r.due # 0 THEN r.timer ELSE OnTheWay(i)

DnsInv == DnsTypeOK /\ RepliesHonest /\ \A i \in DnsIds : Settled(i)

-----------------------------------------------------------------------------
(* The steps *)

\* Every reply and every job is to a request.
LEMMA RepliesTyped ==
  ASSUME DnsTypeOK
  PROVE  /\ dns.work # Idle => dns.work \in Replies /\ dns.work.id \in DnsIds
         /\ \A m : In(dns.mail, m) => m \in Replies /\ m.id \in DnsIds
         /\ \A i : In(dns.jobs, i) => i \in DnsIds
<1>1. /\ dns.work # Idle => dns.work \in Replies
      /\ dns.mail \in Seq(Replies) /\ dns.jobs \in Seq(DnsIds)
  BY DEF DnsTypeOK, DnsStates, Works
<1>2. \A m : In(dns.mail, m) => m \in Replies
  BY <1>1, ElementOfSeq DEF In
<1>3. \A i : In(dns.jobs, i) => i \in DnsIds
  BY <1>1, ElementOfSeq DEF In
<1>4. \A m \in Replies : m.id \in DnsIds
  BY DEF Replies
<1> QED BY <1>1, <1>2, <1>3, <1>4, Zenon

\* What a step keeps of a request that was made: it, and its deadline.
Keeps(i) ==
  dns.req[i].made => dns'.req[i].made /\ dns'.req[i].due = dns.req[i].due

LEMMA DnsKeeps ==
  ASSUME DnsTypeOK, DnsTypeOK', dns'.clock >= dns.clock, NEW i \in DnsIds, Keeps(i)
  PROVE  dns.req[i].made => dns'.req[i].made /\ (Over(i) => Over(i)')
<1>1. dns.req[i].due \in Nat /\ dns.clock \in Nat /\ dns'.clock \in Nat
  BY DEF DnsTypeOK, DnsStates, Requests
<1> QED BY <1>1 DEF Keeps, Over

\* A step that leaves jobs and replies to their requests, and looks after every request.
LEMMA DnsStep ==
  ASSUME DnsInv, DnsTypeOK', dns'.clock >= dns.clock, \A i \in DnsIds : Keeps(i) /\ Settled(i)',
         \A i \in DnsIds : In(dns'.jobs, i) => In(dns.jobs, i) \/ dns'.req[i].made,
         (dns.work # Idle => Honest(dns.work))' \/ UNCHANGED dns.work,
         \A m : In(dns'.mail, m) => In(dns.mail, m) \/ (dns.work # Idle /\ m = dns.work)
  PROVE  DnsInv'
<1>1. DnsTypeOK /\ RepliesHonest
  BY Zenon DEF DnsInv
<1>2. \A i \in DnsIds : dns.req[i].made => dns'.req[i].made /\ (Over(i) => Over(i)')
  BY <1>1, DnsKeeps, Zenon
<1>3. \A m : m.id \in DnsIds /\ Honest(m) => Honest(m)'
  BY <1>2, Zenon DEF Honest
<1>4. /\ dns.work # Idle => dns.work.id \in DnsIds
      /\ \A m : In(dns.mail, m) => m.id \in DnsIds
  BY <1>1, RepliesTyped, Zenon
<1>5. (\A m : In(dns.mail, m) => Honest(m))'
  BY <1>3, <1>4, <1>1, Zenon DEF RepliesHonest
<1>6. (dns.work # Idle => Honest(dns.work))'
  BY <1>1, <1>3, <1>4, Zenon DEF RepliesHonest
<1>7. (\A i \in DnsIds : In(dns.jobs, i) => dns.req[i].made)'
  BY <1>1, Zenon DEF RepliesHonest, Keeps
<1> QED BY <1>5, <1>6, <1>7, Zenon DEF DnsInv, RepliesHonest

\* A step that touches no request and takes nothing off the way.
LEMMA DnsFrame ==
  ASSUME DnsInv, DnsTypeOK', UNCHANGED dns.req, dns'.clock >= dns.clock,
         \A i \in DnsIds : OnTheWay(i) => OnTheWay(i)',
         \A i \in DnsIds : In(dns'.jobs, i) => In(dns.jobs, i),
         (dns.work # Idle => Honest(dns.work))' \/ UNCHANGED dns.work,
         \A m : In(dns'.mail, m) => In(dns.mail, m) \/ (dns.work # Idle /\ m = dns.work)
  PROVE  DnsInv'
<1>1. DnsTypeOK /\ \A i \in DnsIds : Settled(i)
  BY Zenon DEF DnsInv
<1>2. \A i \in DnsIds : Keeps(i)
  BY Zenon DEF Keeps
<1>3. \A i \in DnsIds : dns.req[i].made => dns'.req[i].made /\ (Over(i) => Over(i)')
  BY <1>1, <1>2, DnsKeeps, Zenon
<1>4. ASSUME NEW i \in DnsIds PROVE Settled(i)'
  BY <1>1, <1>3, Zenon DEF Settled
<1> QED BY <1>2, <1>4, DnsStep, Zenon

\* A step that touches one request.
LEMMA DnsOne ==
  ASSUME DnsInv, DnsTypeOK', NEW i \in DnsIds, Settled(i)', Keeps(i), UNCHANGED <<dns.clock, dns.work>>,
         \A k \in DnsIds \ {i} : dns'.req[k] = dns.req[k] /\ (OnTheWay(k) => OnTheWay(k)'),
         \A k \in DnsIds : In(dns'.jobs, k) => In(dns.jobs, k) \/ dns'.req[k].made,
         \A m : In(dns'.mail, m) => In(dns.mail, m)
  PROVE  DnsInv'
<1>1. DnsTypeOK /\ \A k \in DnsIds : Settled(k)
  BY Zenon DEF DnsInv
<1>2. \A k \in DnsIds : Keeps(k)
  BY Zenon DEF Keeps
<1>3. \A k \in DnsIds \ {i} : Settled(k)'
  BY <1>1, Zenon DEF Settled, Over
<1>4. dns'.clock >= dns.clock
  BY <1>1 DEF DnsTypeOK, DnsStates
<1> QED BY <1>2, <1>3, <1>4, DnsStep, Zenon

LEMMA AnswerIs ==
  ASSUME NEW d, NEW i, NEW res
  PROVE  Answer(d, i, res) = [[d EXCEPT !.req[i].done = TRUE] EXCEPT !.req[i].got = Append(@, res)]
BY Zenon DEF Answer

\* What answering request i of d writes.
Answered(d, i, res, e) ==
  /\ e \in DnsStates
  /\ e.clock = d.clock /\ e.seen = d.seen /\ e.jobs = d.jobs /\ e.work = d.work
  /\ e.mail = d.mail /\ e.lost = d.lost /\ \A k \in DnsIds \ {i} : e.req[k] = d.req[k]
  /\ e.req[i].made = d.req[i].made /\ e.req[i].due = d.req[i].due
  /\ ~e.req[i].timer /\ e.req[i].done /\ e.req[i].got = <<res>>

LEMMA AnswerFacts ==
  ASSUME NEW d \in DnsStates, NEW i \in DnsIds, NEW res \in {"addrs", "failed", "empty", "expired"},
         d.req[i].got = << >>
  PROVE  Answered(d, i, res, Answer([d EXCEPT !.req[i].timer = FALSE], i, res))
<1> DEFINE Same(x, y) ==
             /\ y \in DnsStates
             /\ y.clock = x.clock /\ y.seen = x.seen /\ y.jobs = x.jobs /\ y.work = x.work
             /\ y.mail = x.mail /\ y.lost = x.lost /\ \A k \in DnsIds \ {i} : y.req[k] = x.req[k]
<1>1. \A x \in DnsStates : x.req \in [DnsIds -> Requests] /\ x.req[i] \in Requests
  BY DEF DnsStates
<1>2. ASSUME NEW x \in DnsStates, NEW q \in Requests, NEW y, y = [x EXCEPT !.req[i] = q]
      PROVE  Same(x, y) /\ y.req[i] = q
  BY <1>1, <1>2, Zenon DEF DnsStates
<1>3. \A x, y, z : Same(x, y) /\ Same(y, z) => Same(x, z)
  OBVIOUS
<1> DEFINE q1 == [d.req[i] EXCEPT !.timer = FALSE]
           q2 == [q1 EXCEPT !.done = TRUE]
           q3 == [q2 EXCEPT !.got = Append(@, res)]
           d1 == [d EXCEPT !.req[i] = q1]
           d2 == [d1 EXCEPT !.req[i] = q2]
           d3 == [d2 EXCEPT !.req[i] = q3]
<1>4. /\ q1 \in Requests /\ q1.got = << >> /\ ~q1.timer
      /\ q1.made = d.req[i].made /\ q1.due = d.req[i].due
  BY <1>1, Zenon DEF Requests
<1> HIDE DEF q1, Same
<1>5. Same(d, d1) /\ d1.req[i] = q1 /\ d1 \in DnsStates
  <2>1. Same(d, d1) /\ d1.req[i] = q1
    BY <1>2, <1>4, Zenon
  <2> QED BY <2>1, Zenon DEF Same
<1>6. q2 \in Requests /\ q2.got = << >> /\ ~q2.timer /\ q2.made = q1.made /\ q2.due = q1.due /\ q2.done
  BY <1>4, Zenon DEF Requests
<1> HIDE DEF d1, q2
<1>7. Same(d1, d2) /\ d2.req[i] = q2 /\ d2 \in DnsStates
  <2>1. Same(d1, d2) /\ d2.req[i] = q2
    BY <1>2, <1>5, <1>6, Zenon
  <2> QED BY <2>1, Zenon DEF Same
<1>8. /\ q3 \in Requests /\ q3.got = <<res>> /\ ~q3.timer /\ q3.made = q2.made /\ q3.due = q2.due
      /\ q3.done
  <2>1. Append(q2.got, res) = <<res>> /\ <<res>> \in Seq({"addrs", "failed", "empty", "expired"})
    BY <1>6
  <2>2. q3 = [q2 EXCEPT !.got = <<res>>]
    BY <2>1
  <2> HIDE DEF q3
  <2> QED BY <1>6, <2>1, <2>2, Zenon DEF Requests
<1> HIDE DEF d2, q3
<1>9. Answer([d EXCEPT !.req[i].timer = FALSE], i, res) = d3
  <2>1. d1 = [d EXCEPT !.req[i].timer = FALSE]
    BY DEF d1, q1
  <2>2. d2 = [d1 EXCEPT !.req[i].done = TRUE]
    BY <1>5 DEF d2, q2
  <2>3. d3 = [d2 EXCEPT !.req[i].got = Append(@, res)]
    BY <1>7 DEF q3
  <2>4. Answer(d1, i, res) = [d2 EXCEPT !.req[i].got = Append(@, res)]
    BY <2>2, AnswerIs, Zenon
  <2> QED BY <2>1, <2>3, <2>4
<1>10. Same(d2, d3) /\ d3.req[i] = q3
  BY <1>2, <1>7, <1>8, Zenon
<1> HIDE DEF d3
<1>11. Same(d, d3)
  BY <1>3, <1>5, <1>7, <1>10, Zenon
<1>12. Answered(d, i, res, d3)
  BY <1>4, <1>6, <1>8, <1>10, <1>11, Zenon DEF Same, Answered
<1> QED BY <1>9, <1>12, Zenon

\* A request is made: its timer is armed, and its job posted or refused.
LEMMA ResolveInv ==
  ASSUME DnsInv, NEW i \in DnsIds, NEW t \in DnsTimeouts, NEW room \in BOOLEAN, Resolve(i, t, room)
  PROVE  DnsInv'
<1> DEFINE due == IF t = 0 THEN 0 ELSE dns.seen + t
           req == [dns.req EXCEPT ![i] = [@ EXCEPT !.made = TRUE, !.due = due, !.timer = t > 0]]
           jobs == IF room THEN Append(dns.jobs, i) ELSE dns.jobs
           lost == IF room THEN dns.lost ELSE dns.lost \cup {i}
<1>1. DnsTypeOK /\ RepliesHonest /\ (\A k \in DnsIds : Settled(k)) /\ ~dns.req[i].made
  BY Zenon DEF DnsInv, Resolve
<1>2. dns' = [dns EXCEPT !.req = req, !.jobs = jobs, !.lost = lost]
  BY <1>1, Zenon DEF Resolve, Dropped, DnsTypeOK, DnsStates
<1>3. due \in Nat /\ (t > 0 <=> due # 0) /\ (t > 0) \in BOOLEAN
  BY <1>1, DnsAssumption DEF DnsTypeOK, DnsStates
<1> HIDE DEF due
<1>4. /\ UNCHANGED <<dns.clock, dns.seen, dns.stage, dns.work, dns.mail, dns.up>>
      /\ dns'.req = req /\ dns'.jobs = jobs /\ dns'.lost = lost
  BY <1>1, <1>2 DEF DnsTypeOK, DnsStates
<1>5. dns.req \in [DnsIds -> Requests] /\ dns.req[i] \in Requests
      /\ dns.jobs \in Seq(DnsIds) /\ dns.lost \subseteq DnsIds
  BY <1>1 DEF DnsTypeOK, DnsStates
<1> DEFINE q == [dns.req[i] EXCEPT !.made = TRUE, !.due = due, !.timer = t > 0]
<1>6. /\ q \in Requests /\ q.made /\ q.due = due /\ q.timer = (t > 0)
      /\ q.done = dns.req[i].done /\ q.got = dns.req[i].got
  BY <1>3, <1>5, Zenon DEF Requests
<1>7. req[i] = q /\ req \in [DnsIds -> Requests] /\ \A k \in DnsIds \ {i} : req[k] = dns.req[k]
  BY <1>5, <1>6
<1> HIDE DEF q, req
<1>8. jobs \in Seq(DnsIds) /\ lost \subseteq DnsIds /\ \A k : In(jobs, k) <=> In(dns.jobs, k) \/ (room /\ k = i)
  BY <1>5, InAppend
<1>9. DnsTypeOK'
  BY <1>1, <1>2, <1>7, <1>8, Zenon DEF DnsTypeOK, DnsStates
<1>10. \A k \in DnsIds \ {i} : dns'.req[k] = dns.req[k] /\ (OnTheWay(k) => OnTheWay(k)')
  BY <1>4, <1>7, <1>8, Zenon DEF OnTheWay
<1>11. \A k \in DnsIds : In(dns'.jobs, k) => In(dns.jobs, k) \/ dns'.req[k].made
  BY <1>4, <1>6, <1>7, <1>8, Zenon
<1>12. Keeps(i)
  BY <1>1, Zenon DEF Keeps
<1>13. OnTheWay(i)'
  <2>1. room \/ i \in lost
    OBVIOUS
  <2> QED BY <1>4, <1>8, <2>1, Zenon DEF OnTheWay
<1>14. Settled(i)'
  <2>1. ~dns.req[i].done /\ dns.req[i].got = << >>
    BY <1>1, Zenon DEF Settled
  <2>2. dns'.req[i].timer <=> dns'.req[i].due # 0
    BY <1>3, <1>4, <1>6, <1>7, Zenon
  <2> QED BY <1>4, <1>6, <1>7, <1>13, <2>1, <2>2, Zenon DEF Settled
<1> QED BY <1>4, <1>9, <1>10, <1>11, <1>12, <1>14, DnsOne, Zenon

\* The worker takes the next job; a lookup it leaves out is one whose deadline is over.
LEMMA RunJobInv ==
  ASSUME DnsInv, NEW res \in {"addrs", "failed", "empty"}, RunJob(res) PROVE DnsInv'
<1> DEFINE i == Head(dns.jobs)
           w == [id |-> i, res |-> res]
<1>1. DnsTypeOK /\ RepliesHonest /\ dns.work = Idle /\ dns.jobs # << >>
  BY Zenon DEF DnsInv, RunJob
<1>2. (dns.req[i].due # 0 /\ dns.clock >= dns.req[i].due) <=> res = "empty"
  BY Zenon DEF RunJob
<1>3. dns' = [dns EXCEPT !.jobs = Tail(dns.jobs), !.work = w]
  BY <1>1 DEF RunJob, DnsTypeOK, DnsStates
<1>4. dns.jobs \in Seq(DnsIds)
  BY <1>1 DEF DnsTypeOK, DnsStates
<1>5. /\ i \in DnsIds /\ Tail(dns.jobs) \in Seq(DnsIds) /\ In(dns.jobs, i)
      /\ \A v : In(dns.jobs, v) <=> v = i \/ In(Tail(dns.jobs), v)
  BY <1>1, <1>4, InTail
<1>6. w \in Replies /\ w.id = i /\ w.res = res
  BY <1>5 DEF Replies
<1> HIDE DEF i, w
<1>7. /\ UNCHANGED <<dns.clock, dns.seen, dns.stage, dns.req, dns.mail, dns.up, dns.lost>>
      /\ dns'.jobs = Tail(dns.jobs) /\ dns'.work = w
  BY <1>1, <1>3 DEF DnsTypeOK, DnsStates
<1>8. DnsTypeOK' /\ dns'.clock >= dns.clock
  <2>1. w \in Works
    BY <1>6 DEF Works
  <2>2. DnsTypeOK'
    BY <1>1, <1>3, <1>5, <2>1, Zenon DEF DnsTypeOK, DnsStates
  <2> QED BY <1>1, <1>7, <2>2 DEF DnsTypeOK, DnsStates
<1>9. (dns.work # Idle => Honest(dns.work))'
  BY <1>1, <1>2, <1>5, <1>6, <1>7, Zenon DEF RepliesHonest, Honest, Over
<1>10. Idle.id = 0 /\ \A k \in DnsIds : k # 0
  BY DEF Idle, DnsIds
<1>11. \A k \in DnsIds : OnTheWay(k) => OnTheWay(k)'
  BY <1>1, <1>5, <1>6, <1>7, <1>10, Zenon DEF OnTheWay
<1> QED BY <1>5, <1>7, <1>8, <1>9, <1>11, DnsFrame, Zenon

\* The worker's answer is posted, or refused.
LEMMA RunJobRepliesInv == ASSUME DnsInv, NEW room \in BOOLEAN, RunJobReplies(room) PROVE DnsInv'
<1> DEFINE mail == IF room THEN Append(dns.mail, dns.work) ELSE dns.mail
           lost == IF room THEN dns.lost ELSE dns.lost \cup {dns.work.id}
<1>1. DnsTypeOK /\ dns.work # Idle
  BY Zenon DEF DnsInv, RunJobReplies
<1>2. dns' = [dns EXCEPT !.work = Idle, !.mail = mail, !.lost = lost]
  BY <1>1, Zenon DEF RunJobReplies, Dropped, DnsTypeOK, DnsStates
<1>3. dns.work \in Replies /\ dns.work.id \in DnsIds
  BY <1>1, RepliesTyped, Zenon
<1>4. dns.mail \in Seq(Replies) /\ dns.lost \subseteq DnsIds
  BY <1>1 DEF DnsTypeOK, DnsStates
<1>5. /\ mail \in Seq(Replies) /\ lost \subseteq DnsIds
      /\ \A m : In(mail, m) <=> In(dns.mail, m) \/ (room /\ m = dns.work)
  BY <1>3, <1>4, InAppend
<1>6. dns.lost \subseteq lost /\ (room \/ dns.work.id \in lost)
  OBVIOUS
<1> HIDE DEF mail, lost
<1>7. /\ UNCHANGED <<dns.clock, dns.seen, dns.stage, dns.req, dns.jobs, dns.up>>
      /\ dns'.mail = mail /\ dns'.work = Idle /\ dns'.lost = lost
  BY <1>1, <1>2 DEF DnsTypeOK, DnsStates
<1>8. DnsTypeOK' /\ dns'.clock >= dns.clock
  <2>1. Idle \in Works
    BY DEF Works
  <2>2. DnsTypeOK'
    BY <1>1, <1>2, <1>5, <2>1, Zenon DEF DnsTypeOK, DnsStates
  <2> QED BY <1>1, <1>7, <2>2 DEF DnsTypeOK, DnsStates
<1>9. \A k \in DnsIds : OnTheWay(k) => OnTheWay(k)'
  BY <1>5, <1>6, <1>7, Zenon DEF OnTheWay
<1> QED BY <1>1, <1>5, <1>7, <1>8, <1>9, DnsFrame, Zenon

\* A job shed on the worker's side leaves its request to the timer.
LEMMA JobShedInv == ASSUME DnsInv, JobShed PROVE DnsInv'
<1> DEFINE i == Head(dns.jobs)
           lost == dns.lost \cup {i}
<1>1. DnsTypeOK /\ dns.jobs # << >>
  BY Zenon DEF DnsInv, JobShed
<1>2. dns' = [dns EXCEPT !.jobs = Tail(dns.jobs), !.lost = lost]
  BY <1>1 DEF JobShed, Dropped, DnsTypeOK, DnsStates
<1>3. dns.jobs \in Seq(DnsIds) /\ dns.lost \subseteq DnsIds
  BY <1>1 DEF DnsTypeOK, DnsStates
<1>4. /\ i \in DnsIds /\ Tail(dns.jobs) \in Seq(DnsIds)
      /\ \A v : In(dns.jobs, v) <=> v = i \/ In(Tail(dns.jobs), v)
  BY <1>1, <1>3, InTail
<1>5. lost \subseteq DnsIds /\ dns.lost \subseteq lost /\ i \in lost
  BY <1>3, <1>4
<1> HIDE DEF i, lost
<1>6. /\ UNCHANGED <<dns.clock, dns.seen, dns.stage, dns.req, dns.mail, dns.work, dns.up>>
      /\ dns'.jobs = Tail(dns.jobs) /\ dns'.lost = lost
  BY <1>1, <1>2 DEF DnsTypeOK, DnsStates
<1>7. DnsTypeOK' /\ dns'.clock >= dns.clock
  <2>1. DnsTypeOK'
    BY <1>1, <1>2, <1>4, <1>5, Zenon DEF DnsTypeOK, DnsStates
  <2> QED BY <1>1, <1>6, <2>1 DEF DnsTypeOK, DnsStates
<1>8. \A k \in DnsIds : OnTheWay(k) => OnTheWay(k)'
  BY <1>4, <1>5, <1>6, Zenon DEF OnTheWay
<1> QED BY <1>4, <1>6, <1>7, <1>8, DnsFrame, Zenon

\* So does a reply shed on the requester's.
LEMMA ReplyShedInv == ASSUME DnsInv, ReplyShed PROVE DnsInv'
<1>1. DnsTypeOK /\ dns.mail # << >>
  BY Zenon DEF DnsInv, ReplyShed
<1>2. dns.mail \in Seq(Replies) /\ dns.lost \subseteq DnsIds
  BY <1>1 DEF DnsTypeOK, DnsStates
<1>3. PICK m \in Replies : m = Head(dns.mail)
  BY <1>1, <1>2, InTail, Zenon
<1>4. PICK i \in DnsIds : i = m.id
  BY <1>3 DEF Replies
<1>5. PICK lost \in SUBSET DnsIds : lost = dns.lost \cup {i}
  BY <1>2, <1>4
<1>6. dns' = [dns EXCEPT !.mail = Tail(dns.mail), !.lost = lost]
  BY <1>1, <1>3, <1>4, <1>5 DEF ReplyShed, Dropped, DnsTypeOK, DnsStates
<1>7. Tail(dns.mail) \in Seq(Replies) /\ \A n : In(dns.mail, n) <=> n = m \/ In(Tail(dns.mail), n)
  BY <1>1, <1>2, <1>3, InTail
<1>8. /\ UNCHANGED <<dns.clock, dns.seen, dns.stage, dns.req, dns.jobs, dns.work, dns.up>>
      /\ dns'.mail = Tail(dns.mail) /\ dns'.lost = lost
  BY <1>1, <1>6 DEF DnsTypeOK, DnsStates
<1>9. DnsTypeOK' /\ dns'.clock >= dns.clock
  <2>1. DnsTypeOK'
    BY <1>1, <1>5, <1>6, <1>7, Zenon DEF DnsTypeOK, DnsStates
  <2> QED BY <1>1, <1>8, <2>1 DEF DnsTypeOK, DnsStates
<1>10. dns.lost \subseteq lost /\ i \in lost
  BY <1>5
<1>11. \A k \in DnsIds : OnTheWay(k) => OnTheWay(k)'
  BY <1>4, <1>7, <1>8, <1>10, Zenon DEF OnTheWay
<1> QED BY <1>7, <1>8, <1>9, <1>11, DnsFrame, Zenon

\* The answer reaches the requester: the first one settles the request.
LEMMA DnsAnsweredInv == ASSUME DnsInv, DnsAnswered PROVE DnsInv'
<1>1. DnsTypeOK /\ RepliesHonest /\ (\A k \in DnsIds : Settled(k)) /\ dns.mail # << >>
  BY Zenon DEF DnsInv, DnsAnswered
<1>2. dns.mail \in Seq(Replies) /\ dns.req \in [DnsIds -> Requests]
  BY <1>1 DEF DnsTypeOK, DnsStates
<1>3. PICK m \in Replies : m = Head(dns.mail)
  BY <1>1, <1>2, InTail, Zenon
<1>4. PICK i \in DnsIds : i = m.id
  BY <1>3 DEF Replies
<1>5. /\ Tail(dns.mail) \in Seq(Replies) /\ In(dns.mail, m)
      /\ \A n : In(dns.mail, n) <=> n = m \/ In(Tail(dns.mail), n)
  BY <1>1, <1>2, <1>3, InTail
<1>6. m.res \in {"addrs", "failed", "empty"} /\ dns.req[i] \in Requests /\ Honest(m) /\ Settled(i)
  <2>1. m.res \in {"addrs", "failed", "empty"} /\ dns.req[i] \in Requests
    BY <1>2, <1>3 DEF Replies
  <2> QED BY <1>1, <1>5, <2>1, Zenon DEF RepliesHonest
<1>7. CASE dns.req[i].done
  <2>1. dns' = [dns EXCEPT !.mail = Tail(dns.mail)]
    BY <1>1, <1>3, <1>4, <1>7 DEF DnsAnswered, DnsTypeOK, DnsStates
  <2>2. /\ UNCHANGED <<dns.clock, dns.seen, dns.stage, dns.req, dns.jobs, dns.work, dns.up, dns.lost>>
        /\ dns'.mail = Tail(dns.mail)
    BY <1>1, <2>1 DEF DnsTypeOK, DnsStates
  <2>3. DnsTypeOK'
    BY <1>1, <1>5, <2>1, Zenon DEF DnsTypeOK, DnsStates
  <2>4. Settled(i)' /\ Keeps(i)
    BY <1>6, <1>7, <2>2, Zenon DEF Settled, Over, Keeps
  <2>5. \A k \in DnsIds \ {i} : dns'.req[k] = dns.req[k] /\ (OnTheWay(k) => OnTheWay(k)')
    BY <1>4, <1>5, <2>2, Zenon DEF OnTheWay
  <2> QED BY <1>5, <2>2, <2>3, <2>4, <2>5, DnsOne, Zenon
<1>8. CASE ~dns.req[i].done
  <2>1. PICK d \in DnsStates : d = [dns EXCEPT !.mail = Tail(dns.mail)]
    BY <1>1, <1>5, Zenon DEF DnsTypeOK, DnsStates
  <2>2. /\ d.clock = dns.clock /\ d.seen = dns.seen /\ d.jobs = dns.jobs /\ d.work = dns.work
        /\ d.lost = dns.lost /\ d.req = dns.req /\ d.mail = Tail(dns.mail)
    BY <1>1, <2>1 DEF DnsTypeOK, DnsStates
  <2>3. dns' = Answer([d EXCEPT !.req[i].timer = FALSE], i, m.res)
    BY <1>3, <1>4, <1>8, <2>1, <2>2 DEF DnsAnswered
  <2>4. dns.req[i].got = << >>
    BY <1>6, <1>8, Zenon DEF Settled
  <2>5. m.res \in {"addrs", "failed", "empty", "expired"}
    BY <1>6
  <2>6. /\ dns' \in DnsStates
        /\ dns'.clock = d.clock /\ dns'.seen = d.seen /\ dns'.jobs = d.jobs /\ dns'.work = d.work
        /\ dns'.mail = d.mail /\ dns'.lost = d.lost /\ \A k \in DnsIds \ {i} : dns'.req[k] = d.req[k]
        /\ dns'.req[i].made = d.req[i].made /\ dns'.req[i].due = d.req[i].due
        /\ ~dns'.req[i].timer /\ dns'.req[i].done /\ dns'.req[i].got = <<m.res>>
    <3>1. Answered(d, i, m.res, Answer([d EXCEPT !.req[i].timer = FALSE], i, m.res))
      BY <2>2, <2>4, <2>5, AnswerFacts
    <3>2. Answered(d, i, m.res, dns')
      BY <2>3, <3>1
    <3> QED BY <3>2, Zenon DEF Answered
  <2>7. UNCHANGED <<dns.clock, dns.seen, dns.jobs, dns.work, dns.lost>> /\ dns'.mail = Tail(dns.mail)
    BY <2>2, <2>6, Zenon
  <2>8. DnsTypeOK' /\ Keeps(i)
    BY <1>1, <2>2, <2>6, <2>7, Zenon DEF DnsTypeOK, Keeps
  <2>9. dns'.req[i].made /\ (m.res = "empty" => Over(i)')
    BY <1>4, <1>6, <2>2, <2>6, <2>7, Zenon DEF Honest, Over
  <2>10. m.res \in {"expired", "empty"} => Over(i)'
    BY <1>6, <2>9
  <2>11. Settled(i)'
    BY <2>6, <2>9, <2>10, Zenon DEF Settled
  <2>12. \A k \in DnsIds \ {i} : dns'.req[k] = dns.req[k] /\ (OnTheWay(k) => OnTheWay(k)')
    BY <1>4, <1>5, <2>2, <2>6, <2>7, ZenonT(30) DEF OnTheWay
  <2> QED BY <1>5, <2>7, <2>8, <2>11, <2>12, DnsOne, Zenon
<1> QED BY <1>7, <1>8

\* The deadline comes first: a timer that fires is of a request that was not answered.
LEMMA DnsExpiresInv == ASSUME DnsInv, NEW i \in DnsIds, DnsExpires(i) PROVE DnsInv'
<1>1. /\ DnsTypeOK /\ Settled(i) /\ dns.req[i].timer /\ dns.seen >= dns.req[i].due
  BY Zenon DEF DnsInv, DnsExpires, Due
<1>2. ~dns.req[i].done /\ dns.req[i].got = << >> /\ dns.req[i].due # 0 /\ dns.req[i].made
  BY <1>1, Zenon DEF Settled
<1>3. /\ dns \in DnsStates /\ dns.req[i] \in Requests
      /\ [dns EXCEPT !.req[i].timer = FALSE].req[i].done = dns.req[i].done
  BY <1>1 DEF DnsTypeOK, DnsStates, Requests
<1>4. dns' = Answer([dns EXCEPT !.req[i].timer = FALSE], i, "expired")
  BY <1>2, <1>3 DEF DnsExpires
<1>5. Answered(dns, i, "expired", Answer([dns EXCEPT !.req[i].timer = FALSE], i, "expired"))
  BY <1>2, <1>3, AnswerFacts
<1>6. Answered(dns, i, "expired", dns')
  BY <1>4, <1>5
<1>7. /\ dns' \in DnsStates
      /\ UNCHANGED <<dns.clock, dns.seen, dns.jobs, dns.work, dns.mail, dns.lost>>
      /\ \A k \in DnsIds \ {i} : dns'.req[k] = dns.req[k]
      /\ dns'.req[i].made /\ dns'.req[i].due = dns.req[i].due
      /\ ~dns'.req[i].timer /\ dns'.req[i].done /\ dns'.req[i].got = <<"expired">>
  BY <1>2, <1>6, Zenon DEF Answered
<1>8. Over(i)'
  <2>1. dns.req[i].due \in Nat /\ dns.seen \in Nat /\ dns.clock \in Nat /\ dns.seen <= dns.clock
    BY <1>1 DEF DnsTypeOK, DnsStates, Requests
  <2>2. dns.clock >= dns.req[i].due
    BY <1>1, <2>1
  <2> QED BY <1>2, <1>7, <2>2, Zenon DEF Over
<1>9. DnsTypeOK' /\ Keeps(i) /\ Settled(i)'
  BY <1>1, <1>7, <1>8, Zenon DEF DnsTypeOK, Keeps, Settled
<1>10. \A k \in DnsIds \ {i} : dns'.req[k] = dns.req[k] /\ (OnTheWay(k) => OnTheWay(k)')
  BY <1>7, Zenon DEF OnTheWay
<1> QED BY <1>7, <1>9, <1>10, DnsOne, Zenon

\* The stages of the loop and the clock leave the requests alone.
LEMMA DnsLoopInv ==
  ASSUME DnsInv, DnsPollBegin \/ DnsMailDone \/ DnsTimersDone \/ DnsTick PROVE DnsInv'
<1>1. DnsTypeOK
  BY Zenon DEF DnsInv
<1>2. PICK c, n, st : dns' = [dns EXCEPT !.clock = c, !.seen = n, !.stage = st]
                        /\ c \in Nat /\ n \in Nat /\ n <= c /\ c >= dns.clock
                        /\ st \in {"user", "mail", "timers"}
  <2>1. /\ dns.clock \in Nat /\ dns.seen \in Nat /\ dns.seen <= dns.clock
        /\ dns.stage \in {"user", "mail", "timers"}
    BY <1>1 DEF DnsTypeOK, DnsStates
  <2>2. CASE DnsPollBegin
    <3>1. dns' = [dns EXCEPT !.clock = dns.clock, !.seen = dns.clock, !.stage = "mail"]
      BY <1>1, <2>2, Zenon DEF DnsPollBegin, DnsTypeOK, DnsStates
    <3>2. dns.clock <= dns.clock /\ dns.clock >= dns.clock
      BY <2>1
    <3> QED BY <2>1, <3>1, <3>2, Zenon
  <2>3. CASE DnsMailDone
    <3>1. dns' = [dns EXCEPT !.clock = dns.clock, !.seen = dns.seen, !.stage = "timers"]
      BY <1>1, <2>3, Zenon DEF DnsMailDone, DnsTypeOK, DnsStates
    <3>2. dns.clock >= dns.clock
      BY <2>1
    <3> QED BY <2>1, <3>1, <3>2
  <2>4. CASE DnsTimersDone
    <3>1. dns' = [dns EXCEPT !.clock = dns.clock, !.seen = dns.seen, !.stage = "user"]
      BY <1>1, <2>4, Zenon DEF DnsTimersDone, DnsTypeOK, DnsStates
    <3>2. dns.clock >= dns.clock
      BY <2>1
    <3> QED BY <2>1, <3>1, <3>2
  <2>5. CASE DnsTick
    <3>1. dns' = [dns EXCEPT !.clock = dns.clock + 1, !.seen = dns.seen, !.stage = dns.stage]
      BY <1>1, <2>5, Zenon DEF DnsTick, DnsTypeOK, DnsStates
    <3>2. dns.clock + 1 \in Nat /\ dns.seen <= dns.clock + 1 /\ dns.clock + 1 >= dns.clock
      BY <2>1
    <3> QED BY <2>1, <3>1, <3>2, Zenon
  <2> QED BY <2>2, <2>3, <2>4, <2>5
<1>3. /\ DnsTypeOK' /\ UNCHANGED <<dns.req, dns.jobs, dns.work, dns.mail, dns.lost>>
      /\ dns'.clock = c
  BY <1>1, <1>2, Zenon DEF DnsTypeOK, DnsStates
<1>4. \A i \in DnsIds : OnTheWay(i) => OnTheWay(i)'
  BY <1>3, Zenon DEF OnTheWay
<1>5. dns'.clock >= dns.clock
  BY <1>2, <1>3, Zenon
<1> QED BY <1>3, <1>4, <1>5, DnsFrame, Zenon

\* The resolver goes, and the jobs it has not begun with it.
LEMMA DnsDestroyInv == ASSUME DnsInv, DnsDestroy PROVE DnsInv'
<1>1. DnsTypeOK
  BY Zenon DEF DnsInv
<1>2. PICK l : l = dns.lost \cup {dns.jobs[k] : k \in DOMAIN dns.jobs}
  BY Zenon
<1>3. dns' = [dns EXCEPT !.up = FALSE, !.jobs = << >>, !.lost = l]
  BY <1>1, <1>2 DEF DnsDestroy, DnsTypeOK, DnsStates
<1>4. \A i : In(dns.jobs, i) => i \in DnsIds
  BY <1>1, RepliesTyped, Zenon
<1>5. l \subseteq DnsIds /\ dns.lost \subseteq l /\ \A i : In(dns.jobs, i) => i \in l
  <2>1. dns.lost \subseteq DnsIds
    BY <1>1 DEF DnsTypeOK, DnsStates
  <2>2. \A i : In(dns.jobs, i) <=> i \in {dns.jobs[k] : k \in DOMAIN dns.jobs}
    BY DEF In
  <2> QED BY <1>2, <1>4, <2>1, <2>2
<1>6. /\ UNCHANGED <<dns.clock, dns.seen, dns.req, dns.work, dns.mail>>
      /\ dns'.jobs = << >> /\ dns'.lost = l
  BY <1>1, <1>3 DEF DnsTypeOK, DnsStates
<1>7. DnsTypeOK' /\ dns'.clock >= dns.clock
  <2>1. << >> \in Seq(DnsIds)
    OBVIOUS
  <2>2. DnsTypeOK'
    BY <1>1, <1>3, <1>5, <2>1, Zenon DEF DnsTypeOK, DnsStates
  <2> QED BY <1>1, <1>6, <2>2 DEF DnsTypeOK, DnsStates
<1>8. \A i \in DnsIds : OnTheWay(i) => OnTheWay(i)'
  BY <1>5, <1>6, Zenon DEF OnTheWay
<1>9. \A i \in DnsIds : ~In(dns'.jobs, i)
  BY <1>6, InEmpty, Zenon
<1> QED BY <1>6, <1>7, <1>8, <1>9, DnsFrame, Zenon

LEMMA DnsInitInv == DnsInit => DnsInv
<1> SUFFICES ASSUME DnsInit PROVE DnsInv
  OBVIOUS
<1> DEFINE new == [made |-> FALSE, due |-> 0, timer |-> FALSE, done |-> FALSE, got |-> << >>]
<1>1. /\ dns.clock = 1 /\ dns.seen = 1 /\ dns.stage = "user" /\ dns.req = [i \in DnsIds |-> new]
      /\ dns.jobs = << >> /\ dns.work = Idle /\ dns.mail = << >> /\ dns.up = TRUE /\ dns.lost = {}
  BY DEF DnsInit
<1>2. new \in Requests /\ Idle \in Works
  BY DEF Requests, Works
<1>3. /\ \A i \in DnsIds : /\ ~dns.req[i].made /\ ~dns.req[i].timer /\ ~dns.req[i].done
                           /\ dns.req[i].got = << >>
  BY <1>1
<1> HIDE DEF new
<1>4. dns.req \in [DnsIds -> Requests] /\ << >> \in Seq(DnsIds) /\ << >> \in Seq(Replies)
  BY <1>1, <1>2
<1>5. DnsTypeOK
  <2>1. 1 \in Nat /\ "user" \in {"user", "mail", "timers"} /\ {} \in SUBSET DnsIds /\ 1 <= 1
    OBVIOUS
  <2>2. dns = [clock |-> dns.clock, seen |-> dns.seen, stage |-> dns.stage, req |-> dns.req,
               jobs |-> dns.jobs, work |-> dns.work, mail |-> dns.mail, up |-> dns.up,
               lost |-> dns.lost]
    BY DEF DnsInit
  <2>3. dns \in DnsStates
    BY <1>1, <1>2, <1>4, <2>1, <2>2, Zenon DEF DnsStates
  <2> QED BY <1>1, <2>1, <2>3, Zenon DEF DnsTypeOK
<1>6. RepliesHonest
  BY <1>1, InEmpty, Zenon DEF RepliesHonest
<1>7. \A i \in DnsIds : Settled(i)
  BY <1>3, Zenon DEF Settled
<1> QED BY <1>5, <1>6, <1>7, Zenon DEF DnsInv

LEMMA DnsStepInv == ASSUME DnsInv, [DnsNext]_dnsVars PROVE DnsInv'
<1>1. CASE \E i \in DnsIds, room \in BOOLEAN : \E t \in DnsTimeouts : Resolve(i, t, room)
  BY <1>1, ResolveInv, Zenon
<1>2. CASE \E res \in {"addrs", "failed", "empty"} : RunJob(res)
  BY <1>2, RunJobInv, Zenon
<1>3. CASE \E room \in BOOLEAN : RunJobReplies(room)
  BY <1>3, RunJobRepliesInv, Zenon
<1>4. CASE DnsPollBegin \/ DnsMailDone \/ DnsTimersDone \/ DnsTick
  BY <1>4, DnsLoopInv, Zenon
<1>5. CASE DnsAnswered
  BY <1>5, DnsAnsweredInv, Zenon
<1>6. CASE DnsDestroy
  BY <1>6, DnsDestroyInv, Zenon
<1>7. CASE \E i \in DnsIds : DnsExpires(i)
  BY <1>7, DnsExpiresInv, Zenon
<1>8. CASE JobShed \/ ReplyShed
  BY <1>8, JobShedInv, ReplyShedInv, Zenon
<1>9. CASE UNCHANGED dnsVars
  BY <1>9, Zenon DEF dnsVars, DnsInv, DnsTypeOK, RepliesHonest, Honest, Settled, OnTheWay, Over
<1> QED BY <1>1, <1>2, <1>3, <1>4, <1>5, <1>6, <1>7, <1>8, <1>9, Zenon DEF DnsNext

\* A request is answered at most once, by the worker or by its timer, whichever is first, and
\* is never forgotten but for one without a deadline whose job or reply a mailbox refused or a
\* loop shed. Nobody is told that it is too late, by Expired or by the list without addresses
\* that a late job answers with, before it is (resolve, run_job, State::done, drain_mailbox).
THEOREM ResolverAnswersOnce == DnsSpec => []DnsOnce
<1>1. DnsInit => DnsInv
  BY DnsInitInv
<1>2. DnsInv /\ [DnsNext]_dnsVars => DnsInv'
  BY DnsStepInv
<1>3. DnsInv => DnsOnce
  <2> SUFFICES ASSUME DnsInv, NEW i \in DnsIds
               PROVE  LET r == dns.req[i] IN
                      /\ Len(r.got) <= 1 /\ (r.done <=> r.got # << >>)
                      /\ r.done => ~r.timer
                      /\ r.made /\ ~r.done => Underway(i) \/ (r.due = 0 /\ i \in dns.lost)
                      /\ \A k \in DOMAIN r.got :
                           r.got[k] \in {"expired", "empty"} => r.due # 0 /\ dns.clock >= r.due
    BY Zenon DEF DnsOnce
  <2>1. Settled(i)
    BY Zenon DEF DnsInv
  <2>2. CASE dns.req[i].done
    <3>1. PICK x : dns.req[i].got = <<x>> /\ (x \in {"expired", "empty"} => Over(i))
      BY <2>1, <2>2, Zenon DEF Settled
    <3>2. Len(<<x>>) <= 1 /\ <<x>> # << >> /\ \A k \in DOMAIN <<x>> : <<x>>[k] = x
      OBVIOUS
    <3>3. ~dns.req[i].timer
      BY <2>1, <2>2, Zenon DEF Settled
    <3> QED BY <2>2, <3>1, <3>2, <3>3, Zenon DEF Over
  <2>3. CASE ~dns.req[i].done
    <3>1. dns.req[i].got = << >> /\ Len(<< >>) <= 1 /\ DOMAIN << >> = {}
      BY <2>1, <2>3 DEF Settled
    <3>2. dns.req[i].made => dns.req[i].timer \/ (dns.req[i].due = 0 /\ OnTheWay(i))
      BY <2>1, <2>3, Zenon DEF Settled
    <3>3. OnTheWay(i) => Underway(i) \/ i \in dns.lost
      BY DEF OnTheWay, Underway, In
    <3>4. dns.req[i].timer => Underway(i)
      BY DEF Underway
    <3> QED BY <2>3, <3>1, <3>2, <3>3, <3>4
  <2> QED BY <2>2, <2>3
<1> QED BY <1>1, <1>2, <1>3, PTL DEF DnsSpec
=============================================================================
