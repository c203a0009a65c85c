-------------------------- MODULE HandleTable_proof --------------------------
(***************************************************************************)
(* Proofs about HandleTable for every generation width, table size and     *)
(* seed: a handle reaches exactly its own object, and slots are recycled   *)
(* one at a time.                                                          *)
(***************************************************************************)
EXTENDS HandleTable, Integers, SequenceTheorems, FiniteSetTheorems, TLAPS

\* The generation of a slot that has been released n times.
GenAfter(n) == ((FirstGen - 1 + n) % (GenMod - 1)) + 1

(* The parts of the inductive invariant *)

Generations ==
  /\ \A i \in Idx : gen[i] = GenAfter(rel[i])
  /\ \A h \in issued : h.gen = GenAfter(h.rel) /\ h.rel <= rel[h.idx] /\ h.idx < size

FreshIsDeferred == \A i \in fresh : Occurs(deferred, i)

HandleInv == TableTypeOK /\ Generations /\ SlotsPartition /\ FreshIsDeferred

-----------------------------------------------------------------------------
(* Generations *)

\* A generation is never 0.
LEMMA GenAfterType == ASSUME NEW n \in Nat PROVE GenAfter(n) \in 1 .. GenMod - 1
  BY HandleAssumption DEF GenAfter

\* release() moves a slot to its next generation, past 0.
LEMMA BumpIsNext == ASSUME NEW n \in Nat PROVE Bump(GenAfter(n)) = GenAfter(n + 1)
<1> DEFINE m == GenMod - 1
           x == FirstGen - 1 + n
           a == x \div m
           r == x % m
           b == (x + 1) \div m
           s == (x + 1) % m
<1>1. m \in Nat /\ m > 1 /\ x \in Nat /\ GenMod = m + 1 /\ FirstGen - 1 + (n + 1) = x + 1
  BY HandleAssumption
<1>2. GenAfter(n) = r + 1 /\ GenAfter(n + 1) = s + 1
  BY <1>1 DEF GenAfter
<1> HIDE DEF m, x
<1>3. /\ a \in Nat /\ r \in 0 .. m - 1 /\ x = m * a + r
      /\ b \in Nat /\ s \in 0 .. m - 1 /\ x + 1 = m * b + s
  BY <1>1
<1> HIDE DEF a, r, b, s
<1>4. m * (b - a) = r + 1 - s
  BY <1>1, <1>3
<1>5. r + 1 < m => s = r + 1
  <2>1. ASSUME r + 1 < m PROVE b = a
    <3>1. m * (b - a) < m /\ m * (b - a) > -m
      BY <1>1, <1>3, <1>4, <2>1
    <3>2. ~(b - a >= 1) /\ ~(b - a <= -1)
      BY <1>1, <1>3, <3>1
    <3> QED
      BY <1>3, <3>2
  <2> QED
    BY <1>1, <1>3, <1>4, <2>1
<1>6. r + 1 = m => s = 0
  <2>1. ASSUME r + 1 = m PROVE x + 1 = m * (a + 1)
    BY <1>1, <1>3, <2>1
  <2>2. ASSUME r + 1 = m PROVE m * (b - (a + 1)) = -s
    BY <1>1, <1>3, <1>4, <2>2
  <2>3. ASSUME r + 1 = m PROVE b = a + 1
    <3>1. ~(b - (a + 1) >= 1) /\ ~(b - (a + 1) <= -1)
      BY <1>1, <1>3, <2>2, <2>3
    <3> QED
      BY <1>3, <3>1
  <2> QED
    BY <1>1, <1>3, <2>2, <2>3
<1>7. (r + 2) % GenMod = IF r + 1 = m THEN 0 ELSE r + 2
  BY <1>1, <1>3
<1> QED
  BY <1>1, <1>2, <1>3, <1>5, <1>6, <1>7 DEF Bump

\* Within one cycle of the counter no generation comes twice.
LEMMA GenAfterInj ==
  ASSUME NEW i \in Nat, NEW j \in Nat, i < j, j - i < GenMod - 1
  PROVE  GenAfter(i) # GenAfter(j)
<1> DEFINE m == GenMod - 1
           x == FirstGen - 1 + i
           y == FirstGen - 1 + j
           a == x \div m
           b == y \div m
<1> SUFFICES ASSUME GenAfter(i) = GenAfter(j) PROVE FALSE
  OBVIOUS
<1>1. m \in Nat /\ m > 1 /\ x \in Nat /\ y \in Nat /\ x < y /\ y - x < m /\ x % m = y % m
  BY HandleAssumption DEF GenAfter
<1> HIDE DEF m, x, y
<1>2. a \in Nat /\ b \in Nat /\ x = m * a + (x % m) /\ y = m * b + (y % m)
  BY <1>1
<1> HIDE DEF a, b
<1>3. y - x = m * (b - a)
  BY <1>1, <1>2
<1>4. ~(b - a <= 0) /\ ~(b - a >= 1)
  BY <1>1, <1>2, <1>3
<1> QED
  BY <1>2, <1>4
-----------------------------------------------------------------------------
(* The lists of vacant slots *)

\* emplace pops free_.back() ...
LEMMA PopBack ==
  ASSUME NEW s \in Seq(Idx), s # << >>, Distinct(s),
         NEW t, t = SubSeq(s, 1, Len(s) - 1)
  PROVE  /\ s[Len(s)] \in Idx /\ t \in Seq(Idx) /\ Distinct(t)
         /\ \A i : Occurs(t, i) <=> Occurs(s, i) /\ i # s[Len(s)]
<1>1. Len(s) \in Nat /\ Len(s) > 0
  BY EmptySeq
<1>2. \A a \in 1 .. Len(s) : s[a] \in Idx
  BY ElementOfSeq
<1>3. /\ t \in Seq(Idx) /\ Len(t) = Len(s) - 1
      /\ \A a \in 1 .. Len(s) - 1 : t[a] = s[a]
  <2>1. 1 \in Int /\ Len(s) - 1 \in Int /\ \A a \in 1 .. Len(s) - 1 : s[a] \in Idx
    BY <1>1, <1>2
  <2> DEFINE n == Len(s) - 1
  <2> HIDE DEF n
  <2>2. /\ t \in Seq(Idx)
        /\ Len(t) = IF 1 <= n THEN n - 1 + 1 ELSE 0
        /\ \A a \in 1 .. n - 1 + 1 : t[a] = s[1 + a - 1]
    <3>1. 1 \in Int /\ n \in Int /\ (\A a \in 1 .. n : s[a] \in Idx) /\ t = SubSeq(s, 1, n)
      BY <2>1 DEF n
    <3> QED
      BY ONLY <3>1, SubSeqProperties
  <2>3. Len(t) = Len(s) - 1 /\ n - 1 + 1 = Len(s) - 1
    <3>1. n \in Nat /\ n - 1 + 1 = n /\ n = Len(s) - 1
      BY <1>1 DEF n
    <3> QED
      BY <2>2, <3>1
  <2>4. ASSUME NEW a \in 1 .. Len(s) - 1 PROVE t[a] = s[a]
    <3>1. a \in 1 .. n - 1 + 1 /\ 1 + a - 1 = a
      BY <1>1, <2>3
    <3> QED
      BY <2>2, <3>1
  <2> QED
    BY <2>2, <2>3, <2>4
<1>4. ASSUME NEW i PROVE Occurs(t, i) <=> Occurs(s, i) /\ i # s[Len(s)]
  BY <1>1, <1>3 DEF Occurs, Distinct
<1> QED
  BY <1>1, <1>2, <1>3, <1>4 DEF Distinct

\* ... release appends to deferred_ ...
LEMMA PushBack ==
  ASSUME NEW s \in Seq(Idx), NEW x \in Idx, ~Occurs(s, x), Distinct(s)
  PROVE  /\ Append(s, x) \in Seq(Idx) /\ Distinct(Append(s, x))
         /\ \A i : Occurs(Append(s, x), i) <=> Occurs(s, i) \/ i = x
<1>1. /\ Append(s, x) \in Seq(Idx) /\ Len(Append(s, x)) = Len(s) + 1
      /\ \A a \in 1 .. Len(s) : Append(s, x)[a] = s[a]
      /\ Append(s, x)[Len(s) + 1] = x
  BY AppendProperties
<1>2. Len(s) \in Nat
  OBVIOUS
<1> DEFINE t == Append(s, x)
<1> HIDE DEF t
<1>3. ASSUME NEW i PROVE Occurs(t, i) <=> Occurs(s, i) \/ i = x
  <2>1. Occurs(s, i) \/ i = x => Occurs(t, i)
    BY <1>1, <1>2 DEF Occurs, t
  <2>2. ASSUME NEW a \in 1 .. Len(t), t[a] = i PROVE Occurs(s, i) \/ i = x
    BY <1>1, <1>2, <2>2 DEF Occurs, t
  <2> QED
    BY <2>1, <2>2 DEF Occurs
<1>4. Distinct(t)
  BY <1>1, <1>2 DEF Distinct, Occurs, t
<1> QED
  BY <1>1, <1>3, <1>4 DEF t

\* ... and reclaim moves deferred_ behind free_.
LEMMA Join ==
  ASSUME NEW s \in Seq(Idx), NEW t \in Seq(Idx), Distinct(s), Distinct(t),
         \A i \in Idx : ~(Occurs(s, i) /\ Occurs(t, i))
  PROVE  /\ s \o t \in Seq(Idx) /\ Distinct(s \o t)
         /\ \A i : Occurs(s \o t, i) <=> Occurs(s, i) \/ Occurs(t, i)
<1> DEFINE u == s \o t
<1>1. /\ u \in Seq(Idx) /\ Len(u) = Len(s) + Len(t)
      /\ \A a \in 1 .. Len(s) + Len(t) : u[a] = IF a <= Len(s) THEN s[a] ELSE t[a - Len(s)]
  BY ConcatProperties
<1>2. Len(s) \in Nat /\ Len(t) \in Nat
  OBVIOUS
<1> HIDE DEF u
<1>5. ASSUME NEW a \in 1 .. Len(s) PROVE a \in 1 .. Len(u) /\ u[a] = s[a]
  BY <1>1, <1>2
<1>6. ASSUME NEW a \in 1 .. Len(t) PROVE Len(s) + a \in 1 .. Len(u) /\ u[Len(s) + a] = t[a]
  <2>1. Len(s) + a \in 1 .. Len(s) + Len(t) /\ ~(Len(s) + a <= Len(s))
    BY <1>2
  <2>2. (Len(s) + a) - Len(s) = a
    BY <1>2
  <2> QED
    BY <1>1, <2>1, <2>2
<1>7. ASSUME NEW a \in 1 .. Len(u)
      PROVE  \/ a \in 1 .. Len(s) /\ u[a] = s[a]
             \/ a - Len(s) \in 1 .. Len(t) /\ a > Len(s) /\ u[a] = t[a - Len(s)]
  <2>1. a \in 1 .. Len(s) + Len(t)
    BY <1>1
  <2>2. CASE a <= Len(s)
    BY <1>2, <1>5, <2>1, <2>2
  <2>3. CASE ~(a <= Len(s))
    <3>1. a - Len(s) \in 1 .. Len(t) /\ a > Len(s)
      BY <1>2, <2>1, <2>3
    <3> QED
      BY <1>1, <2>1, <2>3, <3>1
  <2> QED
    BY <2>2, <2>3
<1>3. ASSUME NEW i PROVE Occurs(u, i) <=> Occurs(s, i) \/ Occurs(t, i)
  <2>1. ASSUME NEW a \in 1 .. Len(s), s[a] = i PROVE Occurs(u, i)
    BY <1>5, <2>1 DEF Occurs
  <2>2. ASSUME NEW a \in 1 .. Len(t), t[a] = i PROVE Occurs(u, i)
    BY <1>6, <2>2 DEF Occurs
  <2>3. ASSUME NEW a \in 1 .. Len(u), u[a] = i PROVE Occurs(s, i) \/ Occurs(t, i)
    BY <1>7, <2>3 DEF Occurs
  <2> QED
    BY <2>1, <2>2, <2>3 DEF Occurs
<1>4. Distinct(u)
  <2> SUFFICES ASSUME NEW a \in 1 .. Len(u), NEW b \in 1 .. Len(u), u[a] = u[b] PROVE a = b
    BY DEF Distinct
  <2>1. u[a] \in Idx
    BY <1>1, ElementOfSeq
  <2>2. CASE a \in 1 .. Len(s) /\ u[a] = s[a] /\ b \in 1 .. Len(s) /\ u[b] = s[b]
    BY <2>2 DEF Distinct
  <2>3. CASE /\ a - Len(s) \in 1 .. Len(t) /\ a > Len(s) /\ u[a] = t[a - Len(s)]
             /\ b - Len(s) \in 1 .. Len(t) /\ b > Len(s) /\ u[b] = t[b - Len(s)]
    <3>1. a - Len(s) = b - Len(s)
      BY <2>3 DEF Distinct
    <3> QED
      BY <1>1, <1>2, <3>1
  <2>4. CASE /\ a \in 1 .. Len(s) /\ u[a] = s[a]
             /\ b - Len(s) \in 1 .. Len(t) /\ u[b] = t[b - Len(s)]
    BY <2>1, <2>4 DEF Occurs
  <2>5. CASE /\ b \in 1 .. Len(s) /\ u[b] = s[b]
             /\ a - Len(s) \in 1 .. Len(t) /\ u[a] = t[a - Len(s)]
    BY <2>1, <2>5 DEF Occurs
  <2> QED
    BY <1>7, <2>2, <2>3, <2>4, <2>5
<1> QED
  BY <1>1, <1>3, <1>4 DEF u
-----------------------------------------------------------------------------
(* live_ *)

Living == {i \in Idx : alive[i]}

\* There are finitely many objects.
LEMMA LivingFinite == IsFiniteSet(Living) /\ Cardinality(Living) \in Nat
<1>1. IsFiniteSet(Idx)
  BY HandleAssumption, FS_Interval DEF Idx
<1>2. Living \in SUBSET Idx
  BY DEF Living
<1> QED
  BY <1>1, <1>2, FS_Subset, FS_CardinalityType

\* emplace counts one more ...
LEMMA PlaceLive ==
  ASSUME TableTypeOK, NEW i \in Idx, ~alive[i], live = Cardinality(Living),
         alive' = [alive EXCEPT ![i] = TRUE], live' = live + 1
  PROVE  live' = Cardinality(Living') /\ live' \in Nat
<1>1. Living' = Living \cup {i} /\ i \notin Living
  BY DEF Living, TableTypeOK
<1> QED
  BY <1>1, LivingFinite, FS_AddElement

\* ... and release one less.
LEMMA ReleaseLive ==
  ASSUME TableTypeOK, NEW i \in Idx, alive[i], live = Cardinality(Living),
         alive' = [alive EXCEPT ![i] = FALSE], live' = live - 1
  PROVE  live' = Cardinality(Living') /\ live' \in Nat
<1>1. Living' = Living \ {i} /\ i \in Living
  BY DEF Living, TableTypeOK
<1>2. IsFiniteSet(Living \ {i}) /\ Cardinality(Living \ {i}) = Cardinality(Living) - 1
  BY <1>1, LivingFinite, FS_RemoveElement
<1>3. Cardinality(Living \ {i}) \in Nat
  BY <1>2, FS_CardinalityType
<1> QED
  BY <1>1, <1>2, <1>3

-----------------------------------------------------------------------------
(* The invariant is inductive *)

\* An empty table satisfies the invariant.
LEMMA HandleInvInit == TableInit => HandleInv
<1> SUFFICES ASSUME TableInit PROVE HandleInv
  OBVIOUS
<1>1. 0 \in Nat /\ GenAfter(0) = FirstGen
  BY HandleAssumption DEF GenAfter
<1>2. TableTypeOK
  BY HandleAssumption DEF TableInit, TableTypeOK
<1>3. Generations
  BY <1>1 DEF TableInit, Generations
<1>4. \A i : ~Occurs(free, i) /\ ~Occurs(deferred, i)
  BY DEF TableInit, Occurs
<1>5. Distinct(free) /\ Distinct(deferred)
  BY DEF TableInit, Distinct
<1>6. Living = {}
  BY DEF TableInit, Living
<1>7. live = Cardinality(Living)
  BY <1>6, FS_EmptySet DEF TableInit
<1>8. \A i \in Idx : ~(i < size) /\ ~alive[i]
  BY HandleAssumption DEF TableInit, Idx
<1>9. SlotsPartition
  BY <1>4, <1>5, <1>7, <1>8 DEF SlotsPartition, Living
<1> QED
  BY <1>2, <1>3, <1>9 DEF TableInit, HandleInv, FreshIsDeferred

\* What emplace does to the handles, in whichever slot.
LEMMA PlaceGenerations ==
  ASSUME TableTypeOK, Generations, NEW i \in Idx, Place(i), i < size',
         size' \in 0 .. MaxSlots, size <= size', gen' = gen, rel' = rel
  PROVE  Generations' /\ issued' \subseteq Handles
<1> DEFINE h0 == [idx |-> i, gen |-> gen[i], rel |-> rel[i]]
<1>1. h0 \in Handles /\ h0.idx = i /\ h0.gen = gen[i] /\ h0.rel = rel[i]
  BY DEF TableTypeOK, Handles
<1>2. h0.gen = GenAfter(h0.rel) /\ h0.rel <= rel'[h0.idx] /\ h0.idx < size'
  BY <1>1 DEF Generations, TableTypeOK
<1>3. ASSUME NEW h \in issued
      PROVE  h.gen = GenAfter(h.rel) /\ h.rel <= rel'[h.idx] /\ h.idx < size'
  <2>1. h.idx \in Nat /\ size \in Nat /\ size' \in Nat
    BY HandleAssumption DEF TableTypeOK, Handles, Idx
  <2> QED
    BY <2>1 DEF Generations
<1>4. issued' = issued \cup {h0}
  BY DEF Place
<1> HIDE DEF h0
<1> QED
  BY <1>1, <1>2, <1>3, <1>4 DEF Generations, TableTypeOK

\* Each operation preserves it: emplace from the free list,
LEMMA EmplaceReuseInv == HandleInv /\ EmplaceReuse => HandleInv'
<1> SUFFICES ASSUME HandleInv, EmplaceReuse PROVE HandleInv'
  OBVIOUS
<1> DEFINE k == free[Len(free)]
<1>1. /\ k \in Idx /\ free' \in Seq(Idx) /\ Distinct(free')
      /\ \A i : Occurs(free', i) <=> Occurs(free, i) /\ i # k
  <2>1. free \in Seq(Idx) /\ Distinct(free) /\ free # << >> /\ free' = SubSeq(free, 1, Len(free) - 1)
    BY Zenon DEF HandleInv, TableTypeOK, SlotsPartition, EmplaceReuse
  <2> QED BY <2>1, PopBack
<1>2. Occurs(free, k)
  <2>1. Len(free) \in 1 .. Len(free)
    BY EmptySeq DEF HandleInv, TableTypeOK, EmplaceReuse
  <2> QED
    BY <2>1 DEF Occurs
<1>3. Place(k) /\ UNCHANGED <<size, gen, deferred, rel, fresh>>
  BY DEF EmplaceReuse
<1> HIDE DEF k
<1>4. ~alive[k] /\ k < size /\ ~Occurs(deferred, k)
  BY <1>1, <1>2 DEF HandleInv, SlotsPartition
<1>5. live' = Cardinality(Living') /\ live' \in Nat
  BY <1>1, <1>3, <1>4, PlaceLive DEF HandleInv, SlotsPartition, Place, Living
<1>6. Generations' /\ issued' \subseteq Handles
  <2>1. size' \in 0 .. MaxSlots /\ size <= size' /\ k < size'
    BY <1>3, <1>4, HandleAssumption DEF HandleInv, TableTypeOK
  <2> QED
    BY <1>1, <1>3, <2>1, PlaceGenerations DEF HandleInv
<1>7. TableTypeOK'
  BY <1>1, <1>3, <1>5, <1>6 DEF HandleInv, TableTypeOK, Place
<1>8. \A i \in Idx : alive'[i] <=> alive[i] \/ i = k
  BY <1>1, <1>3 DEF HandleInv, TableTypeOK, Place
<1>9. SlotsPartition'
  <2>1. deferred' = deferred /\ size' = size
    BY <1>3
  <2>2. ASSUME NEW i \in Idx
        PROVE  /\ i < size' <=> alive'[i] \/ Occurs(free', i) \/ Occurs(deferred', i)
               /\ ~(alive'[i] /\ Occurs(free', i)) /\ ~(alive'[i] /\ Occurs(deferred', i))
               /\ ~(Occurs(free', i) /\ Occurs(deferred', i))
    BY <1>1, <1>2, <1>4, <1>8, <2>1 DEF HandleInv, SlotsPartition
  <2> QED
    BY <1>1, <1>5, <2>1, <2>2 DEF HandleInv, SlotsPartition, Living
<1> QED
  BY <1>3, <1>6, <1>7, <1>9 DEF HandleInv, FreshIsDeferred

\* emplace in a new slot,
LEMMA EmplaceGrowInv == HandleInv /\ EmplaceGrow => HandleInv'
<1> SUFFICES ASSUME HandleInv, EmplaceGrow PROVE HandleInv'
  OBVIOUS
<1>1. size \in Idx /\ size' = size + 1 /\ size' \in 0 .. MaxSlots /\ size < size' /\ size <= size'
  BY HandleAssumption DEF HandleInv, TableTypeOK, EmplaceGrow, Idx
<1>2. ~alive[size] /\ ~Occurs(free, size) /\ ~Occurs(deferred, size)
  <2>1. size \in Nat /\ ~(size < size)
    BY <1>1 DEF Idx
  <2> QED
    BY <1>1, <2>1 DEF HandleInv, SlotsPartition
<1>3. Place(size) /\ UNCHANGED <<gen, free, deferred, rel, fresh>>
  BY DEF EmplaceGrow
<1>4. live' = Cardinality(Living') /\ live' \in Nat
  BY <1>1, <1>2, <1>3, PlaceLive DEF HandleInv, SlotsPartition, Place, Living
<1>5. Generations' /\ issued' \subseteq Handles
  BY <1>1, <1>3, PlaceGenerations DEF HandleInv
<1>6. TableTypeOK'
  BY <1>1, <1>3, <1>4, <1>5 DEF HandleInv, TableTypeOK, Place
<1>7. \A i \in Idx : alive'[i] <=> alive[i] \/ i = size
  BY <1>1, <1>3 DEF HandleInv, TableTypeOK, Place
<1>8. \A i \in Idx : i < size' <=> i < size \/ i = size
  BY <1>1 DEF Idx
<1>9. SlotsPartition'
  <2>1. ASSUME NEW i \in Idx
        PROVE  /\ i < size' <=> alive'[i] \/ Occurs(free', i) \/ Occurs(deferred', i)
               /\ ~(alive'[i] /\ Occurs(free', i)) /\ ~(alive'[i] /\ Occurs(deferred', i))
               /\ ~(Occurs(free', i) /\ Occurs(deferred', i))
    BY <1>2, <1>3, <1>7, <1>8 DEF HandleInv, SlotsPartition
  <2> QED
    BY <1>3, <1>4, <2>1 DEF HandleInv, SlotsPartition, Living
<1> QED
  BY <1>3, <1>5, <1>6, <1>9 DEF HandleInv, FreshIsDeferred

\* release, through a live handle or a stale one,
LEMMA ReleaseInv == HandleInv /\ (\E h \in issued : Release(h)) => HandleInv'
<1> SUFFICES ASSUME HandleInv, NEW h \in issued, Release(h) PROVE HandleInv'
  OBVIOUS
<1> DEFINE k == h.idx
<1>1. k \in Idx /\ alive[k] /\ k < size
  BY DEF HandleInv, TableTypeOK, Handles, Release, Resolves
<1>2. /\ alive' = [alive EXCEPT ![k] = FALSE] /\ live' = live - 1
      /\ gen' = [gen EXCEPT ![k] = Bump(@)] /\ rel' = [rel EXCEPT ![k] = @ + 1]
      /\ deferred' = Append(deferred, k) /\ fresh' = fresh \cup {k}
      /\ UNCHANGED <<size, free, issued>>
  BY DEF Release
<1> HIDE DEF k
<1>3. ~Occurs(free, k) /\ ~Occurs(deferred, k)
  BY <1>1 DEF HandleInv, SlotsPartition
<1>4. /\ deferred' \in Seq(Idx) /\ Distinct(deferred')
      /\ \A i : Occurs(deferred', i) <=> Occurs(deferred, i) \/ i = k
  BY <1>1, <1>2, <1>3, PushBack DEF HandleInv, TableTypeOK, SlotsPartition
<1>5. live' = Cardinality(Living') /\ live' \in Nat
  BY <1>1, <1>2, ReleaseLive DEF HandleInv, SlotsPartition, Living
<1>6. rel[k] \in Nat /\ gen'[k] = GenAfter(rel[k] + 1) /\ rel'[k] = rel[k] + 1
  <2>1. gen'[k] = Bump(gen[k]) /\ rel'[k] = rel[k] + 1 /\ rel[k] \in Nat
    BY <1>1, <1>2 DEF HandleInv, TableTypeOK
  <2>2. gen[k] = GenAfter(rel[k])
    BY <1>1 DEF HandleInv, Generations
  <2> QED
    BY <2>1, <2>2, BumpIsNext
<1>7. \A i \in Idx : gen'[i] = GenAfter(rel'[i]) /\ rel[i] <= rel'[i] /\ rel'[i] \in Nat
  <2>1. ASSUME NEW i \in Idx, i # k PROVE gen'[i] = gen[i] /\ rel'[i] = rel[i] /\ rel[i] \in Nat
    BY <1>1, <1>2, <2>1 DEF HandleInv, TableTypeOK
  <2> QED
    BY <1>6, <2>1 DEF HandleInv, Generations
<1>8. Generations'
  <2>1. ASSUME NEW g \in issued PROVE g.rel <= rel'[g.idx]
    <3>1. g.idx \in Idx /\ g.rel \in Nat /\ g.rel <= rel[g.idx] /\ rel[g.idx] \in Nat
      BY DEF HandleInv, TableTypeOK, Handles, Generations
    <3> QED
      BY <1>7, <3>1
  <2> QED
    BY <1>2, <1>7, <2>1 DEF HandleInv, Generations
<1>9. TableTypeOK'
  <2>1. \A i \in Idx : gen'[i] \in 1 .. GenMod - 1
    BY <1>7, GenAfterType
  <2>2. DOMAIN gen' = Idx /\ gen' = [i \in Idx |-> gen'[i]]
    BY <1>2 DEF HandleInv, TableTypeOK
  <2>3. gen' \in [Idx -> 1 .. GenMod - 1]
    BY <2>1, <2>2
  <2> QED
    BY <1>1, <1>2, <1>4, <1>5, <2>3 DEF HandleInv, TableTypeOK
<1>10. \A i \in Idx : alive'[i] <=> alive[i] /\ i # k
  BY <1>1, <1>2 DEF HandleInv, TableTypeOK
<1>11. SlotsPartition'
  <2>1. free' = free /\ size' = size
    BY <1>2
  <2>2. ASSUME NEW i \in Idx
        PROVE  /\ i < size' <=> alive'[i] \/ Occurs(free', i) \/ Occurs(deferred', i)
               /\ ~(alive'[i] /\ Occurs(free', i)) /\ ~(alive'[i] /\ Occurs(deferred', i))
               /\ ~(Occurs(free', i) /\ Occurs(deferred', i))
    BY <1>1, <1>3, <1>4, <1>10, <2>1 DEF HandleInv, SlotsPartition
  <2> QED
    BY <1>4, <1>5, <2>1, <2>2 DEF HandleInv, SlotsPartition, Living
<1>12. FreshIsDeferred'
  BY <1>2, <1>4 DEF HandleInv, FreshIsDeferred
<1> QED
  BY <1>8, <1>9, <1>11, <1>12 DEF HandleInv

\* and reclaim at the end of the iteration.
LEMMA ReclaimInv == HandleInv /\ Reclaim => HandleInv'
<1> SUFFICES ASSUME HandleInv, Reclaim PROVE HandleInv'
  OBVIOUS
<1>1. /\ free' \in Seq(Idx) /\ Distinct(free')
      /\ \A i : Occurs(free', i) <=> Occurs(free, i) \/ Occurs(deferred, i)
  BY Join DEF HandleInv, TableTypeOK, SlotsPartition, Reclaim
<1>2. deferred' = << >> /\ fresh' = {} /\ UNCHANGED <<size, gen, alive, live, rel, issued>>
  BY DEF Reclaim
<1>3. deferred' \in Seq(Idx) /\ Distinct(deferred') /\ \A i : ~Occurs(deferred', i)
  BY <1>2 DEF Distinct, Occurs
<1>4. SlotsPartition'
  <2>1. ASSUME NEW i \in Idx
        PROVE  /\ i < size' <=> alive'[i] \/ Occurs(free', i) \/ Occurs(deferred', i)
               /\ ~(alive'[i] /\ Occurs(free', i)) /\ ~(alive'[i] /\ Occurs(deferred', i))
               /\ ~(Occurs(free', i) /\ Occurs(deferred', i))
    BY <1>1, <1>2, <1>3 DEF HandleInv, SlotsPartition
  <2> QED
    BY <1>1, <1>2, <1>3, <2>1 DEF HandleInv, SlotsPartition
<1> QED
  BY <1>1, <1>2, <1>3, <1>4 DEF HandleInv, TableTypeOK, Generations, FreshIsDeferred

\* Every behaviour of the table keeps the invariant.
LEMMA HandleInvariant == TableSpec => []HandleInv
<1>1. HandleInv /\ [TableNext]_tableVars => HandleInv'
  <2> SUFFICES ASSUME HandleInv, [TableNext]_tableVars PROVE HandleInv'
    OBVIOUS
  <2>1. CASE UNCHANGED tableVars
    BY <2>1 DEF tableVars, HandleInv, TableTypeOK, Generations, SlotsPartition, FreshIsDeferred
  <2> QED
    BY <2>1, EmplaceReuseInv, EmplaceGrowInv, ReleaseInv, ReclaimInv DEF TableNext
<1> QED
  BY <1>1, HandleInvInit, PTL DEF TableSpec

-----------------------------------------------------------------------------
(* What HandleTable promises *)

\* The state is well formed, every slot is in exactly one place and live_ counts
\* the objects, whatever the sequence of emplace, release and reclaim.
THEOREM HandleTableSafe == TableSpec => [](TableTypeOK /\ SlotsPartition)
  BY HandleInvariant, PTL DEF HandleInv

\* get() and the completion tag are exact within one cycle of the generation
\* counter: they find the object the handle was issued for, or nothing.
THEOREM HandleTableExact == TableSpec => []HandleExact
<1>1. HandleInv => HandleExact
  <2> SUFFICES ASSUME HandleInv, NEW h \in issued, rel[h.idx] - h.rel < GenMod - 1
               PROVE  Resolves(TagSlot(h.idx), h.gen) <=> alive[h.idx] /\ rel[h.idx] = h.rel
    BY DEF HandleExact
  <2>1. /\ h.idx \in Idx /\ h.rel \in Nat /\ rel[h.idx] \in Nat
        /\ h.gen = GenAfter(h.rel) /\ h.rel <= rel[h.idx] /\ h.idx < size
        /\ gen[h.idx] = GenAfter(rel[h.idx])
    BY DEF HandleInv, TableTypeOK, Handles, Generations
  <2>2. TagSlot(h.idx) = h.idx
    BY <2>1, HandleAssumption DEF TagSlot, Idx
  <2>3. gen[h.idx] = h.gen <=> rel[h.idx] = h.rel
    BY <2>1, GenAfterInj
  <2> QED
    BY <2>1, <2>2, <2>3 DEF Resolves
<1> QED
  BY <1>1, HandleInvariant, PTL

\* The memory of an object released in this iteration is not reused in it.
THEOREM HandleTableNoReuse == TableSpec => []NoReuseBeforeReclaim
<1>1. HandleInv => NoReuseBeforeReclaim
  BY DEF HandleInv, TableTypeOK, FreshIsDeferred, SlotsPartition, NoReuseBeforeReclaim
<1> QED
  BY <1>1, HandleInvariant, PTL

\* The handle table keeps all its promises at once, for any number of slots and any
\* width of the generation counter.
THEOREM HandleTableSound == TableSpec => []TableSound
  BY HandleTableSafe, HandleTableExact, HandleTableNoReuse, PTL DEF TableSound
=============================================================================
