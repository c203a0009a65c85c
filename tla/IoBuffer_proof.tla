--------------------------- MODULE IoBuffer_proof ---------------------------
(***************************************************************************)
(* The buffer holds the caller's bytes for every shape, every length of    *)
(* the pieces and every number of bytes.                                   *)
(***************************************************************************)
EXTENDS IoBuffer, TLAPS

Spans == [at : Int, n : Nat]

IoRec(M) ==
  [owner : {"user", "conn"}, cap : Nat, room : Nat, start : Nat, size : Nat, mem : M,
   want : Seq(Nat), next : Nat, lent : Spans, over : {"no", "below"}, wire : {"ok", "moved"}]

\* the readable bytes are the caller's
Holds(r) ==
  /\ r.start + r.size <= r.cap
  /\ r.size = Len(r.want)
  /\ \A i \in 1 .. r.size : r.mem[r.start + i - 1] = r.want[i]

\* A connection never prepends, so its bytes never start below the headroom
\* and compact() moves them to the left only.  The span of a send in
\* flight is no longer than what is readable.
IoOk(r) ==
  /\ r \in IoRec([0 .. r.cap - 1 -> Nat])
  /\ r.room < r.cap
  /\ r.over = "no" => Holds(r)
  /\ r.over = "below" => r.owner = "user"
  /\ r.owner = "conn" => r.start >= r.room
  /\ r.lent.n > 0 => r.owner = "conn" /\ r.lent.n <= r.size

\* a buffer whose bytes were not written past the end
Good(r) == IoOk(r) /\ r.over = "no"

\* what a shift or a growth leaves alone
SameBytes(r, t) ==
  /\ t.size = r.size /\ t.want = r.want /\ t.next = r.next
  /\ t.owner = r.owner /\ t.room = r.room

-----------------------------------------------------------------------------
\* The fields of a buffer have their types, and the bytes of a good one are
\* where it says.
LEMMA GoodFacts ==
  ASSUME NEW r, Good(r)
  PROVE  /\ r \in IoRec([0 .. r.cap - 1 -> Nat]) /\ Holds(r)
         /\ r.cap \in Nat /\ r.room \in Nat /\ r.start \in Nat /\ r.size \in Nat
         /\ r.next \in Nat /\ r.want \in Seq(Nat) /\ r.room < r.cap
         /\ r.mem \in [0 .. r.cap - 1 -> Nat]
         /\ r.owner \in {"user", "conn"} /\ r.lent \in Spans /\ r.wire \in {"ok", "moved"}
<1>1. r \in IoRec([0 .. r.cap - 1 -> Nat]) /\ Holds(r) /\ r.room < r.cap
  BY DEF Good, IoOk
<1> QED
  BY <1>1 DEF IoRec

\* memmove() keeps the readable bytes when they fit at their new place.
LEMMA ShiftKeeps ==
  ASSUME NEW r, Good(r), NEW to \in Nat, to + r.size <= r.cap, to >= r.room
  PROVE  /\ Good(Shift(r, to)) /\ SameBytes(r, Shift(r, to))
         /\ Shift(r, to).start = to /\ Shift(r, to).cap = r.cap
<1> DEFINE t == Shift(r, to)
<1>1. /\ r \in IoRec([0 .. r.cap - 1 -> Nat]) /\ Holds(r)
      /\ r.start \in Nat /\ r.size \in Nat /\ r.cap \in Nat /\ r.room \in Nat
      /\ r.mem \in [0 .. r.cap - 1 -> Nat]
  BY GoodFacts
<1>2. t.mem = [i \in 0 .. r.cap - 1 |->
                 IF to <= i /\ i < to + r.size THEN r.mem[r.start + i - to] ELSE r.mem[i]]
  BY <1>1 DEF Shift, IoRec
<1>3. SameBytes(r, t) /\ t.cap = r.cap /\ t.start = to /\ t.lent = r.lent
  BY <1>1 DEF Shift, IoRec, SameBytes
<1>4. t.over = "no"
  BY <1>1 DEF Shift, IoRec, Good
<1>5. t.mem \in [0 .. t.cap - 1 -> Nat]
  <2>1. ASSUME NEW i \in 0 .. r.cap - 1, to <= i, i < to + r.size
        PROVE  r.mem[r.start + i - to] \in Nat
    <3>1. r.start + i - to \in 0 .. r.cap - 1
      BY SMTT(30), <1>1, <2>1 DEF Holds
    <3> QED
      BY <1>1, <3>1
  <2>2. ASSUME NEW i \in 0 .. r.cap - 1
        PROVE  r.mem[i] \in Nat
    BY <1>1
  <2> HIDE DEF t
  <2> QED
    BY <1>2, <1>3, <2>1, <2>2
<1>6. t \in IoRec([0 .. t.cap - 1 -> Nat])
  BY <1>1, <1>3, <1>4, <1>5 DEF Shift, IoRec
<1> HIDE DEF t
<1>7. Holds(t)
  <2>1. ASSUME NEW i \in 1 .. r.size
        PROVE  t.mem[to + i - 1] = r.mem[r.start + i - 1]
    <3>1. to + i - 1 \in 0 .. r.cap - 1 /\ to <= to + i - 1 /\ to + i - 1 < to + r.size
      BY <1>1
    <3>2. r.start + (to + i - 1) - to = r.start + i - 1
      BY <1>1
    <3> QED
      BY <1>2, <3>1, <3>2
  <2> QED
    BY <1>1, <1>3, <2>1 DEF Holds, SameBytes
<1>8. IoOk(t)
  BY <1>1, <1>3, <1>4, <1>6, <1>7 DEF IoOk, Good, SameBytes
<1> QED
  BY <1>3, <1>4, <1>8 DEF t, Good

\* grow() keeps the readable bytes and moves them to the headroom.
LEMMA GrowKeeps ==
  ASSUME NEW r, Good(r), NEW need \in Nat, NEW t \in grow(r, need)
  PROVE  Good(t) /\ SameBytes(r, t) /\ t.start = r.room /\ t.cap >= need
<1>1. /\ r \in IoRec([0 .. r.cap - 1 -> Nat]) /\ Holds(r)
      /\ r.start \in Nat /\ r.size \in Nat /\ r.cap \in Nat /\ r.room \in Nat /\ r.room < r.cap
      /\ r.mem \in [0 .. r.cap - 1 -> Nat] /\ r.lent \in Spans
  BY GoodFacts
<1>2. PICK n \in GrownCaps(r.cap, need) :
        t = [r EXCEPT !.cap = n,
                      !.mem = [i \in 0 .. n - 1 |->
                                 IF r.room <= i /\ i < r.room + r.size
                                   THEN r.mem[r.start + i - r.room] ELSE 0],
                      !.start = r.room,
                      !.lent = [at |-> Freed, n |-> r.lent.n]]
  BY DEF grow
<1>3. n \in Nat /\ n >= need /\ n >= 2 * r.cap
  BY <1>1, <1>2 DEF GrownCaps
<1>n. /\ r.start \in Nat /\ r.size \in Nat /\ r.cap \in Nat /\ r.room \in Nat
      /\ r.room < r.cap /\ r.start + r.size <= r.cap /\ n \in Nat /\ 2 * r.cap <= n
  BY <1>1, <1>3 DEF Holds
<1>4. t.mem = [i \in 0 .. n - 1 |->
                 IF r.room <= i /\ i < r.room + r.size THEN r.mem[r.start + i - r.room] ELSE 0]
  BY <1>1, <1>2 DEF IoRec
<1>5. SameBytes(r, t) /\ t.cap = n /\ t.start = r.room /\ t.lent = [at |-> Freed, n |-> r.lent.n]
  BY <1>1, <1>2 DEF IoRec, SameBytes
<1>6. t.over = "no"
  BY <1>1, <1>2 DEF IoRec, Good
<1>7. t.mem \in [0 .. t.cap - 1 -> Nat]
  <2>1. ASSUME NEW i \in 0 .. n - 1, r.room <= i, i < r.room + r.size
        PROVE  r.mem[r.start + i - r.room] \in Nat
    <3>1. r.start + i - r.room \in 0 .. r.cap - 1
      BY <1>n, <2>1
    <3> QED
      BY <1>1, <3>1
  <2> QED
    BY <1>4, <1>5, <2>1
<1>8. t.lent \in Spans /\ t.lent.n = r.lent.n
  BY <1>1, <1>5 DEF Spans, Freed
<1>9. t \in IoRec([0 .. t.cap - 1 -> Nat])
  BY <1>1, <1>2, <1>3, <1>5, <1>6, <1>7, <1>8 DEF IoRec
<1>10. Holds(t)
  <2>1. ASSUME NEW i \in 1 .. r.size
        PROVE  t.mem[r.room + i - 1] = r.mem[r.start + i - 1]
    <3>1. r.room + i - 1 \in 0 .. n - 1 /\ r.room <= r.room + i - 1 /\ r.room + i - 1 < r.room + r.size
      BY <1>n
    <3>2. r.start + (r.room + i - 1) - r.room = r.start + i - 1
      BY <1>1
    <3> QED
      BY <1>4, <3>1, <3>2
  <2>2. r.room + r.size <= n
    BY <1>1, <1>3 DEF Holds
  <2> QED
    BY <1>1, <1>5, <2>1, <2>2 DEF Holds, SameBytes
<1>11. IoOk(t)
  BY <1>1, <1>3, <1>5, <1>6, <1>8, <1>9, <1>10 DEF IoOk, Good, SameBytes
<1> QED
  BY <1>3, <1>5, <1>6, <1>11 DEF Good

\* compact() either keeps the bytes or has moved them to the right, past the
\* end: then they started below the headroom, and the owner is no connection.
LEMMA CompactKeeps ==
  ASSUME NEW r, Good(r)
  PROVE  \/ /\ Good(compact(r)) /\ SameBytes(r, compact(r))
            /\ compact(r).start = r.room /\ compact(r).cap = r.cap
         \/ /\ IoOk(compact(r)) /\ compact(r).over = "below"
            /\ compact(r).cap = r.cap /\ r.room + r.size > r.cap
<1> DEFINE t == Shift(r, r.room)
<1>1. /\ r \in IoRec([0 .. r.cap - 1 -> Nat])
      /\ r.start \in Nat /\ r.size \in Nat /\ r.cap \in Nat /\ r.room \in Nat
      /\ r.mem \in [0 .. r.cap - 1 -> Nat] /\ r.start + r.size <= r.cap /\ r.room < r.cap
  BY GoodFacts DEF Holds
<1>2. CASE r.start = r.room
  BY <1>1, <1>2 DEF compact, SameBytes
<1>3. CASE r.start # r.room /\ r.room + r.size <= r.cap
  BY <1>1, <1>3, ShiftKeeps DEF compact
<1>4. CASE r.start # r.room /\ ~(r.room + r.size <= r.cap)
  <2>1. r.start < r.room /\ r.room + r.size > r.cap
    BY <1>1, <1>4
  <2>2. t.over = "below"
    BY <1>1, <2>1 DEF Shift, IoRec
  <2>3. /\ t.cap = r.cap /\ t.start = r.room /\ t.lent = r.lent /\ t.owner = r.owner
        /\ t.room = r.room /\ t.size = r.size
    BY <1>1 DEF Shift, IoRec
  <2>4. t.mem = [i \in 0 .. r.cap - 1 |->
                   IF r.room <= i /\ i < r.room + r.size THEN r.mem[r.start + i - r.room] ELSE r.mem[i]]
    BY <1>1 DEF Shift, IoRec
  <2>5. t.mem \in [0 .. t.cap - 1 -> Nat]
    <3>1. ASSUME NEW i \in 0 .. r.cap - 1, r.room <= i, i < r.room + r.size
          PROVE  r.mem[r.start + i - r.room] \in Nat
      <4>1. r.start + i - r.room \in 0 .. r.cap - 1
        BY <1>1, <2>1, <3>1
      <4> QED
        BY <1>1, <4>1
    <3>2. ASSUME NEW i \in 0 .. r.cap - 1
          PROVE  r.mem[i] \in Nat
      BY <1>1
    <3> HIDE DEF t
    <3> QED
      BY <2>3, <2>4, <3>1, <3>2
  <2>6. t \in IoRec([0 .. t.cap - 1 -> Nat])
    BY <1>1, <2>2, <2>3, <2>5 DEF Shift, IoRec
  <2>7. r.owner = "user"
    BY <1>1, <2>1 DEF Good, IoOk, IoRec
  <2> HIDE DEF t
  <2>8. IoOk(t)
    BY <1>1, <2>2, <2>3, <2>6, <2>7 DEF IoOk, Good
  <2> QED
    BY <1>4, <2>1, <2>2, <2>3, <2>8 DEF compact, t
<1> QED
  BY <1>2, <1>3, <1>4

\* writable(n) keeps the bytes and makes room for n more behind them, unless
\* its compact() wrote past the end.
LEMMA WritableKeeps ==
  ASSUME NEW r, Good(r), NEW n \in Nat, NEW t \in ensure_writable(r, n)
  PROVE  \/ Good(t) /\ SameBytes(r, t) /\ t.start + t.size + n <= t.cap
         \/ IoOk(t) /\ t.over = "below"
<1> DEFINE k == compact(r)
<1>1. /\ r.start \in Nat /\ r.size \in Nat /\ r.cap \in Nat /\ r.room \in Nat
      /\ r.start + r.size <= r.cap /\ r.room < r.cap
  BY GoodFacts DEF Holds
<1>2. CASE r.cap - r.start - r.size >= n
  <2>1. t = r
    BY <1>2 DEF ensure_writable
  <2> QED
    BY <1>1, <1>2, <2>1 DEF SameBytes
<1>3. CASE ~(r.cap - r.start - r.size >= n) /\ Short(k, n)
  <2>1. t \in grow(k, r.room + r.size + n)
    BY <1>3 DEF ensure_writable
  <2>2. Good(k) /\ SameBytes(r, k)
    <3>1. k.cap - k.room - k.size >= 0
      BY <1>3 DEF Short
    <3>2. k.room = r.room /\ k.size = r.size
      <4>1. r \in IoRec([0 .. r.cap - 1 -> Nat])
        BY GoodFacts
      <4> QED
        BY <4>1 DEF compact, Shift, IoRec
    <3> HIDE DEF k
    <3>3. k.cap = r.cap /\ (r.room + r.size <= r.cap => Good(k) /\ SameBytes(r, k))
      BY CompactKeeps, <1>1 DEF k
    <3> QED
      BY <1>1, <3>1, <3>2, <3>3
  <2> HIDE DEF k
  <2>3. Good(t) /\ SameBytes(k, t) /\ t.start = k.room /\ t.cap >= r.room + r.size + n
    BY <1>1, <2>1, <2>2, GrowKeeps
  <2>4. SameBytes(r, t) /\ t.start = r.room /\ t.size = r.size
    BY <2>2, <2>3 DEF SameBytes
  <2>5. t.cap \in Nat
    BY <2>3, GoodFacts
  <2> QED
    BY <1>1, <2>3, <2>4, <2>5
<1>4. CASE ~(r.cap - r.start - r.size >= n) /\ ~Short(k, n)
  <2>1. t = k
    BY <1>4 DEF ensure_writable
  <2> HIDE DEF k
  <2>2. CASE Good(k) /\ SameBytes(r, k) /\ k.start = r.room /\ k.cap = r.cap
    <3>1. k.cap \in Nat /\ k.room \in Nat /\ k.size \in Nat /\ k.start + k.size <= k.cap
      BY <2>2, GoodFacts DEF Holds
    <3>2. k.cap - k.room - k.size >= n
      BY <1>1, <1>4, <2>2, <3>1 DEF Short, SameBytes
    <3>3. k.start + k.size + n <= k.cap
      BY <1>1, <2>2, <3>1, <3>2 DEF SameBytes
    <3> QED
      BY <2>1, <2>2, <3>3
  <2> QED
    BY CompactKeeps, <2>1, <2>2 DEF k
<1> QED
  BY <1>2, <1>3, <1>4

-----------------------------------------------------------------------------
\* A buffer's record with other bytes.
Updated(r, m, x, s, z, w) == [r EXCEPT !.mem = m, !.next = x, !.start = s, !.size = z, !.want = w]

\* New values of the right types make a buffer's record again.
LEMMA UpdateTyped ==
  ASSUME NEW M, NEW N, NEW r \in IoRec(M), NEW m \in N,
         NEW x \in Nat, NEW s \in Nat, NEW z \in Nat, NEW w \in Seq(Nat)
  PROVE  Updated(r, m, x, s, z, w) \in IoRec(N)
BY DEF IoRec, Updated

\* The elements of a concatenation.
LEMMA CatFacts ==
  ASSUME NEW a \in Seq(Nat), NEW b \in Seq(Nat)
  PROVE  /\ a \o b \in Seq(Nat) /\ Len(a \o b) = Len(a) + Len(b)
         /\ \A i \in 1 .. Len(a) : (a \o b)[i] = a[i]
         /\ \A i \in 1 .. Len(b) : (a \o b)[Len(a) + i] = b[i]
OBVIOUS

\* A write and its commit, and a prepend, as one update.
Committed(r, m, x, n, f) == [[r EXCEPT !.mem = m, !.next = x] EXCEPT !.size = @ + n, !.want = @ \o f]
Prepended(r, m, x, n, f) ==
  [[r EXCEPT !.mem = m, !.next = x] EXCEPT !.start = @ - n, !.size = @ + n, !.want = f \o @]

LEMMA CommitShape ==
  ASSUME NEW M, NEW r \in IoRec(M), NEW m, NEW x, NEW n, NEW f
  PROVE  Committed(r, m, x, n, f) =
         Updated(r, m, x, r.start, r.size + n, r.want \o f)
BY DEF IoRec, Committed, Updated

LEMMA PrependShape ==
  ASSUME NEW M, NEW r \in IoRec(M), NEW m, NEW x, NEW n, NEW f
  PROVE  Prepended(r, m, x, n, f) =
         Updated(r, m, x, r.start - n, r.size + n, f \o r.want)
BY DEF IoRec, Prepended, Updated

\* Bytes written behind the readable ones, and committed, are readable.
LEMMA CommitKeeps ==
  ASSUME NEW r, Good(r), NEW n \in Nat, r.start + r.size + n <= r.cap
  PROVE  Good([Put(r, r.start + r.size, n) EXCEPT !.size = @ + n, !.want = @ \o Fresh(r, n)])
<1> DEFINE at == r.start + r.size
           p == Put(r, at, n)
           t == [p EXCEPT !.size = @ + n, !.want = @ \o Fresh(r, n)]
<1>1. /\ r \in IoRec([0 .. r.cap - 1 -> Nat])
      /\ r.start \in Nat /\ r.size \in Nat /\ r.cap \in Nat /\ r.room \in Nat /\ r.next \in Nat
      /\ r.mem \in [0 .. r.cap - 1 -> Nat] /\ r.start + r.size <= r.cap /\ r.room < r.cap
      /\ r.want \in Seq(Nat) /\ r.lent \in Spans
  BY GoodFacts DEF Holds
<1>n. /\ r.start \in Nat /\ r.size \in Nat /\ r.cap \in Nat /\ r.next \in Nat /\ at \in Nat
      /\ r.start + r.size + n <= r.cap
  BY <1>1
<1>2. Fresh(r, n) \in Seq(Nat) /\ Len(Fresh(r, n)) = n /\ \A i \in 1 .. n : Fresh(r, n)[i] = r.next + i - 1
  BY <1>n DEF Fresh
<1>3. t.mem = [i \in 0 .. r.cap - 1 |-> IF at <= i /\ i < at + n THEN r.next + i - at ELSE r.mem[i]]
  BY <1>1 DEF Put, IoRec
<1>4. /\ t.size = r.size + n /\ t.start = r.start /\ t.cap = r.cap /\ t.room = r.room
      /\ t.owner = r.owner /\ t.lent = r.lent
  BY <1>1 DEF Put, IoRec
<1>5. t.want = r.want \o Fresh(r, n)
  BY <1>1 DEF Put, IoRec
<1>6. t.over = "no"
  BY <1>1 DEF Put, IoRec, Good
<1>7. /\ t.want \in Seq(Nat) /\ Len(t.want) = Len(r.want) + n
      /\ \A i \in 1 .. Len(r.want) : t.want[i] = r.want[i]
      /\ \A i \in 1 .. Len(Fresh(r, n)) : t.want[Len(r.want) + i] = Fresh(r, n)[i]
  <2> DEFINE w == r.want
             f == Fresh(r, n)
             u == t.want
  <2>1. w \in Seq(Nat) /\ f \in Seq(Nat) /\ Len(f) = n /\ u = w \o f
    BY <1>1, <1>2, <1>5
  <2> SUFFICES /\ u \in Seq(Nat) /\ Len(u) = Len(w) + n
               /\ \A i \in 1 .. Len(w) : u[i] = w[i]
               /\ \A i \in 1 .. Len(f) : u[Len(w) + i] = f[i]
    OBVIOUS
  <2> HIDE DEF t, w, f, u
  <2> QED
    BY <2>1, CatFacts
<1>8. t.mem \in [0 .. t.cap - 1 -> Nat]
  <2>1. ASSUME NEW i \in 0 .. r.cap - 1, at <= i
        PROVE  r.next + i - at \in Nat
    BY <1>n, <2>1
  <2>2. ASSUME NEW i \in 0 .. r.cap - 1
        PROVE  r.mem[i] \in Nat
    BY <1>1
  <2> HIDE DEF t, at
  <2> QED
    BY <1>3, <1>4, <2>1, <2>2
<1>9. t \in IoRec([0 .. t.cap - 1 -> Nat])
  <2> DEFINE m == t.mem
             w == t.want
             M == [0 .. t.cap - 1 -> Nat]
  <2>1. t = Updated(r, m, r.next + n, t.start, t.size, w)
    <3> DEFINE g == [i \in 0 .. r.cap - 1 |-> IF at <= i /\ i < at + n THEN r.next + i - at ELSE r.mem[i]]
               f == Fresh(r, n)
    <3>1. t = Committed(r, g, r.next + n, n, f)
      BY Zenon DEF Put, Committed
    <3>2. m = g /\ w = r.want \o f
      BY <1>3, <1>5
    <3> HIDE DEF t, g, f, m, w
    <3>3. t = Updated(r, g, r.next + n, r.start, r.size + n, r.want \o f)
      BY <1>1, <3>1, CommitShape
    <3> QED BY <1>4, <3>2, <3>3, Zenon
  <2> HIDE DEF t, at
  <2>2. m \in M /\ w \in Seq(Nat) /\ t.start \in Nat /\ t.size \in Nat /\ r.next + n \in Nat
    BY SMTT(30), <1>n, <1>4, <1>7, <1>8
  <2> HIDE DEF m, w, M
  <2>3. Updated(r, m, r.next + n, t.start, t.size, w) \in IoRec(M)
    BY <1>1, <2>2, UpdateTyped
  <2> QED
    BY <2>1, <2>3 DEF M
<1>10. Holds(t)
  <2>0. Len(r.want) = r.size /\ \A i \in 1 .. r.size : r.mem[r.start + i - 1] = r.want[i]
    BY GoodFacts DEF Holds
  <2>1. ASSUME NEW i \in 1 .. r.size
        PROVE  t.mem[r.start + i - 1] = t.want[i]
    <3>1. r.start + i - 1 \in 0 .. r.cap - 1 /\ ~(at <= r.start + i - 1)
      BY <1>n
    <3>2. t.want[i] = r.want[i]
      BY <1>7, <2>0
    <3>3. r.mem[r.start + i - 1] = r.want[i]
      BY <2>0
    <3> HIDE DEF t, at
    <3> QED
      BY <1>3, <3>1, <3>2, <3>3
  <2>2. ASSUME NEW i \in (r.size + 1) .. (r.size + n)
        PROVE  t.mem[r.start + i - 1] = t.want[i]
    <3>1. /\ r.start + i - 1 \in 0 .. r.cap - 1 /\ at <= r.start + i - 1 /\ r.start + i - 1 < at + n
          /\ r.next + (r.start + i - 1) - at = r.next + (i - r.size) - 1
      BY <1>n
    <3>2. i - r.size \in 1 .. n
      BY <1>n
    <3>3. i = Len(r.want) + (i - r.size)
      BY <1>n, <2>0
    <3>4. t.want[i] = r.next + (i - r.size) - 1
      BY <1>2, <1>7, <3>2, <3>3
    <3> HIDE DEF t, at
    <3> QED
      BY <1>3, <3>1, <3>4
  <2> HIDE DEF t, at
  <2>3. \A i \in 1 .. (r.size + n) : t.mem[r.start + i - 1] = t.want[i]
    BY <1>n, <2>1, <2>2
  <2> QED
    BY <1>n, <1>4, <1>7, <2>0, <2>3 DEF Holds
<1> HIDE DEF t, at
<1>11. IoOk(t)
  BY <1>1, <1>4, <1>6, <1>9, <1>10 DEF IoOk, Good, Spans
<1> QED
  BY <1>6, <1>11 DEF t, p, at, Good

\* A header written into the space before the readable bytes is readable.
LEMMA HeaderKeeps ==
  ASSUME NEW r, Good(r), NEW n \in Nat, r.start >= n, r.owner = "user"
  PROVE  Good([Put(r, r.start - n, n) EXCEPT !.start = @ - n, !.size = @ + n, !.want = Fresh(r, n) \o @])
<1> DEFINE at == r.start - n
           p == Put(r, at, n)
           t == [p EXCEPT !.start = @ - n, !.size = @ + n, !.want = Fresh(r, n) \o @]
<1>1. /\ r \in IoRec([0 .. r.cap - 1 -> Nat])
      /\ r.start \in Nat /\ r.size \in Nat /\ r.cap \in Nat /\ r.room \in Nat /\ r.next \in Nat
      /\ r.mem \in [0 .. r.cap - 1 -> Nat] /\ r.start + r.size <= r.cap /\ r.room < r.cap
      /\ r.want \in Seq(Nat) /\ r.lent \in Spans
  BY GoodFacts DEF Holds
<1>n. /\ r.start \in Nat /\ r.size \in Nat /\ r.cap \in Nat /\ r.next \in Nat /\ at \in Nat
      /\ r.start + r.size <= r.cap /\ at + n = r.start
  BY <1>1
<1>2. Fresh(r, n) \in Seq(Nat) /\ Len(Fresh(r, n)) = n /\ \A i \in 1 .. n : Fresh(r, n)[i] = r.next + i - 1
  BY <1>n DEF Fresh
<1>3. t.mem = [i \in 0 .. r.cap - 1 |-> IF at <= i /\ i < at + n THEN r.next + i - at ELSE r.mem[i]]
  BY <1>1 DEF Put, IoRec
<1>4. /\ t.size = r.size + n /\ t.start = at /\ t.cap = r.cap /\ t.room = r.room
      /\ t.owner = r.owner /\ t.lent = r.lent
  BY <1>1 DEF Put, IoRec
<1>5. t.want = Fresh(r, n) \o r.want
  BY <1>1 DEF Put, IoRec
<1>6. t.over = "no"
  BY <1>1 DEF Put, IoRec, Good
<1>7. /\ t.want \in Seq(Nat) /\ Len(t.want) = Len(r.want) + n
      /\ \A i \in 1 .. Len(Fresh(r, n)) : t.want[i] = Fresh(r, n)[i]
      /\ \A i \in 1 .. Len(r.want) : t.want[Len(Fresh(r, n)) + i] = r.want[i]
  <2> DEFINE w == r.want
             f == Fresh(r, n)
             u == t.want
  <2> HIDE DEF t
  <2>1. w \in Seq(Nat) /\ f \in Seq(Nat) /\ Len(f) = n /\ u = f \o w
    BY <1>1, <1>2, <1>5
  <2> HIDE DEF w, f, u
  <2>2. /\ u \in Seq(Nat) /\ Len(u) = Len(f) + Len(w)
        /\ \A i \in 1 .. Len(f) : u[i] = f[i]
        /\ \A i \in 1 .. Len(w) : u[Len(f) + i] = w[i]
    BY <2>1, CatFacts
  <2>3. Len(f) + Len(w) = Len(w) + n
    BY <2>1
  <2> QED
    BY <2>2, <2>3 DEF u, w, f
<1>8. t.mem \in [0 .. t.cap - 1 -> Nat]
  <2>1. ASSUME NEW i \in 0 .. r.cap - 1, at <= i
        PROVE  r.next + i - at \in Nat
    BY <1>n, <2>1
  <2>2. ASSUME NEW i \in 0 .. r.cap - 1
        PROVE  r.mem[i] \in Nat
    BY <1>1
  <2> HIDE DEF t, at
  <2> QED
    BY <1>3, <1>4, <2>1, <2>2
<1>9. t \in IoRec([0 .. t.cap - 1 -> Nat])
  <2> DEFINE m == t.mem
             w == t.want
             M == [0 .. t.cap - 1 -> Nat]
  <2>1. t = Updated(r, m, r.next + n, t.start, t.size, w)
    <3> DEFINE g == [i \in 0 .. r.cap - 1 |-> IF at <= i /\ i < at + n THEN r.next + i - at ELSE r.mem[i]]
               f == Fresh(r, n)
    <3>1. t = Prepended(r, g, r.next + n, n, f)
      BY Zenon DEF Put, Prepended
    <3>2. m = g /\ w = f \o r.want
      BY <1>3, <1>5
    <3> HIDE DEF t, g, f, m, w
    <3>3. t = Updated(r, g, r.next + n, at, r.size + n, f \o r.want)
      BY <1>1, <3>1, PrependShape
    <3> QED BY <1>4, <3>2, <3>3, Zenon
  <2> HIDE DEF t, at
  <2>2. m \in M /\ w \in Seq(Nat) /\ t.start \in Nat /\ t.size \in Nat /\ r.next + n \in Nat
    BY SMTT(30), <1>n, <1>4, <1>7, <1>8
  <2> HIDE DEF m, w, M
  <2>3. Updated(r, m, r.next + n, t.start, t.size, w) \in IoRec(M)
    BY <1>1, <2>2, UpdateTyped
  <2> QED
    BY <2>1, <2>3 DEF M
<1>10. Holds(t)
  <2>0. Len(r.want) = r.size /\ \A i \in 1 .. r.size : r.mem[r.start + i - 1] = r.want[i]
    BY GoodFacts DEF Holds
  <2>1. ASSUME NEW i \in 1 .. n
        PROVE  t.mem[at + i - 1] = t.want[i]
    <3>1. /\ at + i - 1 \in 0 .. r.cap - 1 /\ at <= at + i - 1 /\ at + i - 1 < at + n
          /\ r.next + (at + i - 1) - at = r.next + i - 1
      BY <1>n
    <3>2. t.want[i] = r.next + i - 1
      BY <1>2, <1>7
    <3> HIDE DEF t, at
    <3> QED
      BY <1>3, <3>1, <3>2
  <2>2. ASSUME NEW i \in (n + 1) .. (r.size + n)
        PROVE  t.mem[at + i - 1] = t.want[i]
    <3>1. at + i - 1 \in 0 .. r.cap - 1 /\ ~(at + i - 1 < at + n) /\ at + i - 1 = r.start + (i - n) - 1
      BY <1>n
    <3>2. i - n \in 1 .. r.size
      BY <1>n
    <3>3. t.want[i] = r.want[i - n]
      <4>1. i = Len(Fresh(r, n)) + (i - n)
        BY <1>2
      <4> QED
        BY <1>7, <2>0, <3>2, <4>1
    <3>4. r.mem[r.start + (i - n) - 1] = r.want[i - n]
      BY <2>0, <3>2
    <3> HIDE DEF t, at
    <3> QED
      BY <1>3, <3>1, <3>3, <3>4
  <2> HIDE DEF t, at
  <2>3. \A i \in 1 .. (r.size + n) : t.mem[at + i - 1] = t.want[i]
    BY <1>n, <2>1, <2>2
  <2> QED
    BY <1>n, <1>4, <1>7, <2>0, <2>3 DEF Holds
<1> HIDE DEF t, at
<1>11. IoOk(t)
  BY <1>1, <1>4, <1>6, <1>9, <1>10 DEF IoOk, Good, Spans
<1> QED
  BY <1>6, <1>11 DEF t, p, at, Good

\* The elements of what is left after the first n.
LEMMA TailFacts ==
  ASSUME NEW w \in Seq(Nat), NEW n \in 0 .. Len(w)
  PROVE  /\ SubSeq(w, n + 1, Len(w)) \in Seq(Nat)
         /\ Len(SubSeq(w, n + 1, Len(w))) = Len(w) - n
         /\ \A i \in 1 .. (Len(w) - n) : SubSeq(w, n + 1, Len(w))[i] = w[n + i]
<1>1. SubSeq(w, n + 1, Len(w)) \in Seq(Nat) /\ Len(SubSeq(w, n + 1, Len(w))) = Len(w) - n
  OBVIOUS
<1>2. ASSUME NEW i \in 1 .. (Len(w) - n)
      PROVE  SubSeq(w, n + 1, Len(w))[i] = w[n + i]
  OBVIOUS
<1> QED
  BY <1>1, <1>2

\* consume(n) takes the first n bytes from a buffer no send is reading.
LEMMA ConsumedKeeps ==
  ASSUME NEW r, Good(r), NEW n \in 0 .. r.size
  PROVE  /\ Consumed(r, n) \in IoRec([0 .. r.cap - 1 -> Nat]) /\ Holds(Consumed(r, n))
         /\ Consumed(r, n).owner = r.owner /\ Consumed(r, n).room = r.room
         /\ Consumed(r, n).cap = r.cap /\ Consumed(r, n).over = "no"
         /\ Consumed(r, n).wire = r.wire /\ Consumed(r, n).lent = r.lent
         /\ r.owner = "conn" => Consumed(r, n).start >= r.room
<1> DEFINE t == Consumed(r, n)
<1>1. /\ r \in IoRec([0 .. r.cap - 1 -> Nat]) /\ Holds(r)
      /\ r.start \in Nat /\ r.size \in Nat /\ r.cap \in Nat /\ r.room \in Nat
      /\ r.want \in Seq(Nat) /\ r.room < r.cap
  BY GoodFacts
<1>n. r.start \in Nat /\ r.size \in Nat /\ n \in 0 .. r.size /\ r.start + r.size <= r.cap /\ Len(r.want) = r.size
  BY <1>1 DEF Holds
<1>2. /\ t.owner = r.owner /\ t.room = r.room /\ t.cap = r.cap /\ t.mem = r.mem
      /\ t.wire = r.wire /\ t.lent = r.lent /\ t.over = r.over
  BY <1>1 DEF Consumed, IoRec
<1>3. t.start = (IF n = r.size THEN r.room ELSE r.start + n) /\ t.size = r.size - n
  BY <1>1 DEF Consumed, IoRec
<1>4. t.want = SubSeq(r.want, n + 1, Len(r.want))
  BY <1>1 DEF Consumed, IoRec
<1>5. t.over = "no"
  BY <1>2 DEF Good
<1>6. t.start \in Nat /\ t.size \in Nat
  <2> HIDE DEF t
  <2> QED
    BY <1>1, <1>n, <1>3
<1>7. /\ t.want \in Seq(Nat) /\ Len(t.want) = r.size - n
      /\ \A i \in 1 .. (r.size - n) : t.want[i] = r.want[n + i]
  <2> DEFINE w == r.want
             u == t.want
  <2> HIDE DEF t
  <2>1. w \in Seq(Nat) /\ Len(w) = r.size /\ u = SubSeq(w, n + 1, Len(w)) /\ n \in 0 .. Len(w)
    BY <1>1, <1>n, <1>4
  <2> HIDE DEF w, u
  <2>2. /\ u \in Seq(Nat) /\ Len(u) = Len(w) - n
        /\ \A i \in 1 .. (Len(w) - n) : u[i] = w[n + i]
    BY <2>1, TailFacts
  <2> QED
    BY <2>1, <2>2 DEF w, u
<1>8. t \in IoRec([0 .. r.cap - 1 -> Nat])
  <2> DEFINE M == [0 .. r.cap - 1 -> Nat]
  <2>1. t = Updated(r, r.mem, r.next, t.start, t.size, t.want)
    BY <1>1 DEF Consumed, IoRec, Updated
  <2> HIDE DEF t
  <2>2. r \in IoRec(M) /\ r.mem \in M /\ r.next \in Nat
    BY GoodFacts
  <2> HIDE DEF M
  <2>3. Updated(r, r.mem, r.next, t.start, t.size, t.want) \in IoRec(M)
    BY <1>6, <1>7, <2>2, UpdateTyped
  <2> QED
    BY <2>1, <2>3 DEF M
<1> HIDE DEF t
<1>9. Holds(t)
  <2>1. CASE n = r.size
    BY <1>1, <1>n, <1>2, <1>3, <1>7, <2>1 DEF Holds
  <2>2. CASE n # r.size
    <3>1. t.start = r.start + n
      BY <1>3, <2>2
    <3>2. ASSUME NEW i \in 1 .. (r.size - n)
          PROVE  t.mem[r.start + n + i - 1] = t.want[i]
      <4>1. n + i \in 1 .. r.size /\ r.start + (n + i) - 1 = r.start + n + i - 1
        BY <1>n
      <4>2. r.mem[r.start + (n + i) - 1] = r.want[n + i]
        BY <1>1, <4>1 DEF Holds
      <4> QED
        BY <1>2, <1>7, <4>1, <4>2
    <3>3. r.start + n + (r.size - n) <= r.cap
      BY <1>1, <1>n
    <3> QED
      BY <1>2, <1>3, <1>7, <3>1, <3>2, <3>3 DEF Holds
  <2> QED
    BY <2>1, <2>2
<1>10. r.owner = "conn" => t.start >= r.room
  BY <1>1, <1>n, <1>3 DEF Good, IoOk
<1> QED
  BY <1>2, <1>5, <1>8, <1>9, <1>10 DEF t

-----------------------------------------------------------------------------
\* The invariant of the machine.
IoInv == IoOk(io)

\* A new buffer is empty and starts at its headroom.
LEMMA IoInitOk == IoInit => IoInv
<1> SUFFICES ASSUME NEW s \in IoShapes, NEW o \in {"user", "conn"},
                    io = [owner |-> o, cap |-> IoMax(s[1], s[2] + 1), room |-> s[2], start |-> s[2],
                          size |-> 0, mem |-> [i \in 0 .. IoMax(s[1], s[2] + 1) - 1 |-> 0],
                          want |-> << >>, next |-> 1, lent |-> NoSpan, over |-> "no", wire |-> "ok"]
             PROVE  IoInv
  BY DEF IoInit
<1> DEFINE k == IoMax(s[1], s[2] + 1)
<1>1. s[1] \in Nat /\ s[2] \in Nat
  BY IoAssumption
<1>2. k \in Nat /\ s[2] < k
  BY <1>1 DEF IoMax
<1>3. NoSpan \in Spans /\ NoSpan.n = 0
  BY DEF NoSpan, Spans
<1> HIDE DEF k
<1>4. [i \in 0 .. k - 1 |-> 0] \in [0 .. k - 1 -> Nat]
  OBVIOUS
<1>5. /\ io.owner = o /\ io.cap = k /\ io.room = s[2] /\ io.start = s[2] /\ io.size = 0
      /\ io.lent = NoSpan /\ io.over = "no" /\ io.want = << >>
  BY DEF k
<1>6. io \in IoRec([0 .. k - 1 -> Nat])
  BY <1>1, <1>2, <1>3, <1>4 DEF IoRec, k
<1>7. Holds(io)
  BY <1>1, <1>2, <1>5 DEF Holds
<1>8. io.lent.n = 0 /\ io.room < io.cap /\ io.start >= io.room
  BY <1>1, <1>2, <1>3, <1>5
<1>9. io \in IoRec([0 .. io.cap - 1 -> Nat])
  BY <1>5, <1>6
<1> QED
  BY <1>5, <1>7, <1>8, <1>9 DEF IoInv, IoOk

\* Every call keeps the invariant.
LEMMA IoStepOk == IoInv /\ [IoNext]_io => IoInv'
<1> SUFFICES ASSUME IoInv, [IoNext]_io
             PROVE  IoInv'
  OBVIOUS
<1>1. CASE UNCHANGED io
  BY <1>1 DEF IoInv
<1> SUFFICES ASSUME IoNext
             PROVE  IoOk(io')
  BY <1>1 DEF IoInv
<1>2. Good(io)
  BY DEF IoInv, IoNext, Good
<1>3. /\ io \in IoRec([0 .. io.cap - 1 -> Nat]) /\ Holds(io)
      /\ io.cap \in Nat /\ io.room \in Nat /\ io.start \in Nat /\ io.size \in Nat
      /\ io.room < io.cap /\ io.lent \in Spans /\ io.owner \in {"user", "conn"}
  BY <1>2, GoodFacts
<1>4. ASSUME NEW n \in IoPieces, Write(n)
      PROVE  IoOk(io')
  <2>1. n \in Nat
    BY IoAssumption
  <2>2. PICK r \in ensure_writable(io, n) :
          io' = IF r.over # "no" THEN r
                ELSE [Put(r, r.start + r.size, n) EXCEPT !.size = @ + n, !.want = @ \o Fresh(r, n)]
    BY <1>4 DEF Write
  <2>3. \/ Good(r) /\ r.start + r.size + n <= r.cap
        \/ IoOk(r) /\ r.over = "below"
    BY <1>2, <2>1, WritableKeeps
  <2>4. CASE Good(r) /\ r.start + r.size + n <= r.cap
    <3>1. io' = [Put(r, r.start + r.size, n) EXCEPT !.size = @ + n, !.want = @ \o Fresh(r, n)]
      BY <2>2, <2>4 DEF Good
    <3>2. Good([Put(r, r.start + r.size, n) EXCEPT !.size = @ + n, !.want = @ \o Fresh(r, n)])
      BY <2>1, <2>4, CommitKeeps
    <3> QED
      BY <3>1, <3>2 DEF Good
  <2>5. CASE IoOk(r) /\ r.over = "below"
    <3>1. io' = r
      BY <2>2, <2>5
    <3> QED
      BY <2>5, <3>1
  <2> QED
    BY <2>3, <2>4, <2>5
<1>5. ASSUME NEW n \in IoPieces, Prepend(n)
      PROVE  IoOk(io')
  <2> DEFINE to == IoMax(n, io.room)
             new(r) == [Put(r, r.start - n, n) EXCEPT !.start = @ - n, !.size = @ + n,
                                                      !.want = Fresh(r, n) \o @]
  <2>1. n \in Nat /\ to \in Nat /\ to >= n /\ to >= io.room
    BY <1>3, IoAssumption DEF IoMax
  <2>2. io.owner = "user"
    BY <1>5 DEF Prepend
  <2>3. PICK r \in IF io.start >= n THEN {io}
                   ELSE IF to + io.size > io.cap THEN {Shift(g, to) : g \in grow(io, to + io.size)}
                   ELSE {Shift(io, to)} :
          io' = new(r)
    BY <1>5 DEF Prepend
  <2> HIDE DEF to
  <2>4. Good(r) /\ r.start >= n /\ r.owner = "user"
    <3>1. CASE io.start >= n
      BY <1>2, <2>2, <2>3, <3>1
    <3>2. CASE ~(io.start >= n) /\ to + io.size > io.cap
      <4>1. PICK g \in grow(io, to + io.size) : r = Shift(g, to)
        BY <2>3, <3>2
      <4>2. Good(g) /\ SameBytes(io, g) /\ g.cap >= to + io.size
        BY <1>2, <1>3, <2>1, GrowKeeps
      <4>3. to + g.size <= g.cap /\ to >= g.room /\ g.owner = "user"
        <5>1. g.cap \in Nat
          BY <4>2, GoodFacts
        <5> QED
          BY <1>3, <2>1, <2>2, <4>2, <5>1 DEF SameBytes
      <4>4. Good(Shift(g, to)) /\ SameBytes(g, Shift(g, to)) /\ Shift(g, to).start = to
        BY <2>1, <4>2, <4>3, ShiftKeeps
      <4> QED
        BY <2>1, <4>1, <4>3, <4>4 DEF SameBytes
    <3>3. CASE ~(io.start >= n) /\ ~(to + io.size > io.cap)
      <4>1. r = Shift(io, to) /\ to + io.size <= io.cap
        BY <1>3, <2>1, <2>3, <3>3
      <4>2. Good(Shift(io, to)) /\ SameBytes(io, Shift(io, to)) /\ Shift(io, to).start = to
        BY <1>2, <2>1, <4>1, ShiftKeeps
      <4> QED
        BY <2>1, <2>2, <4>1, <4>2 DEF SameBytes
    <3> QED
      BY <3>1, <3>2, <3>3
  <2>5. Good(new(r))
    BY <2>1, <2>4, HeaderKeeps
  <2> HIDE DEF new
  <2> QED
    BY <2>3, <2>5 DEF Good
<1>6. ASSUME NEW n \in IoPieces, Consume(n)
      PROVE  IoOk(io')
  <2> DEFINE k == IoMin(n, io.size)
  <2>1. k \in 0 .. io.size /\ io.owner = "user" /\ io' = Consumed(io, k)
    BY <1>3, <1>6, IoAssumption DEF Consume, IoMin
  <2> HIDE DEF k
  <2>2. io.lent.n = 0
    BY <1>2, <1>3, <2>1 DEF Good, IoOk, Spans
  <2>3. /\ io' \in IoRec([0 .. io.cap - 1 -> Nat]) /\ Holds(io')
        /\ io'.owner = "user" /\ io'.room = io.room /\ io'.cap = io.cap /\ io'.over = "no"
        /\ io'.lent = io.lent
    BY <1>2, <2>1, ConsumedKeeps
  <2> QED
    BY <1>3, <2>2, <2>3 DEF IoOk
<1>7. ASSUME NEW n \in IoPieces, reserve(n)
      PROVE  IoOk(io')
  <2>1. n \in Nat /\ io' \in grow(io, n)
    BY <1>7, IoAssumption DEF reserve
  <2> QED
    BY <1>2, <2>1, GrowKeeps DEF Good
<1>8. CASE Compact
  <2>1. io' = compact(io)
    BY <1>8 DEF Compact
  <2> QED
    BY <1>2, <2>1, CompactKeeps DEF Good
<1>9. CASE Lend
  <2>1. /\ io.owner = "conn"
        /\ io' = [io EXCEPT !.lent = [at |-> io.start, n |-> io.size]]
    BY <1>9 DEF Lend
  <2>2. [at |-> io.start, n |-> io.size] \in Spans
    BY <1>3 DEF Spans
  <2>3. io' \in IoRec([0 .. io.cap - 1 -> Nat])
    BY <1>3, <2>1, <2>2 DEF IoRec
  <2>4. /\ io'.lent = [at |-> io.start, n |-> io.size]
        /\ io'.size = io.size /\ io'.owner = io.owner /\ io'.cap = io.cap /\ io'.room = io.room
        /\ io'.start = io.start /\ io'.mem = io.mem /\ io'.want = io.want /\ io'.over = io.over
    BY <1>3, <2>1 DEF IoRec
  <2>5. Holds(io')
    BY <1>3, <2>4 DEF Holds
  <2>6. io'.lent.n = io.size
    BY <2>4
  <2> QED
    BY <1>2, <1>3, <2>1, <2>3, <2>4, <2>5, <2>6 DEF IoOk, Good
<1>10. ASSUME NEW k \in 1 .. io.lent.n, Complete(k)
       PROVE  IoOk(io')
  <2> DEFINE t == Consumed(io, k)
             w == IF SpanTrue(k) \/ t.wire = "garbled" THEN t.wire
                  ELSE IF io.lent.at # io.start THEN "moved" ELSE "garbled"
  <2>1. io.owner = "conn" /\ io' = [t EXCEPT !.lent = NoSpan, !.wire = w]
    BY <1>10 DEF Complete
  <2>2. io.lent.n \in Nat /\ io.lent.at \in Int
    BY <1>3 DEF Spans
  <2>3. io.lent.n <= io.size /\ k \in 0 .. io.size /\ k \in 1 .. io.size
    BY <1>2, <1>3, <2>2 DEF Good, IoOk
  <2>4. /\ t \in IoRec([0 .. io.cap - 1 -> Nat]) /\ Holds(t)
        /\ t.owner = io.owner /\ t.room = io.room /\ t.cap = io.cap /\ t.over = "no"
        /\ t.wire = io.wire /\ t.start >= io.room
    BY <1>2, <2>1, <2>3, ConsumedKeeps
  <2>5. io.wire \in {"ok", "moved"}
    BY <1>2, GoodFacts
  <2>6. io.lent.at = io.start => SpanTrue(k)
    <3> SUFFICES ASSUME io.lent.at = io.start
                 PROVE  SpanTrue(k)
      OBVIOUS
    <3>1. io.lent.at # Freed
      BY <1>3 DEF Freed
    <3>2. \A i \in 1 .. k : io.mem[io.lent.at + i - 1] = io.want[i]
      BY <1>3, <2>3 DEF Holds
    <3> QED
      BY <3>1, <3>2 DEF SpanTrue
  <2> HIDE DEF t
  <2>7. w \in {"ok", "moved"}
    BY <2>4, <2>5, <2>6
  <2> HIDE DEF w
  <2>8. NoSpan \in Spans /\ NoSpan.n = 0
    BY DEF NoSpan, Spans
  <2>9. io' \in IoRec([0 .. io.cap - 1 -> Nat])
    BY <2>1, <2>4, <2>7, <2>8 DEF IoRec
  <2>10. /\ io'.lent = NoSpan /\ io'.size = t.size /\ io'.owner = t.owner /\ io'.cap = t.cap
         /\ io'.room = t.room /\ io'.start = t.start /\ io'.mem = t.mem /\ io'.want = t.want
         /\ io'.over = t.over
    BY <2>1, <2>4 DEF IoRec
  <2>11. Holds(io')
    BY <2>4, <2>10 DEF Holds
  <2> QED
    BY <1>3, <2>4, <2>8, <2>9, <2>10, <2>11 DEF IoOk
<1> QED
  BY <1>4, <1>5, <1>6, <1>7, <1>8, <1>9, <1>10 DEF IoNext

\* For every shape of the buffer and every sequence of calls, readable() is
\* the caller's byte string inside buf_; bytes are written past the end only
\* for an owner that prepended, which a connection never does; and what a
\* connection's send puts on the wire differs from what it was given only if
\* buf_ moved while the kernel was reading it.
THEOREM IoBufferIntact == IoSpec => []BufferIntact
<1>1. IoInv => BufferIntact
  <2> SUFFICES ASSUME IoOk(io)
               PROVE  BufferIntact
    BY DEF IoInv
  <2>1. io.over \in {"no", "below"} /\ io.wire \in {"ok", "moved"}
    BY DEF IoOk, IoRec
  <2> QED
    BY <2>1 DEF IoOk, Holds, BufferIntact
<1> QED
  BY <1>1, IoInitOk, IoStepOk, PTL DEF IoSpec
=============================================================================
