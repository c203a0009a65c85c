------------------------------ MODULE IoBuffer ------------------------------
(***************************************************************************)
(* IoBuffer of include/afx/core/io_buffer.hpp, on its own (owner "user")   *)
(* and as write_buf_ of a connection over io_uring (owner "conn"), which   *)
(* submits the readable span without a copy and appends while the kernel   *)
(* still reads it.                                                         *)
(*                                                                         *)
(* io is the buffer:                                                       *)
(*   cap, room, start, size  cap_, headroom_, start_, size_                *)
(*   mem                     the bytes of buf_                             *)
(*   want                    the readable bytes as the caller knows them   *)
(*   lent                    the span a send in flight reads: lent.n bytes *)
(*                           at lent.at, which is Freed once buf_ was      *)
(*                           reallocated                                   *)
(*   over                    "no", or where start was when memmove wrote   *)
(*                           past the end: "below" the headroom or not     *)
(*   wire                    "garbled" once the kernel sent other bytes    *)
(*                           than the caller's, "moved" if the span was    *)
(* Bytes are numbered in the order in which the caller writes them; 0 is a *)
(* byte nobody wrote.  A buffer that was overrun is not followed further.  *)
(***************************************************************************)
EXTENDS Integers, Sequences

CONSTANTS IoShapes,   \* pairs of the constructor's cap and headroom
          IoPieces,   \* bound: the lengths passed to one call
          IoBytes,    \* bound: bytes written in all
          IoDoublings \* bound: doublings of one grow()

ASSUME IoAssumption ==
  /\ IoShapes \subseteq Nat \X Nat
  /\ IoPieces \subseteq Nat /\ IoBytes \in Nat /\ IoDoublings \in Nat

VARIABLE io

IoMax(a, b) == IF a > b THEN a ELSE b
IoMin(a, b) == IF a < b THEN a ELSE b

Freed == -1

NoSpan == [at |-> 0, n |-> 0]

\* IoBuffer(cap, headroom)
IoInit ==
  \E s \in IoShapes, o \in {"user", "conn"} :
    io = [owner |-> o, cap |-> IoMax(s[1], s[2] + 1), room |-> s[2], start |-> s[2], size |-> 0,
          mem |-> [i \in 0 .. IoMax(s[1], s[2] + 1) - 1 |-> 0],
          want |-> << >>, next |-> 1, lent |-> NoSpan, over |-> "no", wire |-> "ok"]

-----------------------------------------------------------------------------
(* The private helpers; where the capacity is chosen, the set of results *)

\* memmove of the readable bytes to index to
Shift(r, to) ==
  [r EXCEPT !.mem = [i \in 0 .. r.cap - 1 |->
                       IF to <= i /\ i < to + r.size THEN r.mem[r.start + i - to] ELSE r.mem[i]],
            !.start = to,
            !.over = IF to + r.size <= r.cap THEN @ ELSE IF r.start < r.room THEN "below" ELSE "above"]

compact(r) == IF r.start = r.room THEN r ELSE Shift(r, r.room)

\* the capacity is doubled once, and until it covers need
GrownCaps(c, need) ==
  {n \in 2 * c .. 2 * (c + need) :
     /\ n >= need
     /\ n = 2 * c \/ n < 2 * need
     /\ \E k \in 1 .. IoDoublings : n = c * 2^k}

grow(r, need) ==
  {[r EXCEPT !.cap = n,
             !.mem = [i \in 0 .. n - 1 |->
                        IF r.room <= i /\ i < r.room + r.size THEN r.mem[r.start + i - r.room] ELSE 0],
             !.start = r.room,
             !.lent = [at |-> Freed, n |-> r.lent.n]] : n \in GrownCaps(r.cap, need)}

\* cap_ - headroom_ - size_ is unsigned: below zero it is a large number
Short(r, n) == r.cap - r.room - r.size \in 0 .. n - 1

\* What ensure_writable() would be if it forgot the headroom.
ensure_writableFlat(r, n) ==
  IF r.cap - r.start - r.size >= n THEN {r}
  ELSE IF r.cap - r.size < n THEN grow(r, r.room + r.size + n) ELSE {compact(r)}

ensure_writable(r, n) ==
  IF r.cap - r.start - r.size >= n THEN {r}
  ELSE IF Short(compact(r), n) THEN grow(compact(r), r.room + r.size + n) ELSE {compact(r)}

Fresh(r, n) == [i \in 1 .. n |-> r.next + i - 1]

\* bytes written at index at
Put(r, at, n) ==
  [r EXCEPT !.mem = [i \in 0 .. r.cap - 1 |-> IF at <= i /\ i < at + n THEN r.next + i - at ELSE r.mem[i]],
            !.next = @ + n]

\* consume(n), of n that is at most size_
Consumed(r, n) ==
  [r EXCEPT !.start = IF n = r.size THEN r.room ELSE @ + n,
            !.size = @ - n,
            !.want = SubSeq(@, n + 1, Len(@))]

-----------------------------------------------------------------------------
(* What the callers do *)

\* writable(n), memcpy into it and commit(n)
Write(n) ==
  \E r \in ensure_writable(io, n) :
    io' = IF r.over # "no" THEN r
          ELSE [Put(r, r.start + r.size, n) EXCEPT !.size = @ + n, !.want = @ \o Fresh(r, n)]

Consume(n) == io.owner = "user" /\ io' = Consumed(io, IoMin(n, io.size))

\* prepend(n) and the header written into it
Prepend(n) ==
  /\ io.owner = "user"
  /\ LET to == IoMax(n, io.room)
     IN \E r \in IF io.start >= n THEN {io}
                 ELSE IF to + io.size > io.cap THEN {Shift(g, to) : g \in grow(io, to + io.size)}
                 ELSE {Shift(io, to)} :
          io' = [Put(r, r.start - n, n) EXCEPT !.start = @ - n, !.size = @ + n,
                                                !.want = Fresh(r, n) \o @]

reserve(n) == io.owner = "user" /\ n > io.cap /\ io' \in grow(io, n)

Compact == io.owner = "user" /\ io' = compact(io)

\* flush_write(): the readable span goes to io_uring as it is
Lend ==
  /\ io.owner = "conn" /\ io.lent.n = 0 /\ io.size > 0
  /\ io' = [io EXCEPT !.lent = [at |-> io.start, n |-> io.size]]

\* the first k bytes of the span, as the kernel finds them, are the caller's
SpanTrue(k) ==
  /\ io.lent.at # Freed
  /\ \A i \in 1 .. k : io.mem[io.lent.at + i - 1] = io.want[i]

\* the kernel sent k bytes of the span, and on_sent() consumes them
Complete(k) ==
  /\ io.owner = "conn" /\ k \in 1 .. io.lent.n
  /\ io' = [Consumed(io, k) EXCEPT
              !.lent = NoSpan,
              !.wire = IF SpanTrue(k) \/ @ = "garbled" THEN @
                       ELSE IF io.lent.at # io.start THEN "moved" ELSE "garbled"]

IoNext ==
  /\ io.over = "no"
  /\ \/ \E n \in IoPieces : \/ io.next + n <= IoBytes + 1 /\ (Write(n) \/ Prepend(n))
                            \/ Consume(n) \/ reserve(n)
     \/ Compact \/ Lend
     \/ \E k \in 1 .. io.lent.n : Complete(k)

IoSpec == IoInit /\ [][IoNext]_io

-----------------------------------------------------------------------------
(* Properties *)

\* The buffer is the byte string its caller knows, whatever the order of
\* appends, headers, consumptions, shifts and growth: readable() holds exactly
\* the unread bytes and lies inside buf_.  A write past the end of buf_ happens
\* only to a caller that has put a header into the headroom and then appends or
\* compacts (the bytes move to the right); never to a connection.
\* What a connection's send puts on the wire is what the caller gave it, unless
\* a send() during the write had to shift or to reallocate buf_.
BufferIntact ==
  /\ io.over = "no" => /\ io.start + io.size <= io.cap
                       /\ io.size = Len(io.want)
                       /\ \A i \in 1 .. io.size : io.mem[io.start + i - 1] = io.want[i]
  /\ io.over # "no" => io.over = "below" /\ io.owner = "user"
  /\ io.wire # "garbled"
=============================================================================
