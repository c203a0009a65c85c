--------------------------- MODULE EventLoop_proof ---------------------------
(***************************************************************************)
(* Proofs about EventLoop for every set of tasks and sinks and every batch *)
(* limit: what is deferred is queued once, what is noted is in the write   *)
(* set once, completions reach sinks that are there, and the closures on   *)
(* the heap are those of the watches.                                      *)
(***************************************************************************)
EXTENDS EventLoop, SequenceTheorems, TLAPS

(* The parts of the inductive invariant *)

\* The event manager is a record of its fields, and these have their types.
LoopFields ==
  {"at", "cb", "n", "posts", "comps", "kind", "st", "fds", "box", "pend", "dirty", "next", "run",
   "stop", "blocked", "own", "leaked", "owed", "passed"}
LoopShape == loop = [f \in LoopFields |-> loop[f]]
LoopTypeOK ==
  /\ LoopShape
  /\ loop.at \in {"run", "mailbox", "wait", "dispatch", "defer", "book", "over"}
  /\ loop.cb \in LoopSinks \cup {"work", "none"}
  /\ loop.n \in Nat /\ loop.posts \in Nat
  /\ loop.comps \in Seq(LoopSinks) /\ loop.pend \in Seq(LoopSinks)
  /\ loop.kind \in [LoopSinks -> {"none", "sink", "watch"}]
  /\ loop.st \in [LoopSinks -> {"none", "live", "gone"}]
  /\ loop.next \in Seq(Deferrable) /\ loop.run \in Seq(Deferrable)

\* A sink in the write set is noted in it once, and was registered; its flag is set
\* while it is there.
WritesNoted ==
  /\ IsInjective(loop.pend) /\ loop.dirty = {s \in ToSet(loop.pend) : HasSink(s)}
  /\ \A s \in ToSet(loop.pend) : loop.st[s] # "none"

\* A deferred task is queued once; only run_deferred() has a batch in hand.
TasksQueued ==
  /\ IsInjective(loop.run \o loop.next) /\ Queued = loop.owed
  /\ loop.at # "defer" => loop.run = << >>

\* The sink whose callback is running is there, with its closure, but for its own doing.
CallTarget ==
  loop.cb \in LoopSinks =>
    \/ HasSink(loop.cb) /\ (loop.kind[loop.cb] = "watch" => loop.cb \in loop.box)
    \/ loop.own

\* The closures are those of the live watches and of the failed ones, which are gone.
Closures ==
  /\ loop.fds = {s \in LoopSinks : HasSink(s) /\ loop.kind[s] = "watch"}
  /\ loop.box = loop.fds \cup loop.leaked
  /\ \A s \in loop.leaked : s \in LoopSinks /\ loop.st[s] = "gone"

LoopInv == LoopTypeOK /\ WritesNoted /\ TasksQueued /\ CallTarget /\ Closures

-----------------------------------------------------------------------------
(* Queues without repetition *)

\* The members of a sequence are those of its parts, in whatever order.
LEMMA ConcatMembers ==
  ASSUME NEW S, NEW a \in Seq(S), NEW b \in Seq(S)
  PROVE  /\ a \o b \in Seq(S) /\ ToSet(a \o b) = ToSet(a) \cup ToSet(b)
         /\ ToSet(a) \subseteq S
<1>1. /\ Len(a) \in Nat /\ Len(b) \in Nat /\ DOMAIN a = 1 .. Len(a) /\ DOMAIN b = 1 .. Len(b)
      /\ a \o b \in Seq(S) /\ Len(a \o b) = Len(a) + Len(b) /\ DOMAIN (a \o b) = 1 .. Len(a) + Len(b)
  OBVIOUS
<1>2. /\ \A i \in 1 .. Len(a) : i \in 1 .. Len(a) + Len(b) /\ (a \o b)[i] = a[i]
      /\ \A i \in 1 .. Len(b) : Len(a) + i \in 1 .. Len(a) + Len(b) /\ (a \o b)[Len(a) + i] = b[i]
  BY <1>1
<1>3. \A i \in 1 .. Len(a) + Len(b) :
        i \in 1 .. Len(a) \/ (i - Len(a) \in 1 .. Len(b) /\ i = Len(a) + (i - Len(a)))
  BY <1>1
<1>4. ToSet(a \o b) \subseteq ToSet(a) \cup ToSet(b)
  BY <1>1, <1>2, <1>3 DEF ToSet
<1>5. ToSet(a) \cup ToSet(b) \subseteq ToSet(a \o b)
  BY <1>1, <1>2, Zenon DEF ToSet
<1>6. ToSet(a) \subseteq S
  BY <1>1, ElementOfSeq DEF ToSet
<1> QED BY <1>1, <1>4, <1>5, <1>6, Zenon

\* What is appended joins the members, and repeats none that it is not.
LEMMA AppendMember ==
  ASSUME NEW S, NEW q \in Seq(S), NEW t \in S
  PROVE  /\ ToSet(Append(q, t)) = ToSet(q) \cup {t}
         /\ IsInjective(q) /\ t \notin ToSet(q) => IsInjective(Append(q, t))
<1>1. /\ Len(q) \in Nat /\ DOMAIN q = 1 .. Len(q) /\ DOMAIN Append(q, t) = 1 .. Len(q) + 1
      /\ Append(q, t)[Len(q) + 1] = t /\ \A i \in 1 .. Len(q) : Append(q, t)[i] = q[i]
  BY AppendProperties
<1>2. /\ \A i \in 1 .. Len(q) + 1 : i \in 1 .. Len(q) \/ i = Len(q) + 1
      /\ 1 .. Len(q) \subseteq 1 .. Len(q) + 1 /\ Len(q) + 1 \in 1 .. Len(q) + 1
  BY <1>1
<1>3. ToSet(Append(q, t)) = ToSet(q) \cup {t}
  BY <1>1, <1>2, Zenon DEF ToSet
<1>4. ASSUME IsInjective(q), t \notin ToSet(q) PROVE IsInjective(Append(q, t))
  <2>1. \A i \in 1 .. Len(q) : q[i] # t
    BY <1>1, <1>4, Zenon DEF ToSet
  <2> QED BY <1>1, <1>2, <1>4, <2>1, Zenon DEF IsInjective
<1> QED BY <1>3, <1>4

\* The first element is taken out of the members for good.
LEMMA TailMembers ==
  ASSUME NEW S, NEW q \in Seq(S), q # << >>
  PROVE  /\ Head(q) \in S /\ Tail(q) \in Seq(S)
         /\ IsInjective(q) => IsInjective(Tail(q)) /\ ToSet(Tail(q)) = ToSet(q) \ {Head(q)}
<1>1. /\ Len(q) \in Nat /\ Len(q) > 0 /\ DOMAIN q = 1 .. Len(q) /\ Head(q) = q[1] /\ 1 \in 1 .. Len(q)
      /\ Head(q) \in S /\ Tail(q) \in Seq(S) /\ DOMAIN Tail(q) = 1 .. Len(q) - 1
      /\ \A i \in 1 .. Len(q) - 1 : i + 1 \in 1 .. Len(q) /\ Tail(q)[i] = q[i + 1]
  BY HeadTailProperties
<1>2. /\ \A i \in 1 .. Len(q) : i = 1 \/ (i - 1 \in 1 .. Len(q) - 1 /\ Tail(q)[i - 1] = q[i])
      /\ \A i \in 1 .. Len(q) - 1 : i + 1 # 1
      /\ \A i, j \in 1 .. Len(q) - 1 : i + 1 = j + 1 => i = j
  BY <1>1
<1>3. ASSUME IsInjective(q) PROVE IsInjective(Tail(q))
  BY <1>1, <1>2, <1>3 DEF IsInjective
<1>4. ASSUME IsInjective(q) PROVE ToSet(Tail(q)) = ToSet(q) \ {Head(q)}
  <2>1. \A i \in 1 .. Len(q) - 1 : q[i + 1] # q[1]
    BY <1>1, <1>2, <1>4, Zenon DEF IsInjective
  <2>2. ToSet(Tail(q)) \subseteq ToSet(q) \ {Head(q)}
    BY <1>1, <2>1 DEF ToSet
  <2>3. ASSUME NEW x \in ToSet(q), x # Head(q) PROVE x \in ToSet(Tail(q))
    <3>1. PICK i \in 1 .. Len(q) : x = q[i]
      BY <1>1, <2>3, Zenon DEF ToSet
    <3>2. i - 1 \in DOMAIN Tail(q) /\ x = Tail(q)[i - 1]
      BY <1>1, <1>2, <2>3, <3>1
    <3> QED BY <3>2, Zenon DEF ToSet
  <2> QED BY <2>2, <2>3
<1> QED BY <1>1, <1>3, <1>4

\* Putting the remainder of a batch behind the queue repeats nothing.
LEMMA SwapInjective ==
  ASSUME NEW S, NEW a \in Seq(S), NEW b \in Seq(S), IsInjective(a \o b)
  PROVE  IsInjective(b \o a)
<1>1. /\ Len(a) \in Nat /\ Len(b) \in Nat
      /\ DOMAIN (a \o b) = 1 .. Len(a) + Len(b) /\ DOMAIN (b \o a) = 1 .. Len(a) + Len(b)
  OBVIOUS
<1> DEFINE pos(i) == IF i <= Len(b) THEN Len(a) + i ELSE i - Len(b)
<1>2. \A i \in 1 .. Len(a) + Len(b) :
        pos(i) \in 1 .. Len(a) + Len(b) /\ (b \o a)[i] = (a \o b)[pos(i)]
  BY <1>1
<1>3. \A i, j \in 1 .. Len(a) + Len(b) : pos(i) = pos(j) => i = j
  BY <1>1
<1> HIDE DEF pos
<1>4. ASSUME NEW i \in 1 .. Len(a) + Len(b), NEW j \in 1 .. Len(a) + Len(b), (b \o a)[i] = (b \o a)[j]
      PROVE  i = j
  <2>1. (a \o b)[pos(i)] = (a \o b)[pos(j)]
    BY <1>2, <1>4, Zenon
  <2>2. pos(i) = pos(j)
    BY <1>1, <1>2, <2>1, Zenon DEF IsInjective
  <2> QED BY <1>3, <2>2, Zenon
<1> QED BY <1>1, <1>4, Zenon DEF IsInjective

\* The tail of a batch in front of the queue.
LEMMA TailOfConcat ==
  ASSUME NEW S, NEW a \in Seq(S), NEW b \in Seq(S), a # << >>
  PROVE  a \o b # << >> /\ Head(a \o b) = Head(a) /\ Tail(a \o b) = Tail(a) \o b
<1>1. /\ Len(a) \in Nat /\ Len(a) > 0 /\ Len(b) \in Nat /\ Head(a) = a[1]
      /\ Tail(a) \in Seq(S) /\ Len(Tail(a)) = Len(a) - 1
      /\ \A i \in 1 .. Len(a) - 1 : Tail(a)[i] = a[i + 1]
  BY HeadTailProperties
<1>2. /\ a \o b \in Seq(S) /\ Len(a \o b) = Len(a) + Len(b) /\ (a \o b)[1] = a[1]
      /\ \A i \in 1 .. Len(a) + Len(b) : (a \o b)[i] = IF i <= Len(a) THEN a[i] ELSE b[i - Len(a)]
  BY <1>1, ConcatProperties
<1>3. a \o b # << >> /\ Head(a \o b) = Head(a)
  BY <1>1, <1>2
<1>4. /\ Tail(a \o b) \in Seq(S) /\ Len(Tail(a \o b)) = Len(a) + Len(b) - 1
      /\ \A i \in 1 .. Len(a) + Len(b) - 1 : Tail(a \o b)[i] = (a \o b)[i + 1]
  BY <1>2, <1>3, HeadTailProperties
<1>5. /\ Tail(a) \o b \in Seq(S) /\ Len(Tail(a) \o b) = Len(a) + Len(b) - 1
      /\ \A i \in 1 .. Len(a) + Len(b) - 1 :
           (Tail(a) \o b)[i] = IF i <= Len(a) - 1 THEN Tail(a)[i] ELSE b[i - (Len(a) - 1)]
  BY <1>1, ConcatProperties
<1>6. \A i \in 1 .. Len(a) + Len(b) - 1 : Tail(a \o b)[i] = (Tail(a) \o b)[i]
  BY <1>1, <1>2, <1>4, <1>5
<1> QED BY <1>3, <1>4, <1>5, <1>6, SeqEqual

\* Deferring while a batch is being run.
LEMMA QueueAppend ==
  ASSUME NEW r \in Seq(Deferrable), NEW q \in Seq(Deferrable), NEW t \in Deferrable
  PROVE  /\ ToSet(r \o Append(q, t)) = ToSet(r \o q) \cup {t}
         /\ IsInjective(r \o q) /\ t \notin ToSet(r \o q) => IsInjective(r \o Append(q, t))
<1>1. <<t>> \in Seq(Deferrable) /\ r \o q \in Seq(Deferrable)
  OBVIOUS
<1>2. Append(q, t) = q \o <<t>> /\ Append(r \o q, t) = (r \o q) \o <<t>>
  BY <1>1, AppendIsConcat
<1>3. r \o Append(q, t) = Append(r \o q, t)
  BY <1>1, <1>2, ConcatAssociative
<1>4. /\ ToSet(Append(r \o q, t)) = ToSet(r \o q) \cup {t}
      /\ IsInjective(r \o q) /\ t \notin ToSet(r \o q) => IsInjective(Append(r \o q, t))
  BY <1>1, AppendMember, Zenon
<1> QED BY <1>3, <1>4, Zenon

\* Noting a sink that is not noted yet.
LEMMA WriteSetAppend ==
  ASSUME NEW q \in Seq(LoopSinks), NEW s \in LoopSinks, IsInjective(q), s \notin ToSet(q)
  PROVE  ToSet(Append(q, s)) = ToSet(q) \cup {s} /\ IsInjective(Append(q, s))
<1>1. ToSet(Append(q, s)) = ToSet(q) \cup {s}
  BY AppendMember
<1>2. IsInjective(Append(q, s))
  BY AppendMember
<1> QED BY <1>1, <1>2

\* Taking a task from the batch that is being run.
LEMMA QueueTail ==
  ASSUME NEW r \in Seq(Deferrable), NEW q \in Seq(Deferrable), r # << >>, IsInjective(r \o q)
  PROVE  /\ Tail(r) \in Seq(Deferrable) /\ IsInjective(Tail(r) \o q)
         /\ ToSet(Tail(r) \o q) = ToSet(r \o q) \ {Head(r)}
<1>1. r \o q \in Seq(Deferrable)
  BY ConcatMembers, Zenon
<1>2. r \o q # << >> /\ Head(r \o q) = Head(r) /\ Tail(r \o q) = Tail(r) \o q
  BY TailOfConcat, Zenon
<1>3. Tail(r) \in Seq(Deferrable)
  BY TailMembers, Zenon
<1>4. IsInjective(Tail(r \o q)) /\ ToSet(Tail(r \o q)) = ToSet(r \o q) \ {Head(r \o q)}
  BY <1>1, <1>2, TailMembers, Zenon
<1> QED BY <1>2, <1>3, <1>4, Zenon

\* Putting what is left of the batch behind the queue.
LEMMA QueueSwap ==
  ASSUME NEW r \in Seq(Deferrable), NEW q \in Seq(Deferrable), IsInjective(r \o q)
  PROVE  /\ q \o r \in Seq(Deferrable) /\ IsInjective(<< >> \o (q \o r))
         /\ ToSet(<< >> \o (q \o r)) = ToSet(r \o q)
<1>1. q \o r \in Seq(Deferrable) /\ << >> \o (q \o r) = q \o r
  OBVIOUS
<1>2. IsInjective(q \o r)
  BY SwapInjective, Zenon
<1>3. ToSet(q \o r) = ToSet(r \o q)
  <2>1. q \o r \in Seq(Deferrable) /\ ToSet(q \o r) = ToSet(q) \cup ToSet(r) /\ ToSet(q) \subseteq Deferrable
    BY ConcatMembers
  <2>2. r \o q \in Seq(Deferrable) /\ ToSet(r \o q) = ToSet(r) \cup ToSet(q) /\ ToSet(r) \subseteq Deferrable
    BY ConcatMembers
  <2> QED BY <2>1, <2>2
<1> QED BY <1>1, <1>2, <1>3, Zenon

-----------------------------------------------------------------------------
(* What a step keeps *)

\* Each part of the invariant looks at a few fields only.
LEMMA WritesFrame ==
  ASSUME WritesNoted, UNCHANGED <<loop.pend, loop.dirty, loop.st>> PROVE WritesNoted'
BY Zenon DEF WritesNoted, HasSink

LEMMA TasksFrame ==
  ASSUME TasksQueued, UNCHANGED <<loop.run, loop.next, loop.owed>>,
         loop'.at # "defer" => loop.run = << >>
  PROVE  TasksQueued'
BY Zenon DEF TasksQueued, Queued

LEMMA CallFrame ==
  ASSUME CallTarget, UNCHANGED <<loop.cb, loop.st, loop.kind, loop.box, loop.own>> PROVE CallTarget'
BY Zenon DEF CallTarget, HasSink

LEMMA ClosuresFrame ==
  ASSUME Closures, UNCHANGED <<loop.fds, loop.st, loop.kind, loop.box, loop.leaked>> PROVE Closures'
BY ZenonT(30) DEF Closures, HasSink

\* No sink has the name of other work.
LEMMA NotASink == ASSUME loop'.cb \in {"work", "none"} PROVE CallTarget'
BY LoopSinksAssumption DEF CallTarget

\* An entry that comes to be is not in the write set.
LEMMA NewSinkWrites ==
  ASSUME LoopTypeOK, WritesNoted, NEW s \in LoopSinks, loop.st[s] = "none",
         UNCHANGED <<loop.pend, loop.dirty>>, NEW x, loop'.st = [loop.st EXCEPT ![s] = x]
  PROVE  WritesNoted'
<1>1. s \notin ToSet(loop.pend)
  BY Zenon DEF WritesNoted
<1>2. \A r \in ToSet(loop.pend) : r \in LoopSinks
  BY ElementOfSeq DEF LoopTypeOK, ToSet
<1>3. \A r \in ToSet(loop.pend) : loop'.st[r] = loop.st[r]
  BY <1>1, <1>2 DEF LoopTypeOK
<1>4. {r \in ToSet(loop.pend) : loop'.st[r] = "live"} = {r \in ToSet(loop.pend) : loop.st[r] = "live"}
  BY <1>3
<1>5. loop'.dirty = {r \in ToSet(loop.pend) : loop'.st[r] = "live"}
  BY <1>4, Zenon DEF WritesNoted, HasSink
<1> QED BY <1>3, <1>5, Zenon DEF WritesNoted, HasSink

\* A deferred task goes to the end of the queue.
LEMMA DeferInv == ASSUME LoopInv, NEW t \in Deferrable, Defer(t) PROVE LoopInv'
<1>1. loop' = [loop EXCEPT !.next = Append(loop.next, t), !.owed = loop.owed \cup {t}]
  BY Zenon DEF Defer
<1>2. LoopTypeOK /\ WritesNoted /\ TasksQueued /\ CallTarget /\ Closures /\ t \notin Queued
  BY Zenon DEF LoopInv, Defer
<1>3. LoopShape'
  BY <1>1, <1>2, Zenon DEF LoopTypeOK, LoopShape
<1>4. /\ UNCHANGED <<loop.at, loop.cb, loop.n, loop.posts, loop.comps, loop.kind, loop.st,
                     loop.fds, loop.box, loop.pend, loop.dirty, loop.run, loop.own, loop.leaked>>
      /\ loop'.next = Append(loop.next, t)
      /\ loop'.owed = loop.owed \cup {t}
  BY <1>1, <1>2 DEF LoopTypeOK, LoopShape, LoopFields
<1>5. LoopTypeOK'
  BY <1>2, <1>3, <1>4 DEF LoopTypeOK
<1>6. WritesNoted'
  BY <1>2, <1>4, WritesFrame
<1>7. TasksQueued'
  <2>1. loop.run \in Seq(Deferrable) /\ loop.next \in Seq(Deferrable)
    BY <1>2 DEF LoopTypeOK
  <2>2. /\ ToSet(loop.run \o Append(loop.next, t)) = ToSet(loop.run \o loop.next) \cup {t}
        /\ IsInjective(loop.run \o loop.next) /\ t \notin ToSet(loop.run \o loop.next)
             => IsInjective(loop.run \o Append(loop.next, t))
    BY <2>1, QueueAppend
  <2> QED BY <1>2, <1>4, <2>2, Zenon DEF TasksQueued, Queued
<1>8. CallTarget'
  BY <1>2, <1>4, CallFrame
<1>9. Closures'
  BY <1>2, <1>4, ClosuresFrame
<1> QED BY <1>5, <1>6, <1>7, <1>8, <1>9 DEF LoopInv

\* A new entry is in no set yet.
LEMMA RegisterSinkInv == ASSUME LoopInv, NEW s \in LoopSinks, RegisterSink(s) PROVE LoopInv'
<1>1. loop' = [loop EXCEPT !.st[s] = "live", !.kind[s] = "sink"]
  BY Zenon DEF RegisterSink
<1>2. LoopTypeOK /\ WritesNoted /\ TasksQueued /\ CallTarget /\ Closures /\ loop.st[s] = "none"
  BY Zenon DEF LoopInv, RegisterSink
<1>3. LoopShape'
  BY <1>1, <1>2, Zenon DEF LoopTypeOK, LoopShape
<1>4. /\ UNCHANGED <<loop.at, loop.cb, loop.n, loop.posts, loop.comps, loop.fds, loop.box,
                     loop.pend, loop.dirty, loop.next, loop.run, loop.own, loop.leaked, loop.owed>>
      /\ loop'.st = [loop.st EXCEPT ![s] = "live"]
      /\ loop'.kind = [loop.kind EXCEPT ![s] = "sink"]
  BY <1>1, <1>2 DEF LoopTypeOK, LoopShape, LoopFields
<1>5. LoopTypeOK'
  BY <1>2, <1>3, <1>4 DEF LoopTypeOK
<1>6. WritesNoted'
  BY <1>2, <1>4, NewSinkWrites
<1>7. TasksQueued'
  BY <1>2, <1>4, TasksFrame DEF TasksQueued
<1>8. CallTarget'
  BY <1>2, <1>4, SMTT(30) DEF CallTarget, HasSink, LoopTypeOK
<1>9. Closures'
  BY <1>2, <1>4, SMTT(30) DEF Closures, HasSink, LoopTypeOK
<1> QED BY <1>5, <1>6, <1>7, <1>8, <1>9 DEF LoopInv

\* A watch that cannot be attached leaves its closure and nothing else.
LEMMA WatchFdInv == ASSUME LoopInv, NEW s \in LoopSinks, NEW ok \in BOOLEAN, WatchFd(s, ok) PROVE LoopInv'
<1>1. loop' = [loop EXCEPT
                  !.kind[s] = "watch", !.box = loop.box \cup {s},
                  !.st[s] = IF ok THEN "live" ELSE "gone",
                  !.fds = IF ok THEN loop.fds \cup {s} ELSE loop.fds,
                  !.leaked = IF ok THEN loop.leaked ELSE loop.leaked \cup {s}]
  BY Zenon DEF WatchFd
<1>2. LoopTypeOK /\ WritesNoted /\ TasksQueued /\ CallTarget /\ Closures /\ loop.st[s] = "none"
  BY Zenon DEF LoopInv, WatchFd
<1>3. LoopShape'
  BY <1>1, <1>2, Zenon DEF LoopTypeOK, LoopShape
<1>4. /\ UNCHANGED <<loop.at, loop.cb, loop.n, loop.posts, loop.comps, loop.pend, loop.dirty,
                     loop.next, loop.run, loop.own, loop.owed>>
      /\ loop'.kind = [loop.kind EXCEPT ![s] = "watch"]
      /\ loop'.box = loop.box \cup {s}
      /\ loop'.st = [loop.st EXCEPT ![s] = IF ok THEN "live" ELSE "gone"]
      /\ loop'.fds = IF ok THEN loop.fds \cup {s} ELSE loop.fds
      /\ loop'.leaked = IF ok THEN loop.leaked ELSE loop.leaked \cup {s}
  BY <1>1, <1>2 DEF LoopTypeOK, LoopShape, LoopFields
<1>5. LoopTypeOK'
  BY <1>2, <1>3, <1>4 DEF LoopTypeOK
<1>6. WritesNoted'
  BY <1>2, <1>4, NewSinkWrites
<1>7. TasksQueued'
  BY <1>2, <1>4, TasksFrame DEF TasksQueued
<1>8. CallTarget'
  BY <1>2, <1>4, SMTT(30) DEF CallTarget, HasSink, LoopTypeOK
<1>9. Closures'
  <2>1. CASE ok
    BY <1>2, <1>4, <2>1, SMTT(30) DEF Closures, HasSink, LoopTypeOK
  <2>2. CASE ~ok
    BY <1>2, <1>4, <2>2, SMTT(30) DEF Closures, HasSink, LoopTypeOK
  <2> QED BY <2>1, <2>2
<1> QED BY <1>5, <1>6, <1>7, <1>8, <1>9 DEF LoopInv

\* A sink that goes leaves the watches, the closures and its flag behind it.
LEMMA ReleaseSinkInv == ASSUME LoopInv, NEW s \in LoopSinks, ReleaseSink(s) PROVE LoopInv'
<1>1. loop' = [loop EXCEPT
                  !.fds = loop.fds \ {s}, !.box = loop.box \ {s}, !.st[s] = "gone",
                  !.dirty = loop.dirty \ {s}, !.own = (loop.own \/ loop.cb = s)]
  BY Zenon DEF ReleaseSink
<1>2. LoopTypeOK /\ WritesNoted /\ TasksQueued /\ CallTarget /\ Closures /\ HasSink(s)
  BY Zenon DEF LoopInv, ReleaseSink
<1>3. LoopShape'
  BY <1>1, <1>2, Zenon DEF LoopTypeOK, LoopShape
<1>4. /\ UNCHANGED <<loop.at, loop.cb, loop.n, loop.posts, loop.comps, loop.kind, loop.pend,
                     loop.next, loop.run, loop.leaked, loop.owed>>
      /\ loop'.fds = loop.fds \ {s}
      /\ loop'.box = loop.box \ {s}
      /\ loop'.st = [loop.st EXCEPT ![s] = "gone"]
      /\ loop'.dirty = loop.dirty \ {s}
      /\ loop'.own = (loop.own \/ loop.cb = s)
  BY <1>1, <1>2 DEF LoopTypeOK, LoopShape, LoopFields
<1>5. LoopTypeOK'
  BY <1>2, <1>3, <1>4 DEF LoopTypeOK
<1>6. WritesNoted'
  <2>1. \A r \in ToSet(loop.pend) : r \in LoopSinks
    BY <1>2, ElementOfSeq DEF LoopTypeOK, ToSet
  <2>2. \A r \in ToSet(loop.pend) : loop'.st[r] = IF r = s THEN "gone" ELSE loop.st[r]
    BY <1>2, <1>4, <2>1 DEF LoopTypeOK
  <2>3. loop'.dirty = {r \in ToSet(loop.pend) : loop'.st[r] = "live"}
    <3>1. loop.dirty = {r \in ToSet(loop.pend) : loop.st[r] = "live"} /\ loop'.dirty = loop.dirty \ {s}
      BY <1>2, <1>4, Zenon DEF WritesNoted, HasSink
    <3> QED BY <2>2, <3>1
  <2>4. \A r \in ToSet(loop.pend) : loop'.st[r] # "none"
    BY <1>2, <2>2 DEF WritesNoted
  <2> QED BY <1>2, <1>4, <2>3, <2>4, Zenon DEF WritesNoted, HasSink
<1>7. TasksQueued'
  BY <1>2, <1>4, TasksFrame DEF TasksQueued
<1>8. CallTarget'
  <2>1. CASE loop.cb = s
    BY <1>4, <2>1, Zenon DEF CallTarget
  <2>2. CASE loop.cb # s
    <3>1. loop.own => loop'.own
      BY <1>4, Zenon
    <3>2. loop.cb \in LoopSinks => loop'.st[loop.cb] = loop.st[loop.cb]
      BY <1>2, <1>4, <2>2 DEF LoopTypeOK
    <3>3. loop.cb \in loop.box => loop.cb \in loop'.box
      BY <1>4, <2>2, Zenon
    <3> QED BY <1>2, <1>4, <3>1, <3>2, <3>3, Zenon DEF CallTarget, HasSink
  <2> QED BY <2>1, <2>2
<1>9. Closures'
  BY <1>2, <1>4, SMTT(30) DEF Closures, HasSink, LoopTypeOK
<1> QED BY <1>5, <1>6, <1>7, <1>8, <1>9 DEF LoopInv

\* A sink whose flag is down is not in the write set.
LEMMA NoteWritePendingInv == ASSUME LoopInv, NEW s \in LoopSinks, NoteWritePending(s) PROVE LoopInv'
<1>1. loop' = [loop EXCEPT !.dirty = loop.dirty \cup {s}, !.pend = Append(loop.pend, s)]
  BY Zenon DEF NoteWritePending
<1>2. LoopTypeOK /\ WritesNoted /\ TasksQueued /\ CallTarget /\ Closures /\ HasSink(s) /\ s \notin loop.dirty
  BY Zenon DEF LoopInv, NoteWritePending
<1>3. LoopShape'
  BY <1>1, <1>2, Zenon DEF LoopTypeOK, LoopShape
<1>4. /\ UNCHANGED <<loop.at, loop.cb, loop.n, loop.posts, loop.comps, loop.kind, loop.st,
                     loop.fds, loop.box, loop.next, loop.run, loop.own, loop.leaked, loop.owed>>
      /\ loop'.dirty = loop.dirty \cup {s}
      /\ loop'.pend = Append(loop.pend, s)
  BY <1>1, <1>2 DEF LoopTypeOK, LoopShape, LoopFields
<1>5. LoopTypeOK'
  BY <1>2, <1>3, <1>4 DEF LoopTypeOK
<1>6. WritesNoted'
  <2>1. s \notin ToSet(loop.pend)
    BY <1>2, Zenon DEF WritesNoted
  <2>2. ToSet(loop'.pend) = ToSet(loop.pend) \cup {s} /\ IsInjective(loop'.pend)
    <3>1. loop.pend \in Seq(LoopSinks) /\ IsInjective(loop.pend)
      BY <1>2 DEF LoopTypeOK, WritesNoted
    <3>2. ToSet(Append(loop.pend, s)) = ToSet(loop.pend) \cup {s} /\ IsInjective(Append(loop.pend, s))
      BY <2>1, <3>1, WriteSetAppend
    <3> QED BY <1>4, <3>2, Zenon
  <2>3. loop'.dirty = {r \in ToSet(loop.pend) \cup {s} : loop.st[r] = "live"}
    <3>1. loop.dirty = {r \in ToSet(loop.pend) : loop.st[r] = "live"} /\ loop.st[s] = "live"
      BY <1>2, Zenon DEF WritesNoted, HasSink
    <3> QED BY <1>4, <3>1
  <2> QED BY <1>2, <1>4, <2>2, <2>3, ZenonT(30) DEF WritesNoted, HasSink
<1>7. TasksQueued'
  BY <1>2, <1>4, TasksFrame DEF TasksQueued
<1>8. CallTarget'
  BY <1>2, <1>4, CallFrame
<1>9. Closures'
  BY <1>2, <1>4, ClosuresFrame
<1> QED BY <1>5, <1>6, <1>7, <1>8, <1>9 DEF LoopInv

\* A callback that has returned leaves everything as it is.
LEMMA CallbackReturnsInv == ASSUME LoopInv, CallbackReturns PROVE LoopInv'
<1>1. loop' = [loop EXCEPT !.cb = "none"]
  BY Zenon DEF CallbackReturns
<1>2. LoopTypeOK /\ WritesNoted /\ TasksQueued /\ CallTarget /\ Closures
  BY Zenon DEF LoopInv, CallbackReturns
<1>3. LoopShape'
  BY <1>1, <1>2, Zenon DEF LoopTypeOK, LoopShape
<1>4. /\ UNCHANGED <<loop.at, loop.n, loop.posts, loop.comps, loop.kind, loop.st, loop.fds,
                     loop.box, loop.pend, loop.dirty, loop.next, loop.run, loop.own, loop.leaked,
                     loop.owed>>
      /\ loop'.cb = "none"
  BY <1>1, <1>2 DEF LoopTypeOK, LoopShape, LoopFields
<1>5. LoopTypeOK'
  BY <1>2, <1>3, <1>4 DEF LoopTypeOK
<1>6. WritesNoted'
  BY <1>2, <1>4, WritesFrame
<1>7. TasksQueued'
  BY <1>2, <1>4, TasksFrame DEF TasksQueued
<1>8. CallTarget'
  BY <1>4, NotASink
<1>9. Closures'
  BY <1>2, <1>4, ClosuresFrame
<1> QED BY <1>5, <1>6, <1>7, <1>8, <1>9 DEF LoopInv

\* stop() is a flag.
LEMMA StopLoopInv == ASSUME LoopInv, StopLoop PROVE LoopInv'
<1>1. loop' = [loop EXCEPT !.stop = TRUE]
  BY Zenon DEF StopLoop
<1>2. LoopTypeOK /\ WritesNoted /\ TasksQueued /\ CallTarget /\ Closures
  BY Zenon DEF LoopInv, StopLoop
<1>3. LoopShape'
  BY <1>1, <1>2, Zenon DEF LoopTypeOK, LoopShape
<1>4. /\ UNCHANGED <<loop.at, loop.cb, loop.n, loop.posts, loop.comps, loop.kind, loop.st,
                     loop.fds, loop.box, loop.pend, loop.dirty, loop.next, loop.run, loop.own,
                     loop.leaked, loop.owed>>
  BY <1>1, <1>2 DEF LoopTypeOK, LoopShape, LoopFields
<1>5. LoopTypeOK'
  BY <1>2, <1>3, <1>4 DEF LoopTypeOK
<1>6. WritesNoted'
  BY <1>2, <1>4, WritesFrame
<1>7. TasksQueued'
  BY <1>2, <1>4, TasksFrame DEF TasksQueued
<1>8. CallTarget'
  BY <1>2, <1>4, CallFrame
<1>9. Closures'
  BY <1>2, <1>4, ClosuresFrame
<1> QED BY <1>5, <1>6, <1>7, <1>8, <1>9 DEF LoopInv

\* Posted work waits in the mailbox.
LEMMA WorkArrivesInv == ASSUME LoopInv, WorkArrives PROVE LoopInv'
<1>1. loop' = [loop EXCEPT !.posts = loop.posts + 1]
  BY Zenon DEF WorkArrives
<1>2. LoopTypeOK /\ WritesNoted /\ TasksQueued /\ CallTarget /\ Closures
  BY Zenon DEF LoopInv, WorkArrives
<1>3. LoopShape'
  BY <1>1, <1>2, Zenon DEF LoopTypeOK, LoopShape
<1>4. /\ UNCHANGED <<loop.at, loop.cb, loop.n, loop.comps, loop.kind, loop.st, loop.fds, loop.box,
                     loop.pend, loop.dirty, loop.next, loop.run, loop.own, loop.leaked, loop.owed>>
      /\ loop'.posts = loop.posts + 1
  BY <1>1, <1>2 DEF LoopTypeOK, LoopShape, LoopFields
<1>5. LoopTypeOK'
  BY <1>2, <1>3, <1>4 DEF LoopTypeOK
<1>6. WritesNoted'
  BY <1>2, <1>4, WritesFrame
<1>7. TasksQueued'
  BY <1>2, <1>4, TasksFrame DEF TasksQueued
<1>8. CallTarget'
  BY <1>2, <1>4, CallFrame
<1>9. Closures'
  BY <1>2, <1>4, ClosuresFrame
<1> QED BY <1>5, <1>6, <1>7, <1>8, <1>9 DEF LoopInv

\* An iteration begins with the mailbox.
LEMMA PollOnceInv == ASSUME LoopInv, PollOnce PROVE LoopInv'
<1>1. loop' = [loop EXCEPT !.at = "mailbox", !.n = 0]
  BY Zenon DEF PollOnce
<1>2. LoopTypeOK /\ WritesNoted /\ TasksQueued /\ CallTarget /\ Closures /\ loop.at = "run"
  BY Zenon DEF LoopInv, PollOnce, At
<1>3. LoopShape'
  BY <1>1, <1>2, Zenon DEF LoopTypeOK, LoopShape
<1>4. /\ UNCHANGED <<loop.cb, loop.posts, loop.comps, loop.kind, loop.st, loop.fds, loop.box,
                     loop.pend, loop.dirty, loop.next, loop.run, loop.own, loop.leaked, loop.owed>>
      /\ loop'.at = "mailbox"
      /\ loop'.n = 0
  BY <1>1, <1>2 DEF LoopTypeOK, LoopShape, LoopFields
<1>5. LoopTypeOK'
  BY <1>2, <1>3, <1>4 DEF LoopTypeOK
<1>6. WritesNoted'
  BY <1>2, <1>4, WritesFrame
<1>7. TasksQueued'
  BY <1>2, <1>4, TasksFrame DEF TasksQueued
<1>8. CallTarget'
  BY <1>2, <1>4, CallFrame
<1>9. Closures'
  BY <1>2, <1>4, ClosuresFrame
<1> QED BY <1>5, <1>6, <1>7, <1>8, <1>9 DEF LoopInv

\* A posted task or a due timer runs.
LEMMA RunPostedInv == ASSUME LoopInv, RunPosted PROVE LoopInv'
<1>1. loop' = [loop EXCEPT !.posts = loop.posts - 1, !.n = loop.n + 1, !.cb = "work", !.own = FALSE]
  BY Zenon DEF RunPosted
<1>2. LoopTypeOK /\ WritesNoted /\ TasksQueued /\ CallTarget /\ Closures /\ loop.posts > 0
  BY Zenon DEF LoopInv, RunPosted
<1>3. LoopShape'
  BY <1>1, <1>2, Zenon DEF LoopTypeOK, LoopShape
<1>4. /\ UNCHANGED <<loop.at, loop.comps, loop.kind, loop.st, loop.fds, loop.box, loop.pend,
                     loop.dirty, loop.next, loop.run, loop.leaked, loop.owed>>
      /\ loop'.posts = loop.posts - 1
      /\ loop'.n = loop.n + 1
      /\ loop'.cb = "work"
      /\ loop'.own = FALSE
  BY <1>1, <1>2 DEF LoopTypeOK, LoopShape, LoopFields
<1>5. LoopTypeOK'
  BY <1>2, <1>3, <1>4 DEF LoopTypeOK
<1>6. WritesNoted'
  BY <1>2, <1>4, WritesFrame
<1>7. TasksQueued'
  BY <1>2, <1>4, TasksFrame DEF TasksQueued
<1>8. CallTarget'
  BY <1>4, NotASink
<1>9. Closures'
  BY <1>2, <1>4, ClosuresFrame
<1> QED BY <1>5, <1>6, <1>7, <1>8, <1>9 DEF LoopInv

\* The loop decides how long to wait.
LEMMA PlanWaitInv == ASSUME LoopInv, NEW blocks \in BOOLEAN, PlanWait(blocks) PROVE LoopInv'
<1>1. loop' = [loop EXCEPT !.at = "wait", !.blocked = blocks]
  BY Zenon DEF PlanWait
<1>2. LoopTypeOK /\ WritesNoted /\ TasksQueued /\ CallTarget /\ Closures /\ loop.at = "mailbox"
  BY Zenon DEF LoopInv, PlanWait, At
<1>3. LoopShape'
  BY <1>1, <1>2, Zenon DEF LoopTypeOK, LoopShape
<1>4. /\ UNCHANGED <<loop.cb, loop.n, loop.posts, loop.comps, loop.kind, loop.st, loop.fds,
                     loop.box, loop.pend, loop.dirty, loop.next, loop.run, loop.own, loop.leaked,
                     loop.owed>>
      /\ loop'.at = "wait"
  BY <1>1, <1>2 DEF LoopTypeOK, LoopShape, LoopFields
<1>5. LoopTypeOK'
  BY <1>2, <1>3, <1>4 DEF LoopTypeOK
<1>6. WritesNoted'
  BY <1>2, <1>4, WritesFrame
<1>7. TasksQueued'
  BY <1>2, <1>4, TasksFrame DEF TasksQueued
<1>8. CallTarget'
  BY <1>2, <1>4, CallFrame
<1>9. Closures'
  BY <1>2, <1>4, ClosuresFrame
<1> QED BY <1>5, <1>6, <1>7, <1>8, <1>9 DEF LoopInv

\* The wait brings completions.
LEMMA WaitEndsInv == ASSUME LoopInv, NEW cs \in Seq(LoopSinks), WaitEnds(cs) PROVE LoopInv'
<1>1. loop' = [loop EXCEPT !.at = "dispatch", !.comps = cs, !.blocked = FALSE]
  BY Zenon DEF WaitEnds
<1>2. LoopTypeOK /\ WritesNoted /\ TasksQueued /\ CallTarget /\ Closures /\ loop.at = "wait"
  BY Zenon DEF LoopInv, WaitEnds, At
<1>3. LoopShape'
  BY <1>1, <1>2, Zenon DEF LoopTypeOK, LoopShape
<1>4. /\ UNCHANGED <<loop.cb, loop.n, loop.posts, loop.kind, loop.st, loop.fds, loop.box,
                     loop.pend, loop.dirty, loop.next, loop.run, loop.own, loop.leaked, loop.owed>>
      /\ loop'.at = "dispatch"
      /\ loop'.comps = cs
  BY <1>1, <1>2 DEF LoopTypeOK, LoopShape, LoopFields
<1>5. LoopTypeOK'
  BY <1>2, <1>3, <1>4 DEF LoopTypeOK
<1>6. WritesNoted'
  BY <1>2, <1>4, WritesFrame
<1>7. TasksQueued'
  BY <1>2, <1>4, TasksFrame DEF TasksQueued
<1>8. CallTarget'
  BY <1>2, <1>4, CallFrame
<1>9. Closures'
  BY <1>2, <1>4, ClosuresFrame
<1> QED BY <1>5, <1>6, <1>7, <1>8, <1>9 DEF LoopInv

\* The handle of a completion is looked up.
LEMMA DispatchOneInv == ASSUME LoopInv, DispatchOne PROVE LoopInv'
<1>1. loop' = [loop EXCEPT
                  !.comps = Tail(loop.comps),
                  !.cb = IF HasSink(Head(loop.comps)) THEN Head(loop.comps) ELSE "none",
                  !.own = FALSE]
  BY Zenon DEF DispatchOne
<1>2. LoopTypeOK /\ WritesNoted /\ TasksQueued /\ CallTarget /\ Closures /\ loop.at = "dispatch" /\ loop.comps # << >>
  BY Zenon DEF LoopInv, DispatchOne, At
<1>3. LoopShape'
  BY <1>1, <1>2, Zenon DEF LoopTypeOK, LoopShape
<1>4. /\ UNCHANGED <<loop.at, loop.n, loop.posts, loop.kind, loop.st, loop.fds, loop.box,
                     loop.pend, loop.dirty, loop.next, loop.run, loop.leaked, loop.owed>>
      /\ loop'.comps = Tail(loop.comps)
      /\ loop'.cb = IF HasSink(Head(loop.comps)) THEN Head(loop.comps) ELSE "none"
      /\ loop'.own = FALSE
  BY <1>1, <1>2 DEF LoopTypeOK, LoopShape, LoopFields
<1>5. LoopTypeOK'
  <2>1. Head(loop.comps) \in LoopSinks /\ Tail(loop.comps) \in Seq(LoopSinks)
    BY <1>2, HeadTailProperties DEF LoopTypeOK
  <2> QED BY <1>2, <1>3, <1>4, <2>1 DEF LoopTypeOK
<1>6. WritesNoted'
  BY <1>2, <1>4, WritesFrame
<1>7. TasksQueued'
  BY <1>2, <1>4, TasksFrame DEF TasksQueued
<1>8. CallTarget'
  <2>1. Head(loop.comps) \in LoopSinks
    BY <1>2, HeadTailProperties DEF LoopTypeOK
  <2>2. CASE HasSink(Head(loop.comps))
    <3>1. loop.kind[Head(loop.comps)] = "watch" => Head(loop.comps) \in loop.box
      BY <1>2, <2>1, <2>2, Zenon DEF Closures
    <3>2. loop'.cb = Head(loop.comps)
      BY <1>4, <2>2, Zenon
    <3> QED BY <1>4, <2>2, <3>1, <3>2, Zenon DEF CallTarget, HasSink
  <2>3. CASE ~HasSink(Head(loop.comps))
    <3>1. loop'.cb = "none"
      BY <1>4, <2>3, Zenon
    <3> QED BY <3>1, NotASink
  <2> QED BY <2>2, <2>3, Zenon
<1>9. Closures'
  BY <1>2, <1>4, ClosuresFrame
<1> QED BY <1>5, <1>6, <1>7, <1>8, <1>9 DEF LoopInv

\* The batch of deferred tasks is what has been deferred so far.
LEMMA DispatchEndsInv == ASSUME LoopInv, DispatchEnds PROVE LoopInv'
<1>1. loop' = [loop EXCEPT !.at = "defer", !.n = 0, !.run = loop.next, !.next = << >>]
  BY Zenon DEF DispatchEnds
<1>2. LoopTypeOK /\ WritesNoted /\ TasksQueued /\ CallTarget /\ Closures /\ loop.at = "dispatch"
  BY Zenon DEF LoopInv, DispatchEnds, At
<1>3. LoopShape'
  BY <1>1, <1>2, Zenon DEF LoopTypeOK, LoopShape
<1>4. /\ UNCHANGED <<loop.cb, loop.posts, loop.comps, loop.kind, loop.st, loop.fds, loop.box,
                     loop.pend, loop.dirty, loop.own, loop.leaked, loop.owed>>
      /\ loop'.at = "defer"
      /\ loop'.n = 0
      /\ loop'.run = loop.next
      /\ loop'.next = << >>
  BY <1>1, <1>2 DEF LoopTypeOK, LoopShape, LoopFields
<1>5. LoopTypeOK'
  <2>1. << >> \in Seq(Deferrable)
    OBVIOUS
  <2> QED BY <1>2, <1>3, <1>4, <2>1 DEF LoopTypeOK
<1>6. WritesNoted'
  BY <1>2, <1>4, WritesFrame
<1>7. TasksQueued'
  <2>1. loop.run = << >> /\ loop.next \in Seq(Deferrable)
    BY <1>2 DEF TasksQueued, LoopTypeOK
  <2>2. loop'.run \o loop'.next = loop.run \o loop.next
    BY <1>4, <2>1
  <2> QED BY <1>2, <1>4, <2>2, Zenon DEF TasksQueued, Queued
<1>8. CallTarget'
  BY <1>2, <1>4, CallFrame
<1>9. Closures'
  BY <1>2, <1>4, ClosuresFrame
<1> QED BY <1>5, <1>6, <1>7, <1>8, <1>9 DEF LoopInv

\* A task that is run is queued no more.
LEMMA RunDeferredInv == ASSUME LoopInv, RunDeferred PROVE LoopInv'
<1>1. loop' = [loop EXCEPT
                  !.run = Tail(loop.run), !.n = loop.n + 1, !.cb = "work", !.own = FALSE,
                  !.owed = loop.owed \ {Head(loop.run)}, !.passed = loop.passed \ {Head(loop.run)}]
  BY Zenon DEF RunDeferred
<1>2. LoopTypeOK /\ WritesNoted /\ TasksQueued /\ CallTarget /\ Closures /\ loop.at = "defer" /\ loop.run # << >>
  BY Zenon DEF LoopInv, RunDeferred, At
<1>3. LoopShape'
  BY <1>1, <1>2, Zenon DEF LoopTypeOK, LoopShape
<1>4. /\ UNCHANGED <<loop.at, loop.posts, loop.comps, loop.kind, loop.st, loop.fds, loop.box,
                     loop.pend, loop.dirty, loop.next, loop.leaked>>
      /\ loop'.run = Tail(loop.run)
      /\ loop'.n = loop.n + 1
      /\ loop'.cb = "work"
      /\ loop'.own = FALSE
      /\ loop'.owed = loop.owed \ {Head(loop.run)}
  BY <1>1, <1>2 DEF LoopTypeOK, LoopShape, LoopFields
<1>a. /\ Tail(loop.run) \in Seq(Deferrable) /\ IsInjective(Tail(loop.run) \o loop.next)
      /\ ToSet(Tail(loop.run) \o loop.next) = ToSet(loop.run \o loop.next) \ {Head(loop.run)}
  <2>1. loop.run \in Seq(Deferrable) /\ loop.next \in Seq(Deferrable) /\ IsInjective(loop.run \o loop.next)
    BY <1>2, Zenon DEF LoopTypeOK, TasksQueued
  <2> QED BY <1>2, <2>1, QueueTail, Zenon
<1>5. LoopTypeOK'
  BY <1>2, <1>3, <1>4, <1>a DEF LoopTypeOK
<1>6. WritesNoted'
  BY <1>2, <1>4, WritesFrame
<1>7. TasksQueued'
  BY <1>2, <1>4, <1>a, Zenon DEF TasksQueued, Queued
<1>8. CallTarget'
  BY <1>4, NotASink
<1>9. Closures'
  BY <1>2, <1>4, ClosuresFrame
<1> QED BY <1>5, <1>6, <1>7, <1>8, <1>9 DEF LoopInv

\* What is left of the batch is queued again.
LEMMA DeferRestInv == ASSUME LoopInv, DeferRest PROVE LoopInv'
<1>1. loop' = [loop EXCEPT
                  !.next = loop.next \o loop.run, !.run = << >>,
                  !.passed = IF loop.next = << >> THEN loop.passed ELSE loop.passed \cup ToSet(loop.run)]
  BY Zenon DEF DeferRest
<1>2. LoopTypeOK /\ WritesNoted /\ TasksQueued /\ CallTarget /\ Closures /\ loop.at = "defer"
  BY Zenon DEF LoopInv, DeferRest, At
<1>3. LoopShape'
  BY <1>1, <1>2, Zenon DEF LoopTypeOK, LoopShape
<1>4. /\ UNCHANGED <<loop.at, loop.cb, loop.n, loop.posts, loop.comps, loop.kind, loop.st,
                     loop.fds, loop.box, loop.pend, loop.dirty, loop.own, loop.leaked, loop.owed>>
      /\ loop'.next = loop.next \o loop.run
      /\ loop'.run = << >>
  BY <1>1, <1>2 DEF LoopTypeOK, LoopShape, LoopFields
<1>a. /\ loop.next \o loop.run \in Seq(Deferrable) /\ IsInjective(<< >> \o (loop.next \o loop.run))
      /\ ToSet(<< >> \o (loop.next \o loop.run)) = ToSet(loop.run \o loop.next)
  <2>1. loop.run \in Seq(Deferrable) /\ loop.next \in Seq(Deferrable) /\ IsInjective(loop.run \o loop.next)
    BY <1>2, Zenon DEF LoopTypeOK, TasksQueued
  <2> QED BY <2>1, QueueSwap, Zenon
<1>5. LoopTypeOK'
  <2>1. << >> \in Seq(Deferrable)
    OBVIOUS
  <2> QED BY <1>2, <1>3, <1>4, <1>a, <2>1 DEF LoopTypeOK
<1>6. WritesNoted'
  BY <1>2, <1>4, WritesFrame
<1>7. TasksQueued'
  BY <1>2, <1>4, <1>a, Zenon DEF TasksQueued, Queued
<1>8. CallTarget'
  BY <1>2, <1>4, CallFrame
<1>9. Closures'
  BY <1>2, <1>4, ClosuresFrame
<1> QED BY <1>5, <1>6, <1>7, <1>8, <1>9 DEF LoopInv

\* Every flag goes down with the write set.
LEMMA FlushWritesInv == ASSUME LoopInv, FlushWrites PROVE LoopInv'
<1>1. loop' = [loop EXCEPT
                  !.at = "book", !.cb = "work", !.own = FALSE, !.pend = << >>,
                  !.dirty = loop.dirty \ ToSet(loop.pend)]
  BY Zenon DEF FlushWrites
<1>2. LoopTypeOK /\ WritesNoted /\ TasksQueued /\ CallTarget /\ Closures /\ loop.at = "defer" /\ loop.run = << >>
  BY Zenon DEF LoopInv, FlushWrites, At
<1>3. LoopShape'
  BY <1>1, <1>2, Zenon DEF LoopTypeOK, LoopShape
<1>4. /\ UNCHANGED <<loop.n, loop.posts, loop.comps, loop.kind, loop.st, loop.fds, loop.box,
                     loop.next, loop.run, loop.leaked, loop.owed>>
      /\ loop'.at = "book"
      /\ loop'.cb = "work"
      /\ loop'.own = FALSE
      /\ loop'.pend = << >>
      /\ loop'.dirty = loop.dirty \ ToSet(loop.pend)
  BY <1>1, <1>2 DEF LoopTypeOK, LoopShape, LoopFields
<1>5. LoopTypeOK'
  <2>1. << >> \in Seq(LoopSinks)
    OBVIOUS
  <2> QED BY <1>2, <1>3, <1>4, <2>1 DEF LoopTypeOK
<1>6. WritesNoted'
  <2>1. IsInjective(<< >>) /\ ToSet(<< >>) = {}
    BY DEF IsInjective, ToSet
  <2>2. loop'.dirty = {}
    BY <1>2, <1>4 DEF WritesNoted
  <2> QED BY <1>4, <2>1, <2>2 DEF WritesNoted
<1>7. TasksQueued'
  BY <1>2, <1>4, TasksFrame DEF TasksQueued
<1>8. CallTarget'
  BY <1>4, NotASink
<1>9. Closures'
  BY <1>2, <1>4, ClosuresFrame
<1> QED BY <1>5, <1>6, <1>7, <1>8, <1>9 DEF LoopInv

\* The iteration is over.
LEMMA BookkeepingInv == ASSUME LoopInv, Bookkeeping PROVE LoopInv'
<1>1. loop' = [loop EXCEPT !.at = "run"]
  BY Zenon DEF Bookkeeping
<1>2. LoopTypeOK /\ WritesNoted /\ TasksQueued /\ CallTarget /\ Closures /\ loop.at = "book"
  BY Zenon DEF LoopInv, Bookkeeping, At
<1>3. LoopShape'
  BY <1>1, <1>2, Zenon DEF LoopTypeOK, LoopShape
<1>4. /\ UNCHANGED <<loop.cb, loop.n, loop.posts, loop.comps, loop.kind, loop.st, loop.fds,
                     loop.box, loop.pend, loop.dirty, loop.next, loop.run, loop.own, loop.leaked,
                     loop.owed>>
      /\ loop'.at = "run"
  BY <1>1, <1>2 DEF LoopTypeOK, LoopShape, LoopFields
<1>5. LoopTypeOK'
  BY <1>2, <1>3, <1>4 DEF LoopTypeOK
<1>6. WritesNoted'
  BY <1>2, <1>4, WritesFrame
<1>7. TasksQueued'
  BY <1>2, <1>4, TasksFrame DEF TasksQueued
<1>8. CallTarget'
  BY <1>2, <1>4, CallFrame
<1>9. Closures'
  BY <1>2, <1>4, ClosuresFrame
<1> QED BY <1>5, <1>6, <1>7, <1>8, <1>9 DEF LoopInv

\* The sinks that are left are torn down.
LEMMA DestroyLoopInv == ASSUME LoopInv, DestroyLoop PROVE LoopInv'
<1>1. loop' = [loop EXCEPT
                  !.at = "over", !.box = loop.box \ {s \in LoopSinks : HasSink(s)}, !.dirty = {},
                  !.fds = {},
                  !.st = [s \in LoopSinks |-> IF HasSink(s) THEN "gone" ELSE loop.st[s]],
                  !.next = << >>, !.owed = {}, !.pend = << >>, !.posts = 0]
  BY Zenon DEF DestroyLoop
<1>2. LoopTypeOK /\ WritesNoted /\ TasksQueued /\ CallTarget /\ Closures /\ loop.at = "run" /\ loop.cb = "none"
  BY Zenon DEF LoopInv, DestroyLoop, At
<1>3. LoopShape'
  BY <1>1, <1>2, Zenon DEF LoopTypeOK, LoopShape
<1>4. /\ UNCHANGED <<loop.cb, loop.n, loop.comps, loop.kind, loop.run, loop.own, loop.leaked>>
      /\ loop'.at = "over"
      /\ loop'.box = loop.box \ {s \in LoopSinks : HasSink(s)}
      /\ loop'.dirty = {}
      /\ loop'.fds = {}
      /\ loop'.st = [s \in LoopSinks |-> IF HasSink(s) THEN "gone" ELSE loop.st[s]]
      /\ loop'.next = << >>
      /\ loop'.owed = {}
      /\ loop'.pend = << >>
      /\ loop'.posts = 0
  BY <1>1, <1>2 DEF LoopTypeOK, LoopShape, LoopFields
<1>5. LoopTypeOK'
  <2>1. << >> \in Seq(LoopSinks) /\ << >> \in Seq(Deferrable)
    OBVIOUS
  <2> QED BY <1>2, <1>3, <1>4, <2>1 DEF LoopTypeOK, HasSink
<1>6. WritesNoted'
  <2>1. IsInjective(<< >>) /\ ToSet(<< >>) = {}
    BY DEF IsInjective, ToSet
  <2> QED BY <1>4, <2>1 DEF WritesNoted
<1>7. TasksQueued'
  <2>1. loop'.run = << >> /\ loop'.next = << >>
    BY <1>2, <1>4 DEF TasksQueued
  <2>2. << >> \o << >> = << >> /\ IsInjective(<< >>) /\ ToSet(<< >>) = {}
    BY DEF IsInjective, ToSet
  <2> QED BY <1>4, <2>1, <2>2, Zenon DEF TasksQueued, Queued
<1>8. CallTarget'
  BY <1>2, <1>4, NotASink
<1>9. Closures'
  <2>1. \A s \in LoopSinks : loop'.st[s] = "gone" \/ (loop'.st[s] = loop.st[s] /\ loop.st[s] # "live")
    BY <1>4 DEF HasSink
  <2>2. loop'.fds = {s \in LoopSinks : loop'.st[s] = "live" /\ loop'.kind[s] = "watch"}
    BY <1>4, <2>1
  <2>3. loop'.box = loop'.fds \cup loop'.leaked
    <3>1. loop.box = loop.fds \cup loop.leaked /\ (\A s \in loop.leaked : ~HasSink(s))
      BY <1>2 DEF Closures, HasSink
    <3>2. \A s \in loop.fds : s \in LoopSinks /\ HasSink(s)
      BY <1>2, Zenon DEF Closures
    <3> QED BY <1>4, <3>1, <3>2
  <2>4. \A s \in loop'.leaked : s \in LoopSinks /\ loop'.st[s] = "gone"
    BY <1>2, <1>4, <2>1 DEF Closures, LoopTypeOK
  <2> QED BY <2>2, <2>3, <2>4, Zenon DEF Closures, HasSink
<1> QED BY <1>5, <1>6, <1>7, <1>8, <1>9 DEF LoopInv

-----------------------------------------------------------------------------
(* The theorem *)

\* A step that changes nothing.
LEMMA LoopStutterInv == ASSUME LoopInv, UNCHANGED loop PROVE LoopInv'
<1>1. LoopTypeOK /\ WritesNoted /\ TasksQueued /\ CallTarget /\ Closures
  BY Zenon DEF LoopInv
<1>2. LoopTypeOK'
  BY <1>1, Zenon DEF LoopTypeOK, LoopShape
<1>3. WritesNoted'
  BY <1>1, WritesFrame
<1>4. TasksQueued'
  BY <1>1, TasksFrame DEF TasksQueued
<1>5. CallTarget'
  BY <1>1, CallFrame
<1>6. Closures'
  BY <1>1, ClosuresFrame
<1> QED BY <1>2, <1>3, <1>4, <1>5, <1>6 DEF LoopInv

\* A batch of completions is a sequence of sinks.
LEMMA BatchesAreSeqs == ASSUME NEW cs \in Batches PROVE cs \in Seq(LoopSinks)
<1>1. PICK k \in 0 .. IoBatch : cs \in [1 .. k -> LoopSinks]
  BY Zenon DEF Batches
<1> QED BY <1>1, BatchAssumption

\* Every step of the loop keeps the invariant.
LEMMA LoopStepInv == ASSUME LoopInv, [LoopNext]_loop PROVE LoopInv'
<1>1. CASE LoopStep
  <2>1. CASE PollOnce
    BY <2>1, PollOnceInv, Zenon
  <2>2. CASE RunPosted
    BY <2>2, RunPostedInv, Zenon
  <2>3. CASE DispatchOne
    BY <2>3, DispatchOneInv, Zenon
  <2>4. CASE DispatchEnds
    BY <2>4, DispatchEndsInv, Zenon
  <2>5. CASE RunDeferred
    BY <2>5, RunDeferredInv, Zenon
  <2>6. CASE DeferRest
    BY <2>6, DeferRestInv, Zenon
  <2>7. CASE FlushWrites
    BY <2>7, FlushWritesInv, Zenon
  <2>8. CASE Bookkeeping
    BY <2>8, BookkeepingInv, Zenon
  <2>9. ASSUME NEW blocks \in BOOLEAN, PlanWait(blocks) PROVE LoopInv'
    BY <2>9, PlanWaitInv, Zenon
  <2>10. CASE WaitEnds(<< >>)
    <3>1. << >> \in Seq(LoopSinks)
      OBVIOUS
    <3> QED BY <2>10, <3>1, WaitEndsInv, Zenon
  <2>11. CASE CallbackReturns
    BY <2>11, CallbackReturnsInv, Zenon
  <2> QED BY <1>1, <2>1, <2>2, <2>3, <2>4, <2>5, <2>6, <2>7, <2>8, <2>9, <2>10, <2>11, Zenon DEF LoopStep
<1>2. CASE LoopCalls
  <2>1. ASSUME NEW t \in Deferrable, Defer(t) PROVE LoopInv'
    BY <2>1, DeferInv, Zenon
  <2>2. ASSUME NEW s \in LoopSinks, RegisterSink(s) PROVE LoopInv'
    BY <2>2, RegisterSinkInv, Zenon
  <2>3. ASSUME NEW s \in LoopSinks, ReleaseSink(s) PROVE LoopInv'
    BY <2>3, ReleaseSinkInv, Zenon
  <2>4. ASSUME NEW s \in LoopSinks, NoteWritePending(s) PROVE LoopInv'
    BY <2>4, NoteWritePendingInv, Zenon
  <2>5. ASSUME NEW s \in LoopSinks, NEW ok \in BOOLEAN, WatchFd(s, ok) PROVE LoopInv'
    BY <2>5, WatchFdInv, Zenon
  <2> QED BY <1>2, <2>1, <2>2, <2>3, <2>4, <2>5, Zenon DEF LoopCalls
<1>3. CASE StopLoop
  BY <1>3, StopLoopInv, Zenon
<1>4. CASE WorkArrives
  BY <1>4, WorkArrivesInv, Zenon
<1>5. CASE DestroyLoop
  BY <1>5, DestroyLoopInv, Zenon
<1>6. ASSUME NEW cs \in Batches, WaitEnds(cs) PROVE LoopInv'
  <2>1. cs \in Seq(LoopSinks)
    BY BatchesAreSeqs
  <2> QED BY <1>6, <2>1, WaitEndsInv, Zenon
<1>7. CASE UNCHANGED loop
  BY <1>7, LoopStutterInv, Zenon
<1> QED BY <1>1, <1>2, <1>3, <1>4, <1>5, <1>6, <1>7, Zenon DEF LoopNext

\* A new event manager has nothing.
LEMMA LoopInitInv == LoopInit => LoopInv
<1> SUFFICES ASSUME LoopInit PROVE LoopInv
  OBVIOUS
<1>1. /\ loop.at = "run" /\ loop.cb = "none" /\ loop.n = 0 /\ loop.posts = 0 /\ loop.comps = << >>
      /\ loop.kind = [s \in LoopSinks |-> "none"] /\ loop.st = [s \in LoopSinks |-> "none"]
      /\ loop.fds = {} /\ loop.box = {} /\ loop.pend = << >> /\ loop.dirty = {}
      /\ loop.next = << >> /\ loop.run = << >> /\ loop.leaked = {} /\ loop.owed = {}
  BY DEF LoopInit, NewLoop
<1>2. LoopShape
  BY Zenon DEF LoopInit, NewLoop, LoopShape, LoopFields
<1>3. /\ << >> \in Seq(LoopSinks) /\ << >> \in Seq(Deferrable) /\ << >> \o << >> = << >>
      /\ IsInjective(<< >>) /\ ToSet(<< >>) = {}
  BY DEF IsInjective, ToSet
<1>4. LoopTypeOK
  BY <1>1, <1>2, <1>3 DEF LoopTypeOK
<1>5. WritesNoted
  BY <1>1, <1>3 DEF WritesNoted
<1>6. TasksQueued
  BY <1>1, <1>3, Zenon DEF TasksQueued, Queued
<1>7. CallTarget
  BY <1>1, LoopSinksAssumption DEF CallTarget
<1>8. Closures
  BY <1>1 DEF Closures, HasSink
<1> QED BY <1>4, <1>5, <1>6, <1>7, <1>8 DEF LoopInv

\* The write set and its flags agree and a sink is in it once; a deferred task is queued once
\* until it is run, over any number of batches; a completion reaches a sink that is there, with
\* its closure; and the closures on the heap are those of the watches and of the failed ones:
\* for every set of sinks and tasks and all batch limits (note_write_pending, flush_writes,
\* defer, run_deferred, dispatch_completions, watch, unwatch, ~BasicEventManager).
THEOREM EventLoopSound == LoopSpec => []LoopSound
<1>1. LoopInit => LoopInv
  BY LoopInitInv
<1>2. LoopInv /\ [LoopNext]_loop => LoopInv'
  BY LoopStepInv
<1>3. LoopInv => LoopSound
  BY Zenon DEF LoopInv, WritesNoted, TasksQueued, CallTarget, Closures, LoopSound
<1> QED BY <1>1, <1>2, <1>3, PTL DEF LoopSpec
=============================================================================
