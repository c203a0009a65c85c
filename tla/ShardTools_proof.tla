-------------------------- MODULE ShardTools_proof --------------------------
(***************************************************************************)
(* Proofs about ShardTools for any number of shards, operations and items: *)
(* a barrier or a reduce completes at most once, never with a task of it   *)
(* dropped, and with the values of exactly the shards that had one.        *)
(***************************************************************************)
EXTENDS ShardTools, TLAPS

(* ShardTools: the parts of the inductive invariant *)

Ops == 1 .. MaxOps
ToolTasks == [kind : {"new", "item", "barrier", "reduce"}, op : 0 .. MaxOps]
ToolCalls == [kind : {"none", "new", "item", "barrier", "reduce"}, op : 0 .. MaxOps, next : 0 .. Size]
ToolMail == [ToolShards -> Seq(ToolTasks)]
ToolRun == [task : ToolTasks \cup {Task("none", 0)}, pc : {"idle", "load", "fold", "count"},
            cur : SUBSET ToolShards]
ToolOp == [kind : {"none", "barrier", "reduce"}, remaining : Int, acc : SUBSET ToolShards,
           ran : SUBSET ToolShards, done : Seq(SUBSET ToolShards), dropped : BOOLEAN]
ToolStates == [call : ToolCalls, mail : ToolMail, run : [ToolShards -> ToolRun],
               value : [ToolShards -> BOOLEAN], rr : Nat, items : Nat, op : [Ops -> ToolOp]]

\* Of a queue: it holds a task of operation o; it holds a task that makes the value.
Of(q, o) == \E k \in DOMAIN q : q[k].op = o
Makes(q) == \E k \in DOMAIN q : q[k].kind = "new"

\* The task that makes the value is the first of a queue, and there is one task of an operation.
Single(q) ==
  \A k \in DOMAIN q :
    /\ q[k].kind = "new" => k = 1
    /\ \A l \in DOMAIN q : q[k].op # 0 /\ q[l].op = q[k].op => l = k

\* A task that belongs to an operation is of its kind, and the others to none.
Belongs(op, kind, o) == IF kind \in {"barrier", "reduce"} THEN o \in Ops /\ op[o].kind = kind ELSE o = 0
Owned(op, q) == \A k \in DOMAIN q : Belongs(op, q[k].kind, q[k].op)

\* The shards whose task of operation o is still to be posted, in their mailbox, under way,
\* and under way before its fold.
Unposted(o) == {s \in ToolShards : tool.call.op = o /\ tool.call.next <= s}
Mailed(o) == {s \in ToolShards : Of(tool.mail[s], o)}
Busy(o) == {s \in ToolShards : tool.run[s].task.op = o}
Folding(o) == {s \in Busy(o) : tool.run[s].pc \in {"load", "fold"}}
Waiting(o) == Unposted(o) \cup Mailed(o)
Pending(o) == Waiting(o) \cup Busy(o)

CallOK ==
  /\ Belongs(tool.op, tool.call.kind, tool.call.op)
  /\ tool.call.kind = "new" =>
       /\ \A o \in Ops : tool.op[o].kind = "none"
       /\ \A s \in ToolShards : tool.call.next <= s => tool.mail[s] = << >>

MailOK(s) == Single(tool.mail[s]) /\ Owned(tool.op, tool.mail[s])

RunOK(s) ==
  /\ tool.run[s].pc = "idle" <=> tool.run[s].task.op = 0
  /\ Belongs(tool.op, tool.run[s].task.kind, tool.run[s].task.op)
  /\ tool.run[s].pc \in {"load", "fold"} => tool.run[s].task.kind = "reduce"

\* A shard that has yet to make its value has not come to the task of any operation.
Fresh(s) == Makes(tool.mail[s]) \/ (tool.call.kind = "new" /\ tool.call.next <= s)
FreshOK(s) == Fresh(s) => \A o \in Ops : tool.op[o].kind = "none" \/ s \in Waiting(o) \/ tool.op[o].dropped

\* The shards that have run operation o.
Ran(o) == {s \in ToolShards \ Waiting(o) : tool.op[o].kind = "barrier" \/ tool.value[s]}

\* remaining counts the shards that are still to count; those whose task was dropped never do.
Counted(o) ==
  /\ tool.op[o].dropped => tool.op[o].remaining > Cardinality(Pending(o))
  /\ ~tool.op[o].dropped => tool.op[o].remaining = Cardinality(Pending(o))

\* acc holds the values of the shards that ran and have folded; done was called with it, when
\* nobody was left to count.
Folded(o) ==
  /\ tool.op[o].ran \cap Waiting(o) = {}
  /\ ~tool.op[o].dropped => tool.op[o].ran = Ran(o)
  /\ tool.op[o].kind = "reduce" =>
       Folding(o) \subseteq tool.op[o].ran /\ tool.op[o].acc = tool.op[o].ran \ Folding(o)

OpOK(o) ==
  /\ Unposted(o) \cap Mailed(o) = {} /\ Waiting(o) \cap Busy(o) = {}
  /\ tool.op[o].kind = "none" =>
       /\ Pending(o) = {} /\ tool.op[o].remaining = Size /\ tool.op[o].ran = {}
       /\ tool.op[o].acc = {} /\ tool.op[o].done = << >> /\ ~tool.op[o].dropped
  /\ tool.op[o].kind # "none" =>
       /\ Counted(o) /\ Folded(o)
       /\ tool.op[o].remaining # 0 => tool.op[o].done = << >>
       /\ tool.op[o].remaining = 0 => tool.op[o].done = <<tool.op[o].acc>>

ToolInv ==
  /\ tool \in ToolStates /\ CallOK
  /\ \A s \in ToolShards : MailOK(s) /\ RunOK(s) /\ FreshOK(s)
  /\ \A o \in Ops : OpOK(o)

-----------------------------------------------------------------------------
(* ShardTools: the state and its parts *)

\* The state, put together of its parts.
Tool(c, m, r, v, n, i, p) == [call |-> c, mail |-> m, run |-> r, value |-> v, rr |-> n, items |-> i, op |-> p]

LEMMA ToolShape ==
  ASSUME tool \in ToolStates
  PROVE  /\ tool = Tool(tool.call, tool.mail, tool.run, tool.value, tool.rr, tool.items, tool.op)
         /\ tool.call \in ToolCalls /\ tool.mail \in ToolMail /\ tool.run \in [ToolShards -> ToolRun]
         /\ tool.value \in [ToolShards -> BOOLEAN] /\ tool.rr \in Nat /\ tool.items \in Nat
         /\ tool.op \in [Ops -> ToolOp]
<1> DEFINE R == [ToolShards -> ToolRun]
           V == [ToolShards -> BOOLEAN]
           O == [Ops -> ToolOp]
<1>1. tool \in [call : ToolCalls, mail : ToolMail, run : R, value : V, rr : Nat, items : Nat, op : O]
  BY DEF ToolStates
<1> HIDE DEF R, V, O
<1>2. /\ tool = Tool(tool.call, tool.mail, tool.run, tool.value, tool.rr, tool.items, tool.op)
      /\ tool.call \in ToolCalls /\ tool.mail \in ToolMail /\ tool.run \in R
      /\ tool.value \in V /\ tool.rr \in Nat /\ tool.items \in Nat /\ tool.op \in O
  BY <1>1 DEF Tool
<1> QED BY <1>2, Zenon DEF R, V, O

\* The step leads to these parts, each of its type.
ToolBecomes(c, m, r, v, n, i, p) ==
  /\ tool' = Tool(c, m, r, v, n, i, p)
  /\ c \in ToolCalls /\ m \in ToolMail /\ r \in [ToolShards -> ToolRun] /\ v \in [ToolShards -> BOOLEAN]
  /\ n \in Nat /\ i \in Nat /\ p \in [Ops -> ToolOp]

\* What the parts of the next state are, once it is put together.
LEMMA ToolStep ==
  ASSUME NEW c, NEW m, NEW r, NEW v, NEW n, NEW i, NEW p, ToolBecomes(c, m, r, v, n, i, p)
  PROVE  /\ (tool \in ToolStates)'
         /\ tool'.call = c /\ tool'.mail = m /\ tool'.run = r /\ tool'.value = v /\ tool'.op = p
<1>1. Tool(c, m, r, v, n, i, p) \in ToolStates
  BY Zenon DEF Tool, ToolStates, ToolBecomes
<1>2. tool'.call = c /\ tool'.mail = m /\ tool'.run = r /\ tool'.value = v /\ tool'.op = p
  BY DEF Tool, ToolBecomes
<1> QED BY <1>1, <1>2, Zenon DEF ToolBecomes

LEMMA CallFacts ==
  ASSUME NEW c \in ToolCalls
  PROVE  c.kind \in {"none", "new", "item", "barrier", "reduce"} /\ c.op \in 0 .. MaxOps /\ c.next \in 0 .. Size
BY DEF ToolCalls

LEMMA RunFacts ==
  ASSUME NEW r \in ToolRun
  PROVE  /\ r.task \in ToolTasks \cup {Task("none", 0)} /\ r.pc \in {"idle", "load", "fold", "count"}
         /\ r.cur \in SUBSET ToolShards
BY Zenon DEF ToolRun

LEMMA TaskFacts ==
  ASSUME NEW t \in ToolTasks
  PROVE  t.kind \in {"new", "item", "barrier", "reduce"} /\ t.op \in 0 .. MaxOps
BY DEF ToolTasks

LEMMA OpFacts ==
  ASSUME NEW p \in ToolOp
  PROVE  /\ p.kind \in {"none", "barrier", "reduce"} /\ p.remaining \in Int /\ p.acc \in SUBSET ToolShards
         /\ p.ran \in SUBSET ToolShards /\ p.done \in Seq(SUBSET ToolShards) /\ p.dropped \in BOOLEAN
BY Zenon DEF ToolOp

LEMMA SizeFacts == /\ Size \in Nat \ {0} /\ 0 \notin Ops /\ ToolShards = 0 .. Size - 1
                   /\ \A s \in ToolShards : s \in 0 .. Size - 1 /\ s + 1 \in 0 .. Size
<1>1. Size \in Nat \ {0} /\ ToolShards = 0 .. Size - 1
  BY ToolAssumption
<1> HIDE DEF Size
<1> QED BY <1>1 DEF Ops

\* How the shards count: what the proofs use of cardinality (see ShardsCount).
Counting ==
  \A S \in SUBSET ToolShards :
    /\ Cardinality(S) \in Nat /\ (Cardinality(S) = 0 <=> S = {})
    /\ \A s \in S : Cardinality(S \ {s}) = Cardinality(S) - 1 /\ Cardinality(S) > 0

LEMMA PendingCounts ==
  ASSUME Counting, NEW S \in SUBSET ToolShards
  PROVE  /\ Cardinality(S) \in Nat /\ (Cardinality(S) = 0 <=> S = {})
         /\ \A s \in S : Cardinality(S \ {s}) = Cardinality(S) - 1 /\ Cardinality(S) > 0
BY Zenon DEF Counting

-----------------------------------------------------------------------------
(* ShardTools: what a step leaves alone *)

\* What belongs to an operation still does.
OwnersKept ==
  /\ \A k, o : Belongs(tool.op, k, o) => Belongs(tool'.op, k, o)
  /\ \A q : Owned(tool.op, q) => Owned(tool'.op, q)

LEMMA KindsKept == ASSUME \A o \in Ops : tool'.op[o].kind = tool.op[o].kind PROVE OwnersKept
<1>1. \A k, o : Belongs(tool.op, k, o) => Belongs(tool'.op, k, o)
  BY Zenon DEF Belongs
<1> QED BY <1>1, Zenon DEF OwnersKept, Owned

LEMMA MailFrame ==
  ASSUME NEW s \in ToolShards, MailOK(s), OwnersKept, tool'.mail[s] = tool.mail[s]
  PROVE  MailOK(s)'
BY Zenon DEF MailOK, OwnersKept

LEMMA RunFrame ==
  ASSUME NEW s \in ToolShards, RunOK(s), OwnersKept, tool'.run[s] = tool.run[s]
  PROVE  RunOK(s)'
<1>1. \A k, o : Belongs(tool.op, k, o) => Belongs(tool'.op, k, o)
  BY Zenon DEF OwnersKept
<1>2. PICK r : r = tool.run[s]
  BY Zenon
<1>3. tool'.run[s] = r
  BY <1>2
<1>4. Belongs(tool'.op, r.task.kind, r.task.op)
  BY <1>1, <1>2, Zenon DEF RunOK
<1> QED BY <1>2, <1>3, <1>4, Zenon DEF RunOK

LEMMA FreshFrame ==
  ASSUME NEW s \in ToolShards, FreshOK(s), Fresh(s)' => Fresh(s),
         \A o \in Ops : /\ tool.op[o].kind = "none" => tool'.op[o].kind = "none" \/ s \in Waiting(o)'
                        /\ s \in Waiting(o) => s \in Waiting(o)' \/ tool'.op[o].dropped
                        /\ tool.op[o].dropped => tool'.op[o].dropped
  PROVE  FreshOK(s)'
<1> HIDE DEF Waiting, Fresh
<1> QED BY Zenon DEF FreshOK

\* An operation none of whose tasks moved, but from the caller to a mailbox.
LEMMA OpFrame ==
  ASSUME NEW o \in Ops, OpOK(o), tool'.op[o] = tool.op[o],
         (Unposted(o) \cap Mailed(o) = {})', Waiting(o)' = Waiting(o), Busy(o)' = Busy(o),
         Folding(o)' = Folding(o),
         \A s \in ToolShards : \/ tool'.value[s] = tool.value[s] \/ s \in Waiting(o)
                               \/ tool.op[o].kind = "none" \/ tool.op[o].dropped
  PROVE  OpOK(o)'
<1>1. Pending(o)' = Pending(o)
  BY Zenon DEF Pending
<1>2. ~tool.op[o].dropped /\ tool.op[o].kind # "none" => Ran(o)' = Ran(o)
  BY DEF Ran
<1>3. Counted(o) => Counted(o)'
  BY <1>1, Zenon DEF Counted
<1>4. Folded(o) /\ tool.op[o].kind # "none" => Folded(o)'
  BY <1>2, Zenon DEF Folded
<1>5. (Waiting(o) \cap Busy(o) = {})'
  BY Zenon DEF OpOK
<1> QED BY <1>1, <1>3, <1>4, <1>5, Zenon DEF OpOK

-----------------------------------------------------------------------------
(* ShardTools: mailboxes and shards *)

LEMMA QueueAppend ==
  ASSUME NEW q \in Seq(ToolTasks), NEW t \in ToolTasks
  PROVE  /\ Append(q, t) \in Seq(ToolTasks)
         /\ \A o : Of(Append(q, t), o) <=> Of(q, o) \/ o = t.op
         /\ Makes(Append(q, t)) <=> Makes(q) \/ t.kind = "new"
         /\ \A p : Owned(p, q) /\ Belongs(p, t.kind, t.op) => Owned(p, Append(q, t))
         /\ Single(q) /\ (t.kind = "new" => q = << >>) /\ (t.op # 0 => ~Of(q, t.op)) => Single(Append(q, t))
<1>1. PICK n \in Nat : n = Len(q)
  OBVIOUS
<1>2. PICK a : a = Append(q, t)
  BY Zenon
<1>3. /\ a \in Seq(ToolTasks) /\ DOMAIN q = 1 .. n /\ DOMAIN a = 1 .. n + 1 /\ a[n + 1] = t
      /\ \A k \in 1 .. n : a[k] = q[k]
  BY <1>1, <1>2
<1>4. \A k : k \in DOMAIN a <=> k \in DOMAIN q \/ k = n + 1
  BY <1>3
<1>5. q = << >> => n + 1 = 1
  BY <1>1
<1> HIDE DEF Belongs
<1>6. \A o : Of(a, o) <=> Of(q, o) \/ o = t.op
  BY <1>3, <1>4, Zenon DEF Of
<1>7. Makes(a) <=> Makes(q) \/ t.kind = "new"
  BY <1>3, <1>4, Zenon DEF Makes
<1>8. \A p : Owned(p, q) /\ Belongs(p, t.kind, t.op) => Owned(p, a)
  BY <1>3, <1>4, Zenon DEF Owned
<1>9. ASSUME Single(q), t.kind = "new" => q = << >>, t.op # 0 => ~Of(q, t.op) PROVE Single(a)
  <2>1. \A k \in DOMAIN q : /\ a[k] = q[k] /\ (q[k].kind = "new" => k = 1) /\ (t.op # 0 => q[k].op # t.op)
                            /\ \A l \in DOMAIN q : q[k].op # 0 /\ q[l].op = q[k].op => l = k
    BY <1>3, <1>9, Zenon DEF Single, Of
  <2>2. t.kind = "new" => n + 1 = 1
    BY <1>5, <1>9
  <2>3. ASSUME NEW k \in DOMAIN a PROVE a[k].kind = "new" => k = 1
    BY <1>3, <1>4, <2>1, <2>2, Zenon
  <2>4. ASSUME NEW k \in DOMAIN a, NEW l \in DOMAIN a, a[k].op # 0, a[l].op = a[k].op PROVE l = k
    BY <1>3, <1>4, <2>1, <2>4
  <2> QED BY <2>3, <2>4, Zenon DEF Single
<1> QED BY <1>2, <1>3, <1>6, <1>7, <1>8, <1>9

LEMMA QueueTail ==
  ASSUME NEW q \in Seq(ToolTasks), q # << >>, Single(q)
  PROVE  /\ Head(q) \in ToolTasks /\ Tail(q) \in Seq(ToolTasks)
         /\ \A o \in Ops : Of(Tail(q), o) <=> Of(q, o) /\ o # Head(q).op
         /\ ~Makes(Tail(q)) /\ Single(Tail(q))
         /\ Head(q).kind = "new" => Makes(q)
         /\ Of(q, Head(q).op)
         /\ \A p : Owned(p, q) => Owned(p, Tail(q)) /\ Belongs(p, Head(q).kind, Head(q).op)
<1>1. PICK n \in Nat : n = Len(q)
  OBVIOUS
<1>2. PICK a : a = Tail(q)
  BY Zenon
<1>3. /\ DOMAIN q = 1 .. n /\ 1 \in 1 .. n /\ Head(q) = q[1] /\ Head(q) \in ToolTasks /\ a \in Seq(ToolTasks)
      /\ DOMAIN a = 1 .. n - 1
      /\ \A k \in 1 .. n - 1 : a[k] = q[k + 1]
  BY <1>1, <1>2
<1>4. /\ \A k \in DOMAIN a : \E i \in DOMAIN q : i # 1 /\ a[k] = q[i]
      /\ \A i \in DOMAIN q : i # 1 => \E k \in DOMAIN a : a[k] = q[i]
  <2>1. ASSUME NEW k \in DOMAIN a PROVE k + 1 \in DOMAIN q /\ k + 1 # 1 /\ a[k] = q[k + 1]
    BY <1>3, <2>1
  <2>2. ASSUME NEW i \in DOMAIN q, i # 1 PROVE i - 1 \in DOMAIN a /\ a[i - 1] = q[i]
    BY <1>3, <2>2
  <2> QED BY <2>1, <2>2, Zenon
<1>5. \A k, l \in DOMAIN a : \E i, j \in DOMAIN q : a[k] = q[i] /\ a[l] = q[j] /\ (j = i => l = k)
  <2> SUFFICES ASSUME NEW k \in DOMAIN a, NEW l \in DOMAIN a
               PROVE  \E i, j \in DOMAIN q : a[k] = q[i] /\ a[l] = q[j] /\ (j = i => l = k)
    OBVIOUS
  <2>1. k + 1 \in DOMAIN q /\ a[k] = q[k + 1] /\ l + 1 \in DOMAIN q /\ a[l] = q[l + 1] /\ (l + 1 = k + 1 => l = k)
    BY <1>3
  <2> QED BY <2>1, Zenon
<1> HIDE DEF Belongs
<1>n. \A k \in DOMAIN q : /\ q[k].kind = "new" => k = 1
                          /\ \A l \in DOMAIN q : q[k].op # 0 /\ q[l].op = q[k].op => l = k
  BY Zenon DEF Single
<1>6. ~Makes(a)
  <2> SUFFICES ASSUME NEW k \in DOMAIN a, a[k].kind = "new" PROVE FALSE
    BY Zenon DEF Makes
  <2>1. PICK i \in DOMAIN q : i # 1 /\ a[k] = q[i]
    BY <1>4, Zenon
  <2> QED BY <1>n, <2>1
<1>7. \A p : Owned(p, q) => Owned(p, a) /\ Belongs(p, Head(q).kind, Head(q).op)
  BY <1>3, <1>4, Zenon DEF Owned
<1>8. Single(a)
  <2>1. ASSUME NEW k \in DOMAIN a PROVE a[k].kind # "new"
    BY <1>6, Zenon DEF Makes
  <2>2. ASSUME NEW k \in DOMAIN a, NEW l \in DOMAIN a, a[k].op # 0, a[l].op = a[k].op PROVE l = k
    <3>1. PICK i \in DOMAIN q, j \in DOMAIN q : a[k] = q[i] /\ a[l] = q[j] /\ (j = i => l = k)
      BY <1>5, Zenon
    <3>2. j = i
      BY <1>n, <2>2, <3>1
    <3> QED BY <3>1, <3>2
  <2> QED BY <2>1, <2>2, Zenon DEF Single
<1>9. ASSUME NEW o \in Ops PROVE Of(a, o) <=> Of(q, o) /\ o # Head(q).op
  <2>1. o # 0
    BY SizeFacts
  <2>2. Of(a, o) => Of(q, o)
    <3> SUFFICES ASSUME NEW k \in DOMAIN a, a[k].op = o PROVE \E i \in DOMAIN q : q[i].op = o
      BY Zenon DEF Of
    <3>1. PICK i \in DOMAIN q : a[k] = q[i]
      BY <1>4, Zenon
    <3> QED BY <3>1, Zenon
  <2>3. Of(a, o) => o # Head(q).op
    <3> SUFFICES ASSUME NEW k \in DOMAIN a, a[k].op = o, o = q[1].op PROVE FALSE
      BY <1>3, Zenon DEF Of
    <3>1. PICK i \in DOMAIN q : i # 1 /\ a[k] = q[i]
      BY <1>4, Zenon
    <3> QED BY <1>3, <1>n, <2>1, <3>1, Zenon
  <2>4. Of(q, o) /\ o # Head(q).op => Of(a, o)
    <3> SUFFICES ASSUME NEW i \in DOMAIN q, q[i].op = o, o # Head(q).op PROVE \E k \in DOMAIN a : a[k].op = o
      BY Zenon DEF Of
    <3>1. i # 1
      BY <1>3, Zenon
    <3>2. PICK k \in DOMAIN a : a[k] = q[i]
      BY <1>4, <3>1, Zenon
    <3> QED BY <3>2, Zenon
  <2> QED BY <2>2, <2>3, <2>4
<1>10. Of(q, Head(q).op) /\ (Head(q).kind = "new" => Makes(q))
  BY <1>3, Zenon DEF Of, Makes
<1> QED BY <1>2, <1>3, <1>6, <1>7, <1>8, <1>9, <1>10, Zenon

LEMMA MailPut ==
  ASSUME NEW s \in ToolShards, tool.mail \in ToolMail, NEW t \in ToolTasks,
         tool'.mail = [tool.mail EXCEPT ![s] = Append(tool.mail[s], t)]
  PROVE  /\ \A o : Mailed(o)' = IF o = t.op THEN Mailed(o) \cup {s} ELSE Mailed(o)
         /\ \A x \in ToolShards \ {s} : tool'.mail[x] = tool.mail[x]
         /\ tool'.mail \in ToolMail
         /\ Makes(tool'.mail[s]) <=> Makes(tool.mail[s]) \/ t.kind = "new"
         /\ /\ MailOK(s) /\ OwnersKept /\ Belongs(tool'.op, t.kind, t.op)
            /\ t.kind = "new" => tool.mail[s] = << >>
            /\ t.op # 0 => s \notin Mailed(t.op)
            => MailOK(s)'
<1>1. PICK q \in Seq(ToolTasks) : q = tool.mail[s]
  BY DEF ToolMail
<1>2. PICK a \in Seq(ToolTasks) : a = Append(q, t)
  BY QueueAppend, Zenon
<1>3. /\ tool'.mail[s] = a /\ tool'.mail \in ToolMail
      /\ \A x \in ToolShards \ {s} : tool'.mail[x] = tool.mail[x]
  BY <1>1, <1>2, Zenon DEF ToolMail
<1>4. \A o : Mailed(o)' = IF o = t.op THEN Mailed(o) \cup {s} ELSE Mailed(o)
  <2>1. \A o : Of(a, o) <=> Of(q, o) \/ o = t.op
    BY <1>2, QueueAppend, Zenon
  <2> QED BY <1>1, <1>3, <2>1, Zenon DEF Mailed
<1>5. Makes(tool'.mail[s]) <=> Makes(tool.mail[s]) \/ t.kind = "new"
  <2>1. Makes(a) <=> Makes(q) \/ t.kind = "new"
    BY <1>2, QueueAppend
  <2> QED BY <1>1, <1>3, <2>1, Zenon
<1>6. ASSUME MailOK(s), OwnersKept, Belongs(tool'.op, t.kind, t.op), t.kind = "new" => tool.mail[s] = << >>,
             t.op # 0 => s \notin Mailed(t.op)
      PROVE  MailOK(s)'
  <2>1. Owned(tool'.op, q)
    BY <1>1, <1>6, Zenon DEF OwnersKept, MailOK
  <2>2. Single(q) /\ (t.kind = "new" => q = << >>) /\ (t.op # 0 => ~Of(q, t.op))
    BY <1>1, <1>6, Zenon DEF Mailed, MailOK
  <2>3. Owned(tool'.op, a) /\ Single(a)
    BY <1>2, <1>6, <2>1, <2>2, QueueAppend, Zenon
  <2> QED BY <1>3, <2>3, Zenon DEF MailOK
<1> QED BY <1>3, <1>4, <1>5, <1>6, Zenon

LEMMA MailPuts ==
  ASSUME NEW s \in ToolShards, tool.mail \in ToolMail, NEW t \in ToolTasks,
         tool'.mail = [tool.mail EXCEPT ![s] = Append(tool.mail[s], t)]
  PROVE  /\ \A o : Mailed(o)' = IF o = t.op THEN Mailed(o) \cup {s} ELSE Mailed(o)
         /\ \A x \in ToolShards \ {s} : tool'.mail[x] = tool.mail[x]
         /\ Makes(tool'.mail[s]) <=> Makes(tool.mail[s]) \/ t.kind = "new"
BY MailPut, Zenon

LEMMA MailTake ==
  ASSUME NEW s \in ToolShards, tool.mail \in ToolMail, MailOK(s), tool.mail[s] # << >>,
         tool'.mail = [tool.mail EXCEPT ![s] = Tail(tool.mail[s])]
  PROVE  /\ \A o \in Ops : Mailed(o)' = IF o = Head(tool.mail[s]).op THEN Mailed(o) \ {s} ELSE Mailed(o)
         /\ s \in Mailed(Head(tool.mail[s]).op) /\ Head(tool.mail[s]) \in ToolTasks
         /\ Belongs(tool.op, Head(tool.mail[s]).kind, Head(tool.mail[s]).op)
         /\ Head(tool.mail[s]).kind = "new" => Makes(tool.mail[s])
         /\ ~Makes(tool'.mail[s])
         /\ OwnersKept => MailOK(s)'
         /\ \A x \in ToolShards \ {s} : tool'.mail[x] = tool.mail[x]
         /\ tool'.mail \in ToolMail
<1>1. PICK q \in Seq(ToolTasks) : q = tool.mail[s] /\ q # << >> /\ Single(q) /\ Owned(tool.op, q)
  BY DEF ToolMail, MailOK
<1>2. PICK a \in Seq(ToolTasks) : a = Tail(q)
  BY <1>1, QueueTail, Zenon
<1>3. /\ tool'.mail[s] = a /\ tool'.mail \in ToolMail
      /\ \A x \in ToolShards \ {s} : tool'.mail[x] = tool.mail[x]
  BY <1>1, <1>2, Zenon DEF ToolMail
<1>4. \A o \in Ops : Mailed(o)' = IF o = Head(q).op THEN Mailed(o) \ {s} ELSE Mailed(o)
  <2>1. \A o \in Ops : Of(a, o) <=> Of(q, o) /\ o # Head(q).op
    BY <1>1, <1>2, QueueTail, Zenon
  <2> QED BY <1>1, <1>3, <2>1, Zenon DEF Mailed
<1>5. OwnersKept => MailOK(s)'
  <2>1. Owned(tool.op, a) /\ Single(a)
    BY <1>1, <1>2, QueueTail, Zenon
  <2> QED BY <1>3, <2>1, Zenon DEF OwnersKept, MailOK
<1>6. /\ s \in Mailed(Head(q).op) /\ Head(q) \in ToolTasks /\ Belongs(tool.op, Head(q).kind, Head(q).op)
      /\ (Head(q).kind = "new" => Makes(q)) /\ ~Makes(a)
  BY <1>1, <1>2, QueueTail, Zenon DEF Mailed
<1> QED BY <1>1, <1>3, <1>4, <1>5, <1>6, Zenon

LEMMA BusySet ==
  ASSUME NEW s \in ToolShards, tool.run \in [ToolShards -> ToolRun], NEW r \in ToolRun,
         tool'.run = [tool.run EXCEPT ![s] = r]
  PROVE  /\ \A o : /\ Busy(o)' = IF o = r.task.op THEN Busy(o) \cup {s} ELSE Busy(o) \ {s}
                   /\ Folding(o)' = IF o = r.task.op /\ r.pc \in {"load", "fold"} THEN Folding(o) \cup {s}
                                    ELSE Folding(o) \ {s}
         /\ tool'.run[s] = r /\ \A x \in ToolShards \ {s} : tool'.run[x] = tool.run[x]
<1>1. tool'.run[s] = r /\ \A x \in ToolShards \ {s} : tool'.run[x] = tool.run[x]
  OBVIOUS
<1>2. \A o : Busy(o)' = IF o = r.task.op THEN Busy(o) \cup {s} ELSE Busy(o) \ {s}
  BY <1>1 DEF Busy
<1>3. \A o : Folding(o)' = IF o = r.task.op /\ r.pc \in {"load", "fold"} THEN Folding(o) \cup {s}
                           ELSE Folding(o) \ {s}
  BY <1>1 DEF Busy, Folding
<1> QED BY <1>1, <1>2, <1>3

-----------------------------------------------------------------------------
(* ShardTools: each step keeps the invariant *)

CallAt(kind, o, n) == [kind |-> kind, op |-> o, next |-> n]

LEMMA CallTyped ==
  ASSUME NEW k \in {"none", "new", "item", "barrier", "reduce"}, NEW o \in 0 .. MaxOps, NEW n \in 0 .. Size
  PROVE  /\ CallAt(k, o, n) \in ToolCalls
         /\ CallAt(k, o, n).kind = k /\ CallAt(k, o, n).op = o /\ CallAt(k, o, n).next = n
BY DEF ToolCalls, CallAt

LEMMA TaskTyped ==
  ASSUME NEW k \in {"new", "item", "barrier", "reduce"}, NEW o \in 0 .. MaxOps
  PROVE  Task(k, o) \in ToolTasks /\ Task(k, o).kind = k /\ Task(k, o).op = o
BY DEF ToolTasks, Task

\* The state has its parts, and an assignment to one of them replaces it.
LEMMA ToolHas ==
  ASSUME tool \in ToolStates
  PROVE  \E c \in ToolCalls, m \in ToolMail, r \in [ToolShards -> ToolRun], v \in [ToolShards -> BOOLEAN],
            n \in Nat, i \in Nat, p \in [Ops -> ToolOp] :
           /\ tool = Tool(c, m, r, v, n, i, p)
           /\ tool.call = c /\ tool.mail = m /\ tool.run = r /\ tool.value = v
           /\ tool.rr = n /\ tool.items = i /\ tool.op = p
BY ToolShape, Zenon

WithCall(t, x) == [t EXCEPT !.call = x]
WithMail(t, x) == [t EXCEPT !.mail = x]
WithRun(t, x) == [t EXCEPT !.run = x]
WithValue(t, x) == [t EXCEPT !.value = x]
WithRr(t, x) == [t EXCEPT !.rr = x]
WithItems(t, x) == [t EXCEPT !.items = x]
WithOp(t, x) == [t EXCEPT !.op = x]

\* One field of an operation.
\* The operations w are those of p, but for the one of o, which is x.
Edits(w, p, o, x) == w[o] = x /\ \A q \in Ops \ {o} : w[q] = p[q]

LEMMA OpEdit ==
  ASSUME NEW p \in [Ops -> ToolOp], NEW o \in Ops, NEW x \in ToolOp
  PROVE  \E w \in [Ops -> ToolOp] : w = [p EXCEPT ![o] = x] /\ Edits(w, p, o, x)
<1>1. /\ [p EXCEPT ![o] = x] \in [Ops -> ToolOp] /\ [p EXCEPT ![o] = x][o] = x
      /\ \A q \in Ops \ {o} : [p EXCEPT ![o] = x][q] = p[q]
  OBVIOUS
<1> QED BY <1>1, Zenon DEF Edits

LEMMA SetDropped ==
  ASSUME NEW x \in ToolOp
  PROVE  LET y == [x EXCEPT !.dropped = TRUE] IN
         /\ y \in ToolOp /\ y.dropped /\ y.kind = x.kind /\ y.remaining = x.remaining
         /\ y.acc = x.acc /\ y.ran = x.ran /\ y.done = x.done
<1> DEFINE D == Seq(SUBSET ToolShards)
           S == SUBSET ToolShards
<1>1. x \in [kind : {"none", "barrier", "reduce"}, remaining : Int, acc : S, ran : S, done : D, dropped : BOOLEAN]
  BY DEF ToolOp
<1> HIDE DEF D, S
<1>2. LET y == [x EXCEPT !.dropped = TRUE] IN
      /\ y \in [kind : {"none", "barrier", "reduce"}, remaining : Int, acc : S, ran : S, done : D, dropped : BOOLEAN]
      /\ y.dropped /\ y.kind = x.kind /\ y.remaining = x.remaining
      /\ y.acc = x.acc /\ y.ran = x.ran /\ y.done = x.done
  BY <1>1, Zenon
<1> QED BY <1>2, Zenon DEF D, S, ToolOp

\* The caller goes to the next mailbox: its task of shard s is no longer to be posted.
LEMMA Advances ==
  ASSUME tool.call \in ToolCalls, NEW s \in ToolShards, s = tool.call.next,
         tool'.call.op = tool.call.op, tool'.call.next = s + 1
  PROVE  /\ \A o : Unposted(o)' = Unposted(o) \ {s}
         /\ \A o : IF o = tool.call.op THEN s \in Unposted(o) ELSE Unposted(o) = {}
         /\ \A x \in ToolShards : (tool'.call.next <= x => tool.call.next <= x) /\ tool.call.next <= s
<1>1. \A x \in ToolShards : (s + 1 <= x <=> s <= x /\ x # s) /\ s <= s
  BY SizeFacts
<1> QED BY <1>1 DEF Unposted

LEMMA PostFits ==
  ASSUME ToolInv, NEW s \in ToolShards, s = tool.call.next, (tool \in ToolStates)',
         NEW t \in ToolTasks, t.kind = tool.call.kind, t.op = tool.call.op,
         tool'.call.kind = tool.call.kind, tool'.call.op = tool.call.op, tool'.call.next = s + 1,
         tool'.mail = [tool.mail EXCEPT ![s] = Append(tool.mail[s], t)],
         tool'.run = tool.run, tool'.value = tool.value, tool'.op = tool.op
  PROVE  ToolInv'
<1>1. /\ tool \in ToolStates /\ CallOK /\ \A x \in ToolShards : MailOK(x) /\ RunOK(x) /\ FreshOK(x)
      /\ \A o \in Ops : OpOK(o)
  BY Zenon DEF ToolInv
<1>2. tool.call \in ToolCalls /\ tool.mail \in ToolMail /\ OwnersKept
  BY <1>1, ToolShape, KindsKept, Zenon
<1>3. /\ \A o : Unposted(o)' = Unposted(o) \ {s}
      /\ \A o : IF o = tool.call.op THEN s \in Unposted(o) ELSE Unposted(o) = {}
      /\ \A x \in ToolShards : (tool'.call.next <= x => tool.call.next <= x) /\ tool.call.next <= s
  BY <1>2, Advances, Zenon
<1>4. /\ \A o : Mailed(o)' = IF o = t.op THEN Mailed(o) \cup {s} ELSE Mailed(o)
      /\ \A x \in ToolShards \ {s} : tool'.mail[x] = tool.mail[x]
      /\ Makes(tool'.mail[s]) <=> Makes(tool.mail[s]) \/ t.kind = "new"
  <2>1. tool.mail \in ToolMail
    BY <1>2, Zenon
  <2> QED BY <2>1, MailPuts, Zenon
<1>5. ASSUME NEW o \in Ops PROVE Busy(o)' = Busy(o) /\ Folding(o)' = Folding(o)
  BY Zenon DEF Busy, Folding
<1>6. ASSUME NEW o \in Ops PROVE (Unposted(o) \cap Mailed(o) = {})' /\ Waiting(o)' = Waiting(o)
  <2>1. Unposted(o) \cap Mailed(o) = {}
    BY <1>1, Zenon DEF OpOK
  <2>2. Unposted(o)' = Unposted(o) \ {s} /\ Mailed(o)' = IF o = t.op THEN Mailed(o) \cup {s} ELSE Mailed(o)
    BY <1>3, <1>4, Zenon
  <2>3. IF o = t.op THEN s \in Unposted(o) ELSE Unposted(o) = {}
    BY <1>3, Zenon
  <2> QED BY <2>1, <2>2, <2>3 DEF Waiting
<1>7. \A o \in Ops : OpOK(o)'
  BY <1>1, <1>5, <1>6, OpFrame, Zenon
<1>8. /\ Belongs(tool.op, t.kind, t.op) /\ (t.kind = "new" => tool.mail[s] = << >>)
      /\ t.op # 0 => s \notin Mailed(t.op)
  <2>1. Belongs(tool.op, t.kind, t.op) /\ (t.kind = "new" => tool.mail[s] = << >>)
    BY <1>1, <1>3, Zenon DEF CallOK
  <2>2. ASSUME t.op # 0 PROVE s \notin Mailed(t.op)
    <3>1. t.op \in Ops
      BY <2>2, TaskFacts, ToolAssumption DEF Ops
    <3>2. Unposted(t.op) \cap Mailed(t.op) = {} /\ s \in Unposted(t.op)
      BY <1>1, <1>3, <3>1, Zenon DEF OpOK
    <3> QED BY <3>2
  <2> QED BY <2>1, <2>2
<1>9. CallOK'
  <2>1. Belongs(tool'.op, tool'.call.kind, tool'.call.op)
    BY <1>8, Zenon
  <2>2. ASSUME tool'.call.kind = "new", NEW x \in ToolShards, tool'.call.next <= x PROVE tool'.mail[x] = << >>
    <3>1. x # s
      BY <2>2, SizeFacts
    <3> QED BY <1>1, <1>3, <1>4, <2>2, <3>1, Zenon DEF CallOK
  <2>3. tool'.call.kind = "new" => \A o \in Ops : tool'.op[o].kind = "none"
    BY <1>1, Zenon DEF CallOK
  <2> QED BY <2>1, <2>2, <2>3, Zenon DEF CallOK
<1>10. ASSUME NEW x \in ToolShards PROVE MailOK(x)' /\ RunOK(x)' /\ FreshOK(x)'
  <2>1. MailOK(x)'
    <3>1. CASE x = s
      BY <1>1, <1>2, <1>8, <3>1, MailPut, Zenon
    <3>2. CASE x # s
      BY <1>1, <1>2, <1>4, <3>2, MailFrame, Zenon
    <3> QED BY <3>1, <3>2
  <2>2. RunOK(x)'
    BY <1>1, <1>2, RunFrame, Zenon
  <2>3. Fresh(x)' => Fresh(x)
    <3>1. Makes(tool'.mail[x]) => Makes(tool.mail[x]) \/ (tool.call.kind = "new" /\ tool.call.next <= x)
      BY <1>3, <1>4, Zenon
    <3> QED BY <1>3, <3>1, Zenon DEF Fresh
  <2> QED BY <1>1, <1>6, <2>1, <2>2, <2>3, FreshFrame, Zenon
<1> QED BY <1>7, <1>9, <1>10, Zenon DEF ToolInv

\* The call goes on: it is still one the mailboxes have room for.
LEMMA CallGoesOn ==
  ASSUME CallOK, tool'.mail = tool.mail, tool'.call.kind = tool.call.kind,
         Belongs(tool'.op, tool'.call.kind, tool'.call.op),
         \A o \in Ops : tool'.op[o].kind = tool.op[o].kind,
         \A x \in ToolShards : tool'.call.next <= x => tool.call.next <= x
  PROVE  CallOK'
BY Zenon DEF CallOK

\* A task of operation o is dropped: it is noted, and the operation waits for one shard less.
MarksDropped(o) ==
  /\ tool'.op[o].dropped /\ tool'.op[o].kind = tool.op[o].kind
  /\ tool'.op[o].remaining = tool.op[o].remaining /\ tool'.op[o].acc = tool.op[o].acc
  /\ tool'.op[o].ran = tool.op[o].ran /\ tool'.op[o].done = tool.op[o].done

LEMMA OpDrops ==
  ASSUME Counting, NEW o \in Ops, OpOK(o), tool.op \in [Ops -> ToolOp], tool.op[o].kind # "none",
         NEW s \in ToolShards, s \in Waiting(o), Waiting(o)' = Waiting(o) \ {s}, Busy(o)' = Busy(o),
         Folding(o)' = Folding(o), Unposted(o)' \cap Mailed(o)' = {}, MarksDropped(o)
  PROVE  OpOK(o)'
<1>1. /\ Unposted(o) \cap Mailed(o) = {} /\ Waiting(o) \cap Busy(o) = {} /\ Counted(o) /\ Folded(o)
      /\ tool.op[o].remaining # 0 => tool.op[o].done = << >>
      /\ tool.op[o].remaining = 0 => tool.op[o].done = <<tool.op[o].acc>>
  BY Zenon DEF OpOK
<1>2. /\ tool'.op[o].dropped /\ tool'.op[o].kind = tool.op[o].kind
      /\ tool'.op[o].remaining = tool.op[o].remaining /\ tool'.op[o].acc = tool.op[o].acc
      /\ tool'.op[o].ran = tool.op[o].ran /\ tool'.op[o].done = tool.op[o].done
  BY Zenon DEF MarksDropped
<1>3. Pending(o)' = Pending(o) \ {s} /\ s \in Pending(o)
  BY <1>1 DEF Pending
<1>4. Counted(o)'
  <2>1. Pending(o) \in SUBSET ToolShards
    BY DEF Pending, Waiting, Busy, Unposted, Mailed
  <2>2. PICK S \in SUBSET ToolShards : S = Pending(o)
    BY <2>1
  <2>3. Cardinality(S \ {s}) = Cardinality(S) - 1 /\ Cardinality(S) \in Nat
    BY <1>3, <2>2, PendingCounts
  <2>4. tool.op[o].remaining \in Int /\ tool.op[o].remaining >= Cardinality(S)
    BY <1>1, <2>2, <2>3, OpFacts DEF Counted
  <2>5. tool.op[o].remaining > Cardinality(S \ {s})
    BY <2>3, <2>4
  <2> QED BY <1>2, <1>3, <2>2, <2>5, Zenon DEF Counted
<1>5. Folded(o)'
  <2>1. (tool.op[o].ran \cap Waiting(o) = {})'
    BY <1>1, <1>2 DEF Folded
  <2>2. (tool.op[o].kind = "reduce" =>
           Folding(o) \subseteq tool.op[o].ran /\ tool.op[o].acc = tool.op[o].ran \ Folding(o))'
    BY <1>1, <1>2 DEF Folded
  <2> QED BY <1>2, <2>1, <2>2, Zenon DEF Folded
<1>6. (Unposted(o) \cap Mailed(o) = {} /\ Waiting(o) \cap Busy(o) = {})'
  BY <1>1
<1> QED BY <1>1, <1>2, <1>4, <1>5, <1>6, Zenon DEF OpOK

LEMMA PostDropped ==
  ASSUME Counting, ToolInv, NEW s \in ToolShards, s = tool.call.next, (tool \in ToolStates)',
         tool'.call.kind = tool.call.kind, tool'.call.op = tool.call.op, tool'.call.next = s + 1,
         tool'.mail = tool.mail, tool'.run = tool.run, tool'.value = tool.value,
         \A q \in Ops : q # tool.call.op => tool'.op[q] = tool.op[q],
         \A q \in Ops : q = tool.call.op =>
           /\ tool'.op[q].dropped /\ tool'.op[q].kind = tool.op[q].kind
           /\ tool'.op[q].remaining = tool.op[q].remaining /\ tool'.op[q].acc = tool.op[q].acc
           /\ tool'.op[q].ran = tool.op[q].ran /\ tool'.op[q].done = tool.op[q].done
  PROVE  ToolInv'
<1>1. /\ tool \in ToolStates /\ CallOK /\ \A x \in ToolShards : MailOK(x) /\ RunOK(x) /\ FreshOK(x)
      /\ \A o \in Ops : OpOK(o)
  BY Zenon DEF ToolInv
<1>c. CallOK
  BY Zenon DEF ToolInv
<1>k. \A o \in Ops : tool'.op[o].kind = tool.op[o].kind
  BY Zenon
<1>2. tool.call \in ToolCalls /\ tool.op \in [Ops -> ToolOp] /\ OwnersKept
  BY <1>1, <1>k, ToolShape, KindsKept, Zenon
<1>3. /\ \A o : Unposted(o)' = Unposted(o) \ {s}
      /\ \A o : IF o = tool.call.op THEN s \in Unposted(o) ELSE Unposted(o) = {}
      /\ \A x \in ToolShards : (tool'.call.next <= x => tool.call.next <= x) /\ tool.call.next <= s
  BY <1>2, Advances, Zenon
<1>4. ASSUME NEW o \in Ops PROVE Mailed(o)' = Mailed(o) /\ Busy(o)' = Busy(o) /\ Folding(o)' = Folding(o)
  <2>1. Mailed(o)' = Mailed(o)
    BY Zenon DEF Mailed
  <2>2. Busy(o)' = Busy(o)
    BY Zenon DEF Busy
  <2>3. Folding(o)' = Folding(o)
    BY <2>2, Zenon DEF Folding
  <2> QED BY <2>1, <2>2, <2>3, Zenon
<1>5. ASSUME NEW o \in Ops
      PROVE  /\ (Unposted(o) \cap Mailed(o) = {})'
             /\ Waiting(o)' = IF o = tool.call.op THEN Waiting(o) \ {s} ELSE Waiting(o)
             /\ o = tool.call.op => s \in Waiting(o)
  <2>1. Unposted(o) \cap Mailed(o) = {}
    BY <1>1, Zenon DEF OpOK
  <2>2. Unposted(o)' = Unposted(o) \ {s} /\ Mailed(o)' = Mailed(o)
    BY <1>3, <1>4, Zenon
  <2>3. IF o = tool.call.op THEN s \in Unposted(o) ELSE Unposted(o) = {}
    BY <1>3, Zenon
  <2> QED BY <2>1, <2>2, <2>3 DEF Waiting
<1>6. ASSUME NEW o \in Ops, o # tool.call.op PROVE OpOK(o)'
  BY <1>1, <1>4, <1>5, <1>6, OpFrame, Zenon
<1>7. ASSUME NEW o \in Ops, o = tool.call.op PROVE OpOK(o)'
  <2>1. tool.op[o].kind # "none" /\ OpOK(o) /\ o # 0
    BY <1>1, <1>7, SizeFacts DEF CallOK, Belongs
  <2>2. /\ Waiting(o)' = Waiting(o) \ {s} /\ s \in Waiting(o) /\ Busy(o)' = Busy(o) /\ Folding(o)' = Folding(o)
        /\ Unposted(o)' \cap Mailed(o)' = {}
    BY <1>4, <1>5, <1>7, Zenon
  <2>3. MarksDropped(o)
    BY <1>7, Zenon DEF MarksDropped
  <2> QED BY <1>2, <2>1, <2>2, <2>3, OpDrops, Zenon
<1>8. CallOK'
  <2>1. Belongs(tool'.op, tool'.call.kind, tool'.call.op)
    BY <1>1, <1>2, Zenon DEF CallOK, OwnersKept
  <2>2. \A x \in ToolShards : tool'.call.next <= x => tool.call.next <= x
    BY <1>3, Zenon
  <2> QED BY <1>c, <1>k, <2>1, <2>2, CallGoesOn, Zenon
<1>9. ASSUME NEW x \in ToolShards PROVE MailOK(x)' /\ RunOK(x)' /\ FreshOK(x)'
  <2>1. MailOK(x)' /\ RunOK(x)'
    BY <1>1, <1>2, MailFrame, RunFrame, Zenon
  <2>2. Fresh(x)' => Fresh(x)
    BY <1>3, Zenon DEF Fresh
  <2>3. ASSUME NEW o \in Ops
        PROVE  /\ tool.op[o].kind = "none" => tool'.op[o].kind = "none"
               /\ x \in Waiting(o) => x \in Waiting(o)' \/ tool'.op[o].dropped
               /\ tool.op[o].dropped => tool'.op[o].dropped
    BY <1>5
  <2> QED BY <1>1, <2>1, <2>2, <2>3, FreshFrame, Zenon
<1> QED BY <1>6, <1>7, <1>8, <1>9, Zenon DEF ToolInv

\* The next post of a loop: it goes in, or is refused.
LEMMA PostNextInv == ASSUME Counting, ToolInv, PostNext PROVE ToolInv'
<1>1. /\ tool \in ToolStates /\ CallOK /\ \A s \in ToolShards : MailOK(s) /\ RunOK(s) /\ FreshOK(s)
      /\ \A o \in Ops : OpOK(o)
  BY Zenon DEF ToolInv
<1>2. PICK c \in ToolCalls, m \in ToolMail, r \in [ToolShards -> ToolRun], v \in [ToolShards -> BOOLEAN],
            n \in Nat, i \in Nat, p \in [Ops -> ToolOp] :
           /\ tool = Tool(c, m, r, v, n, i, p)
           /\ tool.call = c /\ tool.mail = m /\ tool.run = r /\ tool.value = v
           /\ tool.rr = n /\ tool.items = i /\ tool.op = p
  BY <1>1, ToolHas, Zenon
<1>3. PICK s, o, k : s = c.next /\ o = c.op /\ k = c.kind
  BY Zenon
<1>4. /\ k \in {"new", "item", "barrier", "reduce"} /\ o \in 0 .. MaxOps /\ s \in ToolShards /\ s + 1 \in 0 .. Size
  BY <1>2, <1>3, CallFacts, SizeFacts DEF PostNext
<1>5. PICK d \in ToolCalls : d = CallAt(k, o, s + 1) /\ d.kind = k /\ d.op = o /\ d.next = s + 1
  BY <1>4, CallTyped
<1>6. PICK u : u = [tool EXCEPT !.call.next = @ + 1]
  BY Zenon
<1>7. u = Tool(d, m, r, v, n, i, p)
  <2>1. d = [tool.call EXCEPT !.next = @ + 1]
    BY <1>2, <1>3, <1>5 DEF ToolCalls, CallAt
  <2>2. u = WithCall(tool, d) /\ tool = Tool(c, m, r, v, n, i, p)
    BY <1>2, <1>6, <2>1, Zenon DEF WithCall
  <2> QED BY <2>2 DEF Tool, WithCall
<1>8. u.mail = m /\ u.op = p
  BY <1>7 DEF Tool
<1>9. PICK t \in ToolTasks : t = Task(k, o) /\ t.kind = k /\ t.op = o
  BY <1>4, TaskTyped
<1>10. CASE Fits(s)
  <2>1. PICK w : w = [m EXCEPT ![s] = Append(m[s], t)]
    BY Zenon
  <2>2. tool' = Tool(d, w, r, v, n, i, p)
    <3>1. tool' = [u EXCEPT !.mail[s] = Append(@, t)]
      BY <1>2, <1>3, <1>6, <1>9, <1>10, Zenon DEF PostNext
    <3>2. tool' = WithMail(u, w)
      BY <1>8, <2>1, <3>1, Zenon DEF WithMail
    <3> QED BY <1>7, <3>2 DEF Tool, WithMail
  <2>3. w \in ToolMail
    <3>1. Append(m[s], t) \in Seq(ToolTasks)
      BY <1>4, QueueAppend DEF ToolMail
    <3> QED BY <1>4, <2>1, <3>1 DEF ToolMail
  <2>4. /\ (tool \in ToolStates)' /\ tool'.call = d /\ tool'.mail = w /\ tool'.run = r /\ tool'.value = v
        /\ tool'.op = p
    <3>1. ToolBecomes(d, w, r, v, n, i, p)
      BY <2>2, <2>3, Zenon DEF ToolBecomes
    <3> QED BY <3>1, ToolStep, Zenon
  <2>5. /\ s \in ToolShards /\ s = tool.call.next /\ t.kind = tool.call.kind /\ t.op = tool.call.op
        /\ tool'.call.kind = tool.call.kind /\ tool'.call.op = tool.call.op /\ tool'.call.next = s + 1
        /\ tool'.run = tool.run /\ tool'.value = tool.value /\ tool'.op = tool.op
    BY <1>2, <1>3, <1>4, <1>5, <1>9, <2>4, Zenon
  <2>6. tool'.mail = [tool.mail EXCEPT ![s] = Append(tool.mail[s], t)]
    BY <1>2, <2>1, <2>4, Zenon
  <2> QED BY <2>4, <2>5, <2>6, PostFits, Zenon
<1>11. CASE ~Fits(s) /\ o = 0
  <2>1. tool' = Tool(d, m, r, v, n, i, p)
    BY <1>2, <1>3, <1>6, <1>7, <1>11, Zenon DEF PostNext
  <2>2. /\ (tool \in ToolStates)' /\ tool'.call = d /\ tool'.mail = m /\ tool'.run = r /\ tool'.value = v
        /\ tool'.op = p
    <3>1. ToolBecomes(d, m, r, v, n, i, p)
      BY <2>1, Zenon DEF ToolBecomes
    <3> QED BY <3>1, ToolStep, Zenon
  <2>3. \A q \in Ops : q # tool.call.op
    BY <1>2, <1>3, <1>11, SizeFacts
  <2>4. /\ s = tool.call.next /\ tool'.call.kind = tool.call.kind /\ tool'.call.op = tool.call.op
        /\ tool'.call.next = s + 1 /\ tool'.mail = tool.mail /\ tool'.run = tool.run
        /\ tool'.value = tool.value /\ tool'.op = tool.op
    BY <1>2, <1>3, <1>5, <2>2, Zenon
  <2>5. \A q \in Ops : q # tool.call.op => tool'.op[q] = tool.op[q]
    BY <2>4, Zenon
  <2>6. \A q \in Ops : q = tool.call.op =>
          /\ tool'.op[q].dropped /\ tool'.op[q].kind = tool.op[q].kind
          /\ tool'.op[q].remaining = tool.op[q].remaining /\ tool'.op[q].acc = tool.op[q].acc
          /\ tool'.op[q].ran = tool.op[q].ran /\ tool'.op[q].done = tool.op[q].done
    BY <2>3, Zenon
  <2> QED BY <1>4, <2>2, <2>4, <2>5, <2>6, PostDropped, Zenon
<1>12. CASE ~Fits(s) /\ o # 0
  <2>1. PICK w : w = [p EXCEPT ![o] = [p[o] EXCEPT !.dropped = TRUE]]
    BY Zenon
  <2>2. tool' = Tool(d, m, r, v, n, i, w)
    <3>1. tool' = [u EXCEPT !.op[o].dropped = TRUE]
      BY <1>2, <1>3, <1>6, <1>12, Zenon DEF PostNext
    <3>2. tool' = WithOp(u, w)
      BY <1>8, <2>1, <3>1, Zenon DEF WithOp
    <3> QED BY <1>7, <3>2 DEF Tool, WithOp
  <2>3. o \in Ops
    BY <1>4, <1>12, ToolAssumption DEF Ops
  <2>4. PICK y \in ToolOp : /\ y = [p[o] EXCEPT !.dropped = TRUE] /\ y.dropped /\ y.kind = p[o].kind
                            /\ y.remaining = p[o].remaining /\ y.acc = p[o].acc /\ y.ran = p[o].ran
                            /\ y.done = p[o].done
    BY <2>3, SetDropped, Zenon
  <2>5. w \in [Ops -> ToolOp] /\ w[o] = y /\ \A q \in Ops \ {o} : w[q] = p[q]
    <3>1. w = [p EXCEPT ![o] = y]
      BY <2>1, <2>4, Zenon
    <3>2. PICK x \in [Ops -> ToolOp] : x = [p EXCEPT ![o] = y] /\ Edits(x, p, o, y)
      BY <2>3, OpEdit, Zenon
    <3> QED BY <3>1, <3>2, Zenon DEF Edits
  <2>6. /\ (tool \in ToolStates)' /\ tool'.call = d /\ tool'.mail = m /\ tool'.run = r /\ tool'.value = v
        /\ tool'.op = w
    <3>1. ToolBecomes(d, m, r, v, n, i, w)
      BY <2>2, <2>5, Zenon DEF ToolBecomes
    <3> QED BY <3>1, ToolStep, Zenon
  <2>7. /\ s \in ToolShards /\ s = tool.call.next /\ tool'.call.kind = tool.call.kind
        /\ tool'.call.op = tool.call.op /\ tool'.call.next = s + 1
        /\ tool'.mail = tool.mail /\ tool'.run = tool.run /\ tool'.value = tool.value /\ tool.call.op = o
    BY <1>2, <1>3, <1>4, <1>5, <2>6, Zenon
  <2>8. /\ \A q \in Ops : q # o => tool'.op[q] = tool.op[q]
        /\ tool'.op[o] = y /\ tool.op[o] = p[o]
    BY <1>2, <2>5, <2>6, Zenon
  <2>9. /\ tool'.op[o].dropped /\ tool'.op[o].kind = tool.op[o].kind
        /\ tool'.op[o].remaining = tool.op[o].remaining /\ tool'.op[o].acc = tool.op[o].acc
        /\ tool'.op[o].ran = tool.op[o].ran /\ tool'.op[o].done = tool.op[o].done
    BY <2>4, <2>8, Zenon
  <2>10. \A q \in Ops : q = tool.call.op =>
           /\ tool'.op[q].dropped /\ tool'.op[q].kind = tool.op[q].kind
           /\ tool'.op[q].remaining = tool.op[q].remaining /\ tool'.op[q].acc = tool.op[q].acc
           /\ tool'.op[q].ran = tool.op[q].ran /\ tool'.op[q].done = tool.op[q].done
    BY <2>7, <2>9
  <2>11. \A q \in Ops : q # tool.call.op => tool'.op[q] = tool.op[q]
    BY <2>7, <2>8, Zenon
  <2> QED BY <2>6, <2>7, <2>10, <2>11, PostDropped, Zenon
<1> QED BY <1>10, <1>11, <1>12

\* A step of the caller that moves no task.
LEMMA CallMoves ==
  ASSUME ToolInv, (tool \in ToolStates)', CallOK', \A o \in Ops : Unposted(o)' = Unposted(o),
         \A x \in ToolShards : Fresh(x)' => Fresh(x),
         tool'.mail = tool.mail, tool'.run = tool.run, tool'.value = tool.value, tool'.op = tool.op
  PROVE  ToolInv'
<1>1. /\ \A x \in ToolShards : MailOK(x) /\ RunOK(x) /\ FreshOK(x)
      /\ \A o \in Ops : OpOK(o)
  BY Zenon DEF ToolInv
<1>2. OwnersKept
  BY KindsKept, Zenon
<1>3. ASSUME NEW o \in Ops PROVE Mailed(o)' = Mailed(o) /\ Busy(o)' = Busy(o) /\ Folding(o)' = Folding(o)
  BY Zenon DEF Mailed, Busy, Folding
<1>4. ASSUME NEW o \in Ops PROVE Waiting(o)' = Waiting(o)
  BY <1>3, Zenon DEF Waiting
<1>5. ASSUME NEW o \in Ops PROVE OpOK(o)'
  <2>1. OpOK(o) /\ Unposted(o)' \cap Mailed(o)' = {}
    BY <1>1, <1>3, Zenon DEF OpOK
  <2> QED BY <1>3, <1>4, <2>1, OpFrame, Zenon
<1>6. ASSUME NEW x \in ToolShards PROVE MailOK(x)' /\ RunOK(x)' /\ FreshOK(x)'
  <2>1. MailOK(x)' /\ RunOK(x)'
    BY <1>1, <1>2, MailFrame, RunFrame, Zenon
  <2> QED BY <1>1, <1>4, <2>1, FreshFrame, Zenon
<1> QED BY <1>5, <1>6, Zenon DEF ToolInv

\* A loop that has come to the last mailbox ends.
LEMMA PostsDoneInv == ASSUME ToolInv, PostsDone PROVE ToolInv'
<1>1. tool \in ToolStates /\ CallOK
  BY Zenon DEF ToolInv
<1>2. PICK c \in ToolCalls, m \in ToolMail, r \in [ToolShards -> ToolRun], v \in [ToolShards -> BOOLEAN],
            n \in Nat, i \in Nat, p \in [Ops -> ToolOp] :
           /\ tool = Tool(c, m, r, v, n, i, p)
           /\ tool.call = c /\ tool.mail = m /\ tool.run = r /\ tool.value = v
           /\ tool.rr = n /\ tool.items = i /\ tool.op = p
  BY <1>1, ToolHas, Zenon
<1>3. 0 \in 0 .. MaxOps /\ 0 \in 0 .. Size
  BY ToolAssumption, SizeFacts
<1>4. PICK d \in ToolCalls : d = CallAt("none", 0, 0) /\ d.kind = "none" /\ d.op = 0 /\ d.next = 0
  BY <1>3, CallTyped
<1>5. tool' = Tool(d, m, r, v, n, i, p)
  <2>1. tool' = WithCall(tool, d) /\ tool = Tool(c, m, r, v, n, i, p)
    BY <1>2, <1>4, Zenon DEF WithCall, PostsDone, Calling, CallAt
  <2> QED BY <2>1 DEF Tool, WithCall
<1>6. /\ (tool \in ToolStates)' /\ tool'.call = d /\ tool'.mail = m /\ tool'.run = r /\ tool'.value = v
      /\ tool'.op = p
  <2>1. ToolBecomes(d, m, r, v, n, i, p)
    BY <1>5, Zenon DEF ToolBecomes
  <2> QED BY <2>1, ToolStep, Zenon
<1>7. \A x \in ToolShards : ~(tool.call.next <= x)
  BY SizeFacts DEF PostsDone
<1>8. \A o \in Ops : Unposted(o)' = Unposted(o)
  BY <1>4, <1>6, <1>7, SizeFacts DEF Unposted
<1>9. CallOK'
  BY <1>4, <1>6, Zenon DEF CallOK, Belongs
<1>10. \A x \in ToolShards : Fresh(x)' => Fresh(x)
  BY <1>2, <1>4, <1>6, Zenon DEF Fresh
<1> QED BY <1>2, <1>6, <1>8, <1>9, <1>10, CallMoves, Zenon

\* Fan::broadcast() begins its loop.
LEMMA BroadcastInv == ASSUME ToolInv, Broadcast PROVE ToolInv'
<1>1. tool \in ToolStates /\ CallOK
  BY Zenon DEF ToolInv
<1>2. PICK c \in ToolCalls, m \in ToolMail, r \in [ToolShards -> ToolRun], v \in [ToolShards -> BOOLEAN],
            n \in Nat, i \in Nat, p \in [Ops -> ToolOp] :
           /\ tool = Tool(c, m, r, v, n, i, p)
           /\ tool.call = c /\ tool.mail = m /\ tool.run = r /\ tool.value = v
           /\ tool.rr = n /\ tool.items = i /\ tool.op = p
  BY <1>1, ToolHas, Zenon
<1>3. 0 \in 0 .. MaxOps /\ 0 \in 0 .. Size
  BY ToolAssumption, SizeFacts
<1>4. PICK d \in ToolCalls : d = CallAt("item", 0, 0) /\ d.kind = "item" /\ d.op = 0 /\ d.next = 0
  BY <1>3, CallTyped
<1>5. tool' = Tool(d, m, r, v, n, i + 1, p)
  <2>1. tool' = [tool EXCEPT !.call = d, !.items = i + 1] /\ tool = Tool(c, m, r, v, n, i, p)
    BY <1>2, <1>4, Zenon DEF Broadcast, Calling, CallAt
  <2> QED BY <2>1, Zenon DEF Tool
<1>6. /\ (tool \in ToolStates)' /\ tool'.call = d /\ tool'.mail = m /\ tool'.run = r /\ tool'.value = v
      /\ tool'.op = p
  <2>1. i + 1 \in Nat
    OBVIOUS
  <2> QED
    <3>1. ToolBecomes(d, m, r, v, n, i + 1, p)
      BY <1>5, <2>1, Zenon DEF ToolBecomes
    <3> QED BY <3>1, ToolStep, Zenon
<1>7. tool.call.op = 0
  BY <1>1, Zenon DEF Broadcast, CallOK, Belongs
<1>8. \A o \in Ops : Unposted(o)' = Unposted(o)
  BY <1>4, <1>6, <1>7, SizeFacts DEF Unposted
<1>9. CallOK'
  BY <1>4, <1>6, Zenon DEF CallOK, Belongs
<1>10. \A x \in ToolShards : Fresh(x)' => Fresh(x)
  BY <1>2, <1>4, <1>6, Zenon DEF Fresh
<1> QED BY <1>2, <1>6, <1>8, <1>9, <1>10, CallMoves, Zenon

\* A task of no operation goes into a mailbox, or is refused, which its caller sees.
LEMMA DispatchInv == ASSUME ToolInv, NEW key \in FanKeys, Dispatch(key) PROVE ToolInv'
<1>1. /\ tool \in ToolStates /\ CallOK /\ \A x \in ToolShards : MailOK(x) /\ RunOK(x) /\ FreshOK(x)
      /\ \A o \in Ops : OpOK(o)
  BY Zenon DEF ToolInv
<1>2. PICK c \in ToolCalls, m \in ToolMail, r \in [ToolShards -> ToolRun], v \in [ToolShards -> BOOLEAN],
            n \in Nat, i \in Nat, p \in [Ops -> ToolOp] :
           /\ tool = Tool(c, m, r, v, n, i, p)
           /\ tool.call = c /\ tool.mail = m /\ tool.run = r /\ tool.value = v
           /\ tool.rr = n /\ tool.items = i /\ tool.op = p
  BY <1>1, ToolHas, Zenon
<1>3. PICK s \in ToolShards : s = Pick(key)
  <2>1. key \in Nat /\ n \in Nat /\ tool.rr = n
    BY <1>2, ToolAssumption
  <2>2. \A a \in Nat : a % Size \in 0 .. Size - 1
    BY SizeFacts
  <2> QED BY <2>1, <2>2, SizeFacts, Zenon DEF Pick
<1>4. PICK z \in Nat : z = IF FanHash THEN n ELSE n + 1
  OBVIOUS
<1>5. PICK u : u = [tool EXCEPT !.items = @ + 1, !.rr = IF FanHash THEN @ ELSE @ + 1]
  BY Zenon
<1>6. u = Tool(c, m, r, v, z, i + 1, p) /\ u.mail = m
  <2>1. u = [tool EXCEPT !.items = i + 1, !.rr = z] /\ tool = Tool(c, m, r, v, n, i, p)
    BY <1>2, <1>4, <1>5
  <2> QED BY <2>1, Zenon DEF Tool
<1>7. i + 1 \in Nat
  OBVIOUS
<1>8. PICK t \in ToolTasks : t = Task("item", 0) /\ t.kind = "item" /\ t.op = 0
  <2>1. 0 \in 0 .. MaxOps
    BY ToolAssumption
  <2> QED BY <2>1, TaskTyped
<1>9. tool.call.kind = "none" /\ tool.call.op = 0
  BY <1>1, Zenon DEF Dispatch, CallOK, Belongs
<1>10. CASE Fits(s)
  <2>1. PICK w : w = [m EXCEPT ![s] = Append(m[s], t)]
    BY Zenon
  <2>2. tool' = Tool(c, w, r, v, z, i + 1, p)
    <3>1. tool' = [u EXCEPT !.mail[s] = Append(@, t)]
      BY <1>3, <1>5, <1>8, <1>10, Zenon DEF Dispatch
    <3>2. tool' = WithMail(u, w)
      BY <1>6, <2>1, <3>1, Zenon DEF WithMail
    <3> QED BY <1>6, <3>2 DEF Tool, WithMail
  <2>3. w \in ToolMail
    <3>1. Append(m[s], t) \in Seq(ToolTasks)
      BY QueueAppend DEF ToolMail
    <3> QED BY <2>1, <3>1 DEF ToolMail
  <2>4. /\ (tool \in ToolStates)' /\ tool'.call = tool.call /\ tool'.mail = w /\ tool'.run = tool.run
        /\ tool'.value = tool.value /\ tool'.op = tool.op
    <3>1. /\ (tool \in ToolStates)' /\ tool'.call = c /\ tool'.mail = w /\ tool'.run = r /\ tool'.value = v
          /\ tool'.op = p
      <4>1. ToolBecomes(c, w, r, v, z, i + 1, p)
        BY <1>7, <2>2, <2>3, Zenon DEF ToolBecomes
      <4> QED BY <4>1, ToolStep, Zenon
    <3> QED BY <1>2, <3>1, Zenon
  <2>5. tool'.mail = [tool.mail EXCEPT ![s] = Append(tool.mail[s], t)] /\ tool.mail \in ToolMail
    BY <1>2, <2>1, <2>4, Zenon
  <2>6. OwnersKept
    BY <2>4, KindsKept, Zenon
  <2>7. /\ \A o : Mailed(o)' = IF o = t.op THEN Mailed(o) \cup {s} ELSE Mailed(o)
        /\ \A x \in ToolShards \ {s} : tool'.mail[x] = tool.mail[x]
        /\ Makes(tool'.mail[s]) <=> Makes(tool.mail[s]) \/ t.kind = "new"
    BY <2>5, MailPut, Zenon
  <2>8. ASSUME NEW o \in Ops
        PROVE  Mailed(o)' = Mailed(o) /\ Unposted(o)' = Unposted(o) /\ Busy(o)' = Busy(o) /\ Folding(o)' = Folding(o)
    <3>1. o # t.op
      BY <1>8, SizeFacts
    <3> QED BY <2>4, <2>7, <3>1, Zenon DEF Unposted, Busy, Folding
  <2>9. ASSUME NEW o \in Ops PROVE OpOK(o)' /\ Waiting(o)' = Waiting(o)
    <3>1. OpOK(o) /\ Unposted(o)' \cap Mailed(o)' = {} /\ Waiting(o)' = Waiting(o)
      BY <1>1, <2>8, Zenon DEF OpOK, Waiting
    <3>2. tool'.op[o] = tool.op[o] /\ \A x \in ToolShards : tool'.value[x] = tool.value[x]
      BY <2>4, Zenon
    <3> QED BY <2>8, <3>1, <3>2, OpFrame, Zenon
  <2>10. CallOK'
    BY <1>9, <2>4, Zenon DEF CallOK, Belongs
  <2>11. ASSUME NEW x \in ToolShards PROVE MailOK(x)' /\ RunOK(x)' /\ FreshOK(x)'
    <3>1. MailOK(x)'
      <4>1. CASE x = s
        <5>1. MailOK(s) /\ Belongs(tool'.op, t.kind, t.op) /\ t.kind # "new" /\ t.op = 0
          BY <1>1, <1>8, Zenon DEF Belongs
        <5> QED BY <2>5, <2>6, <4>1, <5>1, MailPut, Zenon
      <4>2. CASE x # s
        BY <1>1, <2>6, <2>7, <4>2, MailFrame, Zenon
      <4> QED BY <4>1, <4>2
    <3>2. RunOK(x)'
      BY <1>1, <2>4, <2>6, RunFrame, Zenon
    <3>3. Fresh(x)' => Fresh(x)
      BY <1>8, <2>4, <2>7, Zenon DEF Fresh
    <3> QED BY <1>1, <2>4, <2>9, <3>1, <3>2, <3>3, FreshFrame, Zenon
  <2> QED BY <2>4, <2>9, <2>10, <2>11, Zenon DEF ToolInv
<1>11. CASE ~Fits(s)
  <2>1. tool' = Tool(c, m, r, v, z, i + 1, p)
    BY <1>3, <1>5, <1>6, <1>11, Zenon DEF Dispatch
  <2>2. /\ (tool \in ToolStates)' /\ tool'.call = tool.call /\ tool'.mail = tool.mail /\ tool'.run = tool.run
        /\ tool'.value = tool.value /\ tool'.op = tool.op
    <3>1. /\ (tool \in ToolStates)' /\ tool'.call = c /\ tool'.mail = m /\ tool'.run = r /\ tool'.value = v
          /\ tool'.op = p
      <4>1. ToolBecomes(c, m, r, v, z, i + 1, p)
        BY <1>7, <2>1, Zenon DEF ToolBecomes
      <4> QED BY <4>1, ToolStep, Zenon
    <3> QED BY <1>2, <3>1, Zenon
  <2>3. (\A o \in Ops : Unposted(o)' = Unposted(o)) /\ \A x \in ToolShards : Fresh(x)' => Fresh(x)
    BY <2>2, Zenon DEF Unposted, Fresh
  <2>4. CallOK'
    BY <1>1, <2>2, Zenon DEF CallOK
  <2> QED BY <2>2, <2>3, <2>4, CallMoves, Zenon
<1> QED BY <1>10, <1>11

\* An operation begins: it has a task for every shard, all of them still to be posted.
OpKinds == {"barrier", "reduce"}

LEMMA SetKind ==
  ASSUME NEW x \in ToolOp, NEW k \in OpKinds
  PROVE  LET y == [x EXCEPT !.kind = k] IN
         /\ y \in ToolOp /\ y.dropped = x.dropped /\ y.kind = k /\ y.remaining = x.remaining
         /\ y.acc = x.acc /\ y.ran = x.ran /\ y.done = x.done
<1> DEFINE D == Seq(SUBSET ToolShards)
           S == SUBSET ToolShards
<1>1. x \in [kind : {"none", "barrier", "reduce"}, remaining : Int, acc : S, ran : S, done : D, dropped : BOOLEAN]
  BY DEF ToolOp
<1> HIDE DEF D, S
<1>2. LET y == [x EXCEPT !.kind = k] IN
      /\ y \in [kind : {"none", "barrier", "reduce"}, remaining : Int, acc : S, ran : S, done : D, dropped : BOOLEAN]
      /\ y.dropped = x.dropped /\ y.kind = k /\ y.remaining = x.remaining
      /\ y.acc = x.acc /\ y.ran = x.ran /\ y.done = x.done
  BY <1>1 DEF OpKinds
<1> QED BY <1>2 DEF D, S, ToolOp

LEMMA OpBegins ==
  ASSUME ToolInv, NEW o \in Ops, tool.op[o].kind = "none", tool'.op[o].kind \in {"barrier", "reduce"},
         tool'.call.op = o, tool'.call.next = 0,
         tool'.mail = tool.mail, tool'.run = tool.run,
         tool'.op[o].remaining = tool.op[o].remaining, tool'.op[o].acc = tool.op[o].acc,
         tool'.op[o].ran = tool.op[o].ran, tool'.op[o].done = tool.op[o].done,
         tool'.op[o].dropped = tool.op[o].dropped
  PROVE  OpOK(o)' /\ Waiting(o)' = ToolShards
<1>1. /\ Pending(o) = {} /\ tool.op[o].remaining = Size /\ tool.op[o].ran = {} /\ tool.op[o].acc = {}
      /\ tool.op[o].done = << >> /\ ~tool.op[o].dropped
  BY Zenon DEF ToolInv, OpOK
<1>2. Mailed(o)' = {} /\ Busy(o)' = {} /\ Folding(o)' = {}
  <2>1. Mailed(o)' = Mailed(o) /\ Busy(o)' = Busy(o) /\ Folding(o)' = Folding(o)
    <3>1. Mailed(o)' = Mailed(o)
      BY Zenon DEF Mailed
    <3>2. Busy(o)' = Busy(o)
      BY Zenon DEF Busy
    <3>3. Folding(o)' = Folding(o)
      BY <3>2, Zenon DEF Folding
    <3> QED BY <3>1, <3>2, <3>3, Zenon
  <2>2. Mailed(o) = {} /\ Busy(o) = {}
    BY <1>1 DEF Pending, Waiting
  <2>3. Folding(o) = {}
    BY <2>2 DEF Folding
  <2> QED BY <2>1, <2>2, <2>3
<1>3. Unposted(o)' = ToolShards
  BY SizeFacts DEF Unposted
<1>4. Waiting(o)' = ToolShards /\ Pending(o)' = ToolShards
  BY <1>2, <1>3 DEF Pending, Waiting
<1>5. Ran(o)' = {}
  BY <1>4 DEF Ran
<1>6. Counted(o)'
  BY <1>1, <1>4, Zenon DEF Counted, Size
<1>7. Folded(o)'
  BY <1>1, <1>2, <1>4, <1>5 DEF Folded
<1>8. (Unposted(o) \cap Mailed(o) = {} /\ Waiting(o) \cap Busy(o) = {})'
  BY <1>2
<1>9. tool'.op[o].remaining # 0 /\ tool'.op[o].kind # "none"
  BY <1>1, SizeFacts
<1> QED BY <1>1, <1>4, <1>6, <1>7, <1>8, <1>9, Zenon DEF OpOK

LEMMA BeginInv == ASSUME ToolInv, NEW kind \in OpKinds, Begin(kind) PROVE ToolInv'
<1>1. /\ tool \in ToolStates /\ CallOK /\ \A x \in ToolShards : MailOK(x) /\ RunOK(x) /\ FreshOK(x)
      /\ \A o \in Ops : OpOK(o)
  BY Zenon DEF ToolInv
<1>2. PICK c \in ToolCalls, m \in ToolMail, r \in [ToolShards -> ToolRun], v \in [ToolShards -> BOOLEAN],
            n \in Nat, i \in Nat, p \in [Ops -> ToolOp] :
           /\ tool = Tool(c, m, r, v, n, i, p)
           /\ tool.call = c /\ tool.mail = m /\ tool.run = r /\ tool.value = v
           /\ tool.rr = n /\ tool.items = i /\ tool.op = p
  BY <1>1, ToolHas, Zenon
<1>3. PICK o \in Ops : /\ tool.op[o].kind = "none"
                       /\ tool' = [tool EXCEPT !.call = Calling(kind, o), !.op[o].kind = kind]
  BY Zenon DEF Begin, Ops
<1>4. tool.call.kind = "none" /\ tool.call.op = 0
  BY <1>1, Zenon DEF Begin, CallOK, Belongs
<1>5. PICK d \in ToolCalls : d = CallAt(kind, o, 0) /\ d.kind = kind /\ d.op = o /\ d.next = 0
  <2>1. o \in 0 .. MaxOps /\ 0 \in 0 .. Size /\ kind \in {"none", "new", "item", "barrier", "reduce"}
    BY SizeFacts DEF Ops, OpKinds
  <2> QED BY <2>1, CallTyped
<1>6. PICK y \in ToolOp : /\ y = [p[o] EXCEPT !.kind = kind] /\ y.dropped = p[o].dropped /\ y.kind = kind
                          /\ y.remaining = p[o].remaining /\ y.acc = p[o].acc /\ y.ran = p[o].ran
                          /\ y.done = p[o].done
  <2>1. PICK x \in ToolOp : x = p[o]
    OBVIOUS
  <2>2. PICK y : y = [x EXCEPT !.kind = kind]
    BY Zenon
  <2>3. /\ y \in ToolOp /\ y.dropped = x.dropped /\ y.kind = kind /\ y.remaining = x.remaining
        /\ y.acc = x.acc /\ y.ran = x.ran /\ y.done = x.done
    BY <2>2, SetKind, Zenon
  <2> QED BY <2>1, <2>2, <2>3, Zenon
<1>7. PICK w \in [Ops -> ToolOp] : w = [p EXCEPT ![o] = y] /\ w[o] = y /\ \A q \in Ops \ {o} : w[q] = p[q]
  <2>1. PICK w \in [Ops -> ToolOp] : w = [p EXCEPT ![o] = y] /\ Edits(w, p, o, y)
    BY OpEdit, Zenon
  <2> QED BY <2>1, Zenon DEF Edits
<1>8. tool' = Tool(d, m, r, v, n, i, w)
  <2>1. PICK u : u = WithCall(tool, d)
    BY Zenon
  <2>2. u = Tool(d, m, r, v, n, i, p) /\ u.op = p
    <3>1. u = WithCall(tool, d) /\ tool = Tool(c, m, r, v, n, i, p)
      BY <1>2, <2>1
    <3> QED BY <3>1 DEF Tool, WithCall
  <2>3. tool' = [u EXCEPT !.op[o].kind = kind]
    BY <1>3, <1>5, <2>1, Zenon DEF WithCall, Calling, CallAt
  <2>4. tool' = WithOp(u, w)
    BY <1>6, <1>7, <2>2, <2>3, Zenon DEF WithOp
  <2> QED BY <2>2, <2>4 DEF Tool, WithOp
<1>9. /\ (tool \in ToolStates)' /\ tool'.call = d /\ tool'.mail = m /\ tool'.run = r /\ tool'.value = v
      /\ tool'.op = w
  <2>1. ToolBecomes(d, m, r, v, n, i, w)
    BY <1>8, Zenon DEF ToolBecomes
  <2> QED BY <2>1, ToolStep, Zenon
<1>10. /\ tool'.call.kind = kind /\ tool'.call.op = o /\ tool'.call.next = 0
       /\ tool'.mail = tool.mail /\ tool'.run = tool.run /\ tool'.value = tool.value
       /\ \A q \in Ops \ {o} : tool'.op[q] = tool.op[q]
  <2>1. /\ tool'.call = d /\ tool'.mail = tool.mail /\ tool'.run = tool.run /\ tool'.value = tool.value
    BY <1>2, <1>9, Zenon
  <2>2. \A q \in Ops \ {o} : tool'.op[q] = tool.op[q]
    BY <1>2, <1>7, <1>9, Zenon
  <2> QED BY <1>5, <2>1, <2>2, Zenon
<1>11. /\ tool'.op[o].kind = kind /\ tool'.op[o].remaining = tool.op[o].remaining
       /\ tool'.op[o].acc = tool.op[o].acc /\ tool'.op[o].ran = tool.op[o].ran
       /\ tool'.op[o].done = tool.op[o].done /\ tool'.op[o].dropped = tool.op[o].dropped
  <2>1. tool'.op[o] = y /\ tool.op[o] = p[o]
    BY <1>2, <1>7, <1>9, Zenon
  <2> QED BY <1>6, <2>1, Zenon
<1>12. OpOK(o)' /\ Waiting(o)' = ToolShards
  BY <1>3, <1>10, <1>11, OpBegins, Zenon DEF OpKinds
<1>13. ASSUME NEW q \in Ops \ {o}
       PROVE  /\ Unposted(q)' = {} /\ Unposted(q) = {} /\ Mailed(q)' = Mailed(q) /\ Busy(q)' = Busy(q)
              /\ Folding(q)' = Folding(q)
  <2>1. q # 0
    BY SizeFacts
  <2>2. Mailed(q)' = Mailed(q) /\ Busy(q)' = Busy(q) /\ Folding(q)' = Folding(q)
    BY <1>10, Zenon DEF Mailed, Busy, Folding
  <2> QED BY <1>4, <1>10, <2>1, <2>2 DEF Unposted
<1>14. ASSUME NEW q \in Ops \ {o} PROVE OpOK(q)' /\ Waiting(q)' = Waiting(q)
  <2>1. OpOK(q) /\ Waiting(q)' = Waiting(q)
    BY <1>1, <1>13, Zenon DEF Waiting
  <2>2. Unposted(q)' \cap Mailed(q)' = {}
    BY <1>13
  <2>3. q \in Ops /\ tool'.op[q] = tool.op[q] /\ \A x \in ToolShards : tool'.value[x] = tool.value[x]
    BY <1>10, Zenon
  <2> QED BY <1>13, <2>1, <2>2, <2>3, OpFrame, Zenon
<1>15. OwnersKept
  <2>1. \A k, q : Belongs(tool.op, k, q) => Belongs(tool'.op, k, q)
    BY <1>3, <1>10 DEF Belongs
  <2> QED BY <2>1, Zenon DEF OwnersKept, Owned
<1>16. CallOK'
  BY <1>10, <1>11 DEF CallOK, Belongs, OpKinds
<1>17. ASSUME NEW x \in ToolShards PROVE MailOK(x)' /\ RunOK(x)' /\ FreshOK(x)'
  <2>1. MailOK(x)' /\ RunOK(x)'
    BY <1>1, <1>10, <1>15, MailFrame, RunFrame, Zenon
  <2>2. Fresh(x)' => Fresh(x)
    BY <1>10, Zenon DEF Fresh, OpKinds
  <2>3. ASSUME NEW q \in Ops
        PROVE  /\ tool.op[q].kind = "none" => tool'.op[q].kind = "none" \/ x \in Waiting(q)'
               /\ x \in Waiting(q) => x \in Waiting(q)' \/ tool'.op[q].dropped
               /\ tool.op[q].dropped => tool'.op[q].dropped
    <3>1. CASE q = o
      BY <1>11, <1>12, <3>1
    <3>2. CASE q # o
      BY <1>10, <1>14, <3>2
    <3> QED BY <3>1, <3>2
  <2> QED BY <1>1, <2>1, <2>2, <2>3, FreshFrame, Zenon
<1> QED
  <2>1. \A q \in Ops : OpOK(q)'
    BY <1>12, <1>14
  <2> QED BY <1>9, <1>16, <1>17, <2>1, Zenon DEF ToolInv

-----------------------------------------------------------------------------
(* ShardTools: the steps of a shard *)

\* Of a set and a number, and of what done is called with.
LEMMA SameSet == ASSUME NEW X, NEW s PROVE (s \notin X => X \ {s} = X) /\ (s \in X => X \cup {s} = X)
OBVIOUS

LEMMA OneFewer ==
  ASSUME NEW a \in Int, NEW b \in Nat, a > 0
  PROVE  a # 0 /\ (a - 1 = 0 <=> a = 1) /\ (a > b => a - 1 > b - 1) /\ (a = b => a - 1 = b - 1)
OBVIOUS

LEMMA SomeLeft ==
  ASSUME NEW a \in Int, NEW b \in Nat, b > 0, a > b \/ a = b
  PROVE  a > 0 /\ a # 0
OBVIOUS

LEMMA OneCall == ASSUME NEW x PROVE Append(<< >>, x) = <<x>>
OBVIOUS

\* A step of shard s: what it has to keep of its own, and of the operations.
LEMMA ShardMoves ==
  ASSUME ToolInv, NEW s \in ToolShards, (tool \in ToolStates)', tool'.call = tool.call,
         \A q \in Ops : /\ tool'.op[q].kind = tool.op[q].kind
                        /\ tool.op[q].dropped => tool'.op[q].dropped,
         \A q \in Ops : OpOK(q)',
         \A x \in ToolShards \ {s} : tool'.mail[x] = tool.mail[x] /\ tool'.run[x] = tool.run[x],
         tool'.mail[s] = tool.mail[s] \/ (~Makes(tool'.mail[s]) /\ tool.mail[s] # << >>),
         MailOK(s)', RunOK(s)'
  PROVE  ToolInv'
<1>1. /\ tool \in ToolStates /\ CallOK /\ \A x \in ToolShards : MailOK(x) /\ RunOK(x) /\ FreshOK(x)
  BY Zenon DEF ToolInv
<1>2. OwnersKept
  BY KindsKept, Zenon
<1>3. CallOK'
  <2>1. Belongs(tool'.op, tool'.call.kind, tool'.call.op)
    BY <1>1, <1>2, Zenon DEF CallOK, OwnersKept
  <2>2. ASSUME tool'.call.kind = "new", NEW x \in ToolShards, tool'.call.next <= x PROVE tool'.mail[x] = << >>
    <3>1. tool.mail[x] = << >>
      BY <1>1, <2>2, Zenon DEF CallOK
    <3> QED BY <3>1
  <2>3. tool'.call.kind = "new" => \A o \in Ops : tool'.op[o].kind = "none"
    BY <1>1, Zenon DEF CallOK
  <2> QED BY <2>1, <2>2, <2>3, Zenon DEF CallOK
<1>4. ASSUME NEW x \in ToolShards, x # s PROVE MailOK(x)' /\ RunOK(x)'
  BY <1>1, <1>2, <1>4, MailFrame, RunFrame, Zenon
<1>5. ASSUME NEW x \in ToolShards, tool'.mail[x] = tool.mail[x] PROVE FreshOK(x)'
  <2>1. Fresh(x)' => Fresh(x)
    BY <1>5, Zenon DEF Fresh
  <2>2. ASSUME NEW q \in Ops PROVE x \in Waiting(q) => x \in Waiting(q)'
    BY <1>5 DEF Waiting, Unposted, Mailed
  <2> QED BY <1>1, <2>1, <2>2, FreshFrame, Zenon
<1>6. ASSUME ~Makes(tool'.mail[s]), tool.mail[s] # << >> PROVE FreshOK(s)'
  <2>1. ~Fresh(s)'
    BY <1>1, <1>6, Zenon DEF Fresh, CallOK
  <2> QED BY <2>1, Zenon DEF FreshOK
<1>7. ASSUME NEW x \in ToolShards PROVE MailOK(x)' /\ RunOK(x)' /\ FreshOK(x)'
  <2>1. CASE x = s
    BY <1>5, <1>6, <2>1
  <2>2. CASE x # s
    BY <1>4, <1>5, <2>2
  <2> QED BY <2>1, <2>2
<1> QED BY <1>3, <1>7, Zenon DEF ToolInv

\* An operation the step of a shard is not of.
LEMMA OpOther ==
  ASSUME ToolInv, NEW q \in Ops, tool'.call = tool.call, tool'.op[q] = tool.op[q],
         Mailed(q)' = Mailed(q), Busy(q)' = Busy(q), Folding(q)' = Folding(q),
         \A x \in ToolShards : \/ tool'.value[x] = tool.value[x] \/ x \in Waiting(q)
                               \/ tool.op[q].kind = "none" \/ tool.op[q].dropped
  PROVE  OpOK(q)'
<1>1. OpOK(q)
  BY Zenon DEF ToolInv
<1>2. Unposted(q)' = Unposted(q)
  BY Zenon DEF Unposted
<1>3. Waiting(q)' = Waiting(q)
  BY <1>2, Zenon DEF Waiting
<1>4. (Unposted(q) \cap Mailed(q) = {})'
  BY <1>1, <1>2, Zenon DEF OpOK
<1> QED BY <1>1, <1>3, <1>4, OpFrame, Zenon

\* A task of no operation: it makes the value, or it is an item.
LEMMA RunPlain ==
  ASSUME ToolInv, NEW s \in ToolShards, (tool \in ToolStates)', tool'.call = tool.call,
         tool.mail[s] # << >>, Head(tool.mail[s]).op = 0,
         tool'.mail = [tool.mail EXCEPT ![s] = Tail(tool.mail[s])], tool'.run = tool.run, tool'.op = tool.op,
         \A x \in ToolShards \ {s} : tool'.value[x] = tool.value[x],
         tool'.value[s] = tool.value[s] \/ Head(tool.mail[s]).kind = "new"
  PROVE  ToolInv'
<1>1. tool \in ToolStates /\ MailOK(s) /\ RunOK(s) /\ FreshOK(s)
  BY Zenon DEF ToolInv
<1>2. tool.mail \in ToolMail /\ OwnersKept
  BY <1>1, ToolShape, KindsKept, Zenon
<1>3. PICK k : k = Head(tool.mail[s])
  BY Zenon
<1>4. /\ \A o \in Ops : Mailed(o)' = IF o = k.op THEN Mailed(o) \ {s} ELSE Mailed(o)
      /\ k.kind = "new" => Makes(tool.mail[s])
      /\ ~Makes(tool'.mail[s]) /\ MailOK(s)'
      /\ \A x \in ToolShards \ {s} : tool'.mail[x] = tool.mail[x]
  BY <1>1, <1>2, <1>3, MailTake, Zenon
<1>5. ASSUME NEW q \in Ops PROVE OpOK(q)'
  <2>1. q # k.op
    BY <1>3, SizeFacts
  <2>2. Mailed(q)' = Mailed(q)
    BY <1>4, <2>1, Zenon
  <2>3. Busy(q)' = Busy(q) /\ Folding(q)' = Folding(q)
    BY Zenon DEF Busy, Folding
  <2>4. ASSUME NEW x \in ToolShards
        PROVE  \/ tool'.value[x] = tool.value[x] \/ x \in Waiting(q)
               \/ tool.op[q].kind = "none" \/ tool.op[q].dropped
    <3>1. CASE x # s \/ tool'.value[s] = tool.value[s]
      BY <3>1
    <3>2. CASE x = s /\ k.kind = "new"
      BY <1>1, <1>4, <3>2, Zenon DEF FreshOK, Fresh
    <3> QED BY <1>3, <3>1, <3>2
  <2> QED BY <2>2, <2>3, <2>4, OpOther, Zenon
<1>6. RunOK(s)'
  BY <1>1, <1>2, RunFrame, Zenon
<1> QED BY <1>4, <1>5, <1>6, ShardMoves, Zenon

\* The task of an operation: the shard has run, unless it is a reduction and there is no value.
RunsOp(s, k, o, r) ==
  /\ tool'.call = tool.call
  /\ tool.run[s].pc = "idle"
  /\ tool.mail[s] # << >>
  /\ k = Head(tool.mail[s])
  /\ o = k.op
  /\ tool'.mail = [tool.mail EXCEPT ![s] = Tail(tool.mail[s])]
  /\ tool'.run = [tool.run EXCEPT ![s] = r]
  /\ r.task = k
  /\ r.pc = IF k.kind = "reduce" /\ tool.value[s] THEN "load" ELSE "count"
  /\ tool'.value = tool.value
  /\ (\A q \in Ops \ {o} : tool'.op[q] = tool.op[q])
  /\ tool'.op[o].ran = IF k.kind = "barrier" \/ tool.value[s] THEN tool.op[o].ran \cup {s} ELSE tool.op[o].ran
  /\ tool'.op[o].kind = tool.op[o].kind
  /\ tool'.op[o].dropped = tool.op[o].dropped
  /\ tool'.op[o].remaining = tool.op[o].remaining
  /\ tool'.op[o].acc = tool.op[o].acc
  /\ tool'.op[o].done = tool.op[o].done

LEMMA RunOp ==
  ASSUME ToolInv, (tool \in ToolStates)', NEW s \in ToolShards, NEW k, NEW o \in Ops, NEW r \in ToolRun,
         RunsOp(s, k, o, r)
  PROVE  ToolInv'
<1>h. /\ tool.run[s].pc = "idle" /\ tool.mail[s] # << >> /\ k = Head(tool.mail[s]) /\ o = k.op
      /\ tool'.mail = [tool.mail EXCEPT ![s] = Tail(tool.mail[s])]
  BY Zenon DEF RunsOp
<1>r. /\ tool'.run = [tool.run EXCEPT ![s] = r] /\ r.task = k /\ r.task.op = o
      /\ r.pc = IF k.kind = "reduce" /\ tool.value[s] THEN "load" ELSE "count"
  BY Zenon DEF RunsOp
<1>o. /\ tool'.op[o].kind = tool.op[o].kind /\ tool'.op[o].dropped = tool.op[o].dropped
      /\ tool'.op[o].remaining = tool.op[o].remaining /\ tool'.op[o].acc = tool.op[o].acc
      /\ tool'.op[o].done = tool.op[o].done
  BY Zenon DEF RunsOp
<1>n. tool'.op[o].ran = IF k.kind = "barrier" \/ tool.value[s] THEN tool.op[o].ran \cup {s} ELSE tool.op[o].ran
  BY Zenon DEF RunsOp
<1>c. tool'.call = tool.call /\ tool'.value = tool.value /\ \A q \in Ops \ {o} : tool'.op[q] = tool.op[q]
  BY Zenon DEF RunsOp
<1>1. tool \in ToolStates /\ MailOK(s) /\ RunOK(s) /\ OpOK(o)
  BY Zenon DEF ToolInv
<1>k. \A q \in Ops : tool'.op[q].kind = tool.op[q].kind /\ tool'.op[q].dropped = tool.op[q].dropped
  BY <1>c, <1>o, Zenon
<1>2. tool.mail \in ToolMail /\ tool.run \in [ToolShards -> ToolRun] /\ OwnersKept
  BY <1>1, <1>k, ToolShape, KindsKept, Zenon
<1>3. /\ \A q \in Ops : Mailed(q)' = IF q = o THEN Mailed(q) \ {s} ELSE Mailed(q)
      /\ s \in Mailed(o) /\ Belongs(tool.op, k.kind, o) /\ k \in ToolTasks
      /\ ~Makes(tool'.mail[s]) /\ MailOK(s)'
      /\ \A x \in ToolShards \ {s} : tool'.mail[x] = tool.mail[x]
  <2>1. /\ \A q \in Ops : Mailed(q)' = IF q = Head(tool.mail[s]).op THEN Mailed(q) \ {s} ELSE Mailed(q)
        /\ s \in Mailed(Head(tool.mail[s]).op) /\ Head(tool.mail[s]) \in ToolTasks
        /\ Belongs(tool.op, Head(tool.mail[s]).kind, Head(tool.mail[s]).op)
        /\ ~Makes(tool'.mail[s]) /\ (OwnersKept => MailOK(s)')
        /\ \A x \in ToolShards \ {s} : tool'.mail[x] = tool.mail[x]
    BY <1>1, <1>2, <1>h, MailTake, Zenon
  <2> QED BY <1>2, <1>h, <2>1, Zenon
<1>4. /\ \A q : /\ Busy(q)' = IF q = o THEN Busy(q) \cup {s} ELSE Busy(q) \ {s}
                /\ Folding(q)' = IF q = o /\ r.pc \in {"load", "fold"} THEN Folding(q) \cup {s}
                                 ELSE Folding(q) \ {s}
      /\ tool'.run[s] = r /\ \A x \in ToolShards \ {s} : tool'.run[x] = tool.run[x]
  <2>1. /\ \A q : /\ Busy(q)' = IF q = r.task.op THEN Busy(q) \cup {s} ELSE Busy(q) \ {s}
                  /\ Folding(q)' = IF q = r.task.op /\ r.pc \in {"load", "fold"} THEN Folding(q) \cup {s}
                                   ELSE Folding(q) \ {s}
        /\ tool'.run[s] = r /\ \A x \in ToolShards \ {s} : tool'.run[x] = tool.run[x]
    BY <1>2, <1>r, BusySet, Zenon
  <2> QED BY <1>r, <2>1, Zenon
<1>5. o # 0 /\ k.kind \in {"barrier", "reduce"} /\ tool.op[o].kind = k.kind
  <2>1. o # 0
    BY SizeFacts
  <2> QED BY <1>3, <2>1, Zenon DEF Belongs
<1>6. ASSUME NEW q \in Ops PROVE s \notin Busy(q) /\ s \notin Folding(q)
  BY <1>1, <1>h, SizeFacts DEF RunOK, Busy, Folding
<1>7. ASSUME NEW q \in Ops \ {o} PROVE OpOK(q)'
  <2>1. Mailed(q)' = Mailed(q)
    BY <1>3, Zenon
  <2>2. Busy(q)' = Busy(q) \ {s} /\ Folding(q)' = Folding(q) \ {s}
    BY <1>4, Zenon
  <2>3. Busy(q)' = Busy(q) /\ Folding(q)' = Folding(q)
    BY <1>6, <2>2, SameSet, Zenon
  <2> QED BY <1>c, <2>1, <2>3, OpOther, Zenon
<1>8. OpOK(o)'
  <2>1. /\ Unposted(o) \cap Mailed(o) = {} /\ Waiting(o) \cap Busy(o) = {} /\ Counted(o) /\ Folded(o)
        /\ tool.op[o].remaining # 0 => tool.op[o].done = << >>
        /\ tool.op[o].remaining = 0 => tool.op[o].done = <<tool.op[o].acc>>
    <3>1. tool.op[o].kind # "none"
      BY <1>5, Zenon
    <3> QED BY <1>1, <3>1, Zenon DEF OpOK
  <2>2. Unposted(o)' = Unposted(o) /\ Mailed(o)' = Mailed(o) \ {s}
    BY <1>3, <1>c, Zenon DEF Unposted
  <2>3. Waiting(o)' = Waiting(o) \ {s} /\ s \in Waiting(o)
    BY <1>3, <2>1, <2>2 DEF Waiting
  <2>4. Busy(o)' = Busy(o) \cup {s}
    BY <1>4, Zenon
  <2>5. Pending(o)' = Pending(o)
    BY <2>3, <2>4, Zenon DEF Pending
  <2>6. Counted(o)'
    BY <1>o, <2>1, <2>5, Zenon DEF Counted
  <2>7. s \notin tool.op[o].ran
    BY <2>1, <2>3 DEF Folded
  <2>8. (tool.op[o].ran \cap Waiting(o) = {})'
    BY <1>n, <2>1, <2>3 DEF Folded
  <2>9. Ran(o)' = IF k.kind = "barrier" \/ tool.value[s] THEN Ran(o) \cup {s} ELSE Ran(o)
    BY <1>5, <1>c, <1>o, <2>3 DEF Ran
  <2>10. (~tool.op[o].dropped => tool.op[o].ran = Ran(o))'
    BY <1>n, <1>o, <2>1, <2>9, Zenon DEF Folded
  <2>11. ASSUME tool.op[o].kind = "reduce"
         PROVE  (Folding(o) \subseteq tool.op[o].ran /\ tool.op[o].acc = tool.op[o].ran \ Folding(o))'
    <3>1. Folding(o) \subseteq tool.op[o].ran /\ tool.op[o].acc = tool.op[o].ran \ Folding(o)
      BY <2>1, <2>11, Zenon DEF Folded
    <3>2. CASE tool.value[s]
      <4>1. Folding(o)' = Folding(o) \cup {s} /\ tool'.op[o].ran = tool.op[o].ran \cup {s}
        BY <1>4, <1>5, <1>n, <1>r, <2>11, <3>2
      <4> QED BY <1>o, <2>7, <3>1, <4>1
    <3>3. CASE ~tool.value[s]
      <4>1. Folding(o)' = Folding(o) \ {s} /\ tool'.op[o].ran = tool.op[o].ran
        BY <1>4, <1>5, <1>n, <1>r, <2>11, <3>3
      <4> QED BY <1>6, <1>o, <3>1, <4>1
    <3> QED BY <3>2, <3>3, Zenon
  <2>12. Folded(o)'
    BY <1>k, <2>8, <2>10, <2>11, Zenon DEF Folded
  <2>13. (Unposted(o) \cap Mailed(o) = {} /\ Waiting(o) \cap Busy(o) = {})'
    <3>1. Unposted(o)' \cap Mailed(o)' = {}
      BY <2>1, <2>2, Zenon
    <3>2. Waiting(o)' \cap Busy(o)' = {}
      BY <2>1, <2>3, <2>4
    <3> QED BY <3>1, <3>2, Zenon
  <2>14. tool'.op[o].kind # "none"
    BY <1>5, <1>o, Zenon
  <2> QED BY <1>o, <2>1, <2>6, <2>12, <2>13, <2>14, Zenon DEF OpOK
<1>9. RunOK(s)'
  <2>1. Belongs(tool'.op, k.kind, o)
    BY <1>2, <1>3, Zenon DEF OwnersKept
  <2>2. r.pc # "idle" /\ (r.pc \in {"load", "fold"} => k.kind = "reduce")
    BY <1>r
  <2> QED BY <1>4, <1>5, <1>r, <2>1, <2>2, Zenon DEF RunOK
<1>10. \A q \in Ops : OpOK(q)'
  BY <1>7, <1>8, Zenon
<1>11. \A x \in ToolShards \ {s} : tool'.mail[x] = tool.mail[x] /\ tool'.run[x] = tool.run[x]
  BY <1>3, <1>4, Zenon
<1> QED BY <1>h, <1>c, <1>k, <1>3, <1>9, <1>10, <1>11, ShardMoves, Zenon

\* The task of an operation is shed: it will not be counted.
LEMMA ShedOp ==
  ASSUME Counting, ToolInv, (tool \in ToolStates)', NEW s \in ToolShards, NEW o \in Ops,
         tool.mail[s] # << >>, o = Head(tool.mail[s]).op, tool'.call = tool.call,
         tool'.mail = [tool.mail EXCEPT ![s] = Tail(tool.mail[s])], tool'.run = tool.run,
         tool'.value = tool.value, \A q \in Ops \ {o} : tool'.op[q] = tool.op[q], MarksDropped(o)
  PROVE  ToolInv'
<1>1. tool \in ToolStates /\ MailOK(s) /\ RunOK(s) /\ OpOK(o)
  BY Zenon DEF ToolInv
<1>2. \A q \in Ops : tool'.op[q].kind = tool.op[q].kind /\ (tool.op[q].dropped => tool'.op[q].dropped)
  BY Zenon DEF MarksDropped
<1>3. tool.mail \in ToolMail /\ tool.op \in [Ops -> ToolOp] /\ OwnersKept
  BY <1>1, <1>2, ToolShape, KindsKept, Zenon
<1>4. PICK k : k = Head(tool.mail[s])
  BY Zenon
<1>5. /\ \A q \in Ops : Mailed(q)' = IF q = o THEN Mailed(q) \ {s} ELSE Mailed(q)
      /\ s \in Mailed(o) /\ Belongs(tool.op, k.kind, o)
      /\ ~Makes(tool'.mail[s]) /\ MailOK(s)'
      /\ \A x \in ToolShards \ {s} : tool'.mail[x] = tool.mail[x]
  BY <1>1, <1>3, <1>4, MailTake, Zenon
<1>6. tool.op[o].kind # "none"
  <2>1. o # 0
    BY SizeFacts
  <2> QED BY <1>5, <2>1 DEF Belongs
<1>7. ASSUME NEW q \in Ops PROVE Busy(q)' = Busy(q) /\ Folding(q)' = Folding(q) /\ Unposted(q)' = Unposted(q)
  BY Zenon DEF Busy, Folding, Unposted
<1>8. ASSUME NEW q \in Ops \ {o} PROVE OpOK(q)'
  <2>1. Mailed(q)' = Mailed(q)
    BY <1>5, Zenon
  <2> QED BY <1>7, <2>1, OpOther, Zenon
<1>9. OpOK(o)'
  <2>1. Unposted(o) \cap Mailed(o) = {} /\ Unposted(o)' = Unposted(o) /\ Mailed(o)' = Mailed(o) \ {s}
    BY <1>1, <1>5, <1>7, Zenon DEF OpOK
  <2>2. Waiting(o)' = Waiting(o) \ {s} /\ s \in Waiting(o)
    BY <1>5, <2>1 DEF Waiting
  <2>3. Unposted(o)' \cap Mailed(o)' = {}
    BY <2>1
  <2> QED BY <1>1, <1>3, <1>6, <1>7, <2>2, <2>3, OpDrops, Zenon
<1>10. RunOK(s)'
  BY <1>1, <1>3, RunFrame, Zenon
<1>11. \A q \in Ops : OpOK(q)'
  BY <1>8, <1>9, Zenon
<1> QED BY <1>2, <1>5, <1>10, <1>11, ShardMoves, Zenon

\* The value of acc that a shard has read changes, and nothing else.
LEMMA RunReads ==
  ASSUME ToolInv, NEW s \in ToolShards, (tool \in ToolStates)', tool'.call = tool.call,
         tool'.mail = tool.mail, tool'.value = tool.value, tool'.op = tool.op,
         NEW r \in ToolRun, tool'.run = [tool.run EXCEPT ![s] = r], r.task = tool.run[s].task,
         tool.run[s].pc \in {"load", "fold"}, r.pc = "fold"
  PROVE  ToolInv'
<1>1. tool \in ToolStates /\ MailOK(s) /\ RunOK(s)
  BY Zenon DEF ToolInv
<1>2. tool.run \in [ToolShards -> ToolRun] /\ OwnersKept
  BY <1>1, ToolShape, KindsKept, Zenon
<1>3. /\ \A q : /\ Busy(q)' = IF q = r.task.op THEN Busy(q) \cup {s} ELSE Busy(q) \ {s}
                /\ Folding(q)' = IF q = r.task.op /\ r.pc \in {"load", "fold"} THEN Folding(q) \cup {s}
                                 ELSE Folding(q) \ {s}
      /\ tool'.run[s] = r /\ \A x \in ToolShards \ {s} : tool'.run[x] = tool.run[x]
  BY <1>2, BusySet, Zenon
<1>4. ASSUME NEW q \in Ops PROVE OpOK(q)'
  <2>1. IF q = r.task.op THEN s \in Busy(q) /\ s \in Folding(q) ELSE s \notin Busy(q) /\ s \notin Folding(q)
    BY DEF Busy, Folding
  <2>2. Busy(q)' = IF q = r.task.op THEN Busy(q) \cup {s} ELSE Busy(q) \ {s}
    BY <1>3, Zenon
  <2>3. Folding(q)' = IF q = r.task.op THEN Folding(q) \cup {s} ELSE Folding(q) \ {s}
    BY <1>3
  <2>4. Busy(q)' = Busy(q) /\ Folding(q)' = Folding(q)
    BY <2>1, <2>2, <2>3
  <2>5. Mailed(q)' = Mailed(q)
    BY Zenon DEF Mailed
  <2> QED BY <2>4, <2>5, OpOther, Zenon
<1>5. MailOK(s)'
  BY <1>1, <1>2, MailFrame, Zenon
<1>6. RunOK(s)'
  <2>1. r.task.op # 0 /\ r.task.kind = "reduce" /\ Belongs(tool.op, r.task.kind, r.task.op)
    BY <1>1 DEF RunOK
  <2> QED BY <1>3, <2>1 DEF RunOK
<1> QED BY <1>3, <1>4, <1>5, <1>6, ShardMoves, Zenon

\* The operation of a task that is under way, and what is left to count of it.
UnderwayIn(s, o) ==
  /\ o \in Ops /\ o # 0 /\ tool.op[o].kind = tool.run[s].task.kind /\ tool.op[o].kind # "none"
  /\ s \in Busy(o) /\ s \notin Waiting(o) /\ s \in Pending(o)
  /\ \A q : q # o => s \notin Busy(q) /\ s \notin Folding(q)
  /\ (s \in Folding(o) <=> tool.run[s].pc \in {"load", "fold"})
  /\ tool.op[o] \in ToolOp /\ tool.op[o].remaining \in Int
  /\ Cardinality(Pending(o)) \in Nat /\ Cardinality(Pending(o)) > 0
  /\ Cardinality(Pending(o) \ {s}) = Cardinality(Pending(o)) - 1
  /\ tool.op[o].remaining > 0 /\ tool.op[o].done = << >>

LEMMA TaskUnderway ==
  ASSUME Counting, ToolInv, NEW s \in ToolShards, tool.run[s].pc # "idle", NEW o, o = tool.run[s].task.op
  PROVE  UnderwayIn(s, o)
<1>1. tool \in ToolStates /\ RunOK(s) /\ \A q \in Ops : OpOK(q)
  BY Zenon DEF ToolInv
<1>2. o \in Ops /\ o # 0 /\ tool.op[o].kind = tool.run[s].task.kind /\ tool.op[o].kind \in {"barrier", "reduce"}
  BY <1>1 DEF RunOK, Belongs
<1>3. s \in Busy(o) /\ (s \in Folding(o) <=> tool.run[s].pc \in {"load", "fold"})
  BY DEF Busy, Folding
<1>4. ASSUME NEW q, q # o PROVE s \notin Busy(q) /\ s \notin Folding(q)
  BY <1>4, Zenon DEF Busy, Folding
<1>5. /\ Waiting(o) \cap Busy(o) = {} /\ Counted(o)
      /\ tool.op[o].remaining # 0 => tool.op[o].done = << >>
  <2>1. tool.op[o].kind # "none" /\ OpOK(o)
    BY <1>1, <1>2, Zenon
  <2> QED BY <2>1, Zenon DEF OpOK
<1>6. s \notin Waiting(o) /\ s \in Pending(o)
  BY <1>3, <1>5 DEF Pending
<1>7. tool.op[o] \in ToolOp /\ tool.op[o].remaining \in Int
  <2>1. tool.op \in [Ops -> ToolOp]
    BY <1>1, ToolShape, Zenon
  <2>2. tool.op[o] \in ToolOp
    BY <1>2, <2>1
  <2> QED BY <2>2, OpFacts
<1>8. PICK S \in SUBSET ToolShards : S = Pending(o)
  BY Zenon DEF Pending, Waiting, Busy, Unposted, Mailed
<1>9. Cardinality(S) \in Nat /\ Cardinality(S) > 0 /\ Cardinality(S \ {s}) = Cardinality(S) - 1
  BY <1>6, <1>8, PendingCounts, Zenon
<1>10. tool.op[o].remaining > 0 /\ tool.op[o].remaining # 0
  <2>1. tool.op[o].remaining > Cardinality(S) \/ tool.op[o].remaining = Cardinality(S)
    BY <1>5, <1>8, Zenon DEF Counted
  <2> QED BY <1>7, <1>9, <2>1, SomeLeft, Zenon
<1>11. tool.op[o].done = << >>
  BY <1>5, <1>10, Zenon
<1> QED BY <1>2, <1>3, <1>4, <1>6, <1>7, <1>8, <1>9, <1>10, <1>11, Zenon DEF UnderwayIn

\* The exchange went in: acc has the value of the shard.
Folds(s, o, r) ==
  /\ tool'.call = tool.call
  /\ tool'.mail = tool.mail
  /\ tool'.value = tool.value
  /\ tool.run[s].pc = "fold"
  /\ o = tool.run[s].task.op
  /\ tool'.run = [tool.run EXCEPT ![s] = r]
  /\ r.task = tool.run[s].task
  /\ r.pc = "count"
  /\ (\A q \in Ops \ {o} : tool'.op[q] = tool.op[q])
  /\ tool'.op[o].acc = tool.op[o].acc \cup {s}
  /\ tool'.op[o].kind = tool.op[o].kind
  /\ tool'.op[o].dropped = tool.op[o].dropped
  /\ tool'.op[o].remaining = tool.op[o].remaining
  /\ tool'.op[o].ran = tool.op[o].ran
  /\ tool'.op[o].done = tool.op[o].done

LEMMA FoldsIn ==
  ASSUME Counting, ToolInv, (tool \in ToolStates)',
         NEW s \in ToolShards, NEW o, NEW r \in ToolRun, Folds(s, o, r)
  PROVE  ToolInv'
<1>h. tool.run[s].pc = "fold" /\ o = tool.run[s].task.op
  BY Zenon DEF Folds
<1>r. tool'.run = [tool.run EXCEPT ![s] = r] /\ r.task = tool.run[s].task /\ r.task.op = o /\ r.pc = "count"
  BY Zenon DEF Folds
<1>o. /\ tool'.op[o].kind = tool.op[o].kind /\ tool'.op[o].dropped = tool.op[o].dropped
      /\ tool'.op[o].remaining = tool.op[o].remaining /\ tool'.op[o].ran = tool.op[o].ran
      /\ tool'.op[o].done = tool.op[o].done /\ tool'.op[o].acc = tool.op[o].acc \cup {s}
  BY Zenon DEF Folds
<1>c. /\ tool'.call = tool.call /\ tool'.value = tool.value /\ tool'.mail = tool.mail
      /\ \A q \in Ops \ {o} : tool'.op[q] = tool.op[q]
  BY Zenon DEF Folds
<1>1. tool \in ToolStates /\ MailOK(s) /\ RunOK(s)
  BY Zenon DEF ToolInv
<1>2. /\ o \in Ops /\ o # 0 /\ tool.op[o].kind = tool.run[s].task.kind /\ tool.op[o].kind # "none"
      /\ s \in Busy(o) /\ s \in Folding(o) /\ tool.op[o].remaining > 0 /\ tool.op[o].remaining \in Int
      /\ tool.op[o].done = << >> /\ \A q : q # o => s \notin Busy(q) /\ s \notin Folding(q)
  <2>1. tool.run[s].pc # "idle" /\ tool.run[s].pc \in {"load", "fold"}
    BY <1>h, Zenon
  <2>2. UnderwayIn(s, o)
    BY <1>h, <2>1, TaskUnderway, Zenon
  <2> QED BY <2>1, <2>2, Zenon DEF UnderwayIn
<1>k. \A q \in Ops : tool'.op[q].kind = tool.op[q].kind /\ tool'.op[q].dropped = tool.op[q].dropped
  BY <1>c, <1>o, Zenon
<1>3. tool.run \in [ToolShards -> ToolRun] /\ OwnersKept
  BY <1>1, <1>k, ToolShape, KindsKept, Zenon
<1>4. /\ \A q : /\ Busy(q)' = IF q = r.task.op THEN Busy(q) \cup {s} ELSE Busy(q) \ {s}
                /\ Folding(q)' = IF q = r.task.op /\ r.pc \in {"load", "fold"} THEN Folding(q) \cup {s}
                                 ELSE Folding(q) \ {s}
      /\ tool'.run[s] = r /\ \A x \in ToolShards \ {s} : tool'.run[x] = tool.run[x]
  BY <1>3, <1>r, BusySet, Zenon
<1>5. ASSUME NEW q PROVE Busy(q)' = Busy(q) /\ Folding(q)' = Folding(q) \ {s} /\ Mailed(q)' = Mailed(q)
  <2>1. Busy(q)' = IF q = o THEN Busy(q) \cup {s} ELSE Busy(q) \ {s}
    BY <1>4, <1>r, Zenon
  <2>2. Folding(q)' = Folding(q) \ {s}
    BY <1>4, <1>r, Zenon
  <2>3. Busy(q)' = Busy(q)
    <3>1. CASE q = o
      <4>1. s \in Busy(q) /\ Busy(q)' = Busy(q) \cup {s}
        BY <1>2, <2>1, <3>1, Zenon
      <4>2. Busy(q) \cup {s} = Busy(q)
        BY <4>1, SameSet, Zenon
      <4> QED BY <4>1, <4>2, Zenon
    <3>2. CASE q # o
      <4>1. s \notin Busy(q) /\ Busy(q)' = Busy(q) \ {s}
        BY <1>2, <2>1, <3>2, Zenon
      <4>2. Busy(q) \ {s} = Busy(q)
        BY <4>1, SameSet, Zenon
      <4> QED BY <4>1, <4>2, Zenon
    <3> QED BY <3>1, <3>2, Zenon
  <2>4. Mailed(q)' = Mailed(q)
    BY <1>c, Zenon DEF Mailed
  <2> QED BY <2>2, <2>3, <2>4, Zenon
<1>6. ASSUME NEW q \in Ops \ {o} PROVE OpOK(q)'
  <2>1. Folding(q)' = Folding(q)
    <3>1. s \notin Folding(q) /\ Folding(q)' = Folding(q) \ {s}
      BY <1>2, <1>5, Zenon
    <3>2. Folding(q) \ {s} = Folding(q)
      BY <3>1, SameSet, Zenon
    <3> QED BY <3>1, <3>2, Zenon
  <2>2. Busy(q)' = Busy(q) /\ Mailed(q)' = Mailed(q)
    BY <1>5, Zenon
  <2> QED BY <1>c, <2>1, <2>2, OpOther, Zenon
<1>7. OpOK(o)'
  <2>1. Unposted(o) \cap Mailed(o) = {} /\ Waiting(o) \cap Busy(o) = {} /\ Counted(o) /\ Folded(o)
    BY <1>2, Zenon DEF ToolInv, OpOK
  <2>2. Unposted(o)' = Unposted(o) /\ Mailed(o)' = Mailed(o) /\ Busy(o)' = Busy(o)
    BY <1>5, <1>c, Zenon DEF Unposted
  <2>3. Waiting(o)' = Waiting(o) /\ Pending(o)' = Pending(o)
    BY <2>2, Zenon DEF Waiting, Pending
  <2>4. Ran(o)' = Ran(o)
    BY <1>c, <1>o, <2>3, Zenon DEF Ran
  <2>5. Counted(o)'
    BY <1>o, <2>1, <2>3, Zenon DEF Counted
  <2>6. tool.op[o].kind = "reduce"
    BY <1>1, <1>2, <1>h, Zenon DEF RunOK
  <2>7. Folding(o) \subseteq tool.op[o].ran /\ tool.op[o].acc = tool.op[o].ran \ Folding(o)
    BY <2>1, <2>6, Zenon DEF Folded
  <2>8. Folding(o)' = Folding(o) \ {s}
    BY <1>5, Zenon
  <2>9. (Folding(o) \subseteq tool.op[o].ran /\ tool.op[o].acc = tool.op[o].ran \ Folding(o))'
    BY <1>2, <1>o, <2>7, <2>8
  <2>10. (tool.op[o].ran \cap Waiting(o) = {} /\ (~tool.op[o].dropped => tool.op[o].ran = Ran(o)))'
    BY <1>o, <2>1, <2>3, <2>4, Zenon DEF Folded
  <2>11. Folded(o)'
    BY <2>9, <2>10, Zenon DEF Folded
  <2>12. (Unposted(o) \cap Mailed(o) = {} /\ Waiting(o) \cap Busy(o) = {})'
    BY <2>1, <2>2, <2>3, Zenon
  <2>13. tool'.op[o].remaining # 0 /\ tool'.op[o].kind # "none" /\ tool'.op[o].done = << >>
    <3>1. tool.op[o].remaining # 0
      BY <1>2, OneFewer, Zenon
    <3> QED BY <1>2, <1>o, <3>1, Zenon
  <2> QED BY <2>5, <2>11, <2>12, <2>13, Zenon DEF OpOK
<1>8. MailOK(s)'
  BY <1>1, <1>3, <1>c, MailFrame, Zenon
<1>9. RunOK(s)'
  <2>1. Belongs(tool'.op, r.task.kind, r.task.op)
    BY <1>1, <1>3, <1>r, Zenon DEF RunOK, OwnersKept
  <2>2. r.task.op # 0 /\ r.pc # "idle" /\ r.pc \notin {"load", "fold"}
    BY <1>2, <1>r, Zenon
  <2> QED BY <1>4, <2>1, <2>2, Zenon DEF RunOK
<1>10. \A q \in Ops : OpOK(q)'
  BY <1>6, <1>7, Zenon
<1>11. \A x \in ToolShards \ {s} : tool'.mail[x] = tool.mail[x] /\ tool'.run[x] = tool.run[x]
  BY <1>4, <1>c, Zenon
<1> QED BY <1>c, <1>k, <1>8, <1>9, <1>10, <1>11, ShardMoves, Zenon

\* A shard counts: one fewer is left, and with the last of them done is called.
Counts(s, o, r) ==
  /\ tool'.call = tool.call
  /\ tool'.mail = tool.mail
  /\ tool'.value = tool.value
  /\ tool.run[s].pc = "count"
  /\ o = tool.run[s].task.op
  /\ tool'.run = [tool.run EXCEPT ![s] = r]
  /\ r = Resting
  /\ (\A q \in Ops \ {o} : tool'.op[q] = tool.op[q])
  /\ tool'.op[o].acc = tool.op[o].acc
  /\ tool'.op[o].kind = tool.op[o].kind
  /\ tool'.op[o].dropped = tool.op[o].dropped
  /\ tool'.op[o].remaining = tool.op[o].remaining - 1
  /\ tool'.op[o].ran = tool.op[o].ran
  /\ tool'.op[o].done = IF tool.op[o].remaining = 1 THEN Append(tool.op[o].done, tool.op[o].acc) ELSE tool.op[o].done

LEMMA CountsDown ==
  ASSUME Counting, ToolInv, (tool \in ToolStates)',
         NEW s \in ToolShards, NEW o, NEW r \in ToolRun, Counts(s, o, r)
  PROVE  ToolInv'
<1>h. tool.run[s].pc = "count" /\ o = tool.run[s].task.op
  BY Zenon DEF Counts
<1>r. tool'.run = [tool.run EXCEPT ![s] = r]
  BY Zenon DEF Counts
<1>i. r = Resting
  BY Zenon DEF Counts
<1>o. /\ tool'.op[o].kind = tool.op[o].kind /\ tool'.op[o].dropped = tool.op[o].dropped
      /\ tool'.op[o].ran = tool.op[o].ran /\ tool'.op[o].acc = tool.op[o].acc
  BY Zenon DEF Counts
<1>d. /\ tool'.op[o].remaining = tool.op[o].remaining - 1
      /\ tool'.op[o].done = IF tool.op[o].remaining = 1 THEN Append(tool.op[o].done, tool.op[o].acc)
                            ELSE tool.op[o].done
  BY Zenon DEF Counts
<1>c. /\ tool'.call = tool.call /\ tool'.value = tool.value /\ tool'.mail = tool.mail
      /\ \A q \in Ops \ {o} : tool'.op[q] = tool.op[q]
  BY Zenon DEF Counts
<1>1. tool \in ToolStates /\ MailOK(s) /\ RunOK(s)
  BY Zenon DEF ToolInv
<1>p. tool.run[s].pc # "idle" /\ tool.run[s].pc \notin {"load", "fold"}
  BY <1>h, Zenon
<1>u. UnderwayIn(s, o)
  BY <1>h, <1>p, TaskUnderway, Zenon
<1>2. /\ o \in Ops /\ o # 0 /\ tool.op[o].kind # "none"
      /\ s \in Busy(o) /\ s \notin Folding(o) /\ s \notin Waiting(o)
      /\ \A q : q # o => s \notin Busy(q) /\ s \notin Folding(q)
  BY <1>p, <1>u, Zenon DEF UnderwayIn
<1>3. /\ tool.op[o].remaining > 0 /\ tool.op[o].remaining \in Int /\ tool.op[o].done = << >>
      /\ Cardinality(Pending(o)) \in Nat /\ Cardinality(Pending(o) \ {s}) = Cardinality(Pending(o)) - 1
  BY <1>u, Zenon DEF UnderwayIn
<1>k. \A q \in Ops : tool'.op[q].kind = tool.op[q].kind /\ tool'.op[q].dropped = tool.op[q].dropped
  BY <1>c, <1>o, Zenon
<1>4. tool.run \in [ToolShards -> ToolRun] /\ OwnersKept
  BY <1>1, <1>k, ToolShape, KindsKept, Zenon
<1>5. r.task.op = 0 /\ r.pc = "idle" /\ r.task.kind = "none"
  <2>1. Resting.task.op = 0 /\ Resting.pc = "idle" /\ Resting.task.kind = "none"
    BY DEF Resting, Task
  <2> QED BY <1>i, <2>1, Zenon
<1>6. /\ \A q : /\ Busy(q)' = IF q = r.task.op THEN Busy(q) \cup {s} ELSE Busy(q) \ {s}
                /\ Folding(q)' = IF q = r.task.op /\ r.pc \in {"load", "fold"} THEN Folding(q) \cup {s}
                                 ELSE Folding(q) \ {s}
      /\ tool'.run[s] = r /\ \A x \in ToolShards \ {s} : tool'.run[x] = tool.run[x]
  BY <1>4, <1>r, BusySet, Zenon
<1>7. ASSUME NEW q \in Ops
      PROVE  Busy(q)' = Busy(q) \ {s} /\ Folding(q)' = Folding(q) /\ Mailed(q)' = Mailed(q)
  <2>1. q # r.task.op
    <3>1. q # 0
      BY SizeFacts
    <3> QED BY <1>5, <3>1, Zenon
  <2>2. Busy(q)' = Busy(q) \ {s} /\ Folding(q)' = Folding(q) \ {s}
    BY <1>5, <1>6, <2>1, Zenon
  <2>3. s \notin Folding(q)
    BY <1>2, Zenon
  <2>4. Folding(q)' = Folding(q)
    BY <2>2, <2>3, SameSet, Zenon
  <2>5. Mailed(q)' = Mailed(q)
    BY <1>c, Zenon DEF Mailed
  <2> QED BY <2>2, <2>4, <2>5, Zenon
<1>8. ASSUME NEW q \in Ops \ {o} PROVE OpOK(q)'
  <2>1. Busy(q)' = Busy(q)
    <3>1. s \notin Busy(q) /\ Busy(q)' = Busy(q) \ {s}
      BY <1>2, <1>7, Zenon
    <3>2. Busy(q) \ {s} = Busy(q)
      BY <3>1, SameSet, Zenon
    <3> QED BY <3>1, <3>2, Zenon
  <2>2. Folding(q)' = Folding(q) /\ Mailed(q)' = Mailed(q)
    BY <1>7, Zenon
  <2> QED BY <1>c, <2>1, <2>2, OpOther, Zenon
<1>9. OpOK(o)'
  <2>1. Unposted(o) \cap Mailed(o) = {} /\ Waiting(o) \cap Busy(o) = {} /\ Counted(o) /\ Folded(o)
    BY <1>2, Zenon DEF ToolInv, OpOK
  <2>2. /\ Unposted(o)' = Unposted(o) /\ Mailed(o)' = Mailed(o) /\ Busy(o)' = Busy(o) \ {s}
        /\ Folding(o)' = Folding(o)
    BY <1>2, <1>7, <1>c, Zenon DEF Unposted
  <2>3. Waiting(o)' = Waiting(o)
    BY <2>2, Zenon DEF Waiting
  <2>4. Pending(o)' = Pending(o) \ {s}
    BY <1>2, <2>2, <2>3, Zenon DEF Pending
  <2>5. Ran(o)' = Ran(o)
    BY <1>c, <1>o, <2>3, Zenon DEF Ran
  <2>6. Cardinality(Pending(o)') = Cardinality(Pending(o)) - 1
    BY <1>3, <2>4, Zenon
  <2>7. Counted(o)'
    <3>1. /\ tool.op[o].dropped => tool.op[o].remaining > Cardinality(Pending(o))
          /\ ~tool.op[o].dropped => tool.op[o].remaining = Cardinality(Pending(o))
      BY <2>1, Zenon DEF Counted
    <3>2. /\ tool.op[o].dropped => tool'.op[o].remaining > Cardinality(Pending(o)')
          /\ ~tool.op[o].dropped => tool'.op[o].remaining = Cardinality(Pending(o)')
      BY <1>3, <1>d, <2>6, <3>1, OneFewer, Zenon
    <3> QED BY <1>o, <3>2, Zenon DEF Counted
  <2>8. Folded(o)'
    BY <1>o, <2>1, <2>2, <2>3, <2>5, Zenon DEF Folded
  <2>9. (Unposted(o) \cap Mailed(o) = {})' /\ Waiting(o)' \cap Busy(o)' = {}
    BY <2>1, <2>2, <2>3
  <2>10. /\ tool'.op[o].remaining # 0 => tool'.op[o].done = << >>
         /\ tool'.op[o].remaining = 0 => tool'.op[o].done = <<tool'.op[o].acc>>
    <3>1. tool'.op[o].remaining = 0 <=> tool.op[o].remaining = 1
      BY <1>3, <1>d, OneFewer, Zenon
    <3>2. Append(<< >>, tool.op[o].acc) = <<tool.op[o].acc>>
      BY OneCall, Zenon
    <3> QED BY <1>3, <1>d, <1>o, <3>1, <3>2, Zenon
  <2> QED BY <1>2, <1>o, <2>7, <2>8, <2>9, <2>10, Zenon DEF OpOK
<1>10. MailOK(s)'
  BY <1>1, <1>4, <1>c, MailFrame, Zenon
<1>11. RunOK(s)'
  BY <1>5, <1>6, Zenon DEF RunOK, Belongs
<1>12. \A q \in Ops : OpOK(q)'
  BY <1>8, <1>9, Zenon
<1>13. \A x \in ToolShards \ {s} : tool'.mail[x] = tool.mail[x] /\ tool'.run[x] = tool.run[x]
  BY <1>6, <1>c, Zenon
<1> QED BY <1>c, <1>k, <1>10, <1>11, <1>12, <1>13, ShardMoves, Zenon

\* The parts of a shard's run and of an operation, when they are assigned.
LEMMA SetRun ==
  ASSUME NEW x \in ToolRun, NEW a \in SUBSET ToolShards
  PROVE  /\ LET y == [x EXCEPT !.cur = a] IN y \in ToolRun /\ y.task = x.task /\ y.pc = x.pc
         /\ LET y == [x EXCEPT !.pc = "fold"] IN y \in ToolRun /\ y.task = x.task /\ y.pc = "fold"
         /\ LET y == [x EXCEPT !.pc = "count"] IN y \in ToolRun /\ y.task = x.task /\ y.pc = "count"
<1> DEFINE T == ToolTasks \cup {Task("none", 0)}
           S == SUBSET ToolShards
<1>1. x \in [task : T, pc : {"idle", "load", "fold", "count"}, cur : S] /\ a \in S
  BY Zenon DEF ToolRun
<1>2. ToolRun = [task : T, pc : {"idle", "load", "fold", "count"}, cur : S]
  BY Zenon DEF ToolRun
<1> HIDE DEF T, S
<1>3. LET y == [x EXCEPT !.cur = a] IN y \in ToolRun /\ y.task = x.task /\ y.pc = x.pc
  BY <1>1, <1>2
<1>4. LET y == [x EXCEPT !.pc = "fold"] IN y \in ToolRun /\ y.task = x.task /\ y.pc = "fold"
  BY <1>1, <1>2
<1>5. LET y == [x EXCEPT !.pc = "count"] IN y \in ToolRun /\ y.task = x.task /\ y.pc = "count"
  BY <1>1, <1>2
<1> QED BY <1>3, <1>4, <1>5

LEMMA StartRun ==
  ASSUME NEW k \in ToolTasks, NEW pc \in {"load", "count"}
  PROVE  LET y == [task |-> k, pc |-> pc, cur |-> {}] IN y \in ToolRun /\ y.task = k /\ y.pc = pc
<1> DEFINE T == ToolTasks \cup {Task("none", 0)}
           S == SUBSET ToolShards
<1>1. k \in T /\ {} \in S
  OBVIOUS
<1>2. ToolRun = [task : T, pc : {"idle", "load", "fold", "count"}, cur : S]
  BY Zenon DEF ToolRun
<1> HIDE DEF T, S
<1> QED BY <1>1, <1>2

LEMMA SetRan ==
  ASSUME NEW x \in ToolOp, NEW a \in SUBSET ToolShards
  PROVE  LET y == [x EXCEPT !.ran = a] IN
         /\ y \in ToolOp /\ y.kind = x.kind /\ y.remaining = x.remaining /\ y.acc = x.acc
         /\ y.ran = a /\ y.done = x.done /\ y.dropped = x.dropped
<1> DEFINE D == Seq(SUBSET ToolShards)
           S == SUBSET ToolShards
           R == [kind : {"none", "barrier", "reduce"}, remaining : Int, acc : S, ran : S, done : D, dropped : BOOLEAN]
<1>1. x \in R /\ R = ToolOp /\ a \in S
  BY Zenon DEF ToolOp
<1> HIDE DEF D, S
<1>2. LET y == [x EXCEPT !.ran = a] IN
      /\ y \in R /\ y.kind = x.kind /\ y.remaining = x.remaining /\ y.acc = x.acc
      /\ y.ran = a /\ y.done = x.done /\ y.dropped = x.dropped
  BY <1>1
<1> HIDE DEF R
<1> QED BY <1>1, <1>2, Zenon

LEMMA SetAcc ==
  ASSUME NEW x \in ToolOp, NEW a \in SUBSET ToolShards
  PROVE  LET y == [x EXCEPT !.acc = a] IN
         /\ y \in ToolOp /\ y.kind = x.kind /\ y.remaining = x.remaining /\ y.acc = a
         /\ y.ran = x.ran /\ y.done = x.done /\ y.dropped = x.dropped
<1> DEFINE D == Seq(SUBSET ToolShards)
           S == SUBSET ToolShards
           R == [kind : {"none", "barrier", "reduce"}, remaining : Int, acc : S, ran : S, done : D, dropped : BOOLEAN]
<1>1. x \in R /\ R = ToolOp /\ a \in S
  BY Zenon DEF ToolOp
<1> HIDE DEF D, S
<1>2. LET y == [x EXCEPT !.acc = a] IN
      /\ y \in R /\ y.kind = x.kind /\ y.remaining = x.remaining /\ y.acc = a
      /\ y.ran = x.ran /\ y.done = x.done /\ y.dropped = x.dropped
  BY <1>1
<1> HIDE DEF R
<1> QED BY <1>1, <1>2, Zenon

LEMMA SetRemaining ==
  ASSUME NEW x \in ToolOp, NEW m \in Int
  PROVE  LET y == [x EXCEPT !.remaining = m] IN
         /\ y \in ToolOp /\ y.kind = x.kind /\ y.remaining = m /\ y.acc = x.acc
         /\ y.ran = x.ran /\ y.done = x.done /\ y.dropped = x.dropped
<1> DEFINE D == Seq(SUBSET ToolShards)
           S == SUBSET ToolShards
           R == [kind : {"none", "barrier", "reduce"}, remaining : Int, acc : S, ran : S, done : D, dropped : BOOLEAN]
<1>1. x \in R /\ R = ToolOp
  BY Zenon DEF ToolOp
<1> HIDE DEF D, S
<1>2. LET y == [x EXCEPT !.remaining = m] IN
      /\ y \in R /\ y.kind = x.kind /\ y.remaining = m /\ y.acc = x.acc
      /\ y.ran = x.ran /\ y.done = x.done /\ y.dropped = x.dropped
  BY <1>1
<1> HIDE DEF R
<1> QED BY <1>1, <1>2, Zenon

LEMMA SetDone ==
  ASSUME NEW x \in ToolOp, NEW d \in Seq(SUBSET ToolShards)
  PROVE  LET y == [x EXCEPT !.done = d] IN
         /\ y \in ToolOp /\ y.kind = x.kind /\ y.remaining = x.remaining /\ y.acc = x.acc
         /\ y.ran = x.ran /\ y.done = d /\ y.dropped = x.dropped
<1> DEFINE D == Seq(SUBSET ToolShards)
           S == SUBSET ToolShards
           R == [kind : {"none", "barrier", "reduce"}, remaining : Int, acc : S, ran : S, done : D, dropped : BOOLEAN]
<1>1. x \in R /\ R = ToolOp /\ d \in D
  BY Zenon DEF ToolOp
<1> HIDE DEF D, S
<1>2. LET y == [x EXCEPT !.done = d] IN
      /\ y \in R /\ y.kind = x.kind /\ y.remaining = x.remaining /\ y.acc = x.acc
      /\ y.ran = x.ran /\ y.done = d /\ y.dropped = x.dropped
  BY <1>1
<1> HIDE DEF R
<1> QED BY <1>1, <1>2, Zenon

LEMMA RunEdit ==
  ASSUME NEW r \in [ToolShards -> ToolRun], NEW s \in ToolShards, NEW x \in ToolRun
  PROVE  [r EXCEPT ![s] = x] \in [ToolShards -> ToolRun]
OBVIOUS

\* A shard reads acc.
LEMMA LoadAccInv == ASSUME Counting, ToolInv, NEW s \in ToolShards, LoadAcc(s) PROVE ToolInv'
<1>1. tool \in ToolStates
  BY Zenon DEF ToolInv
<1>2. PICK c \in ToolCalls, m \in ToolMail, r \in [ToolShards -> ToolRun], v \in [ToolShards -> BOOLEAN],
            n \in Nat, i \in Nat, p \in [Ops -> ToolOp] :
           /\ tool = Tool(c, m, r, v, n, i, p)
           /\ tool.call = c /\ tool.mail = m /\ tool.run = r /\ tool.value = v
           /\ tool.rr = n /\ tool.items = i /\ tool.op = p
  BY <1>1, ToolHas, Zenon
<1>3. PICK x \in ToolRun, o \in {r[s].task.op} : x = r[s] /\ o = x.task.op
  <2>1. r[s] \in ToolRun
    OBVIOUS
  <2> QED BY <2>1, Zenon
<1>4. tool.run[s].pc = "load" /\ x.pc = "load" /\ x = tool.run[s] /\ tool.run[s].pc # "idle"
  BY <1>2, <1>3, Zenon DEF LoadAcc
<1>5. p[o] \in ToolOp
  BY <1>2, <1>3, <1>4, TaskUnderway, Zenon DEF UnderwayIn
<1>6. PICK a \in SUBSET ToolShards : a = p[o].acc
  BY <1>5, OpFacts, Zenon
<1>7. PICK f, y : f = [x EXCEPT !.pc = "fold"] /\ y = [f EXCEPT !.cur = a]
  BY Zenon
<1>y. y \in ToolRun /\ y.task = x.task /\ y.pc = "fold"
  <2>1. f \in ToolRun /\ f.task = x.task /\ f.pc = "fold"
    BY <1>7, SetRun, Zenon
  <2>2. y \in ToolRun /\ y.task = f.task /\ y.pc = f.pc
    BY <1>7, <2>1, SetRun, Zenon
  <2> QED BY <2>1, <2>2, Zenon
<1>8. PICK w \in [ToolShards -> ToolRun] : w = [r EXCEPT ![s] = y]
  BY <1>y, RunEdit, Zenon
<1>9. tool' = Tool(c, m, w, v, n, i, p)
  <2>1. tool' = [tool EXCEPT !.run[s] = [@ EXCEPT !.pc = "fold", !.cur = a]]
    BY <1>2, <1>3, <1>6, Zenon DEF LoadAcc
  <2>2. [x EXCEPT !.pc = "fold", !.cur = a] = y
    BY <1>7, Zenon
  <2>3. tool' = WithRun(tool, w)
    BY <1>2, <1>3, <1>8, <2>1, <2>2, Zenon DEF WithRun
  <2>4. tool' = WithRun(Tool(c, m, r, v, n, i, p), w)
    BY <1>2, <2>3, Zenon
  <2> QED BY <2>4 DEF Tool, WithRun
<1>10. /\ (tool \in ToolStates)' /\ tool'.call = c /\ tool'.mail = m /\ tool'.run = w /\ tool'.value = v
       /\ tool'.op = p
  <2>1. ToolBecomes(c, m, w, v, n, i, p)
    BY <1>9, Zenon DEF ToolBecomes
  <2> QED BY <2>1, ToolStep, Zenon
<1>11. /\ tool'.call = tool.call /\ tool'.mail = tool.mail /\ tool'.value = tool.value /\ tool'.op = tool.op
       /\ tool'.run = [tool.run EXCEPT ![s] = y] /\ y.task = tool.run[s].task /\ y.pc = "fold"
       /\ tool.run[s].pc \in {"load", "fold"}
  BY <1>2, <1>4, <1>y, <1>8, <1>10, Zenon
<1> QED BY <1>y, <1>10, <1>11, RunReads, Zenon

\* A shard exchanges acc for one that has its value, or sees what is there now.
LEMMA FoldAccInv == ASSUME Counting, ToolInv, NEW s \in ToolShards, FoldAcc(s) PROVE ToolInv'
<1>1. tool \in ToolStates
  BY Zenon DEF ToolInv
<1>2. PICK c \in ToolCalls, m \in ToolMail, r \in [ToolShards -> ToolRun], v \in [ToolShards -> BOOLEAN],
            n \in Nat, i \in Nat, p \in [Ops -> ToolOp] :
           /\ tool = Tool(c, m, r, v, n, i, p)
           /\ tool.call = c /\ tool.mail = m /\ tool.run = r /\ tool.value = v
           /\ tool.rr = n /\ tool.items = i /\ tool.op = p
  BY <1>1, ToolHas, Zenon
<1>x. PICK x \in ToolRun : x = r[s]
  OBVIOUS
<1>4. tool.run[s].pc = "fold" /\ x.pc = "fold" /\ x = tool.run[s] /\ tool.run[s].pc # "idle"
  BY <1>2, <1>x, Zenon DEF FoldAcc
<1>3. PICK o \in Ops : x = r[s] /\ o = x.task.op
  BY <1>x, <1>4, TaskUnderway, Zenon DEF UnderwayIn
<1>5. p[o] \in ToolOp
  OBVIOUS
<1>6. PICK a \in SUBSET ToolShards, b \in SUBSET ToolShards : a = p[o].acc /\ b = x.cur
  <2>1. p[o].acc \in SUBSET ToolShards
    BY <1>5, OpFacts, Zenon
  <2>2. x.cur \in SUBSET ToolShards
    BY RunFacts, Zenon
  <2> QED BY <2>1, <2>2, Zenon
<1>7. CASE a # b
  <2>1. PICK y \in ToolRun : y = [x EXCEPT !.cur = a] /\ y.task = x.task /\ y.pc = "fold"
    <3>1. PICK y : y = [x EXCEPT !.cur = a]
      BY Zenon
    <3>2. y \in ToolRun /\ y.task = x.task /\ y.pc = x.pc
      BY <3>1, SetRun, Zenon
    <3> QED BY <1>4, <3>1, <3>2, Zenon
  <2>2. PICK w \in [ToolShards -> ToolRun] : w = [r EXCEPT ![s] = y]
    BY RunEdit, Zenon
  <2>3. tool' = Tool(c, m, w, v, n, i, p)
    <3>1. tool' = [tool EXCEPT !.run[s].cur = a]
      BY <1>2, <1>3, <1>6, <1>7, Zenon DEF FoldAcc
    <3>3. tool' = WithRun(tool, w)
      BY <1>2, <1>3, <2>1, <2>2, <3>1, Zenon DEF WithRun
    <3>4. tool' = WithRun(Tool(c, m, r, v, n, i, p), w)
      BY <1>2, <3>3, Zenon
    <3> QED BY <3>4 DEF Tool, WithRun
  <2>4. /\ (tool \in ToolStates)' /\ tool'.call = c /\ tool'.mail = m /\ tool'.run = w /\ tool'.value = v
        /\ tool'.op = p
    <3>1. ToolBecomes(c, m, w, v, n, i, p)
      BY <2>3, Zenon DEF ToolBecomes
    <3> QED BY <3>1, ToolStep, Zenon
  <2>5. /\ tool'.call = tool.call /\ tool'.mail = tool.mail /\ tool'.value = tool.value /\ tool'.op = tool.op
        /\ tool'.run = [tool.run EXCEPT ![s] = y] /\ y.task = tool.run[s].task /\ y.pc = "fold"
        /\ tool.run[s].pc \in {"load", "fold"}
    BY <1>2, <1>4, <2>1, <2>2, <2>4, Zenon
  <2> QED BY <2>4, <2>5, RunReads, Zenon
<1>8. CASE a = b
  <2>1. PICK y \in ToolRun : y = [x EXCEPT !.pc = "count"] /\ y.task = x.task /\ y.pc = "count"
    <3>1. PICK y : y = [x EXCEPT !.pc = "count"]
      BY Zenon
    <3>2. y \in ToolRun /\ y.task = x.task /\ y.pc = "count"
      BY <3>1, SetRun, Zenon
    <3> QED BY <3>1, <3>2, Zenon
  <2>2. PICK w \in [ToolShards -> ToolRun] : w = [r EXCEPT ![s] = y]
    BY RunEdit, Zenon
  <2>3. PICK e \in SUBSET ToolShards : e = a \cup {s}
    BY Zenon
  <2>4. PICK z \in ToolOp : /\ z = [p[o] EXCEPT !.acc = e] /\ z.kind = p[o].kind
                            /\ z.remaining = p[o].remaining /\ z.acc = e /\ z.ran = p[o].ran
                            /\ z.done = p[o].done /\ z.dropped = p[o].dropped
    <3>1. PICK f \in ToolOp : f = p[o]
      BY <1>5
    <3>2. PICK z : z = [f EXCEPT !.acc = e]
      BY Zenon
    <3>3. /\ z \in ToolOp /\ z.kind = f.kind /\ z.remaining = f.remaining /\ z.acc = e
          /\ z.ran = f.ran /\ z.done = f.done /\ z.dropped = f.dropped
      BY <3>2, SetAcc, Zenon
    <3> QED BY <3>1, <3>2, <3>3, Zenon
  <2>5. PICK pp \in [Ops -> ToolOp] : pp = [p EXCEPT ![o] = z] /\ pp[o] = z /\ \A q \in Ops \ {o} : pp[q] = p[q]
    <3>1. PICK pp \in [Ops -> ToolOp] : pp = [p EXCEPT ![o] = z] /\ Edits(pp, p, o, z)
      BY <1>5, OpEdit, Zenon
    <3> QED BY <3>1, Zenon DEF Edits
  <2>6. tool' = Tool(c, m, w, v, n, i, pp)
    <3>1. tool' = [tool EXCEPT !.op[o].acc = e, !.run[s].pc = "count"]
      BY <1>2, <1>3, <1>6, <1>8, <2>3, Zenon DEF FoldAcc
    <3>3. PICK u : u = WithOp(tool, pp)
      BY Zenon
    <3>4. tool' = [u EXCEPT !.run[s].pc = "count"]
      BY <1>2, <2>4, <2>5, <3>1, <3>3, Zenon DEF WithOp
    <3>5. u = Tool(c, m, r, v, n, i, pp) /\ u.run = r
      <4>1. u = WithOp(Tool(c, m, r, v, n, i, p), pp)
        BY <1>2, <3>3, Zenon
      <4> QED BY <4>1 DEF Tool, WithOp
    <3>6. tool' = WithRun(u, w)
      BY <1>3, <2>1, <2>2, <3>4, <3>5, Zenon DEF WithRun
    <3> QED BY <3>5, <3>6 DEF Tool, WithRun
  <2>7. /\ (tool \in ToolStates)' /\ tool'.call = c /\ tool'.mail = m /\ tool'.run = w /\ tool'.value = v
        /\ tool'.op = pp
    <3>1. ToolBecomes(c, m, w, v, n, i, pp)
      BY <2>6, Zenon DEF ToolBecomes
    <3> QED BY <3>1, ToolStep, Zenon
  <2>8. /\ tool'.call = tool.call /\ tool'.mail = tool.mail /\ tool'.value = tool.value
        /\ tool'.run = [tool.run EXCEPT ![s] = y] /\ y.task = tool.run[s].task /\ y.pc = "count"
        /\ o = tool.run[s].task.op
    BY <1>2, <1>3, <1>4, <2>1, <2>2, <2>7, Zenon
  <2>9. /\ \A q \in Ops \ {o} : tool'.op[q] = tool.op[q]
        /\ tool'.op[o].acc = tool.op[o].acc \cup {s}
        /\ tool'.op[o].kind = tool.op[o].kind /\ tool'.op[o].dropped = tool.op[o].dropped
        /\ tool'.op[o].remaining = tool.op[o].remaining /\ tool'.op[o].ran = tool.op[o].ran
        /\ tool'.op[o].done = tool.op[o].done
    <3>1. tool'.op[o] = z /\ tool.op[o] = p[o] /\ \A q \in Ops \ {o} : tool'.op[q] = tool.op[q]
      BY <1>2, <2>5, <2>7, Zenon
    <3>2. /\ z.acc = p[o].acc \cup {s} /\ z.kind = p[o].kind /\ z.dropped = p[o].dropped
          /\ z.remaining = p[o].remaining /\ z.ran = p[o].ran /\ z.done = p[o].done
      BY <1>6, <2>3, <2>4, Zenon
    <3> QED BY <3>1, <3>2, Zenon
  <2>10. Folds(s, o, y)
    BY <1>4, <2>8, <2>9, Zenon DEF Folds
  <2> QED BY <2>7, <2>10, FoldsIn, Zenon
<1> QED BY <1>7, <1>8

\* What Count does once it has counted down: the shard rests, the last one calls done.
Rests(x, s, o, f) == [x EXCEPT !.run[s] = Resting, !.op[o].done = IF f.remaining = 1 THEN Append(@, f.acc) ELSE @]

\* A shard counts, and with the last one done is called.
LEMMA CountInv == ASSUME Counting, ToolInv, NEW s \in ToolShards, Count(s) PROVE ToolInv'
<1>1. tool \in ToolStates
  BY Zenon DEF ToolInv
<1>2. PICK c \in ToolCalls, m \in ToolMail, r \in [ToolShards -> ToolRun], v \in [ToolShards -> BOOLEAN],
            n \in Nat, i \in Nat, p \in [Ops -> ToolOp] :
           /\ tool = Tool(c, m, r, v, n, i, p)
           /\ tool.call = c /\ tool.mail = m /\ tool.run = r /\ tool.value = v
           /\ tool.rr = n /\ tool.items = i /\ tool.op = p
  BY <1>1, ToolHas, Zenon
<1>x. PICK x \in ToolRun : x = r[s]
  OBVIOUS
<1>3. tool.run[s].pc = "count" /\ x = tool.run[s] /\ tool.run[s].pc # "idle"
  BY <1>2, <1>x, Zenon DEF Count
<1>4. PICK o \in Ops : o = x.task.op
  BY <1>3, TaskUnderway, Zenon DEF UnderwayIn
<1>5. PICK f \in ToolOp : f = p[o]
  OBVIOUS
<1>6. PICK k \in Int : k = f.remaining - 1
  BY OpFacts
<1>7. PICK g \in ToolOp : /\ g = [f EXCEPT !.remaining = k] /\ g.kind = f.kind /\ g.remaining = k /\ g.acc = f.acc
                          /\ g.ran = f.ran /\ g.done = f.done /\ g.dropped = f.dropped
  <2>1. PICK g : g = [f EXCEPT !.remaining = k]
    BY Zenon
  <2>2. /\ g \in ToolOp /\ g.kind = f.kind /\ g.remaining = k /\ g.acc = f.acc
        /\ g.ran = f.ran /\ g.done = f.done /\ g.dropped = f.dropped
    BY <2>1, SetRemaining, Zenon
  <2> QED BY <2>1, <2>2, Zenon
<1>8. PICK d \in Seq(SUBSET ToolShards) : d = IF f.remaining = 1 THEN Append(f.done, f.acc) ELSE f.done
  <2>1. f.done \in Seq(SUBSET ToolShards) /\ f.acc \in SUBSET ToolShards
    BY OpFacts, Zenon
  <2>2. Append(f.done, f.acc) \in Seq(SUBSET ToolShards)
    BY <2>1
  <2> QED BY <2>1, <2>2, Zenon
<1>9. PICK z \in ToolOp : /\ z = [g EXCEPT !.done = d] /\ z.kind = g.kind /\ z.remaining = g.remaining
                          /\ z.acc = g.acc /\ z.ran = g.ran /\ z.done = d /\ z.dropped = g.dropped
  <2>1. PICK z : z = [g EXCEPT !.done = d]
    BY Zenon
  <2>2. /\ z \in ToolOp /\ z.kind = g.kind /\ z.remaining = g.remaining /\ z.acc = g.acc
        /\ z.ran = g.ran /\ z.done = d /\ z.dropped = g.dropped
    BY <2>1, SetDone, Zenon
  <2> QED BY <2>1, <2>2, Zenon
<1>10. PICK p1 \in [Ops -> ToolOp] : p1 = [p EXCEPT ![o] = g] /\ p1[o] = g /\ \A q \in Ops \ {o} : p1[q] = p[q]
  <2>1. PICK p1 \in [Ops -> ToolOp] : p1 = [p EXCEPT ![o] = g] /\ Edits(p1, p, o, g)
    BY OpEdit, Zenon
  <2> QED BY <2>1, Zenon DEF Edits
<1>11. PICK pp \in [Ops -> ToolOp] : pp = [p1 EXCEPT ![o] = z] /\ pp[o] = z /\ \A q \in Ops \ {o} : pp[q] = p1[q]
  <2>1. PICK pp \in [Ops -> ToolOp] : pp = [p1 EXCEPT ![o] = z] /\ Edits(pp, p1, o, z)
    BY OpEdit, Zenon
  <2> QED BY <2>1, Zenon DEF Edits
<1>12. PICK y \in ToolRun : y = Resting
  <2>1. Resting.task = Task("none", 0) /\ Resting = [task |-> Resting.task, pc |-> "idle", cur |-> {}]
    BY DEF Resting
  <2> QED BY <2>1 DEF ToolRun
<1>13. PICK w \in [ToolShards -> ToolRun] : w = [r EXCEPT ![s] = y]
  BY RunEdit, Zenon
<1>14. tool' = Tool(c, m, w, v, n, i, pp)
  <2>1. tool' = [tool EXCEPT !.op[o].remaining = @ - 1, !.run[s] = Resting,
                             !.op[o].done = IF f.remaining = 1 THEN Append(@, f.acc) ELSE @]
    BY <1>2, <1>3, <1>4, <1>5, Zenon DEF Count
  <2>u. PICK u : u = [tool EXCEPT !.op[o].remaining = @ - 1]
    BY Zenon
  <2>2. u = WithOp(tool, p1)
    BY <1>2, <1>5, <1>6, <1>7, <1>10, <2>u, Zenon DEF WithOp
  <2>3. tool' = [u EXCEPT !.run[s] = Resting, !.op[o].done = IF f.remaining = 1 THEN Append(@, f.acc) ELSE @]
    <3>1. tool' = Rests([tool EXCEPT !.op[o].remaining = @ - 1], s, o, f)
      BY <2>1, Zenon DEF Rests
    <3>2. tool' = Rests(u, s, o, f)
      BY <2>u, <3>1, Zenon
    <3> QED BY <3>2, Zenon DEF Rests
  <2>4. u = Tool(c, m, r, v, n, i, p1) /\ u.run = r
    <3>1. u = WithOp(Tool(c, m, r, v, n, i, p), p1)
      BY <1>2, <2>2, Zenon
    <3> QED BY <3>1 DEF Tool, WithOp
  <2>5. PICK t : t = WithRun(u, w)
    BY Zenon
  <2>6. tool' = [t EXCEPT !.op[o].done = IF f.remaining = 1 THEN Append(@, f.acc) ELSE @]
    BY <1>12, <1>13, <2>3, <2>4, <2>5, Zenon DEF WithRun
  <2>7. t = Tool(c, m, w, v, n, i, p1) /\ t.op = p1
    BY <2>4, <2>5 DEF Tool, WithRun
  <2>8. tool' = WithOp(t, pp)
    <3>1. t.op[o] = g /\ g.done = f.done
      BY <1>7, <1>10, <2>7, Zenon
    <3>2. d = IF f.remaining = 1 THEN Append(t.op[o].done, f.acc) ELSE t.op[o].done
      BY <1>8, <3>1, Zenon
    <3>3. tool' = [t EXCEPT !.op[o].done = d]
      BY <2>6, <3>2, Zenon
    <3>4. pp = [t.op EXCEPT ![o] = [t.op[o] EXCEPT !.done = d]]
      BY <1>9, <1>11, <2>7, <3>1, Zenon
    <3> QED BY <3>3, <3>4, Zenon DEF WithOp
  <2> QED BY <2>7, <2>8 DEF Tool, WithOp
<1>15. /\ (tool \in ToolStates)' /\ tool'.call = c /\ tool'.mail = m /\ tool'.run = w /\ tool'.value = v
       /\ tool'.op = pp
  <2>1. ToolBecomes(c, m, w, v, n, i, pp)
    BY <1>14, Zenon DEF ToolBecomes
  <2> QED BY <2>1, ToolStep, Zenon
<1>16. /\ tool'.call = tool.call /\ tool'.mail = tool.mail /\ tool'.value = tool.value
       /\ tool'.run = [tool.run EXCEPT ![s] = y] /\ y = Resting /\ o = tool.run[s].task.op
  BY <1>2, <1>3, <1>4, <1>12, <1>13, <1>15, Zenon
<1>17. tool'.op[o] = z /\ tool.op[o] = f /\ \A q \in Ops \ {o} : tool'.op[q] = tool.op[q]
  <2>1. tool'.op[o] = z /\ tool.op[o] = f
    BY <1>2, <1>5, <1>11, <1>15, Zenon
  <2>2. ASSUME NEW q \in Ops \ {o} PROVE pp[q] = p[q]
    BY <1>10, <1>11, Zenon
  <2> QED BY <1>2, <1>15, <2>1, <2>2, Zenon
<1>18. /\ z.acc = f.acc /\ z.kind = f.kind /\ z.dropped = f.dropped /\ z.remaining = f.remaining - 1
       /\ z.ran = f.ran /\ z.done = IF f.remaining = 1 THEN Append(f.done, f.acc) ELSE f.done
  BY <1>6, <1>7, <1>8, <1>9, Zenon
<1>19. Counts(s, o, y)
  BY <1>3, <1>16, <1>17, <1>18, Zenon DEF Counts
<1> QED BY <1>15, <1>19, CountsDown, Zenon

\* A shard takes the next task of its mailbox.
LEMMA RunTaskInv == ASSUME ToolInv, NEW s \in ToolShards, RunTask(s) PROVE ToolInv'
<1>1. tool \in ToolStates /\ MailOK(s)
  BY Zenon DEF ToolInv
<1>2. PICK c \in ToolCalls, m \in ToolMail, r \in [ToolShards -> ToolRun], v \in [ToolShards -> BOOLEAN],
            n \in Nat, i \in Nat, p \in [Ops -> ToolOp] :
           /\ tool = Tool(c, m, r, v, n, i, p)
           /\ tool.call = c /\ tool.mail = m /\ tool.run = r /\ tool.value = v
           /\ tool.rr = n /\ tool.items = i /\ tool.op = p
  BY <1>1, ToolHas, Zenon
<1>3. tool.run[s].pc = "idle" /\ tool.mail[s] # << >>
  BY Zenon DEF RunTask
<1>4. PICK l \in Seq(ToolTasks) : l = tool.mail[s] /\ l # << >> /\ Single(l) /\ Owned(tool.op, l)
  BY <1>1, <1>2, <1>3 DEF ToolMail, MailOK
<1>5. PICK k \in ToolTasks : k = Head(l) /\ Belongs(tool.op, k.kind, k.op)
  BY <1>4, QueueTail, Zenon
<1>6. k.kind \in {"new", "item", "barrier", "reduce"}
  BY TaskFacts, Zenon
<1>7. PICK w \in ToolMail : w = [m EXCEPT ![s] = Tail(l)]
  <2>1. Tail(l) \in Seq(ToolTasks)
    BY <1>4, QueueTail, Zenon
  <2> QED BY <2>1, Zenon DEF ToolMail
<1>8. PICK t : t = WithMail(tool, w)
  BY Zenon
<1>9. t = [tool EXCEPT !.mail[s] = Tail(@)]
  BY <1>2, <1>4, <1>7, <1>8, Zenon DEF WithMail
<1>10. t = Tool(c, w, r, v, n, i, p) /\ t.value = v /\ t.run = r /\ t.op = p
  <2>1. t = WithMail(Tool(c, m, r, v, n, i, p), w)
    BY <1>2, <1>8, Zenon
  <2> QED BY <2>1 DEF Tool, WithMail
<1>11. tool.mail[s] # << >> /\ k = Head(tool.mail[s]) /\ w = [tool.mail EXCEPT ![s] = Tail(tool.mail[s])]
  BY <1>2, <1>4, <1>5, <1>7, Zenon
<1>12. CASE k.kind = "new"
  <2>1. tool' = [t EXCEPT !.value[s] = TRUE]
    BY <1>9, <1>11, <1>12, Zenon DEF RunTask
  <2>2. PICK x \in [ToolShards -> BOOLEAN] : x = [v EXCEPT ![s] = TRUE]
    BY Zenon
  <2>3. tool' = Tool(c, w, r, x, n, i, p)
    <3>1. tool' = WithValue(t, x)
      BY <1>10, <2>1, <2>2, Zenon DEF WithValue
    <3> QED BY <1>10, <3>1 DEF Tool, WithValue
  <2>4. /\ (tool \in ToolStates)' /\ tool'.call = c /\ tool'.mail = w /\ tool'.run = r /\ tool'.value = x
        /\ tool'.op = p
    <3>1. ToolBecomes(c, w, r, x, n, i, p)
      BY <2>3, Zenon DEF ToolBecomes
    <3> QED BY <3>1, ToolStep, Zenon
  <2>5. /\ tool'.call = tool.call /\ tool'.mail = [tool.mail EXCEPT ![s] = Tail(tool.mail[s])]
        /\ tool'.run = tool.run /\ tool'.op = tool.op
    BY <1>2, <1>11, <2>4, Zenon
  <2>6. \A y \in ToolShards \ {s} : tool'.value[y] = tool.value[y]
    BY <1>2, <2>2, <2>4, Zenon
  <2>7. Head(tool.mail[s]).op = 0 /\ Head(tool.mail[s]).kind = "new"
    BY <1>5, <1>11, <1>12 DEF Belongs
  <2> QED BY <1>3, <2>4, <2>5, <2>6, <2>7, RunPlain, Zenon
<1>13. CASE k.kind = "item"
  <2>1. tool' = t
    BY <1>9, <1>11, <1>13, Zenon DEF RunTask
  <2>2. tool' = Tool(c, w, r, v, n, i, p)
    BY <1>10, <2>1, Zenon
  <2>3. /\ (tool \in ToolStates)' /\ tool'.call = c /\ tool'.mail = w /\ tool'.run = r /\ tool'.value = v
        /\ tool'.op = p
    <3>1. ToolBecomes(c, w, r, v, n, i, p)
      BY <2>2, Zenon DEF ToolBecomes
    <3> QED BY <3>1, ToolStep, Zenon
  <2>4. /\ tool'.call = tool.call /\ tool'.mail = [tool.mail EXCEPT ![s] = Tail(tool.mail[s])]
        /\ tool'.run = tool.run /\ tool'.op = tool.op /\ tool'.value = tool.value
    BY <1>2, <1>11, <2>3, Zenon
  <2>5. Head(tool.mail[s]).op = 0
    BY <1>5, <1>11, <1>13 DEF Belongs
  <2> QED BY <1>3, <2>3, <2>4, <2>5, RunPlain, Zenon
<1>14. ASSUME k.kind \in {"barrier", "reduce"} PROVE ToolInv'
  <2>1. PICK o \in Ops : o = k.op /\ k.op \in Ops
    BY <1>5, <1>14 DEF Belongs
  <2>2. PICK pc \in {"load", "count"} : pc = IF k.kind = "reduce" /\ tool.value[s] THEN "load" ELSE "count"
    OBVIOUS
  <2>3. PICK y \in ToolRun : y = [task |-> k, pc |-> pc, cur |-> {}] /\ y.task = k /\ y.pc = pc
    <3>1. PICK y : y = [task |-> k, pc |-> pc, cur |-> {}]
      BY Zenon
    <3>2. y \in ToolRun /\ y.task = k /\ y.pc = pc
      BY <3>1, StartRun, Zenon
    <3> QED BY <3>1, <3>2, Zenon
  <2>4. PICK x \in [ToolShards -> ToolRun] : x = [r EXCEPT ![s] = y]
    BY RunEdit, Zenon
  <2>5. PICK f \in ToolOp : f = p[o]
    OBVIOUS
  <2>6. PICK e \in SUBSET ToolShards : e = f.ran \cup {s}
    BY OpFacts, Zenon
  <2>7. PICK g \in ToolOp : /\ g = [f EXCEPT !.ran = e] /\ g.kind = f.kind /\ g.remaining = f.remaining
                            /\ g.acc = f.acc /\ g.ran = e /\ g.done = f.done /\ g.dropped = f.dropped
    <3>1. PICK g : g = [f EXCEPT !.ran = e]
      BY Zenon
    <3>2. /\ g \in ToolOp /\ g.kind = f.kind /\ g.remaining = f.remaining /\ g.acc = f.acc
          /\ g.ran = e /\ g.done = f.done /\ g.dropped = f.dropped
      BY <3>1, SetRan, Zenon
    <3> QED BY <3>1, <3>2, Zenon
  <2>8. PICK p1 \in [Ops -> ToolOp] : p1 = [p EXCEPT ![o] = g] /\ p1[o] = g /\ \A q \in Ops \ {o} : p1[q] = p[q]
    <3>1. PICK p1 \in [Ops -> ToolOp] : p1 = [p EXCEPT ![o] = g] /\ Edits(p1, p, o, g)
      BY OpEdit, Zenon
    <3> QED BY <3>1, Zenon DEF Edits
  <2>9. CASE k.kind = "barrier" \/ tool.value[s]
    <3>1. tool' = [t EXCEPT !.op[o].ran = @ \cup {s}, !.run[s] = y]
      <4>1. CASE k.kind = "barrier"
        <5>1. tool' = [t EXCEPT !.op[o].ran = @ \cup {s}, !.run[s] = [task |-> k, pc |-> "count", cur |-> {}]]
          BY <1>9, <1>11, <2>1, <4>1, Zenon DEF RunTask
        <5>2. pc = "count"
          BY <2>2, <4>1
        <5>3. y = [task |-> k, pc |-> "count", cur |-> {}]
          BY <2>3, <5>2, Zenon
        <5> QED BY <5>1, <5>3, Zenon
      <4>2. CASE k.kind = "reduce" /\ tool.value[s]
        <5>1. tool' = [t EXCEPT !.op[o].ran = @ \cup {s}, !.run[s] = [task |-> k, pc |-> "load", cur |-> {}]]
          BY <1>9, <1>11, <2>1, <4>2 DEF RunTask
        <5>2. pc = "load"
          BY <2>2, <4>2
        <5>3. y = [task |-> k, pc |-> "load", cur |-> {}]
          BY <2>3, <5>2, Zenon
        <5> QED BY <5>1, <5>3, Zenon
      <4> QED BY <1>14, <2>9, <4>1, <4>2, Zenon
    <3>2. PICK u : u = WithOp(t, p1)
      BY Zenon
    <3>3. tool' = [u EXCEPT !.run[s] = y]
      BY <1>10, <2>5, <2>6, <2>7, <2>8, <3>1, <3>2, Zenon DEF WithOp
    <3>4. u = Tool(c, w, r, v, n, i, p1) /\ u.run = r
      BY <1>10, <3>2 DEF Tool, WithOp
    <3>5. tool' = WithRun(u, x)
      BY <2>4, <3>3, <3>4, Zenon DEF WithRun
    <3>6. tool' = Tool(c, w, x, v, n, i, p1)
      BY <3>4, <3>5 DEF Tool, WithRun
    <3>7. /\ (tool \in ToolStates)' /\ tool'.call = c /\ tool'.mail = w /\ tool'.run = x /\ tool'.value = v
          /\ tool'.op = p1
      <4>1. ToolBecomes(c, w, x, v, n, i, p1)
        BY <3>6, Zenon DEF ToolBecomes
      <4> QED BY <4>1, ToolStep, Zenon
    <3>8. /\ tool'.call = tool.call /\ tool'.mail = [tool.mail EXCEPT ![s] = Tail(tool.mail[s])]
          /\ tool'.run = [tool.run EXCEPT ![s] = y] /\ tool'.value = tool.value
      BY <1>2, <1>11, <2>4, <3>7, Zenon
    <3>9. tool'.op[o] = g /\ tool.op[o] = f /\ \A q \in Ops \ {o} : tool'.op[q] = tool.op[q]
      BY <1>2, <2>5, <2>8, <3>7, Zenon
    <3>10. /\ g.kind = f.kind /\ g.dropped = f.dropped /\ g.remaining = f.remaining /\ g.acc = f.acc
           /\ g.done = f.done /\ g.ran = IF k.kind = "barrier" \/ tool.value[s] THEN f.ran \cup {s} ELSE f.ran
      BY <2>6, <2>7, <2>9, Zenon
    <3>11. RunsOp(s, k, o, y)
      BY <1>3, <1>11, <2>1, <2>2, <2>3, <3>8, <3>9, <3>10, Zenon DEF RunsOp
    <3> QED BY <3>7, <3>11, RunOp, Zenon
  <2>10. CASE k.kind = "reduce" /\ ~tool.value[s]
    <3>1. tool' = [t EXCEPT !.run[s] = y]
      <4>1. tool' = [t EXCEPT !.run[s] = [task |-> k, pc |-> "count", cur |-> {}]]
        BY <1>9, <1>11, <2>10 DEF RunTask
      <4>2. pc = "count"
        BY <2>2, <2>10
      <4> QED BY <2>3, <4>1, <4>2, Zenon
    <3>2. tool' = WithRun(t, x)
      BY <1>10, <2>4, <3>1, Zenon DEF WithRun
    <3>3. tool' = Tool(c, w, x, v, n, i, p)
      BY <1>10, <3>2 DEF Tool, WithRun
    <3>4. /\ (tool \in ToolStates)' /\ tool'.call = c /\ tool'.mail = w /\ tool'.run = x /\ tool'.value = v
          /\ tool'.op = p
      <4>1. ToolBecomes(c, w, x, v, n, i, p)
        BY <3>3, Zenon DEF ToolBecomes
      <4> QED BY <4>1, ToolStep, Zenon
    <3>5. /\ tool'.call = tool.call /\ tool'.mail = [tool.mail EXCEPT ![s] = Tail(tool.mail[s])]
          /\ tool'.run = [tool.run EXCEPT ![s] = y] /\ tool'.value = tool.value /\ tool'.op = tool.op
      BY <1>2, <1>11, <2>4, <3>4, Zenon
    <3>6. tool'.op[o].ran = IF k.kind = "barrier" \/ tool.value[s] THEN tool.op[o].ran \cup {s} ELSE tool.op[o].ran
      BY <2>10, <3>5
    <3>7. RunsOp(s, k, o, y)
      BY <1>3, <1>11, <2>1, <2>2, <2>3, <3>5, <3>6, Zenon DEF RunsOp
    <3> QED BY <3>4, <3>7, RunOp, Zenon
  <2> QED BY <1>14, <2>9, <2>10, Zenon
<1> QED BY <1>6, <1>12, <1>13, <1>14, Zenon

-----------------------------------------------------------------------------
(* ShardTools: the theorem *)

LEMMA Constantly ==
  ASSUME NEW S, NEW T, NEW x \in T
  PROVE  [s \in S |-> x] \in [S -> T] /\ \A s \in S : [u \in S |-> x][s] = x
OBVIOUS

LEMMA ToolInitInv == ASSUME ToolInit PROVE ToolInv
<1>1. PICK c \in ToolCalls : c = CallAt("new", 0, 0) /\ c.kind = "new" /\ c.op = 0 /\ c.next = 0
  <2>1. 0 \in 0 .. MaxOps /\ 0 \in 0 .. Size
    BY SizeFacts, ToolAssumption
  <2> QED BY <2>1, CallTyped
<1>2. PICK m \in ToolMail : m = [s \in ToolShards |-> << >>] /\ \A s \in ToolShards : m[s] = << >>
  <2>1. << >> \in Seq(ToolTasks)
    OBVIOUS
  <2>2. [s \in ToolShards |-> << >>] \in ToolMail /\ \A s \in ToolShards : [u \in ToolShards |-> << >>][s] = << >>
    BY <2>1, Constantly, Zenon DEF ToolMail
  <2> QED BY <2>2, Zenon
<1>3. PICK y \in ToolRun : y = Resting /\ y.task.op = 0 /\ y.task.kind = "none" /\ y.pc = "idle"
  <2>1. Resting.task = Task("none", 0) /\ Resting = [task |-> Resting.task, pc |-> "idle", cur |-> {}]
    BY DEF Resting
  <2>2. Resting.task.op = 0 /\ Resting.task.kind = "none" /\ Resting.pc = "idle"
    BY DEF Resting, Task
  <2>3. Resting \in ToolRun
    BY <2>1 DEF ToolRun
  <2> QED BY <2>2, <2>3, Zenon
<1>4. PICK r \in [ToolShards -> ToolRun] : r = [s \in ToolShards |-> Resting] /\ \A s \in ToolShards : r[s] = y
  <2>1. [s \in ToolShards |-> y] \in [ToolShards -> ToolRun] /\ \A s \in ToolShards : [u \in ToolShards |-> y][s] = y
    BY Constantly, Zenon
  <2> QED BY <1>3, <2>1, Zenon
<1>5. PICK v \in [ToolShards -> BOOLEAN] : v = [s \in ToolShards |-> FALSE]
  BY Zenon
<1>6. PICK f : f = [kind |-> "none", remaining |-> Size, acc |-> {}, ran |-> {}, done |-> << >>, dropped |-> FALSE]
  BY Zenon
<1>7. /\ f \in ToolOp /\ f.kind = "none" /\ f.remaining = Size /\ f.acc = {} /\ f.ran = {} /\ f.done = << >>
      /\ ~f.dropped
  <2>1. Size \in Int
    BY SizeFacts
  <2> QED BY <1>6, <2>1 DEF ToolOp
<1>8. PICK p \in [Ops -> ToolOp] : p = [o \in Ops |-> f] /\ \A o \in Ops : p[o] = f
  <2>1. [o \in Ops |-> f] \in [Ops -> ToolOp] /\ \A o \in Ops : [u \in Ops |-> f][o] = f
    BY <1>7, Constantly, Zenon
  <2> QED BY <2>1, Zenon
<1>9. tool = Tool(c, m, r, v, 0, 0, p)
  BY <1>1, <1>2, <1>4, <1>5, <1>6, <1>8, Zenon DEF ToolInit, Tool, CallAt, Calling, Ops
<1>10. tool.call = c /\ tool.mail = m /\ tool.run = r /\ tool.value = v /\ tool.op = p
  BY <1>9 DEF Tool
<1>11. tool \in ToolStates
  <2>1. 0 \in Nat
    OBVIOUS
  <2> QED BY <1>9, <2>1, Zenon DEF Tool, ToolStates
<1>12. \A o \in Ops : tool.op[o].kind = "none"
  BY <1>7, <1>8, <1>10, Zenon
<1>13. CallOK
  <2>1. Belongs(tool.op, "new", 0)
    BY DEF Belongs
  <2> QED BY <1>1, <1>2, <1>10, <1>12, <2>1, Zenon DEF CallOK
<1>14. ASSUME NEW s \in ToolShards PROVE MailOK(s) /\ RunOK(s) /\ FreshOK(s)
  <2>1. MailOK(s)
    <3>1. tool.mail[s] = << >> /\ DOMAIN << >> = {}
      BY <1>2, <1>10
    <3> QED BY <3>1 DEF MailOK, Single, Owned
  <2>2. RunOK(s)
    <3>1. tool.run[s] = y
      BY <1>4, <1>10, Zenon
    <3> QED BY <1>3, <3>1 DEF RunOK, Belongs
  <2> QED BY <1>12, <2>1, <2>2, Zenon DEF FreshOK
<1>15. ASSUME NEW o \in Ops PROVE OpOK(o)
  <2>1. o # 0
    BY SizeFacts
  <2>2. Unposted(o) = {} /\ Busy(o) = {} /\ Mailed(o) = {}
    <3>1. Unposted(o) = {}
      BY <1>1, <1>10, <2>1 DEF Unposted
    <3>2. Busy(o) = {}
      BY <1>3, <1>4, <1>10, <2>1 DEF Busy
    <3>3. Mailed(o) = {}
      BY <1>2, <1>10 DEF Mailed, Of
    <3> QED BY <3>1, <3>2, <3>3
  <2>3. Waiting(o) = {} /\ Pending(o) = {}
    BY <2>2 DEF Waiting, Pending
  <2>4. tool.op[o] = f
    BY <1>8, <1>10, Zenon
  <2> QED BY <1>7, <2>2, <2>3, <2>4 DEF OpOK
<1> QED BY <1>11, <1>13, <1>14, <1>15, Zenon DEF ToolInv

\* A shard sheds its next task.
LEMMA ShedInv == ASSUME Counting, ToolInv, NEW s \in ToolShards, Shed(s) PROVE ToolInv'
<1>1. tool \in ToolStates /\ MailOK(s)
  BY Zenon DEF ToolInv
<1>2. PICK c \in ToolCalls, m \in ToolMail, r \in [ToolShards -> ToolRun], v \in [ToolShards -> BOOLEAN],
            n \in Nat, i \in Nat, p \in [Ops -> ToolOp] :
           /\ tool = Tool(c, m, r, v, n, i, p)
           /\ tool.call = c /\ tool.mail = m /\ tool.run = r /\ tool.value = v
           /\ tool.rr = n /\ tool.items = i /\ tool.op = p
  BY <1>1, ToolHas, Zenon
<1>3. tool.mail[s] # << >>
  BY Zenon DEF Shed
<1>4. PICK l \in Seq(ToolTasks) : l = tool.mail[s] /\ l # << >> /\ Single(l) /\ Owned(tool.op, l)
  BY <1>1, <1>2, <1>3 DEF ToolMail, MailOK
<1>5. PICK k \in ToolTasks : k = Head(l)
  BY <1>4, QueueTail, Zenon
<1>6. PICK o \in 0 .. MaxOps : o = k.op
  BY TaskFacts, Zenon
<1>7. PICK w \in ToolMail : w = [m EXCEPT ![s] = Tail(l)]
  <2>1. Tail(l) \in Seq(ToolTasks)
    BY <1>4, QueueTail, Zenon
  <2> QED BY <2>1, Zenon DEF ToolMail
<1>8. PICK t : t = WithMail(tool, w)
  BY Zenon
<1>9. t = [tool EXCEPT !.mail[s] = Tail(@)]
  BY <1>2, <1>4, <1>7, <1>8, Zenon DEF WithMail
<1>10. t = Tool(c, w, r, v, n, i, p) /\ t.op = p
  <2>1. t = WithMail(Tool(c, m, r, v, n, i, p), w)
    BY <1>2, <1>8, Zenon
  <2> QED BY <2>1 DEF Tool, WithMail
<1>11. k = Head(tool.mail[s]) /\ o = Head(tool.mail[s]).op /\ w = [tool.mail EXCEPT ![s] = Tail(tool.mail[s])]
  BY <1>2, <1>4, <1>5, <1>6, <1>7, Zenon
<1>12. CASE o = 0
  <2>1. tool' = t
    BY <1>9, <1>11, <1>12, Zenon DEF Shed
  <2>2. tool' = Tool(c, w, r, v, n, i, p)
    BY <1>10, <2>1, Zenon
  <2>3. /\ (tool \in ToolStates)' /\ tool'.call = c /\ tool'.mail = w /\ tool'.run = r /\ tool'.value = v
        /\ tool'.op = p
    <3>1. ToolBecomes(c, w, r, v, n, i, p)
      BY <2>2, Zenon DEF ToolBecomes
    <3> QED BY <3>1, ToolStep, Zenon
  <2>4. /\ tool'.call = tool.call /\ tool'.mail = [tool.mail EXCEPT ![s] = Tail(tool.mail[s])]
        /\ tool'.run = tool.run /\ tool'.op = tool.op /\ tool'.value = tool.value
    BY <1>2, <1>11, <2>3, Zenon
  <2> QED BY <1>3, <1>11, <1>12, <2>3, <2>4, RunPlain, Zenon
<1>13. CASE o # 0
  <2>1. o \in Ops
    BY <1>6, <1>13, ToolAssumption DEF Ops
  <2>2. PICK y \in ToolOp : /\ y = [p[o] EXCEPT !.dropped = TRUE] /\ y.dropped /\ y.kind = p[o].kind
                            /\ y.remaining = p[o].remaining /\ y.acc = p[o].acc /\ y.ran = p[o].ran
                            /\ y.done = p[o].done
    BY <2>1, SetDropped, Zenon
  <2>3. PICK z \in [Ops -> ToolOp] : z = [p EXCEPT ![o] = y] /\ Edits(z, p, o, y)
    BY <2>1, OpEdit, Zenon
  <2>4. tool' = Tool(c, w, r, v, n, i, z)
    <3>1. tool' = [t EXCEPT !.op[o].dropped = TRUE]
      BY <1>9, <1>11, <1>13, Zenon DEF Shed
    <3>2. tool' = WithOp(t, z)
      BY <1>10, <2>2, <2>3, <3>1, Zenon DEF WithOp
    <3> QED BY <1>10, <3>2 DEF Tool, WithOp
  <2>5. /\ (tool \in ToolStates)' /\ tool'.call = c /\ tool'.mail = w /\ tool'.run = r /\ tool'.value = v
        /\ tool'.op = z
    <3>1. ToolBecomes(c, w, r, v, n, i, z)
      BY <2>4, Zenon DEF ToolBecomes
    <3> QED BY <3>1, ToolStep, Zenon
  <2>6. /\ tool'.call = tool.call /\ tool'.mail = [tool.mail EXCEPT ![s] = Tail(tool.mail[s])]
        /\ tool'.run = tool.run /\ tool'.value = tool.value
    BY <1>2, <1>11, <2>5, Zenon
  <2>7. (\A q \in Ops \ {o} : tool'.op[q] = tool.op[q]) /\ tool'.op[o] = y /\ tool.op[o] = p[o]
    BY <1>2, <2>3, <2>5, Zenon DEF Edits
  <2>8. MarksDropped(o)
    BY <2>2, <2>7, Zenon DEF MarksDropped
  <2> QED BY <1>3, <1>11, <2>1, <2>5, <2>6, <2>7, <2>8, ShedOp, Zenon
<1> QED BY <1>12, <1>13

LEMMA ToolStepInv == ASSUME Counting, ToolInv, [ToolNext]_toolVars PROVE ToolInv'
<1>1. CASE PostNext
  BY <1>1, PostNextInv
<1>2. CASE PostsDone
  BY <1>2, PostsDoneInv
<1>3. ASSUME NEW kind \in {"barrier", "reduce"}, Begin(kind) PROVE ToolInv'
  BY <1>3, BeginInv, Zenon DEF OpKinds
<1>4. CASE Broadcast
  BY <1>4, BroadcastInv
<1>5. ASSUME NEW key \in FanKeys, Dispatch(key) PROVE ToolInv'
  BY <1>5, DispatchInv, Zenon
<1>6. ASSUME NEW s \in ToolShards, RunTask(s) \/ Shed(s) PROVE ToolInv'
  BY <1>6, RunTaskInv, ShedInv, Zenon
<1>7. ASSUME NEW s \in ToolShards, LoadAcc(s) PROVE ToolInv'
  BY <1>7, LoadAccInv, Zenon
<1>8. ASSUME NEW s \in ToolShards, FoldAcc(s) PROVE ToolInv'
  BY <1>8, FoldAccInv, Zenon
<1>9. ASSUME NEW s \in ToolShards, Count(s) PROVE ToolInv'
  BY <1>9, CountInv, Zenon
<1>10. CASE UNCHANGED toolVars
  <2>1. tool' = tool
    BY <1>10 DEF toolVars
  <2>2. \A s \in ToolShards : (MailOK(s)' <=> MailOK(s)) /\ (RunOK(s)' <=> RunOK(s))
    BY <2>1, Zenon DEF MailOK, RunOK
  <2>3. \A o \in Ops : /\ Unposted(o)' = Unposted(o) /\ Mailed(o)' = Mailed(o) /\ Busy(o)' = Busy(o)
                       /\ Folding(o)' = Folding(o)
    BY <2>1, Zenon DEF Unposted, Mailed, Busy, Folding
  <2>4. \A o \in Ops : Waiting(o)' = Waiting(o)
    BY <2>3, Zenon DEF Waiting
  <2>5. \A o \in Ops : OpOK(o)'
    <3> SUFFICES ASSUME NEW o \in Ops PROVE OpOK(o)'
      OBVIOUS
    <3>1. OpOK(o) /\ tool'.op[o] = tool.op[o] /\ \A s \in ToolShards : tool'.value[s] = tool.value[s]
      BY <2>1, Zenon DEF ToolInv
    <3>2. (Unposted(o) \cap Mailed(o) = {})'
      BY <2>3, <3>1, Zenon DEF OpOK
    <3> QED BY <2>3, <2>4, <3>1, <3>2, OpFrame, Zenon
  <2>6. \A s \in ToolShards : FreshOK(s)'
    <3>1. \A s \in ToolShards : FreshOK(s) /\ (Fresh(s)' <=> Fresh(s))
      BY <2>1, Zenon DEF ToolInv, Fresh
    <3> QED BY <2>1, <2>4, <3>1, Zenon DEF FreshOK
  <2>7. CallOK' /\ (tool \in ToolStates)'
    BY <2>1, Zenon DEF ToolInv, CallOK
  <2> QED BY <2>2, <2>5, <2>6, <2>7, Zenon DEF ToolInv
<1> QED BY <1>1, <1>2, <1>3, <1>4, <1>5, <1>6, <1>7, <1>8, <1>9, <1>10, Zenon DEF ToolNext

\* With the invariant, done is called with all that is to be in it: when remaining is zero no
\* mailbox dropped a task and nobody is left to run it; when it is not, somebody is, or a task
\* was dropped.
LEMMA ToolInvReduces == ASSUME Counting, ToolInv PROVE ReducesOnce
<1> SUFFICES ASSUME NEW o \in Ops
             PROVE  LET p == tool.op[o]
                        all == IF p.kind = "barrier" THEN ToolShards ELSE {s \in ToolShards : tool.value[s]}
                    IN /\ Len(p.done) <= 1
                       /\ p.done # << >> => p.ran = all /\ (p.kind = "reduce" => p.done[1] = all)
                       /\ p.kind # "none" /\ p.done = << >> => Settles(o) \/ p.dropped
  BY Zenon DEF ReducesOnce, Ops
<1>1. tool \in ToolStates /\ OpOK(o)
  BY Zenon DEF ToolInv
<1>2. PICK p \in ToolOp : p = tool.op[o]
  BY <1>1, ToolShape
<1>3. PICK all : all = IF p.kind = "barrier" THEN ToolShards ELSE {s \in ToolShards : tool.value[s]}
  BY Zenon
<1>4. p.remaining \in Int /\ p.done \in Seq(SUBSET ToolShards)
  BY OpFacts, Zenon
<1>5. PICK S \in SUBSET ToolShards : S = Pending(o)
  BY Zenon DEF Pending, Waiting, Busy, Unposted, Mailed
<1>6. Cardinality(S) \in Nat /\ (Cardinality(S) = 0 <=> S = {})
  BY PendingCounts, Zenon
<1>7. CASE p.kind = "none"
  <2>1. p.done = << >>
    BY <1>1, <1>2, <1>7, Zenon DEF OpOK
  <2>2. Len(p.done) <= 1
    BY <2>1
  <2> QED BY <1>2, <1>7, <2>1, <2>2, Zenon
<1>8. CASE p.kind # "none" /\ p.remaining = 0
  <2>1. Counted(o) /\ Folded(o) /\ p.done = <<p.acc>>
    BY <1>1, <1>2, <1>8, Zenon DEF OpOK
  <2>2. ~p.dropped /\ S = {}
    <3>1. p.dropped => 0 > Cardinality(S)
      BY <1>2, <1>5, <1>8, <2>1, Zenon DEF Counted
    <3>2. ~p.dropped
      BY <1>6, <3>1
    <3>3. Cardinality(S) = 0
      BY <1>2, <1>5, <1>8, <2>1, <3>2, Zenon DEF Counted
    <3> QED BY <1>6, <3>2, <3>3
  <2>3. Waiting(o) = {} /\ Busy(o) = {}
    BY <1>5, <2>2 DEF Pending
  <2>4. Folding(o) = {}
    BY <2>3 DEF Folding
  <2>5. Ran(o) = all
    BY <1>2, <1>3, <2>3 DEF Ran
  <2>6. p.ran = all
    BY <1>2, <2>1, <2>2, <2>5, Zenon DEF Folded
  <2>7. p.kind = "reduce" => p.acc = all
    <3>1. p.kind = "reduce" => p.acc = p.ran \ Folding(o)
      BY <1>2, <2>1, Zenon DEF Folded
    <3> QED BY <2>4, <2>6, <3>1
  <2>8. Len(p.done) <= 1 /\ p.done # << >> /\ p.done[1] = p.acc
    BY <2>1
  <2> QED BY <1>2, <1>3, <2>6, <2>7, <2>8, Zenon
<1>9. CASE p.kind # "none" /\ p.remaining # 0
  <2>1. Counted(o) /\ p.done = << >>
    BY <1>1, <1>2, <1>9, Zenon DEF OpOK
  <2>2. ASSUME ~p.dropped PROVE Settles(o)
    <3>1. p.remaining = Cardinality(S)
      BY <1>2, <1>5, <2>1, <2>2, Zenon DEF Counted
    <3>2. PICK s \in ToolShards : s \in Pending(o)
      <4>1. S # {}
        BY <1>6, <1>9, <3>1, Zenon
      <4> QED BY <1>5, <4>1
    <3> QED BY <3>2 DEF Pending, Waiting, Unposted, Mailed, Busy, Of, Settles
  <2>3. Len(p.done) <= 1
    BY <2>1
  <2> QED BY <1>2, <2>1, <2>2, <2>3, Zenon
<1> QED BY <1>7, <1>8, <1>9

\* The theorems on finite sets come in here: they are many, and nothing above needs them.
Finite == INSTANCE FiniteSetTheorems

LEMMA SameFinite == ASSUME NEW S PROVE Finite!IsFiniteSet(S) = IsFiniteSet(S)
BY DEF IsFiniteSet, Finite!IsFiniteSet

LEMMA SameCardinality == ASSUME NEW S PROVE Finite!Cardinality(S) = Cardinality(S)
BY DEF Cardinality, Finite!Cardinality

LEMMA ShardsCount == Counting
<1> SUFFICES ASSUME NEW S \in SUBSET ToolShards
             PROVE  /\ Cardinality(S) \in Nat /\ (Cardinality(S) = 0 <=> S = {})
                    /\ \A s \in S : Cardinality(S \ {s}) = Cardinality(S) - 1 /\ Cardinality(S) > 0
  BY Zenon DEF Counting
<1>1. Finite!IsFiniteSet(ToolShards)
  BY SizeFacts, Finite!FS_Interval
<1>2. Finite!IsFiniteSet(S)
  BY <1>1, Finite!FS_Subset, Zenon
<1>3. Cardinality(S) \in Nat /\ (Cardinality(S) = 0 <=> S = {})
  <2>1. Finite!Cardinality(S) \in Nat /\ (Finite!Cardinality(S) = 0 <=> S = {})
    BY <1>2, Finite!FS_CardinalityType, Finite!FS_EmptySet, Zenon
  <2> QED BY <2>1, SameCardinality, Zenon
<1>4. ASSUME NEW s \in S PROVE Cardinality(S \ {s}) = Cardinality(S) - 1 /\ Cardinality(S) > 0
  <2>1. Finite!Cardinality(S \ {s}) = Finite!Cardinality(S) - 1
    BY <1>2, Finite!FS_RemoveElement
  <2>2. Cardinality(S \ {s}) = Cardinality(S) - 1
    BY <2>1, SameCardinality, Zenon
  <2>3. S # {}
    OBVIOUS
  <2> QED BY <1>3, <2>2, <2>3
<1> QED BY <1>3, <1>4, Zenon

\* Whatever the shards, the size of their mailboxes and the number of operations: done of a
\* barrier and of a reduction is called at most once, after every shard has run, a reduction's
\* with the values of all the shards that have one; and while it has not been called, a task
\* of the operation is under way, or one was dropped, refused by a full mailbox or shed by its
\* shard at the caller's deadline (Barrier::arrive_all, Sharded::map_reduce, drain_mailbox).
THEOREM ShardToolsReduceOnce == ToolSpec => []ReducesOnce
<1>1. ToolInit => ToolInv
  BY ToolInitInv, Zenon
<1>2. ToolInv /\ [ToolNext]_toolVars => ToolInv'
  BY ShardsCount, ToolStepInv, Zenon
<1>3. ToolInv => ReducesOnce
  BY ShardsCount, ToolInvReduces, Zenon
<1> QED BY <1>1, <1>2, <1>3, PTL DEF ToolSpec
=============================================================================
