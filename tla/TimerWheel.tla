----------------------------- MODULE TimerWheel -----------------------------
(***************************************************************************)
(* TimerWheel of include/afx/core/timer_wheel.hpp: a hierarchical wheel of *)
(* kLevels levels of kSlots buckets.  Time is counted in ticks.  advance() *)
(* is split at the calls of fire(n), between which the callback may insert *)
(* and unlink nodes; everything else is one step.                          *)
(***************************************************************************)
EXTENDS Naturals, SequencesExt

CONSTANTS Nodes, NoNode,
          kLevels, kSlots,  \* 4 and 256; >> 8 is \div kSlots
          MaxTicks          \* max_ticks_per_call_

ASSUME WheelAssumption ==
  /\ NoNode \notin Nodes
  /\ kLevels \in Nat \ {0} /\ kSlots \in Nat \ {0, 1} /\ MaxTicks \in Nat \ {0}

VARIABLES bucket,      \* buckets_[level][slot], at index level * kSlots + slot
          count,       \* count_
          nowTick,     \* now_tick_
          primed,      \* primed_
          expiryTick,  \* per node: expiry_tick
          wpc,         \* advance(): "out", "step", "expire" or "fire"
          target,      \* target_tick
          steps,       \* steps
          firing,      \* the node passed to fire(), or NoNode
          due          \* history: the tick at which a linked node has to fire, else 0

queueVars == <<bucket, count, expiryTick, due>>
advVars == <<nowTick, primed, wpc, target, steps, firing>>
wheelVars == <<queueVars, advVars>>

Levels == 0 .. kLevels - 1
Buckets == 0 .. kLevels * kSlots - 1
Larger(a, b) == IF a > b THEN a ELSE b

WheelInit ==
  /\ bucket = [k \in Buckets |-> << >>]
  /\ count = 0 /\ nowTick = 0 /\ primed = FALSE
  /\ expiryTick = [n \in Nodes |-> 0]
  /\ wpc = "out" /\ target = 0 /\ steps = 0
  /\ firing = NoNode
  /\ due = [n \in Nodes |-> 0]

-----------------------------------------------------------------------------
(* Placement *)

fits(et, now) == et <= now \/ et - now < kSlots^kLevels

Index(level, et) == (level * kSlots) + ((et \div kSlots^level) % kSlots)

\* insert_node: the level by the distance, the slot by the level's digit
BucketOf(et, now) ==
  LET level == CHOOSE l \in 0 .. kLevels :
                 /\ (et - now) \div kSlots^l < kSlots
                 /\ \A m \in 0 .. l - 1 : (et - now) \div kSlots^m >= kSlots
  IN  Index(level, et)

Linked(n) == \E k \in Buckets : Contains(bucket[k], n)
Unlinked(b, n) == [k \in Buckets |-> Remove(b[k], n)]
PushedBack(b, n, et, now) == [b EXCEPT ![BucketOf(et, now)] = Append(@, n)]

\* The tick insert() files a node under: an overdue one fires at the next step.
InsertTick(et) == IF et > nowTick THEN et ELSE nowTick + 1

-----------------------------------------------------------------------------
(* insert, called between steps of the loop or from fire(), and what unlink  *)
(* does to the count                                                        *)

\* insert(n), into buckets b with c nodes queued
insertInto(b, c, n, et) ==
  /\ expiryTick' = [expiryTick EXCEPT ![n] = et]
  /\ bucket' = PushedBack(b, n, InsertTick(et), nowTick)
  /\ count' = c + 1
  /\ due' = [due EXCEPT ![n] = InsertTick(et)]

\* what unlink(n) leaves in count_
CountWithout(n) == IF Linked(n) THEN count - 1 ELSE count

-----------------------------------------------------------------------------
(* advance *)

\* prime(t): the epoch moves to t, every queued node is placed again
Primed(t) ==
  LET hold == FlattenSeq([k \in 1 .. kLevels * kSlots |-> bucket[k - 1]])
      now  == IF t > 0 THEN t - 1 ELSE 0
      et(n) == Larger(expiryTick[n], Larger(t, 1))
  IN  [k \in Buckets |-> SelectSeq(hold, LAMBDA n : BucketOf(et(n), now) = k)]

\* advance(t), up to its loop
AdvanceBegin(t) ==
  /\ wpc = "out"
  /\ primed' = TRUE
  /\ LET now == IF primed THEN nowTick ELSE IF t > 0 THEN t - 1 ELSE 0
     IN  IF count = 0
           THEN nowTick' = Larger(now, t) /\ UNCHANGED <<wpc, target, steps>>
           ELSE nowTick' = now /\ wpc' = "step" /\ target' = t /\ steps' = 0
  /\ bucket' = IF primed THEN bucket ELSE Primed(t)
  /\ due' = IF primed THEN due ELSE [n \in Nodes |-> IF Linked(n) THEN Larger(due[n], t) ELSE 0]
  /\ UNCHANGED <<count, expiryTick, firing>>

\* cascade(level) at tick now: the home bucket's nodes move to where their
\* remaining distance belongs
Cascaded(b, level, now) ==
  LET home == Index(level, now)
      dst(n) == BucketOf(Larger(expiryTick[n], now), now)
  IN  [k \in Buckets |->
         IF k = home THEN SelectSeq(b[home], LAMBDA n : dst(n) = home)
         ELSE b[k] \o SelectSeq(b[home], LAMBDA n : dst(n) = k)]

\* the cascades of one step, level 1 first
AllCascaded(now) ==
  LET upTo[l \in Levels] ==
        IF l = 0 THEN bucket
        ELSE IF now % kSlots^l = 0 THEN Cascaded(upTo[l - 1], l, now)
        ELSE upTo[l - 1]
  IN  upTo[kLevels - 1]

\* one turn of the loop: next tick, its cascades, then its slot is drained
AdvanceTick ==
  /\ wpc = "step"
  /\ nowTick < target /\ steps < MaxTicks
  /\ nowTick' = nowTick + 1
  /\ steps' = steps + 1
  /\ bucket' = AllCascaded(nowTick + 1)
  /\ wpc' = "expire"
  /\ UNCHANGED <<count, expiryTick, due, primed, target, firing>>

AdvanceEnd ==
  /\ wpc = "step"
  /\ ~(nowTick < target /\ steps < MaxTicks)
  /\ wpc' = "out" /\ target' = 0 /\ steps' = 0
  /\ UNCHANGED <<queueVars, nowTick, primed, firing>>

Draining == bucket[nowTick % kSlots]

\* expire_slot: the next node of the slot fires, or is filed again if not due
ExpireNode ==
  /\ wpc = "expire" /\ Draining # << >>
  /\ LET n == Head(Draining)
         rest == [bucket EXCEPT ![nowTick % kSlots] = Tail(@)]
     IN  IF expiryTick[n] > nowTick
           THEN /\ bucket' = PushedBack(rest, n, InsertTick(expiryTick[n]), nowTick)
                /\ UNCHANGED <<count, wpc, firing, due>>
           ELSE /\ bucket' = rest
                /\ count' = count - 1
                /\ wpc' = "fire" /\ firing' = n
                /\ due' = [due EXCEPT ![n] = 0]
  /\ UNCHANGED <<expiryTick, nowTick, primed, target, steps>>

ExpireEnd ==
  /\ wpc = "expire" /\ Draining = << >>
  /\ wpc' = "step"
  /\ UNCHANGED <<queueVars, nowTick, primed, target, steps, firing>>

AdvanceStep == AdvanceTick \/ AdvanceEnd \/ ExpireNode \/ ExpireEnd

-----------------------------------------------------------------------------
(* next_due_tick(): the earliest tick at which a bucket in use is serviced *)

ServicedAt(level, slot) ==
  LET span == kSlots^level
      cand == ((nowTick \div (span * kSlots)) * (span * kSlots)) + (slot * span)
  IN  IF cand <= nowTick THEN cand + span * kSlots ELSE cand

Serviced == {ServicedAt(k \div kSlots, k % kSlots) : k \in {j \in Buckets : bucket[j] # << >>}}
next_due_tick == CHOOSE t \in Serviced : \A u \in Serviced : t <= u

-----------------------------------------------------------------------------
(* Properties *)

\* The wheel's state has its types, and advance() takes at most MaxTicks steps.
WheelTypeOK ==
  /\ bucket \in [Buckets -> Seq(Nodes)]
  /\ count \in Nat /\ nowTick \in Nat /\ target \in Nat /\ steps \in 0 .. MaxTicks
  /\ primed \in BOOLEAN /\ wpc \in {"out", "step", "expire", "fire"}
  /\ expiryTick \in [Nodes -> Nat] /\ due \in [Nodes -> Nat] /\ firing \in Nodes \cup {NoNode}

\* The list cells hold together: a node is in one bucket, once, and count_ is the
\* number of nodes queued, through inserts, cascades, prime and unlinks.
Filed ==
  LET queued == FlattenSeq([k \in 1 .. kLevels * kSlots |-> bucket[k - 1]])
  IN  count = Len(queued) /\ IsInjective(queued)

\* No timer is late: after a tick's slot is drained, no queued node is due at it
\* or before, however many levels it had to cascade through.
NeverLate ==
  wpc \in {"out", "step"} => \A n \in Nodes : Linked(n) => due[n] > nowTick

\* next_due_tick() lies ahead and skips no expiry, and it is exact for a node of
\* level 0, so virtual time can jump to it.
NextDueSound ==
  wpc = "out" /\ count > 0 =>
    /\ next_due_tick > nowTick
    /\ \A n \in Nodes : Linked(n) => next_due_tick <= due[n]
    /\ \A k \in 0 .. kSlots - 1 : \A n \in ToSet(bucket[k]) : ServicedAt(0, k) = due[n]

\* The wheel is sound in all three respects (advance, link, unlink, next_due_tick).
WheelSound == Filed /\ NeverLate /\ NextDueSound
=============================================================================
