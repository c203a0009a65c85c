------------------------------- MODULE Timers -------------------------------
(***************************************************************************)
(* The timers of an EventManager (include/afx/core/event_manager.hpp):     *)
(* after, at, every, cancel, reschedule and the groups, over the wheel of  *)
(* TimerWheel and the heap, reduced here to the set of its nodes.  An      *)
(* iteration takes the time once, runs posted tasks, expires timers,       *)
(* waits, runs completions and deferred work, and releases dead timers;    *)
(* user code runs in every stage but the wait, and from each fired timer.  *)
(*                                                                         *)
(* A node stands for a slot of timers_ and, while it is held, for its id:  *)
(* HandleTable shows that the ids of earlier timers of a slot reach none.  *)
(* Time counts in units of which a tick has TickLen.                       *)
(***************************************************************************)
EXTENDS TimerWheel

CONSTANTS Groups, NoGroup,
          TickLen,   \* timer_tick
          Kinds,     \* subset of {"after", "at", "rate", "delay"}
          Delays,    \* durations passed to after, at, every and reschedule
          Period,    \* the period of repeating timers
          Again,     \* kinds of timers rescheduled once they have begun to fire
          Instants   \* bound: the instants at which the loop reads the clock

ASSUME TimersAssumption ==
  /\ NoGroup \notin Groups
  /\ TickLen \in Nat \ {0} /\ Period \in Nat \ {0}
  /\ Kinds \subseteq {"after", "at", "rate", "delay"} /\ Again \subseteq Kinds
  /\ Delays \subseteq Nat /\ Instants \subseteq Nat /\ 0 \in Instants

VARIABLES
  clock, now,        \* the clock; now_, read once per iteration
  stage,             \* stage of poll_once
  cb,                \* fire_timer(firing): "none", "due" or "running" its callback
  heap,              \* heap_
  kind, expiry,      \* per timer: how it was armed; expiry
  group, cancelled,  \* per timer: the group list it is in; cancelled
  held,              \* the timers in timers_
  dead               \* dead_timers_

timerVars == <<heap, kind, expiry, group, cancelled, held, dead>>
loopVars == <<clock, now, stage, cb>>
timersVars == <<wheelVars, timerVars, loopVars>>

TimersInit ==
  /\ WheelInit
  /\ clock = 0 /\ now = 0 /\ stage = "out" /\ cb = "none"
  /\ heap = {} /\ dead = {}
  /\ kind = [n \in Nodes |-> "after"]
  /\ expiry = [n \in Nodes |-> 0]
  /\ group = [n \in Nodes |-> NoGroup]
  /\ cancelled = [n \in Nodes |-> FALSE]
  /\ held = {}

-----------------------------------------------------------------------------
(* Scheduling one timer *)

tick_of(t) == (t + TickLen - 1) \div TickLen
floor_tick(t) == t \div TickLen

OneShot(n) == kind[n] \in {"after", "at"}

\* insert_timer(n) with expiry e, where b, c and h are the wheel and the heap
\* once n is unlinked
insert_timer(b, c, h, n, e, precise) ==
  /\ expiry' = [expiry EXCEPT ![n] = e]
  /\ IF fits(tick_of(e), nowTick) /\ ~precise
       THEN insertInto(b, c, n, tick_of(e)) /\ heap' = h
       ELSE /\ heap' = h \cup {n}
            /\ bucket' = b /\ count' = c
            /\ expiryTick' = [expiryTick EXCEPT ![n] = tick_of(e)]
            /\ due' = [due EXCEPT ![n] = 0]

\* Mutant of unlink_timers: the heap keeps its nodes.
unlink_timersWheel(ns) ==
  /\ bucket' = [k \in Buckets |-> SelectSeq(bucket[k], LAMBDA n : n \notin ns)]
  /\ count' = count - Cardinality({n \in ns : Linked(n)})
  /\ due' = [n \in Nodes |-> IF n \in ns THEN 0 ELSE due[n]]
  /\ UNCHANGED <<heap, expiryTick>>

\* unlink_timer, for every timer of ns
unlink_timers(ns) ==
  /\ heap' = heap \ ns
  /\ bucket' = [k \in Buckets |-> SelectSeq(bucket[k], LAMBDA n : n \notin ns)]
  /\ count' = count - Cardinality({n \in ns : Linked(n)})
  /\ due' = [n \in Nodes |-> IF n \in ns THEN 0 ELSE due[n]]
  /\ UNCHANGED expiryTick

-----------------------------------------------------------------------------
(* User code on the loop's thread *)

InUserCode ==
  \/ cb = "running"
  \/ cb = "none" /\ stage \in {"out", "mailbox", "events"}

\* after, at and every
arm(n, k, d, g) ==
  /\ n \notin held
  /\ insert_timer(bucket, count, heap, n, now + d, k = "at")
  /\ kind' = [kind EXCEPT ![n] = k]
  /\ group' = [group EXCEPT ![n] = g]
  /\ held' = held \cup {n}
  /\ UNCHANGED <<cancelled, dead, advVars, loopVars>>

\* cancel(n) returns true
Cancellable(n) == n \in held /\ ~cancelled[n]

CancelAll(ns) ==
  /\ cancelled' = [n \in Nodes |-> cancelled[n] \/ n \in ns]
  /\ unlink_timers(ns)
  /\ group' = [n \in Nodes |-> IF n \in ns THEN NoGroup ELSE group[n]]
  /\ dead' = dead \cup ns
  /\ UNCHANGED <<kind, expiry, held, advVars, loopVars>>

cancel(n) == Cancellable(n) /\ CancelAll({n})

cancel_group(g) ==
  /\ \E n \in Nodes : group[n] = g
  /\ CancelAll({n \in Nodes : group[n] = g})

\* n has begun to fire: its callback is running, or it is a one-shot done with.
Begun(n) == (cb = "running" /\ firing = n) \/ n \in dead

reschedule(n, d) ==
  /\ Cancellable(n)
  /\ Begun(n) => kind[n] \in Again \cup {"rate"}
  /\ insert_timer(Unlinked(bucket, n), CountWithout(n), heap \ {n}, n, now + d, kind[n] = "at")
  /\ UNCHANGED <<kind, group, cancelled, held, dead, advVars, loopVars>>

\* every() without an initial delay starts with a period
FirstDelays(k) == IF k \in {"rate", "delay"} THEN (Delays \ {0}) \cup {Period} ELSE Delays

UserStep ==
  /\ InUserCode
  /\ \/ \E n \in Nodes \ held, k \in Kinds, g \in Groups \cup {NoGroup} :
          \E d \in FirstDelays(k) : arm(n, k, d, g)
     \/ \E n \in Nodes : cancel(n)
     \/ \E n \in Nodes, d \in Delays : reschedule(n, d)
     \/ \E g \in Groups : cancel_group(g)

-----------------------------------------------------------------------------
(* fire_timer(firing), around the callback *)

FireReturned ==
  /\ cb' = "none" /\ firing' = NoNode
  /\ wpc' = IF wpc = "fire" THEN "expire" ELSE wpc

\* Mutant of Missed: a late FixedRate timer is set one period on, no further.
MissedNone(n) == 0

\* Periods of a FixedRate timer that have passed besides the one that is due.
Missed(n) == IF expiry[n] + Period > now THEN 0 ELSE (now - expiry[n]) \div Period

\* up to the callback: a FixedRate timer is armed for its next period first
FireBegin ==
  /\ cb = "due"
  /\ IF cancelled[firing]
       THEN FireReturned /\ dead' = dead \cup {firing} /\ UNCHANGED <<queueVars, heap, expiry>>
       ELSE /\ cb' = "running" /\ UNCHANGED <<wpc, firing, dead>>
            /\ IF kind[firing] = "rate"
                 THEN insert_timer(bucket, count, heap, firing,
                                   expiry[firing] + (Missed(firing) + 1) * Period, FALSE)
                 ELSE UNCHANGED <<queueVars, heap, expiry>>
  /\ UNCHANGED <<kind, group, cancelled, held, clock, now, stage, nowTick, primed, target,
                 steps>>

\* after the callback: a FixedDelay timer is armed again, a one-shot is dead
FireEnd ==
  /\ cb = "running"
  /\ FireReturned
  /\ IF kind[firing] = "delay" /\ ~cancelled[firing]
       THEN insert_timer(bucket, count, heap, firing, now + Period, FALSE)
       ELSE UNCHANGED <<queueVars, heap, expiry>>
  /\ IF OneShot(firing) /\ ~cancelled[firing]
       THEN dead' = dead \cup {firing} /\ group' = [group EXCEPT ![firing] = NoGroup]
       ELSE UNCHANGED <<dead, group>>
  /\ UNCHANGED <<kind, cancelled, held, clock, now, stage, nowTick, primed, target, steps>>

-----------------------------------------------------------------------------
(* poll_once *)

PollBegin ==
  /\ stage = "out" /\ cb = "none"
  /\ now' = clock
  /\ stage' = "mailbox"
  /\ UNCHANGED <<clock, cb, wheelVars, timerVars>>

\* expire_timers: wheel_.advance(floor_tick(now_)) ...
ExpireBegin ==
  /\ stage = "mailbox" /\ cb = "none"
  /\ stage' = "timers"
  /\ AdvanceBegin(floor_tick(now))
  /\ UNCHANGED <<clock, now, cb, timerVars>>

WheelStep ==
  /\ stage = "timers" /\ cb = "none"
  /\ AdvanceStep
  /\ cb' = IF wpc' = "fire" THEN "due" ELSE "none"
  /\ UNCHANGED <<clock, now, stage, timerVars>>

\* ... then heap_.expire(now_), earliest first
HeapDue(n) == expiry[n] <= now

HeapStep ==
  /\ stage = "timers" /\ wpc = "out" /\ cb = "none"
  /\ \E n \in heap :
       /\ HeapDue(n)
       /\ \A m \in heap : expiry[n] <= expiry[m]
       /\ heap' = heap \ {n}
       /\ firing' = n
  /\ cb' = "due"
  /\ UNCHANGED <<clock, now, stage, queueVars, nowTick, primed, wpc, target, steps,
                 kind, expiry, group, cancelled, held, dead>>

ExpireDone ==
  /\ stage = "timers" /\ wpc = "out" /\ cb = "none"
  /\ \A n \in heap : ~HeapDue(n)
  /\ stage' = "wait"
  /\ UNCHANGED <<clock, now, cb, wheelVars, timerVars>>

\* Mutant of Deadlines: the wheel is looked at only when the heap is empty.
DeadlinesHeapFirst ==
  IF heap # {} THEN {expiry[n] : n \in heap} ELSE IF count > 0 THEN {(nowTick + 1) * TickLen} ELSE {}

\* next_deadline_timeout(): the wait is planned to end at the first of these instants
Deadlines == {expiry[n] : n \in heap} \cup (IF count > 0 THEN {(nowTick + 1) * TickLen} ELSE {})

\* backend_.wait() returns at t: a timeout, an event or a wake, as late as may be
Wait(t) ==
  /\ stage = "wait"
  /\ clock' = t
  /\ stage' = "events"
  /\ UNCHANGED <<now, cb, wheelVars, timerVars>>

\* bookkeeping: timers_.release for every dead timer
Bookkeeping ==
  /\ stage = "events" /\ cb = "none"
  /\ held' = held \ dead
  /\ dead' = {}
  /\ stage' = "out"
  /\ LET Cleared(f, v) == [n \in Nodes |-> IF n \in dead THEN v ELSE f[n]]
     IN  /\ kind' = Cleared(kind, "after") /\ group' = Cleared(group, NoGroup)
         /\ expiry' = Cleared(expiry, 0) /\ expiryTick' = Cleared(expiryTick, 0)
         /\ cancelled' = Cleared(cancelled, FALSE)
         /\ UNCHANGED <<clock, now, cb, bucket, count, due, advVars, heap>>

LoopStep == FireBegin \/ FireEnd \/ PollBegin \/ ExpireBegin \/ WheelStep \/ HeapStep
              \/ ExpireDone \/ Bookkeeping

TimersNext == UserStep \/ LoopStep \/ \E t \in {i \in Instants : i >= clock} : Wait(t)

TimersSpec == TimersInit /\ [][TimersNext]_timersVars

-----------------------------------------------------------------------------
(* Properties *)

\* Wheel, heap and timers have their types (TimerNode, poll_once).
TimersTypeOK ==
  /\ WheelTypeOK
  /\ clock \in Instants /\ now \in Instants
  /\ stage \in {"out", "mailbox", "timers", "wait", "events"}
  /\ cb \in {"none", "due", "running"}
  /\ heap \subseteq Nodes /\ dead \subseteq Nodes
  /\ kind \in [Nodes -> {"after", "at", "rate", "delay"}]
  /\ expiry \in [Nodes -> Nat]
  /\ group \in [Nodes -> Groups \cup {NoGroup}]
  /\ cancelled \in [Nodes -> BOOLEAN]
  /\ held \subseteq Nodes

Scheduled(n) == Linked(n) \/ n \in heap

\* A timer is scheduled exactly while it is armed.  No node in the wheel or the
\* heap is cancelled, dead or released (fire_timer and reclaim would touch freed
\* memory), and no held timer is in neither, where it would never fire.
ScheduledIffArmed ==
  \A n \in Nodes :
    /\ Scheduled(n) => Cancellable(n) /\ n \notin dead /\ ~(Linked(n) /\ n \in heap)
    /\ Cancellable(n) /\ n \notin dead /\ ~(cb # "none" /\ firing = n) => Scheduled(n)

\* A group's list holds exactly its armed timers: cancel_group() misses none, and
\* walks no node whose slot is about to be reused.
GroupHoldsArmed ==
  \A n \in Nodes : group[n] # NoGroup => Cancellable(n) /\ n \notin dead

\* No list of the event manager holds a timer that is not armed, and none misses one that
\* is (arm, cancel, cancel_group, fire_timer, bookkeeping); and one in the wheel lies
\* where its tick is serviced, through every cascade (advance, link, next_due_tick).
TimersOwned == TimersTypeOK /\ ScheduledIffArmed /\ GroupHoldsArmed /\ WheelSound

\* A timer's callback runs at or after the instant it was set for, although the
\* wheel only counts ticks (tick_of, floor_tick) and the loop caches the time.
NotBeforeExpiry ==
  [][cb = "due" /\ cb' = "running" => expiry[firing] <= now]_timersVars

\* A FixedRate timer keeps to its grid through late and coalesced fires: its
\* callback runs with the timer set for the first instant of the grid to come.
RateOnGrid ==
  [][cb = "due" /\ cb' = "running" /\ kind[firing] = "rate" =>
       LET next == expiry'[firing]
       IN  (next - expiry[firing]) % Period = 0 /\ now < next /\ next <= now + Period]_timersVars

\* A callback runs neither too early nor off its grid (fire_timer).
FiresOnTime == NotBeforeExpiry /\ RateOnGrid

\* The loop never plans to sleep past a timer: the wait ends no later than the
\* first instant at which some timer can fire.
WaitCoversTimers ==
  stage = "wait" => \A n \in Nodes : Scheduled(n) =>
    \E t \in Deadlines : t <= (IF n \in heap THEN expiry[n] ELSE due[n] * TickLen)

\* reschedule() arms the timer again: a timer that is set is not released.
RescheduleRearms == \A n \in Nodes : Scheduled(n) => n \in held
=============================================================================
