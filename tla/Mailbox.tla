------------------------------- MODULE Mailbox -------------------------------
(***************************************************************************)
(* Task posting to an EventManager (include/afx/itc/mailbox.hpp, and run,  *)
(* poll_once, wait_timeout, post, stop and the destructor of               *)
(* include/afx/core/event_manager.hpp) over the ring of MpscRing, with the *)
(* backend reduced to its wake handle.  Foreign threads post, the loop     *)
(* thread drains and blocks, the owner stops, joins and destroys.          *)
(*                                                                         *)
(* Both sides of the arm/block protocol run against store buffers: the     *)
(* producer's publication stays in pbuf and the loop's store to state in   *)
(* stbuf until they commit, and a seq_cst fence waits for its own thread's *)
(* buffer.  What the other stages of an iteration do is left out; that     *)
(* deferred work, pending writes or the spin budget may forbid blocking is *)
(* a free choice.                                                          *)
(***************************************************************************)
EXTENDS MpscRing

CONSTANTS Apis,       \* entry points in use: subset of {"post", "batch", "em"}
          Policy,     \* mailbox_overflow: "Fail" or "SpinRetry" (Abort ends the process)
          BatchLen,   \* tasks given to one post_batch
          MaxBatch,   \* max_itc_batch
          Expirable,  \* tasks posted under a deadline that may pass before they run
          Uring       \* backend: io_uring (drains its CQ before it sleeps) or epoll

ASSUME MailboxAssumption ==
  /\ Apis \subseteq {"post", "batch", "em"}
  /\ Policy \in {"Fail", "SpinRetry"}
  /\ BatchLen \in Nat \ {0} /\ MaxBatch \in Nat \ {0}
  /\ Expirable \subseteq Items
  /\ Uring \in BOOLEAN

VARIABLES
  state, stbuf,     \* MailboxState in memory; the loop's buffered store to it
  mpc, api, args,   \* per producer: where it is, which call, tasks still to push
  npush, moved,     \* per producer: batch count n; em.post's task is moved-from
  cpc, nrun,        \* the loop: stage; tasks run in this drain
  blocked, tok,     \* blocked_; the wake handle is signalled
  stop, ctl,        \* stop_; the owner's progress
  dead, alive,      \* mb_->dead; the backend still exists
  given, acc, ran   \* history: tasks passed to calls, accepted per producer, run

prodMb == <<mpc, api, args, npush, moved, given, acc>>
loopMb == <<cpc, nrun, blocked, ran>>
ownerMb == <<stop, ctl, dead, alive>>
mbVars == <<state, stbuf, tok, prodMb, loopMb, ownerMb>>
vars == <<ringVars, mbVars>>

Init ==
  /\ RingInit
  /\ state = "Running" /\ stbuf = "none" /\ tok = FALSE
  /\ mpc = [p \in Producers |-> "idle"]
  /\ api = [p \in Producers |-> "post"]
  /\ args = [p \in Producers |-> << >>]
  /\ npush = [p \in Producers |-> 0]
  /\ moved = [p \in Producers |-> FALSE]
  /\ cpc = "top" /\ nrun = 0 /\ blocked = FALSE
  /\ stop = FALSE /\ ctl = "using" /\ dead = FALSE /\ alive = TRUE
  /\ given = {} /\ acc = [p \in Producers |-> << >>] /\ ran = {}

-----------------------------------------------------------------------------
(* Producers *)

At(p, l) == mpc[p] = l
Goto(p, l) == mpc' = [mpc EXCEPT ![p] = l]

Fresh == Items \ (given \cup {NoTask})

\* The call a starts with tasks ts.  post and post_batch first look at dead; a
\* dead mailbox answers Closed (post_batch: 0).  EventManager::post does not.
Call(p, a, ts) ==
  /\ At(p, "idle")
  /\ a \in Apis
  /\ a = "em" => alive
  /\ given' = given \cup {ts[i] : i \in DOMAIN ts}
  /\ IF a # "em" /\ dead
       THEN UNCHANGED <<mpc, api, args, npush, moved>>
       ELSE /\ Goto(p, "push")
            /\ api' = [api EXCEPT ![p] = a]
            /\ args' = [args EXCEPT ![p] = ts]
            /\ npush' = [npush EXCEPT ![p] = 0]
            /\ moved' = [moved EXCEPT ![p] = FALSE]
  /\ UNCHANGED <<acc, state, stbuf, tok, loopMb, ownerMb, ringVars>>

\* ring.try_push of the next task; em.post moved its task into the temporary of
\* its first try_push, so a retry pushes an empty one.
TryPush(p) ==
  /\ At(p, "push")
  /\ PushBegin(p, IF moved[p] THEN NoTask ELSE Head(args[p]))
  /\ Goto(p, "pushing")
  /\ UNCHANGED <<api, args, npush, moved, given, acc, state, stbuf, tok, loopMb, ownerMb>>

Pushing(p) == PushStep(p) /\ UNCHANGED mbVars
\* try_push succeeded: post goes on to after_push, post_batch to its next task
PushOk(p) ==
  /\ At(p, "pushing") /\ rpc[p] = "ok"
  /\ PushReturn(p)
  /\ acc' = [acc EXCEPT ![p] = Append(@, Head(args[p]))]
  /\ args' = [args EXCEPT ![p] = Tail(@)]
  /\ npush' = [npush EXCEPT ![p] = @ + 1]
  /\ Goto(p, IF Len(args[p]) > 1 THEN "push" ELSE "fence")
  /\ UNCHANGED <<api, moved, given, state, stbuf, tok, loopMb, ownerMb>>

\* Mutant of PushFull: post_batch counts a task before it knows it was pushed.
PushFullCounted(p) ==
  /\ At(p, "pushing") /\ rpc[p] = "full"
  /\ PushReturn(p)
  /\ Goto(p, IF api[p] = "batch" THEN "fence" ELSE IF Policy = "Fail" THEN "idle" ELSE "spin")
  /\ acc' = IF api[p] = "batch" THEN [acc EXCEPT ![p] = Append(@, Head(args[p]))] ELSE acc
  /\ UNCHANGED <<api, args, npush, moved, given, state, stbuf, tok, loopMb, ownerMb>>

\* try_push found the ring full: overflow policy, or the end of a batch, which
\* calls after_push only if it pushed something
PushFull(p) ==
  /\ At(p, "pushing") /\ rpc[p] = "full"
  /\ PushReturn(p)
  /\ Goto(p, IF api[p] = "batch" THEN (IF npush[p] > 0 THEN "fence" ELSE "idle")
             ELSE IF Policy = "Fail" THEN "idle"
             ELSE IF api[p] = "em" /\ ~moved[p] THEN "push" ELSE "spin")
  /\ moved' = [moved EXCEPT ![p] = api[p] = "em"]
  /\ UNCHANGED <<api, args, npush, given, acc, state, stbuf, tok, loopMb, ownerMb>>

\* SpinRetry: Closed once the mailbox is dead, else try again
SpinRetry(p) ==
  /\ At(p, "spin")
  /\ Goto(p, IF dead THEN "idle" ELSE "push")
  /\ UNCHANGED <<api, args, npush, moved, given, acc, state, stbuf, tok, loopMb, ownerMb,
                 ringVars>>

\* Mutant of PostFence: no fence between the publication and the load.
PostFenceMissing(p) ==
  /\ At(p, "fence")
  /\ Goto(p, "load")
  /\ UNCHANGED <<api, args, npush, moved, given, acc, state, stbuf, tok, loopMb, ownerMb,
                 ringVars>>

\* after_push / post_wake: atomic_thread_fence(seq_cst) ...
PostFence(p) ==
  /\ At(p, "fence")
  /\ pbuf[p] = {}
  /\ Goto(p, "load")
  /\ UNCHANGED <<api, args, npush, moved, given, acc, state, stbuf, tok, loopMb, ownerMb,
                 ringVars>>

\* ... state.load() == Blocked? ...
PostLoad(p) ==
  /\ At(p, "load")
  /\ Goto(p, IF state = "Blocked" THEN "wake" ELSE "idle")
  /\ UNCHANGED <<api, args, npush, moved, given, acc, state, stbuf, tok, loopMb, ownerMb,
                 ringVars>>

\* ... wake_fn(wake_ctx): signal the backend, if there still is one
PostWake(p) ==
  /\ At(p, "wake")
  /\ Goto(p, "idle")
  /\ tok' = (tok \/ alive)
  /\ UNCHANGED <<api, args, npush, moved, given, acc, state, stbuf, loopMb, ownerMb, ringVars>>

-----------------------------------------------------------------------------
(* The loop thread: run() around poll_once() *)

CGoto(l) == cpc' = l

\* while (!stop_.load()) poll_once()
LoopTop ==
  /\ cpc = "top"
  /\ CGoto(IF stop THEN "exited" ELSE "drain")
  /\ nrun' = 0
  /\ UNCHANGED <<blocked, ran, state, stbuf, tok, prodMb, ownerMb, ringVars>>

\* drain_mailbox: one access of ring.try_pop
DrainPop ==
  /\ cpc = "drain" /\ nrun < MaxBatch
  /\ PopStep
  /\ UNCHANGED mbVars

\* The popped task runs, or is shed because its deadline has passed.
DrainRun ==
  /\ cpc = "drain"
  /\ PopReturn
  /\ nrun' = nrun + 1
  /\ \/ ran' = ran \cup {cout}
     \/ cout \in Expirable /\ ran' = ran
  /\ UNCHANGED <<cpc, blocked, state, stbuf, tok, prodMb, ownerMb>>

\* The batch limit is reached, or try_pop finds no published cell.
DrainEnd ==
  /\ cpc = "drain" /\ cst = "out"
  /\ nrun = MaxBatch \/ RingEmpty
  /\ CGoto("mayblock")
  /\ UNCHANGED <<nrun, blocked, ran, state, stbuf, tok, prodMb, ownerMb, ringVars>>

\* wait_timeout: blocking is considered only over an empty ring; strategy,
\* deferred work and pending writes may forbid it as well.
MayBlock ==
  /\ cpc = "mayblock"
  /\ \/ RingEmpty /\ CGoto("arm")
     \/ CGoto("wait")
  /\ UNCHANGED <<nrun, blocked, ran, state, stbuf, tok, prodMb, ownerMb, ringVars>>

\* state.store(Blocked) ...
Arm ==
  /\ cpc = "arm"
  /\ stbuf' = "Blocked"
  /\ CGoto("fence")
  /\ UNCHANGED <<nrun, blocked, ran, state, tok, prodMb, ownerMb, ringVars>>

\* ... atomic_thread_fence(seq_cst) ...
ArmFence ==
  /\ cpc = "fence"
  /\ stbuf = "none"
  /\ CGoto("recheck")
  /\ UNCHANGED <<nrun, blocked, ran, state, stbuf, tok, prodMb, ownerMb, ringVars>>

\* Mutant of Recheck: block without looking again.
RecheckMissing ==
  /\ cpc = "recheck"
  /\ CGoto("wait")
  /\ blocked' = TRUE
  /\ UNCHANGED <<nrun, ran, state, stbuf, tok, prodMb, ownerMb, ringVars>>

\* ... look again: still empty, block; otherwise take Blocked back and poll
Recheck ==
  /\ cpc = "recheck"
  /\ CGoto("wait")
  /\ IF RingEmpty THEN blocked' = TRUE /\ UNCHANGED stbuf
                  ELSE stbuf' = "Running" /\ UNCHANGED blocked
  /\ UNCHANGED <<nrun, ran, state, tok, prodMb, ownerMb, ringVars>>

\* the loop's buffered store to state reaches memory
CommitState ==
  /\ stbuf # "none"
  /\ state' = stbuf
  /\ stbuf' = "none"
  /\ UNCHANGED <<tok, loopMb, prodMb, ownerMb, ringVars>>

\* Mutant of WaitBegin: the pre-drain consumes a wake and the loop sleeps all the
\* same (no saw_wake_).
WaitBeginForgetful ==
  /\ cpc = "wait"
  /\ \/ CGoto("resume") /\ tok' \in {tok, FALSE}
     \/ /\ blocked
        /\ CGoto("sleep")
        /\ tok' = (tok /\ ~Uring)
  /\ UNCHANGED <<nrun, blocked, ran, state, stbuf, prodMb, ownerMb, ringVars>>

\* backend_.wait(timeout), up to the decision to sleep.  A zero timeout, or
\* completions at hand, only polls and may consume a pending wake.  io_uring
\* drains its completion queue first, and a wake consumed there forbids the sleep.
WaitBegin ==
  /\ cpc = "wait"
  /\ \/ CGoto("resume") /\ tok' \in {tok, FALSE}
     \/ /\ blocked
        /\ IF Uring /\ tok THEN CGoto("resume") /\ tok' = FALSE
                           ELSE CGoto("sleep") /\ UNCHANGED tok
  /\ UNCHANGED <<nrun, blocked, ran, state, stbuf, prodMb, ownerMb, ringVars>>

\* The sleep ends because of a wake, which it consumes ...
SleepWoken ==
  /\ cpc = "sleep"
  /\ tok
  /\ tok' = FALSE
  /\ CGoto("resume")
  /\ UNCHANGED <<nrun, blocked, ran, state, stbuf, prodMb, ownerMb, ringVars>>

\* ... or because of a timer, I/O or a signal.
SleepOther ==
  /\ cpc = "sleep"
  /\ CGoto("resume")
  /\ UNCHANGED <<nrun, blocked, ran, state, stbuf, tok, prodMb, ownerMb, ringVars>>

\* poll_once after the wait: publish Running if we had blocked; the remaining
\* stages and bookkeeping, which resets blocked_
Resume ==
  /\ cpc = "resume"
  /\ stbuf' = IF blocked THEN "Running" ELSE stbuf
  /\ blocked' = FALSE
  /\ CGoto("top")
  /\ UNCHANGED <<nrun, ran, state, tok, prodMb, ownerMb, ringVars>>

-----------------------------------------------------------------------------
(* The owner: stop(), join, destroy *)

\* Mutant of StopStore: stop() does not wake the backend.
StopStoreOnly ==
  /\ ctl = "using"
  /\ stop' = TRUE
  /\ ctl' = "joining"
  /\ UNCHANGED <<dead, alive, state, stbuf, tok, prodMb, loopMb, ringVars>>

\* stop_.store(true), then backend_.wake()
StopStore ==
  /\ ctl = "using"
  /\ stop' = TRUE
  /\ ctl' = "stopping"
  /\ UNCHANGED <<dead, alive, state, stbuf, tok, prodMb, loopMb, ringVars>>

StopWake ==
  /\ ctl = "stopping"
  /\ tok' = TRUE
  /\ ctl' = "joining"
  /\ UNCHANGED <<stop, dead, alive, state, stbuf, prodMb, loopMb, ringVars>>

\* ~BasicEventManager, once run() has returned and its thread is joined, which
\* orders the loop's stores before: dead first ...
MarkDead ==
  /\ ctl = "joining" /\ cpc = "exited" /\ stbuf = "none"
  /\ dead' = TRUE
  /\ ctl' = "dying"
  /\ UNCHANGED <<stop, alive, state, stbuf, tok, prodMb, loopMb, ringVars>>

\* ... and the backend with the members.  em.post needs the EventManager itself,
\* so its callers are done by now; a Mailbox handle may be in use at any time.
Destroy ==
  /\ ctl = "dying"
  /\ \A p \in Producers : api[p] = "em" => At(p, "idle")
  /\ alive' = FALSE
  /\ ctl' = "gone"
  /\ UNCHANGED <<stop, dead, state, stbuf, tok, prodMb, loopMb, ringVars>>

-----------------------------------------------------------------------------
Seqs(n) == UNION {[1 .. k -> Fresh] : k \in 1 .. n}
Batches == {ts \in Seqs(BatchLen) : \A i, j \in DOMAIN ts : i # j => ts[i] # ts[j]}

CallStep(p) ==
  \/ \E t \in Fresh, a \in {"post", "em"} : Call(p, a, <<t>>)
  \/ \E ts \in Batches : Call(p, "batch", ts)

ProducerStep(p) ==
  \/ TryPush(p) \/ Pushing(p) \/ PushOk(p) \/ PushFull(p) \/ SpinRetry(p)
  \/ PostFence(p) \/ PostLoad(p) \/ PostWake(p)

CommitPush(p) == Commit(p) /\ UNCHANGED mbVars

LoopStep ==
  \/ LoopTop \/ DrainPop \/ DrainRun \/ DrainEnd \/ MayBlock \/ Arm \/ ArmFence
  \/ Recheck \/ WaitBegin \/ SleepWoken \/ Resume

OwnerStep == StopStore \/ StopWake \/ MarkDead \/ Destroy

Next ==
  \/ \E p \in Producers : CallStep(p) \/ ProducerStep(p) \/ CommitPush(p)
  \/ LoopStep \/ SleepOther \/ CommitState \/ OwnerStep

\* Every started thread keeps running and store buffers drain.  Nobody has to
\* call post or stop, and a sleep need not end by anything but a wake.
Fairness ==
  /\ \A p \in Producers :
       /\ WF_vars(ProducerStep(p))
       /\ SF_vars(PushClaim(p) /\ UNCHANGED mbVars)
       /\ WF_vars(CommitPush(p))
  /\ WF_vars(LoopStep) /\ WF_vars(CommitState)
  /\ WF_vars(StopWake)

Spec == Init /\ [][Next]_vars
FairSpec == Spec /\ Fairness

-----------------------------------------------------------------------------
(* Properties *)

\* Producers, loop and owner are always at a step of theirs, and a drain runs at
\* most max_itc_batch tasks (drain_mailbox).
MbTypeOK ==
  /\ state \in {"Running", "Blocked"} /\ stbuf \in {"none", "Running", "Blocked"}
  /\ mpc \in [Producers -> {"idle", "push", "pushing", "spin", "fence", "load", "wake"}]
  /\ api \in [Producers -> {"post", "batch", "em"}]
  /\ args \in [Producers -> Seq(Items)]
  /\ npush \in [Producers -> Nat] /\ moved \in [Producers -> BOOLEAN]
  /\ cpc \in {"top", "drain", "mayblock", "arm", "fence", "recheck", "wait", "sleep",
              "resume", "exited"}
  /\ nrun \in 0 .. MaxBatch /\ blocked \in BOOLEAN /\ tok \in BOOLEAN
  /\ stop \in BOOLEAN /\ ctl \in {"using", "stopping", "joining", "dying", "gone"}
  /\ dead \in BOOLEAN /\ alive \in BOOLEAN
  /\ given \subseteq Items /\ acc \in [Producers -> Seq(Items)] /\ ran \subseteq Items

\* Mailbox and ring together.
TypeOK == RingTypeOK /\ MbTypeOK

\* p has published a task and has still to look at state, or to signal.
WillCheck(p) ==
  \/ mpc[p] \in {"fence", "load", "wake"}
  \/ mpc[p] \in {"push", "pushing"} /\ npush[p] > 0
  \/ mpc[p] = "pushing" /\ rpc[p] = "ok"

\* The arm/block protocol loses no wakeup: the loop never sleeps over a ring with
\* a published task unless its wake handle is signalled or a producer is still on
\* its way to signal it (wait_timeout against after_push and post_wake).
NoLostWakeup ==
  cpc = "sleep" /\ ~RingEmpty => tok \/ \E p \in Producers : WillCheck(p)

\* Nor does stop(): while a stopped loop sleeps, stop's wake is pending.
StopInterrupts == cpc = "sleep" /\ stop => tok \/ ctl = "stopping"

Occurs(s, t) == \E i \in DOMAIN s : s[i] = t

\* A task post reported Ok for, or post_batch counted, is in the ring: full-ring
\* retries and cut-off batches lose no accepted task.
AcceptedQueued ==
  \A p \in Producers : \A i \in DOMAIN acc[p] : Occurs(log, acc[p][i])

\* An accepted task without a deadline is run, unless the loop is stopped.
AcceptedRuns ==
  \A t \in Items \ (Expirable \cup {NoTask}) :
    (\E p \in Producers : Occurs(acc[p], t)) ~> (t \in ran \/ stop)

\* stop() ends run(), whatever the loop was doing.
StopEnds == stop ~> cpc = "exited"

\* post returns, SpinRetry included, as long as the loop runs.
PostReturns == \A p \in Producers : At(p, "push") ~> (At(p, "idle") \/ stop)
=============================================================================
