---------------------------- MODULE Mailbox_proof ----------------------------
(***************************************************************************)
(* Proofs about Mailbox for every set of producers and tasks, every        *)
(* capacity of at least two cells, both overflow policies and both kinds   *)
(* of backend: its types, the ring under it, and that the arm/block        *)
(* protocol loses no wakeup.                                               *)
(***************************************************************************)
EXTENDS Mailbox, MpscRing_proof

(* The parts of the inductive invariant *)

\* A call in progress has a task to push, a single one unless it is a batch, and
\* only try_push is inside the ring.
CallOK(p) ==
  /\ mpc[p] \in {"push", "pushing", "spin"} =>
       args[p] # << >> /\ (api[p] # "batch" => Len(args[p]) = 1 /\ npush[p] = 0)
  /\ mpc[p] # "pushing" => rpc[p] = "out"
Calls == \A p \in Producers : CallOK(p)

\* Whoever has a publication under way is still going to look at state.
Buffered == \A p \in Producers : pbuf[p] # {} => WillCheck(p) /\ mpc[p] \notin {"load", "wake"}

\* The loop has announced Blocked, visibly from the re-check on.
Waiting == cpc = "sleep" \/ (cpc = "wait" /\ blocked)
Armed ==
  /\ blocked => cpc \in {"wait", "sleep", "resume"}
  /\ cpc = "fence" => stbuf = "Blocked" \/ (stbuf = "none" /\ state = "Blocked")
  /\ cpc = "recheck" \/ Waiting => stbuf = "none" /\ state = "Blocked"

\* The backend outlives the loop, and the owner joins before it destroys.
Lifetime ==
  /\ ctl \in {"dying", "gone"} => cpc = "exited"
  /\ ~alive => ctl = "gone"
  /\ stop <=> ctl # "using"

\* NoLostWakeup from the moment the loop has decided to sleep.
Woken == Waiting /\ ~RingEmpty => tok \/ \E p \in Producers : WillCheck(p)

\* StopInterrupts from the moment the loop has missed stop_.
StopSeen == stop /\ cpc \notin {"resume", "top", "exited"} => tok \/ ctl = "stopping"

\* try_pop is called only while the batch limit allows.
Draining == cst # "out" => cpc = "drain" /\ nrun < MaxBatch

WakeInv == Calls /\ Buffered /\ Armed /\ Lifetime /\ Woken /\ StopSeen /\ Draining
MbInv == RingInv /\ MbTypeOK /\ WakeInv

-----------------------------------------------------------------------------
(* The ring under the mailbox *)

RingMove ==
  \/ \E p \in Producers : \/ \E v \in Items : PushBegin(p, v)
                          \/ PushStep(p) \/ Commit(p) \/ PushReturn(p)
  \/ PopStep \/ PopReturn \/ UNCHANGED ringVars

\* Whatever the mailbox does with its ring keeps the ring's invariant.
LEMMA RingMoveInv == ASSUME Cap > 1, RingInv, RingMove PROVE RingInv'
<1>1. ASSUME NEW p \in Producers, NEW v \in Items, PushBegin(p, v) PROVE RingInv'
  BY <1>1, PushBeginInv
<1>2. ASSUME NEW p \in Producers, PushStep(p) PROVE RingInv'
  BY <1>2, PushLoadSeqInv, PushReloadInv, PushClaimInv, PushLoseInv,
     PushWriteInv, PushPublishInv DEF PushStep
<1>3. ASSUME NEW p \in Producers, Commit(p) \/ PushReturn(p) PROVE RingInv'
  BY <1>3, CommitInv, PushReturnInv
<1>4. ASSUME PopStep \/ PopReturn \/ UNCHANGED ringVars PROVE RingInv'
  BY <1>4, PopHitInv, PopMoveInv, PopFreeInv, PopReturnInv, RingStutterInv DEF PopStep
<1> QED
  BY <1>1, <1>2, <1>3, <1>4 DEF RingMove

\* The tasks handed to post, em.post and post_batch are sequences of tasks.
LEMMA CallArgs ==
  /\ \A t \in Fresh : <<t>> \in Seq(Items) /\ <<t>> # << >>
  /\ \A ts \in Batches : ts \in Seq(Items) /\ ts # << >>
<1>1. Fresh \subseteq Items
  BY DEF Fresh
<1>2. ASSUME NEW t \in Fresh PROVE <<t>> \in Seq(Items) /\ <<t>> # << >>
  BY <1>1
<1>3. ASSUME NEW ts \in Batches PROVE ts \in Seq(Items) /\ ts # << >>
  <2>1. PICK k \in 1 .. BatchLen : ts \in [1 .. k -> Fresh]
    BY DEF Batches, Seqs
  <2>2. k \in Nat /\ k >= 1
    BY MailboxAssumption
  <2>3. ts \in [1 .. k -> Items]
    BY <1>1, <2>1
  <2>4. ts \in Seq(Items) /\ Len(ts) = k
    BY <2>2, <2>3
  <2> QED
    BY <2>2, <2>4
<1> QED
  BY <1>2, <1>3
\* A batch with more than one task left has a next one.
LEMMA LongTail == ASSUME NEW s \in Seq(Items), Len(s) > 1 PROVE Tail(s) # << >>
<1>1. Len(s) \in Nat /\ s # << >>
  OBVIOUS
<1>2. Len(Tail(s)) = Len(s) - 1
  BY <1>1, HeadTailProperties
<1>3. Len(Tail(s)) # 0
  BY <1>1, <1>2
<1> QED
  BY <1>3, Len(<< >>) = 0, Zenon

\* Inside try_push there is a task at hand, and a further one only in a batch.
LEMMA PushArgs ==
  ASSUME MbInv, NEW p \in Producers, mpc[p] = "pushing"
  PROVE  /\ args[p] \in Seq(Items) /\ args[p] # << >> /\ npush[p] \in Nat
         /\ Len(args[p]) > 1 => api[p] = "batch" /\ Tail(args[p]) # << >>
<1>1. args[p] \in Seq(Items) /\ npush[p] \in Nat
  BY DEF MbInv, MbTypeOK
<1>2. args[p] # << >> /\ (api[p] # "batch" => Len(args[p]) = 1)
  BY DEF MbInv, WakeInv, Calls, CallOK
<1>3. Len(args[p]) > 1 => api[p] = "batch"
  <2>1. CASE api[p] # "batch"
    <3>1. Len(args[p]) = 1
      BY <1>2, <2>1
    <3> QED
      BY <3>1
  <2> QED
    BY <2>1
<1>4. Len(args[p]) > 1 => Tail(args[p]) # << >>
  BY <1>1, LongTail
<1> QED
  BY <1>1, <1>2, <1>3, <1>4

-----------------------------------------------------------------------------
(* Steps of the loop and of the owner: they leave the producers alone, so what
   matters is where the loop stands in the arm/block protocol *)

\* run() starts an iteration only if stop_ was clear.
LEMMA LoopTopInv == ASSUME MbInv, LoopTop PROVE MbTypeOK' /\ WakeInv'
<1> USE DEF MbInv, WakeInv, LoopTop, CGoto, prodMb, loopMb, ownerMb, ringVars, prodVars
<1>1. MbTypeOK'
  BY MailboxAssumption DEF MbTypeOK
<1>2. Calls' /\ Buffered'
  BY DEF Calls, CallOK, Buffered, WillCheck
<1>3. Armed'
  BY DEF Armed, Waiting, MbTypeOK
<1>4. Lifetime' /\ StopSeen'
  BY DEF Lifetime, StopSeen, MbTypeOK
<1>5. Woken'
  BY DEF Woken, WillCheck, Waiting, RingEmpty, Armed
<1>6. Draining'
  BY DEF Draining, consVars
<1> QED
  BY <1>1, <1>2, <1>3, <1>4, <1>5, <1>6

\* drain_mailbox gives way to wait_timeout.
LEMMA DrainEndInv == ASSUME MbInv, DrainEnd PROVE MbTypeOK' /\ WakeInv'
<1> USE DEF MbInv, WakeInv, DrainEnd, CGoto, prodMb, loopMb, ownerMb, ringVars, prodVars
<1>1. MbTypeOK'
  BY MailboxAssumption DEF MbTypeOK
<1>2. Calls' /\ Buffered'
  BY DEF Calls, CallOK, Buffered, WillCheck
<1>3. Armed'
  BY DEF Armed, Waiting, MbTypeOK
<1>4. Lifetime' /\ StopSeen'
  BY DEF Lifetime, StopSeen, MbTypeOK
<1>5. Woken'
  BY DEF Woken, WillCheck, Waiting, RingEmpty, Armed
<1>6. Draining'
  BY DEF Draining, consVars
<1> QED
  BY <1>1, <1>2, <1>3, <1>4, <1>5, <1>6

\* wait_timeout decides whether to arm.
LEMMA MayBlockInv == ASSUME MbInv, MayBlock PROVE MbTypeOK' /\ WakeInv'
<1> USE DEF MbInv, WakeInv, MayBlock, CGoto, prodMb, loopMb, ownerMb, ringVars, prodVars
<1>1. MbTypeOK'
  BY MailboxAssumption DEF MbTypeOK
<1>2. Calls' /\ Buffered'
  BY DEF Calls, CallOK, Buffered, WillCheck
<1>3. Armed'
  BY DEF Armed, Waiting, MbTypeOK
<1>4. Lifetime' /\ StopSeen'
  BY DEF Lifetime, StopSeen, MbTypeOK
<1>5. Woken'
  BY DEF Woken, WillCheck, Waiting, RingEmpty, Armed
<1>6. Draining'
  BY DEF Draining, consVars
<1> QED
  BY <1>1, <1>2, <1>3, <1>4, <1>5, <1>6

\* The Blocked store enters the store buffer.
LEMMA ArmInv == ASSUME MbInv, Arm PROVE MbTypeOK' /\ WakeInv'
<1> USE DEF MbInv, WakeInv, Arm, CGoto, prodMb, loopMb, ownerMb, ringVars, prodVars
<1>1. MbTypeOK'
  BY MailboxAssumption DEF MbTypeOK
<1>2. Calls' /\ Buffered'
  BY DEF Calls, CallOK, Buffered, WillCheck
<1>3. Armed'
  <2>1. ~blocked /\ ~blocked' /\ cpc' = "fence" /\ stbuf' = "Blocked"
    BY DEF Armed
  <2> QED
    BY <2>1 DEF Armed, Waiting
<1>4. Lifetime' /\ StopSeen'
  BY DEF Lifetime, StopSeen, MbTypeOK
<1>5. Woken'
  BY DEF Woken, WillCheck, Waiting, RingEmpty, Armed
<1>6. Draining'
  BY DEF Draining, consVars
<1> QED
  BY <1>1, <1>2, <1>3, <1>4, <1>5, <1>6

\* Past the fence, Blocked is visible.
LEMMA ArmFenceInv == ASSUME MbInv, ArmFence PROVE MbTypeOK' /\ WakeInv'
<1> USE DEF MbInv, WakeInv, ArmFence, CGoto, prodMb, loopMb, ownerMb, ringVars, prodVars
<1>1. MbTypeOK'
  BY MailboxAssumption DEF MbTypeOK
<1>2. Calls' /\ Buffered'
  BY DEF Calls, CallOK, Buffered, WillCheck
<1>3. Armed'
  BY DEF Armed, Waiting, MbTypeOK
<1>4. Lifetime' /\ StopSeen'
  BY DEF Lifetime, StopSeen, MbTypeOK
<1>5. Woken'
  BY DEF Woken, WillCheck, Waiting, RingEmpty, Armed
<1>6. Draining'
  BY DEF Draining, consVars
<1> QED
  BY <1>1, <1>2, <1>3, <1>4, <1>5, <1>6

\* The loop blocks only if the ring is empty after the fence.
LEMMA RecheckInv == ASSUME MbInv, Recheck PROVE MbTypeOK' /\ WakeInv'
<1> USE DEF MbInv, WakeInv, Recheck, CGoto, prodMb, loopMb, ownerMb, ringVars, prodVars
<1>1. MbTypeOK'
  BY ZenonT(60), MailboxAssumption DEF MbTypeOK
<1>2. Calls' /\ Buffered'
  BY DEF Calls, CallOK, Buffered, WillCheck
<1>3. Armed'
  BY DEF Armed, Waiting, MbTypeOK
<1>4. Lifetime' /\ StopSeen'
  BY DEF Lifetime, StopSeen, MbTypeOK
<1>5. Woken'
  BY DEF Woken, WillCheck, Waiting, RingEmpty, Armed
<1>6. Draining'
  BY DEF Draining, consVars
<1> QED
  BY <1>1, <1>2, <1>3, <1>4, <1>5, <1>6

\* A store to state becomes visible.
LEMMA CommitStateInv == ASSUME MbInv, CommitState PROVE MbTypeOK' /\ WakeInv'
<1> USE DEF MbInv, WakeInv, CommitState, CGoto, prodMb, loopMb, ownerMb, ringVars, prodVars
<1>1. MbTypeOK'
  BY MailboxAssumption DEF MbTypeOK
<1>2. Calls' /\ Buffered'
  BY DEF Calls, CallOK, Buffered, WillCheck
<1>3. Armed'
  BY DEF Armed, Waiting, MbTypeOK
<1>4. Lifetime' /\ StopSeen'
  BY DEF Lifetime, StopSeen, MbTypeOK
<1>5. Woken'
  BY DEF Woken, WillCheck, Waiting, RingEmpty, Armed
<1>6. Draining'
  BY DEF Draining, consVars
<1> QED
  BY <1>1, <1>2, <1>3, <1>4, <1>5, <1>6

\* The backend sleeps only with its wake handle unconsumed.
LEMMA WaitBeginInv == ASSUME MbInv, WaitBegin PROVE MbTypeOK' /\ WakeInv'
<1> USE DEF MbInv, WakeInv, WaitBegin, CGoto, prodMb, loopMb, ownerMb, ringVars, prodVars
<1>1. MbTypeOK'
  <2>1. tok' \in BOOLEAN /\ cpc' \in {"resume", "sleep"}
    BY ZenonT(60) DEF MbTypeOK
  <2>2. UNCHANGED <<nrun, blocked, ran, state, stbuf, prodMb, ownerMb>>
    OBVIOUS
  <2> HIDE DEF WaitBegin
  <2> QED
    BY <2>1, <2>2 DEF MbTypeOK
<1>2. Calls' /\ Buffered'
  BY DEF Calls, CallOK, Buffered, WillCheck
<1>3. Armed'
  BY ZenonT(60) DEF Armed, Waiting, MbTypeOK
<1>4. Lifetime' /\ StopSeen'
  BY ZenonT(60) DEF Lifetime, StopSeen, MbTypeOK
<1>5. Woken'
  BY ZenonT(60) DEF Woken, WillCheck, Waiting, RingEmpty, Armed
<1>6. Draining'
  BY DEF Draining, consVars
<1> QED
  BY <1>1, <1>2, <1>3, <1>4, <1>5, <1>6

\* A consumed wake ends the sleep.
LEMMA SleepWokenInv == ASSUME MbInv, SleepWoken PROVE MbTypeOK' /\ WakeInv'
<1> USE DEF MbInv, WakeInv, SleepWoken, CGoto, prodMb, loopMb, ownerMb, ringVars, prodVars
<1>1. MbTypeOK'
  BY ZenonT(60), MailboxAssumption DEF MbTypeOK
<1>2. Calls' /\ Buffered'
  BY DEF Calls, CallOK, Buffered, WillCheck
<1>3. Armed'
  BY DEF Armed, Waiting, MbTypeOK
<1>4. Lifetime' /\ StopSeen'
  BY DEF Lifetime, StopSeen, MbTypeOK
<1>5. Woken'
  BY DEF Woken, WillCheck, Waiting, RingEmpty, Armed
<1>6. Draining'
  BY DEF Draining, consVars
<1> QED
  BY <1>1, <1>2, <1>3, <1>4, <1>5, <1>6

\* The sleep may end without a wake.
LEMMA SleepOtherInv == ASSUME MbInv, SleepOther PROVE MbTypeOK' /\ WakeInv'
<1> USE DEF MbInv, WakeInv, SleepOther, CGoto, prodMb, loopMb, ownerMb, ringVars, prodVars
<1>1. MbTypeOK'
  BY MailboxAssumption DEF MbTypeOK
<1>2. Calls' /\ Buffered'
  BY DEF Calls, CallOK, Buffered, WillCheck
<1>3. Armed'
  BY DEF Armed, Waiting, MbTypeOK
<1>4. Lifetime' /\ StopSeen'
  BY DEF Lifetime, StopSeen, MbTypeOK
<1>5. Woken'
  BY DEF Woken, WillCheck, Waiting, RingEmpty, Armed
<1>6. Draining'
  BY DEF Draining, consVars
<1> QED
  BY <1>1, <1>2, <1>3, <1>4, <1>5, <1>6

\* The loop publishes Running and clears blocked_.
LEMMA ResumeInv == ASSUME MbInv, Resume PROVE MbTypeOK' /\ WakeInv'
<1> USE DEF MbInv, WakeInv, Resume, CGoto, prodMb, loopMb, ownerMb, ringVars, prodVars
<1>1. MbTypeOK'
  BY ZenonT(60), MailboxAssumption DEF MbTypeOK
<1>2. Calls' /\ Buffered'
  BY DEF Calls, CallOK, Buffered, WillCheck
<1>3. Armed'
  BY DEF Armed, Waiting, MbTypeOK
<1>4. Lifetime' /\ StopSeen'
  BY DEF Lifetime, StopSeen, MbTypeOK
<1>5. Woken'
  BY DEF Woken, WillCheck, Waiting, RingEmpty, Armed
<1>6. Draining'
  BY DEF Draining, consVars
<1> QED
  BY <1>1, <1>2, <1>3, <1>4, <1>5, <1>6

\* stop_ is set before the wake.
LEMMA StopStoreInv == ASSUME MbInv, StopStore PROVE MbTypeOK' /\ WakeInv'
<1> USE DEF MbInv, WakeInv, StopStore, CGoto, prodMb, loopMb, ownerMb, ringVars, prodVars
<1>1. MbTypeOK'
  BY MailboxAssumption DEF MbTypeOK
<1>2. Calls' /\ Buffered'
  BY DEF Calls, CallOK, Buffered, WillCheck
<1>3. Armed'
  BY DEF Armed, Waiting, MbTypeOK
<1>4. Lifetime' /\ StopSeen'
  BY DEF Lifetime, StopSeen, MbTypeOK
<1>5. Woken'
  BY DEF Woken, WillCheck, Waiting, RingEmpty, Armed
<1>6. Draining'
  BY DEF Draining, consVars
<1> QED
  BY <1>1, <1>2, <1>3, <1>4, <1>5, <1>6

\* stop() signals the wake handle.
LEMMA StopWakeInv == ASSUME MbInv, StopWake PROVE MbTypeOK' /\ WakeInv'
<1> USE DEF MbInv, WakeInv, StopWake, CGoto, prodMb, loopMb, ownerMb, ringVars, prodVars
<1>1. MbTypeOK'
  BY MailboxAssumption DEF MbTypeOK
<1>2. Calls' /\ Buffered'
  BY DEF Calls, CallOK, Buffered, WillCheck
<1>3. Armed'
  BY DEF Armed, Waiting, MbTypeOK
<1>4. Lifetime' /\ StopSeen'
  BY DEF Lifetime, StopSeen, MbTypeOK
<1>5. Woken'
  BY DEF Woken, WillCheck, Waiting, RingEmpty, Armed
<1>6. Draining'
  BY DEF Draining, consVars
<1> QED
  BY <1>1, <1>2, <1>3, <1>4, <1>5, <1>6

\* The destructor runs after the loop has exited.
LEMMA MarkDeadInv == ASSUME MbInv, MarkDead PROVE MbTypeOK' /\ WakeInv'
<1> USE DEF MbInv, WakeInv, MarkDead, CGoto, prodMb, loopMb, ownerMb, ringVars, prodVars
<1>1. MbTypeOK'
  BY MailboxAssumption DEF MbTypeOK
<1>2. Calls' /\ Buffered'
  BY DEF Calls, CallOK, Buffered, WillCheck
<1>3. Armed'
  BY DEF Armed, Waiting, MbTypeOK
<1>4. Lifetime' /\ StopSeen'
  BY DEF Lifetime, StopSeen, MbTypeOK
<1>5. Woken'
  BY DEF Woken, WillCheck, Waiting, RingEmpty, Armed
<1>6. Draining'
  BY DEF Draining, consVars
<1> QED
  BY ZenonT(60), <1>1, <1>2, <1>3, <1>4, <1>5, <1>6

\* The backend goes last.
LEMMA DestroyInv == ASSUME MbInv, Destroy PROVE MbTypeOK' /\ WakeInv'
<1> USE DEF MbInv, WakeInv, Destroy, CGoto, prodMb, loopMb, ownerMb, ringVars, prodVars
<1>1. MbTypeOK'
  BY ZenonT(60), MailboxAssumption DEF MbTypeOK
<1>2. Calls' /\ Buffered'
  BY ZenonT(60) DEF Calls, CallOK, Buffered, WillCheck
<1>3. Armed'
  BY DEF Armed, Waiting, MbTypeOK
<1>4. Lifetime' /\ StopSeen'
  BY DEF Lifetime, StopSeen, MbTypeOK
<1>5. Woken'
  BY DEF Woken, WillCheck, Waiting, RingEmpty, Armed
<1>6. Draining'
  BY DEF Draining, consVars
<1> QED
  BY <1>1, <1>2, <1>3, <1>4, <1>5, <1>6

-----------------------------------------------------------------------------
(* Steps of a producer: they leave the loop alone, so what matters is that a
   producer which stops being on its way has signalled *)

\* What a step of p that leaves the loop, the owner and the visible ring alone has
\* to keep.
LEMMA ProducerFrame ==
  ASSUME MbInv, NEW p \in Producers, MbTypeOK',
         UNCHANGED <<state, stbuf, loopMb, ownerMb, seq, deq, cst>>,
         tok => tok',
         \A q \in Producers \ {p} :
           UNCHANGED <<mpc[q], api[q], args[q], npush[q], rpc[q], pbuf[q]>>,
         CallOK(p)',
         pbuf'[p] # {} => WillCheck(p)' /\ mpc'[p] \notin {"load", "wake"},
         Waiting /\ WillCheck(p) => WillCheck(p)' \/ tok'
  PROVE  WakeInv'
<1> USE DEF MbInv, WakeInv, loopMb, ownerMb
<1>1. Calls' /\ Buffered'
  <2>1. ASSUME NEW q \in Producers \ {p} PROVE CallOK(q)' /\ (WillCheck(q) => WillCheck(q)')
    BY ZenonT(60) DEF Calls, CallOK, WillCheck
  <2>2. Calls'
    BY <2>1, Zenon DEF Calls
  <2>3. ASSUME NEW q \in Producers \ {p}, pbuf'[q] # {}
        PROVE  WillCheck(q)' /\ mpc'[q] \notin {"load", "wake"}
    BY <2>1, <2>3, Zenon DEF Buffered
  <2> QED
    BY <2>2, <2>3, Zenon DEF Buffered
<1>2. Armed' /\ Lifetime' /\ StopSeen' /\ Draining'
  BY ZenonT(60) DEF Armed, Lifetime, StopSeen, Draining, Waiting
<1>3. Woken'
  BY ZenonT(60) DEF Woken, WillCheck, Waiting, RingEmpty
<1> QED
  BY <1>1, <1>2, <1>3

\* One access of try_push concerns its producer alone, and only the publication
\* adds to the store buffer.
LEMMA PushStepFrame ==
  ASSUME RingTypeOK, NEW p \in Producers, PushStep(p)
  PROVE  /\ UNCHANGED <<seq, deq, cst>>
         /\ \A q \in Producers \ {p} : UNCHANGED <<rpc[q], pbuf[q]>>
         /\ rpc[p] \notin {"out", "ok", "full"}
         /\ pbuf'[p] # pbuf[p] => rpc'[p] = "ok"
<1> USE DEF RingTypeOK, consVars
<1>1. CASE PushLoadSeq(p) \/ PushReload(p)
  BY <1>1 DEF PushLoadSeq, PushReload
<1>2. CASE PushClaim(p) \/ PushLose(p)
  BY <1>2 DEF PushClaim, PushLose
<1>3. CASE PushWrite(p) \/ PushPublish(p)
  BY ZenonT(60), <1>3 DEF PushWrite, PushPublish
<1> QED
  BY ZenonT(60), <1>1, <1>2, <1>3 DEF PushStep

\* try_push makes one access.
LEMMA PushingInv == ASSUME MbInv, NEW p \in Producers, Pushing(p) PROVE MbTypeOK' /\ WakeInv'
<1>1. PushStep(p) /\ UNCHANGED mbVars
  BY ZenonT(60) DEF Pushing
<1>2. /\ UNCHANGED <<seq, deq, cst>>
      /\ \A q \in Producers \ {p} : UNCHANGED <<rpc[q], pbuf[q]>>
      /\ rpc[p] \notin {"out", "ok", "full"}
      /\ pbuf'[p] # pbuf[p] => rpc'[p] = "ok"
  BY ZenonT(60), <1>1, PushStepFrame DEF MbInv, RingInv
<1>3. mpc[p] = "pushing"
  BY ZenonT(60), <1>2 DEF MbInv, WakeInv, Calls, CallOK
<1> USE <1>1 DEF MbInv, WakeInv, mbVars, prodMb, loopMb, ownerMb
<1>4. MbTypeOK'
  BY DEF MbTypeOK
<1>5. CallOK(p)'
  BY ZenonT(60), <1>3 DEF Calls, CallOK
<1>6. WillCheck(p) => WillCheck(p)'
  BY ZenonT(60), <1>2, <1>3 DEF WillCheck
<1>7. pbuf'[p] # {} => WillCheck(p)' /\ mpc'[p] \notin {"load", "wake"}
  BY ZenonT(60), <1>2, <1>3, <1>6 DEF Buffered, WillCheck
<1> QED
  BY ZenonT(60), <1>2, <1>4, <1>5, <1>6, <1>7, ProducerFrame

\* post enters try_push.
LEMMA TryPushInv == ASSUME MbInv, NEW p \in Producers, TryPush(p) PROVE MbTypeOK' /\ WakeInv'
<1> USE DEF MbInv, WakeInv, TryPush, At, Goto, PushBegin, consVars
<1>1. MbTypeOK'
  <2>1. MbTypeOK
    BY ZenonT(60)
  <2> HIDE DEF MbInv, WakeInv, PushBegin, consVars
  <2> QED
    BY <2>1 DEF MbTypeOK, loopMb, ownerMb
<1>2. /\ UNCHANGED <<state, stbuf, loopMb, ownerMb, seq, deq, cst>>
      /\ tok => tok'
  BY DEF MbTypeOK
<1>3. \A q \in Producers \ {p} :
        UNCHANGED <<mpc[q], api[q], args[q], npush[q], rpc[q], pbuf[q]>>
  BY DEF MbTypeOK, RingInv, RingTypeOK
<1>4. CallOK(p)'
  BY ZenonT(60) DEF MbTypeOK, RingInv, RingTypeOK, Calls, CallOK
<1>5. pbuf'[p] # {} => WillCheck(p)' /\ mpc'[p] \notin {"load", "wake"}
  BY ZenonT(60) DEF MbTypeOK, RingInv, RingTypeOK, Calls, CallOK, Buffered, WillCheck
<1>6. Waiting /\ WillCheck(p) => WillCheck(p)' \/ tok'
  BY ZenonT(60) DEF MbTypeOK, RingInv, RingTypeOK, Calls, CallOK, Waiting, WillCheck
<1> QED
  BY ZenonT(60), <1>1, <1>2, <1>3, <1>4, <1>5, <1>6, ProducerFrame

\* try_push succeeded: the producer goes on to its check, now or after the batch.
LEMMA PushOkInv == ASSUME MbInv, NEW p \in Producers, PushOk(p) PROVE MbTypeOK' /\ WakeInv'
<1> USE DEF MbInv, WakeInv, PushOk, At, Goto, PushReturn, consVars
<1>1. MbTypeOK'
  <2>1. MbTypeOK /\ mpc[p] = "pushing"
    BY ZenonT(60)
  <2>2. args[p] \in Seq(Items) /\ args[p] # << >>
    BY ZenonT(60), <2>1, PushArgs
  <2> HIDE DEF MbInv, WakeInv, PushReturn, consVars
  <2>3. /\ args' \in [Producers -> Seq(Items)] /\ acc' \in [Producers -> Seq(Items)]
        /\ npush' \in [Producers -> Nat]
    BY <2>1, <2>2 DEF MbTypeOK
  <2>4. /\ mpc' \in [Producers -> {"idle", "push", "pushing", "spin", "fence", "load", "wake"}]
        /\ UNCHANGED <<api, moved, given, state, stbuf, tok, loopMb, ownerMb>>
    BY ZenonT(60), <2>1 DEF MbTypeOK
  <2> HIDE DEF PushOk
  <2> QED
    BY <2>1, <2>3, <2>4 DEF MbTypeOK, loopMb, ownerMb
<1>2. /\ UNCHANGED <<state, stbuf, loopMb, ownerMb, seq, deq, cst>>
      /\ tok => tok'
  BY ZenonT(60) DEF MbTypeOK
<1>3. \A q \in Producers \ {p} :
        UNCHANGED <<mpc[q], api[q], args[q], npush[q], rpc[q], pbuf[q]>>
  BY ZenonT(60) DEF MbTypeOK, RingInv, RingTypeOK
<1>4. CallOK(p)'
  <2>1. mpc[p] = "pushing"
    BY ZenonT(60)
  <2> QED
    BY ZenonT(60), <2>1, PushArgs DEF MbTypeOK, RingInv, RingTypeOK, Calls, CallOK
<1>7. WillCheck(p)' /\ mpc'[p] \notin {"load", "wake"}
  <2>1. MbTypeOK
    BY ZenonT(60)
  <2> HIDE DEF MbInv, WakeInv, PushReturn, consVars
  <2>2. mpc'[p] \in {"push", "fence"} /\ npush'[p] = npush[p] + 1 /\ npush[p] \in Nat
    BY <2>1, Zenon DEF MbTypeOK
  <2>3. npush'[p] > 0
    BY <2>2
  <2> QED
    BY <2>2, <2>3, Zenon DEF WillCheck
<1>5. pbuf'[p] # {} => WillCheck(p)' /\ mpc'[p] \notin {"load", "wake"}
  BY ZenonT(60), <1>7 DEF WillCheck
<1>6. Waiting /\ WillCheck(p) => WillCheck(p)' \/ tok'
  BY ZenonT(60), <1>7 DEF WillCheck
<1> QED
  BY ZenonT(60), <1>1, <1>2, <1>3, <1>4, <1>5, <1>6, ProducerFrame

\* try_push failed: a batch that pushed something still checks.
LEMMA PushFullInv == ASSUME MbInv, NEW p \in Producers, PushFull(p) PROVE MbTypeOK' /\ WakeInv'
<1>z. ~(0 > 0)
  OBVIOUS
<1> USE DEF MbInv, WakeInv, PushFull, At, Goto, PushReturn, consVars
<1>0. WillCheck(p) => mpc'[p] = "fence"
  <2>1. WillCheck(p) => npush[p] > 0 /\ api[p] = "batch"
    <3>1. mpc[p] = "pushing" /\ rpc[p] = "full" /\ (api[p] # "batch" => npush[p] = 0)
      BY ZenonT(30) DEF Calls, CallOK
    <3> QED
      BY <1>z, <3>1, Zenon DEF WillCheck
  <2> QED
    BY ZenonT(60), <2>1 DEF MbTypeOK
<1>1. MbTypeOK'
  <2>1. MbTypeOK
    BY ZenonT(60)
  <2> HIDE DEF MbInv, WakeInv, PushReturn, consVars
  <2> QED
    BY <2>1 DEF MbTypeOK, loopMb, ownerMb
<1>2. /\ UNCHANGED <<state, stbuf, loopMb, ownerMb, seq, deq, cst>>
      /\ tok => tok'
  BY ZenonT(60) DEF MbTypeOK
<1>3. \A q \in Producers \ {p} :
        UNCHANGED <<mpc[q], api[q], args[q], npush[q], rpc[q], pbuf[q]>>
  BY ZenonT(60) DEF MbTypeOK, RingInv, RingTypeOK
<1>4. CallOK(p)'
  BY ZenonT(60) DEF MbTypeOK, RingInv, RingTypeOK, Calls, CallOK
<1>5. pbuf'[p] # {} => WillCheck(p)' /\ mpc'[p] \notin {"load", "wake"}
  BY ZenonT(60), <1>0 DEF Buffered, WillCheck
<1>6. Waiting /\ WillCheck(p) => WillCheck(p)' \/ tok'
  BY <1>0 DEF WillCheck
<1> QED
  BY ZenonT(60), <1>1, <1>2, <1>3, <1>4, <1>5, <1>6, ProducerFrame

\* A step that moves at most the control of a producer keeps the types.
LEMMA MbTypeFrame ==
  ASSUME MbTypeOK, UNCHANGED <<api, args, npush, moved, given, acc, state, stbuf, tok, loopMb, ownerMb>>,
         mpc' \in [Producers -> {"idle", "push", "pushing", "spin", "fence", "load", "wake"}]
  PROVE  MbTypeOK'
<1>1. /\ state' \in {"Running", "Blocked"} /\ stbuf' \in {"none", "Running", "Blocked"}
      /\ api' \in [Producers -> {"post", "batch", "em"}]
      /\ args' \in [Producers -> Seq(Items)]
      /\ npush' \in [Producers -> Nat] /\ moved' \in [Producers -> BOOLEAN]
      /\ given' \subseteq Items /\ acc' \in [Producers -> Seq(Items)]
  BY Zenon DEF MbTypeOK
<1>2. UNCHANGED <<cpc, nrun, blocked, ran, stop, ctl, dead, alive>>
  BY Zenon DEF loopMb, ownerMb
<1>3. /\ cpc' \in {"top", "drain", "mayblock", "arm", "fence", "recheck", "wait", "sleep",
                    "resume", "exited"}
      /\ nrun' \in 0 .. MaxBatch /\ ran' \subseteq Items
      /\ ctl' \in {"using", "stopping", "joining", "dying", "gone"}
  BY <1>2, Zenon DEF MbTypeOK
<1>4. /\ blocked' \in BOOLEAN /\ tok' \in BOOLEAN /\ stop' \in BOOLEAN
      /\ dead' \in BOOLEAN /\ alive' \in BOOLEAN
  BY <1>2, Zenon DEF MbTypeOK
<1> QED BY ONLY <1>1, <1>3, <1>4, mpc' \in [Producers -> {"idle", "push", "pushing", "spin", "fence", "load", "wake"}],
           Zenon DEF MbTypeOK

\* A spinning post tries again or returns Closed.
LEMMA SpinRetryInv == ASSUME MbInv, NEW p \in Producers, SpinRetry(p) PROVE MbTypeOK' /\ WakeInv'
<1> USE DEF MbInv, WakeInv, SpinRetry, At, Goto, ringVars, prodVars, consVars
<1>1. MbTypeOK'
  <2>1. MbTypeOK /\ UNCHANGED <<api, args, npush, moved, given, acc, state, stbuf, tok, loopMb, ownerMb>>
    BY Zenon
  <2>2. mpc' \in [Producers -> {"idle", "push", "pushing", "spin", "fence", "load", "wake"}]
    BY Zenon DEF MbTypeOK
  <2> QED BY <2>1, <2>2, MbTypeFrame, Zenon
<1>2. /\ UNCHANGED <<state, stbuf, loopMb, ownerMb, seq, deq, cst>>
      /\ tok => tok'
  BY ZenonT(60) DEF MbTypeOK
<1>3. \A q \in Producers \ {p} :
        UNCHANGED <<mpc[q], api[q], args[q], npush[q], rpc[q], pbuf[q]>>
  BY ZenonT(60) DEF MbTypeOK, RingInv, RingTypeOK
<1>4. CallOK(p)'
  BY ZenonT(60) DEF MbTypeOK, RingInv, RingTypeOK, Calls, CallOK
<1>5. pbuf'[p] # {} => WillCheck(p)' /\ mpc'[p] \notin {"load", "wake"}
  BY ZenonT(60) DEF MbTypeOK, RingInv, RingTypeOK, Calls, CallOK, Buffered, WillCheck
<1>6. Waiting /\ WillCheck(p) => WillCheck(p)' \/ tok'
  BY ZenonT(60) DEF MbTypeOK, RingInv, RingTypeOK, Calls, CallOK, Waiting, WillCheck
<1> QED
  BY ZenonT(60), <1>1, <1>2, <1>3, <1>4, <1>5, <1>6, ProducerFrame

\* Past the fence, the publication is visible.
LEMMA PostFenceInv == ASSUME MbInv, NEW p \in Producers, PostFence(p) PROVE MbTypeOK' /\ WakeInv'
<1> USE DEF MbInv, WakeInv, PostFence, At, Goto, ringVars, prodVars, consVars
<1>1. MbTypeOK'
  <2>1. MbTypeOK /\ UNCHANGED <<api, args, npush, moved, given, acc, state, stbuf, tok, loopMb, ownerMb>>
    BY Zenon
  <2>2. mpc' \in [Producers -> {"idle", "push", "pushing", "spin", "fence", "load", "wake"}]
    BY Zenon DEF MbTypeOK
  <2> QED BY <2>1, <2>2, MbTypeFrame, Zenon
<1>2. /\ UNCHANGED <<state, stbuf, loopMb, ownerMb, seq, deq, cst>>
      /\ tok => tok'
  BY ZenonT(60) DEF MbTypeOK
<1>3. \A q \in Producers \ {p} :
        UNCHANGED <<mpc[q], api[q], args[q], npush[q], rpc[q], pbuf[q]>>
  BY ZenonT(60) DEF MbTypeOK, RingInv, RingTypeOK
<1>4. CallOK(p)'
  BY ZenonT(60) DEF MbTypeOK, RingInv, RingTypeOK, Calls, CallOK
<1>5. pbuf'[p] # {} => WillCheck(p)' /\ mpc'[p] \notin {"load", "wake"}
  BY ZenonT(60) DEF MbTypeOK, RingInv, RingTypeOK, Calls, CallOK, Buffered, WillCheck
<1>6. Waiting /\ WillCheck(p) => WillCheck(p)' \/ tok'
  BY ZenonT(60) DEF MbTypeOK, RingInv, RingTypeOK, Calls, CallOK, Waiting, WillCheck
<1> QED
  BY ZenonT(60), <1>1, <1>2, <1>3, <1>4, <1>5, <1>6, ProducerFrame

\* While the loop waits, the load reads Blocked.
LEMMA PostLoadInv == ASSUME MbInv, NEW p \in Producers, PostLoad(p) PROVE MbTypeOK' /\ WakeInv'
<1> USE DEF MbInv, WakeInv, PostLoad, At, Goto, ringVars, prodVars, consVars, Armed
<1>1. MbTypeOK'
  <2>1. MbTypeOK /\ UNCHANGED <<api, args, npush, moved, given, acc, state, stbuf, tok, loopMb, ownerMb>>
    BY Zenon
  <2>2. mpc' \in [Producers -> {"idle", "push", "pushing", "spin", "fence", "load", "wake"}]
    BY Zenon DEF MbTypeOK
  <2> QED BY <2>1, <2>2, MbTypeFrame, Zenon
<1>2. /\ UNCHANGED <<state, stbuf, loopMb, ownerMb, seq, deq, cst>>
      /\ tok => tok'
  BY ZenonT(60) DEF MbTypeOK
<1>3. \A q \in Producers \ {p} :
        UNCHANGED <<mpc[q], api[q], args[q], npush[q], rpc[q], pbuf[q]>>
  BY ZenonT(60) DEF MbTypeOK, RingInv, RingTypeOK
<1>4. CallOK(p)'
  BY ZenonT(60) DEF MbTypeOK, RingInv, RingTypeOK, Calls, CallOK
<1>5. pbuf'[p] # {} => WillCheck(p)' /\ mpc'[p] \notin {"load", "wake"}
  BY ZenonT(60) DEF MbTypeOK, RingInv, RingTypeOK, Calls, CallOK, Buffered, WillCheck
<1>6. Waiting /\ WillCheck(p) => WillCheck(p)' \/ tok'
  BY ZenonT(60) DEF MbTypeOK, RingInv, RingTypeOK, Calls, CallOK, Waiting, WillCheck
<1> QED
  BY ZenonT(60), <1>1, <1>2, <1>3, <1>4, <1>5, <1>6, ProducerFrame

\* The signal reaches a backend that still exists.
LEMMA PostWakeInv == ASSUME MbInv, NEW p \in Producers, PostWake(p) PROVE MbTypeOK' /\ WakeInv'
<1> USE DEF MbInv, WakeInv, PostWake, At, Goto, ringVars, prodVars, consVars, Lifetime
<1>1. MbTypeOK'
  BY ZenonT(60) DEF MbTypeOK, Calls, CallOK, loopMb, ownerMb
<1>2. /\ UNCHANGED <<state, stbuf, loopMb, ownerMb, seq, deq, cst>>
      /\ tok => tok'
  BY ZenonT(60) DEF MbTypeOK
<1>3. \A q \in Producers \ {p} :
        UNCHANGED <<mpc[q], api[q], args[q], npush[q], rpc[q], pbuf[q]>>
  BY ZenonT(60) DEF MbTypeOK, RingInv, RingTypeOK
<1>4. CallOK(p)'
  BY ZenonT(60) DEF MbTypeOK, RingInv, RingTypeOK, Calls, CallOK
<1>5. pbuf'[p] # {} => WillCheck(p)' /\ mpc'[p] \notin {"load", "wake"}
  BY ZenonT(60) DEF MbTypeOK, RingInv, RingTypeOK, Calls, CallOK, Buffered, WillCheck
<1>6. Waiting /\ WillCheck(p) => WillCheck(p)' \/ tok'
  BY ZenonT(60) DEF MbTypeOK, RingInv, RingTypeOK, Calls, CallOK, Waiting, WillCheck
<1> QED
  BY ZenonT(60), <1>1, <1>2, <1>3, <1>4, <1>5, <1>6, ProducerFrame

\* A call starts with its tasks, or returns at once on a dead mailbox.
LEMMA CallStepInv == ASSUME MbInv, NEW p \in Producers, CallStep(p) PROVE MbTypeOK' /\ WakeInv'
<1>1. PICK a \in {"post", "batch", "em"}, ts \in Seq(Items) :
        /\ Call(p, a, ts) /\ ts # << >> /\ (a # "batch" => Len(ts) = 1)
  <2>1. ASSUME NEW t \in Fresh PROVE Len(<<t>>) = 1
    OBVIOUS
  <2> QED
    BY ZenonT(60), <2>1, CallArgs DEF CallStep
<1>2. \A i \in DOMAIN ts : ts[i] \in Items
  BY ElementOfSeq, DOMAIN ts = 1 .. Len(ts)
<1>0. given' \subseteq Items
  BY <1>1, <1>2 DEF Call, MbInv, MbTypeOK
<1> USE DEF MbInv, WakeInv, Call, At, Goto, ringVars, prodVars, consVars
<1>3. MbTypeOK'
  <2>2. /\ mpc' \in [Producers -> {"idle", "push", "pushing", "spin", "fence", "load", "wake"}]
        /\ api' \in [Producers -> {"post", "batch", "em"}]
    BY ZenonT(60), <1>1 DEF MbTypeOK
  <2>3. args' \in [Producers -> Seq(Items)]
    BY ZenonT(60), <1>1 DEF MbTypeOK
  <2>4. npush' \in [Producers -> Nat]
    <3>1. npush' = npush \/ npush' = [npush EXCEPT ![p] = 0]
      BY ZenonT(60), <1>1
    <3>2. npush \in [Producers -> Nat]
      BY ZenonT(60) DEF MbTypeOK
    <3> HIDE DEF Call, MbInv, WakeInv
    <3> QED
      BY <3>1, <3>2
  <2>6. moved' \in [Producers -> BOOLEAN]
    <3>1. moved' = moved \/ moved' = [moved EXCEPT ![p] = FALSE]
      BY ZenonT(60), <1>1
    <3> HIDE DEF Call
    <3> QED
      BY ZenonT(60), <3>1 DEF MbTypeOK
  <2>5. UNCHANGED <<acc, state, stbuf, tok, cpc, nrun, blocked, ran, stop, ctl, dead, alive>>
    BY ZenonT(60), <1>1 DEF loopMb, ownerMb
  <2>7. MbTypeOK
    BY Zenon
  <2> HIDE DEF Call, MbInv, WakeInv, At, Goto, ringVars, prodVars, consVars
  <2>8. /\ state' \in {"Running", "Blocked"} /\ stbuf' \in {"none", "Running", "Blocked"}
        /\ acc' \in [Producers -> Seq(Items)] /\ ran' \subseteq Items /\ nrun' \in 0 .. MaxBatch
        /\ cpc' \in {"top", "drain", "mayblock", "arm", "fence", "recheck", "wait", "sleep",
                     "resume", "exited"}
        /\ ctl' \in {"using", "stopping", "joining", "dying", "gone"}
    BY <2>5, <2>7, Zenon DEF MbTypeOK
  <2>9. /\ blocked' \in BOOLEAN /\ tok' \in BOOLEAN /\ stop' \in BOOLEAN
        /\ dead' \in BOOLEAN /\ alive' \in BOOLEAN
    BY <2>5, <2>7, Zenon DEF MbTypeOK
  <2> QED
    BY <1>0, <2>2, <2>3, <2>4, <2>6, <2>8, <2>9, Zenon DEF MbTypeOK
<1>4. /\ UNCHANGED <<state, stbuf, loopMb, ownerMb, seq, deq, cst>>
      /\ tok => tok'
      /\ UNCHANGED <<rpc, pbuf>>
      /\ mpc[p] = "idle" /\ mpc'[p] \in {"idle", "push"}
  BY <1>1 DEF MbTypeOK
<1>5. \A q \in Producers \ {p} :
        UNCHANGED <<mpc[q], api[q], args[q], npush[q], rpc[q], pbuf[q]>>
  BY ZenonT(60), <1>1 DEF MbTypeOK, RingInv, RingTypeOK
<1>6. CallOK(p)'
  <2>1. MbTypeOK /\ CallOK(p)
    BY ZenonT(60) DEF Calls
  <2> HIDE DEF MbInv, WakeInv
  <2> QED
    BY <1>1, <2>1 DEF MbTypeOK, CallOK
<1>7. ~WillCheck(p)
  BY ZenonT(60), <1>4 DEF WillCheck
<1>8. pbuf'[p] = {}
  <2> HIDE DEF Call, At, Goto, ringVars, prodVars, consVars
  <2>1. Buffered
    BY ZenonT(60)
  <2> HIDE DEF MbInv, WakeInv
  <2>2. pbuf' = pbuf
    BY ZenonT(60), <1>4
  <2> QED
    BY ZenonT(60), <1>7, <2>1, <2>2 DEF Buffered
<1> QED
  BY ZenonT(60), <1>3, <1>4, <1>5, <1>6, <1>7, <1>8, ProducerFrame

\* A publication that becomes visible is its producer's, who will still check.
LEMMA CommitPushInv ==
  ASSUME MbInv, NEW p \in Producers, CommitPush(p) PROVE MbTypeOK' /\ WakeInv'
<1>1. /\ UNCHANGED mbVars /\ rpc' = rpc /\ deq' = deq /\ cst' = cst
      /\ pbuf[p] # {} /\ \A q \in Producers : pbuf'[q] \subseteq pbuf[q]
  BY ZenonT(60) DEF CommitPush, Commit, consVars, MbInv, RingInv, RingTypeOK
<1> USE <1>1 DEF MbInv, WakeInv, mbVars, prodMb, loopMb, ownerMb
<1>2. MbTypeOK'
  <2>1. MbTypeOK /\ UNCHANGED <<mpc, api, args, npush, moved, given, acc, state, stbuf, tok, loopMb, ownerMb>>
    BY Zenon
  <2>2. mpc' \in [Producers -> {"idle", "push", "pushing", "spin", "fence", "load", "wake"}]
    BY <2>1, Zenon DEF MbTypeOK
  <2> QED BY <2>1, <2>2, MbTypeFrame, Zenon
<1>3. Calls' /\ Buffered'
  BY ZenonT(60) DEF Calls, CallOK, Buffered, WillCheck
<1>4. Armed' /\ Lifetime' /\ StopSeen' /\ Draining'
  BY ZenonT(60) DEF Armed, Lifetime, StopSeen, Draining, Waiting
<1>5. WillCheck(p)'
  <2>1. WillCheck(p)
    BY ZenonT(60) DEF Buffered
  <2> QED
    BY ZenonT(60), <2>1 DEF WillCheck
<1>6. Woken'
  BY ZenonT(60), <1>5 DEF Woken
<1> QED
  BY ZenonT(60), <1>2, <1>3, <1>4, <1>6

\* Popping and running tasks happens outside the arm/block protocol.
LEMMA DrainInv == ASSUME MbInv, DrainPop \/ DrainRun PROVE MbTypeOK' /\ WakeInv'
<1>1. /\ UNCHANGED <<state, stbuf, tok, prodMb, ownerMb, cpc, blocked, rpc, pbuf>>
      /\ cpc = "drain"
  BY ZenonT(60) DEF DrainPop, DrainRun, PopStep, PopHit, PopMove, PopFree, PopReturn, prodVars,
         mbVars, loopMb
<1>2. Draining'
  BY DEF MbInv, WakeInv, Draining, DrainPop, DrainRun, PopReturn, mbVars, loopMb
<1>6. nrun' \in 0 .. MaxBatch /\ ran' \subseteq Items
  <2>1. CASE DrainPop
    BY ZenonT(60), <2>1 DEF DrainPop, mbVars, loopMb, MbInv, MbTypeOK
  <2>2. CASE DrainRun
    <3>1. cst = "got" /\ cout \in Items
      BY ZenonT(60), <2>2 DEF DrainRun, PopReturn, MbInv, RingInv, RingTypeOK
    <3>2. nrun < MaxBatch
      BY ZenonT(60), <3>1 DEF MbInv, WakeInv, Draining
    <3>3. nrun \in 0 .. MaxBatch /\ ran \subseteq Items
      BY Zenon DEF MbInv, MbTypeOK
    <3>4. nrun' = nrun + 1 /\ (ran' = ran \cup {cout} \/ ran' = ran)
      BY <2>2, Zenon DEF DrainRun
    <3> QED
      BY <3>1, <3>2, <3>3, <3>4, MailboxAssumption
  <2> QED
    BY ZenonT(60), <2>1, <2>2
<1> USE <1>1 DEF MbInv, WakeInv, prodMb, ownerMb
<1>3. MbTypeOK'
  BY ZenonT(60), <1>6 DEF MbTypeOK
<1>4. Calls' /\ Buffered'
  BY ZenonT(60) DEF Calls, CallOK, Buffered, WillCheck
<1>5. Armed' /\ Lifetime' /\ StopSeen' /\ Woken'
  BY DEF Armed, Lifetime, StopSeen, Woken, Waiting
<1> QED
  BY ZenonT(60), <1>2, <1>3, <1>4, <1>5

-----------------------------------------------------------------------------
(* Theorems *)

\* Initially nobody is inside a call and the loop is about to start.
LEMMA MbInvInit == Init => MbInv
<1> SUFFICES ASSUME Init PROVE MbInv
  OBVIOUS
<1>1. RingInv
  BY ZenonT(60), RingInvInit DEF Init
<1>2. MbTypeOK
  <2> USE DEF Init
  <2>1. /\ mpc \in [Producers -> {"idle", "push", "pushing", "spin", "fence", "load", "wake"}]
        /\ api \in [Producers -> {"post", "batch", "em"}]
        /\ npush \in [Producers -> Nat]
    BY ZenonT(60)
  <2>2. << >> \in Seq(Items)
    OBVIOUS
  <2>3. args \in [Producers -> Seq(Items)] /\ acc \in [Producers -> Seq(Items)]
    BY <2>2
  <2>4. moved \in [Producers -> BOOLEAN]
    OBVIOUS
  <2>5. nrun \in 0 .. MaxBatch
    BY SMTT(60), MailboxAssumption
  <2> QED
    BY ZenonT(60), <2>1, <2>3, <2>4, <2>5 DEF MbTypeOK
<1>3. WakeInv
  BY ZenonT(60) DEF Init, RingInit, WakeInv, Calls, CallOK, Buffered, Armed, Waiting, Lifetime, Woken,
         StopSeen, Draining
<1> QED
  BY <1>1, <1>2, <1>3 DEF MbInv

\* Every step of every thread moves the ring by one of its own accesses, or not at all.
LEMMA NextMovesRing == ASSUME MbInv, [Next]_vars PROVE RingMove
<1>1. ASSUME NEW p \in Producers, CallStep(p) PROVE UNCHANGED ringVars
  BY ZenonT(60), <1>1 DEF CallStep, Call
<1>2. ASSUME NEW p \in Producers, ProducerStep(p) PROVE RingMove
  <2>1. CASE TryPush(p)
    <3>1. args[p] \in Seq(Items) /\ args[p] # << >>
      BY <2>1 DEF MbInv, MbTypeOK, WakeInv, Calls, CallOK, TryPush, At
    <3>2. Head(args[p]) \in Items
      BY <3>1, HeadTailProperties
    <3>3. (IF moved[p] THEN NoTask ELSE Head(args[p])) \in Items
      BY <3>2, NoTaskAssumption
    <3> QED
      BY <2>1, <3>3 DEF TryPush, RingMove
  <2>2. CASE Pushing(p) \/ PushOk(p) \/ PushFull(p)
    BY ZenonT(60), <2>2 DEF Pushing, PushOk, PushFull, RingMove
  <2>3. CASE SpinRetry(p) \/ PostFence(p) \/ PostLoad(p) \/ PostWake(p)
    BY ZenonT(60), <2>3 DEF SpinRetry, PostFence, PostLoad, PostWake, RingMove
  <2> QED
    BY <1>2, <2>1, <2>2, <2>3 DEF ProducerStep
<1>3. ASSUME NEW p \in Producers, CommitPush(p) PROVE RingMove
  BY ZenonT(60), <1>3 DEF CommitPush, RingMove
<1>4. ASSUME LoopStep \/ SleepOther \/ CommitState PROVE RingMove
  BY ZenonT(60), <1>4 DEF LoopStep, LoopTop, DrainPop, DrainRun, DrainEnd, MayBlock, Arm, ArmFence,
              Recheck, WaitBegin, SleepWoken, Resume, SleepOther, CommitState, RingMove
<1>5. ASSUME OwnerStep PROVE RingMove
  BY <1>5 DEF OwnerStep, StopStore, StopWake, MarkDead, Destroy, RingMove
<1>6. ASSUME UNCHANGED vars PROVE RingMove
  BY <1>6 DEF vars, RingMove
<1> QED
  BY ZenonT(60), <1>1, <1>2, <1>3, <1>4, <1>5, <1>6 DEF Next, RingMove

\* Every step keeps the inductive invariant.
LEMMA MbStepInv == ASSUME Cap > 1, MbInv, [Next]_vars PROVE MbInv'
<1>1. RingInv'
  BY NextMovesRing, RingMoveInv DEF MbInv
<1>2. ASSUME NEW p \in Producers, CallStep(p) \/ ProducerStep(p) \/ CommitPush(p)
      PROVE  MbTypeOK' /\ WakeInv'
  BY <1>2, CallStepInv, TryPushInv, PushingInv, PushOkInv, PushFullInv, SpinRetryInv,
     PostFenceInv, PostLoadInv, PostWakeInv, CommitPushInv DEF ProducerStep
<1>3. ASSUME LoopStep \/ SleepOther \/ CommitState PROVE MbTypeOK' /\ WakeInv'
  BY ZenonT(60), <1>3, LoopTopInv, DrainInv, DrainEndInv, MayBlockInv, ArmInv, ArmFenceInv, RecheckInv,
     WaitBeginInv, SleepWokenInv, SleepOtherInv, ResumeInv, CommitStateInv DEF LoopStep
<1>4. ASSUME OwnerStep PROVE MbTypeOK' /\ WakeInv'
  BY ZenonT(60), <1>4, StopStoreInv, StopWakeInv, MarkDeadInv, DestroyInv DEF OwnerStep
<1>5. ASSUME UNCHANGED vars PROVE MbTypeOK' /\ WakeInv'
  <2> USE <1>5 DEF vars, mbVars, prodMb, loopMb, ownerMb, ringVars, prodVars, consVars, MbInv,
                   WakeInv
  <2>1. MbTypeOK'
    <3>1. MbTypeOK /\ UNCHANGED <<mpc, api, args, npush, moved, given, acc, state, stbuf, tok, loopMb, ownerMb>>
      BY Zenon
    <3>2. mpc' \in [Producers -> {"idle", "push", "pushing", "spin", "fence", "load", "wake"}]
      BY <3>1, Zenon DEF MbTypeOK
    <3> QED BY <3>1, <3>2, MbTypeFrame, Zenon
  <2>2. Calls' /\ Buffered' /\ Woken'
    BY ZenonT(60) DEF Calls, CallOK, Buffered, Woken, WillCheck, Waiting, RingEmpty
  <2>3. Armed' /\ Lifetime' /\ StopSeen' /\ Draining'
    BY ZenonT(60) DEF Armed, Waiting, Lifetime, StopSeen, Draining
  <2> QED
    BY ZenonT(60), <2>1, <2>2, <2>3
<1> QED
  BY <1>1, <1>2, <1>3, <1>4, <1>5 DEF Next, MbInv

\* The mailbox keeps its types, and the ring under it stays bounded and free of
\* races on its cells, whatever mix of post, post_batch and em.post runs.
THEOREM MailboxSafe == Cap > 1 => (Spec => [](TypeOK /\ Bounded /\ CellExclusive))
<1> SUFFICES ASSUME Cap > 1 PROVE Spec => [](TypeOK /\ Bounded /\ CellExclusive)
  OBVIOUS
<1>1. Init => MbInv
  BY MbInvInit
<1>2. MbInv /\ [Next]_vars => MbInv'
  BY MbStepInv
<1>3. MbInv => TypeOK /\ Bounded /\ CellExclusive
  BY RingInvImplies DEF MbInv, RingInv, TypeOK
<1> QED
  BY <1>1, <1>2, <1>3, PTL DEF Spec

\* The arm/block protocol of wait_timeout, after_push and post_wake loses no wakeup:
\* the loop never sleeps over a published task without a pending or coming signal.
THEOREM MailboxNoLostWakeup == Cap > 1 => (Spec => []NoLostWakeup)
<1> SUFFICES ASSUME Cap > 1 PROVE Spec => []NoLostWakeup
  OBVIOUS
<1>1. Init => MbInv
  BY MbInvInit
<1>2. MbInv /\ [Next]_vars => MbInv'
  BY MbStepInv
<1>3. MbInv => NoLostWakeup
  BY DEF MbInv, WakeInv, Woken, Waiting, NoLostWakeup
<1> QED
  BY <1>1, <1>2, <1>3, PTL DEF Spec

\* stop() reaches a sleeping loop: its wake is pending or about to be sent.
THEOREM MailboxStopInterrupts == Cap > 1 => (Spec => []StopInterrupts)
<1> SUFFICES ASSUME Cap > 1 PROVE Spec => []StopInterrupts
  OBVIOUS
<1>1. Init => MbInv
  BY MbInvInit
<1>2. MbInv /\ [Next]_vars => MbInv'
  BY MbStepInv
<1>3. MbInv => StopInterrupts
  BY DEF MbInv, WakeInv, StopSeen, StopInterrupts
<1> QED
  BY <1>1, <1>2, <1>3, PTL DEF Spec

-----------------------------------------------------------------------------
(* What post reports as accepted is in the ring *)

\* em.post does not try again: its second try_push would pass a moved-from task.
NoEmptyRetry == Policy = "Fail" \/ "em" \notin Apis

\* The call of p pushes the task it was given, and has it in the ring once claimed.
Carried(p) ==
  /\ api[p] = "em" => "em" \in Apis
  /\ mpc[p] \in {"push", "pushing", "spin"} => ~moved[p]
  /\ mpc[p] = "pushing" => ritem[p] = Head(args[p])
  /\ rpc[p] \in {"write", "publish", "ok"} => Occurs(log, ritem[p])
AccInv == AcceptedQueued /\ \A p \in Producers : Carried(p)

\* log only grows.
LogKeeps == \A t : Occurs(log, t) => Occurs(log', t)

\* Appending keeps what is there and adds the last element.
LEMMA AppendOccurs ==
  ASSUME NEW l \in Seq(Items), NEW v \in Items
  PROVE  /\ \A t : Occurs(l, t) => Occurs(Append(l, v), t)
         /\ Occurs(Append(l, v), v)
         /\ \A t : Occurs(Append(l, v), t) => Occurs(l, t) \/ t = v
<1>1. Len(l) \in Nat /\ DOMAIN l = 1 .. Len(l)
  OBVIOUS
<1>2. /\ DOMAIN Append(l, v) = 1 .. Len(l) + 1 /\ Append(l, v)[Len(l) + 1] = v
      /\ \A i \in 1 .. Len(l) : Append(l, v)[i] = l[i]
  BY AppendProperties
<1>3. \A i \in 1 .. Len(l) + 1 : i \in 1 .. Len(l) \/ i = Len(l) + 1
  BY <1>1
<1>4. 1 .. Len(l) \subseteq 1 .. Len(l) + 1 /\ Len(l) + 1 \in 1 .. Len(l) + 1
  BY <1>1
<1> HIDE DEF Occurs
<1>5. \A t : Occurs(l, t) => Occurs(Append(l, v), t)
  BY <1>1, <1>2, <1>4, Zenon DEF Occurs
<1>6. Occurs(Append(l, v), v)
  BY <1>2, <1>4, Zenon DEF Occurs
<1>7. \A t : Occurs(Append(l, v), t) => Occurs(l, t) \/ t = v
  BY <1>1, <1>2, <1>3, Zenon DEF Occurs
<1> QED
  BY <1>5, <1>6, <1>7

\* A claim appends the task it carries; no other access of the ring touches log.
LEMMA RingMoveLog == ASSUME RingInv, RingMove PROVE LogKeeps
<1>1. \/ log' = log
      \/ \E p \in Producers : log' = Append(log, ritem[p])
  BY Zenon DEF RingMove, PushBegin, PushStep, PushLoadSeq, PushReload, PushClaim, PushLose, PushWrite,
         PushPublish, Commit, PushReturn, PopStep, PopHit, PopMove, PopFree, PopReturn, ringVars
<1>2. log \in Seq(Items) /\ \A p \in Producers : ritem[p] \in Items
  BY DEF RingInv, RingTypeOK
<1>3. CASE log' = log
  BY <1>3, Zenon DEF LogKeeps
<1>4. ASSUME NEW p \in Producers, log' = Append(log, ritem[p]) PROVE LogKeeps
  <2>1. \A t : Occurs(log, t) => Occurs(Append(log, ritem[p]), t)
    BY <1>2, AppendOccurs
  <2> QED
    BY <1>4, <2>1, Zenon DEF LogKeeps
<1> QED
  BY <1>1, <1>3, <1>4

\* A step that leaves the calls of all but p alone has only p's to look after.
LEMMA AccFrame ==
  ASSUME AccInv, LogKeeps, NEW p \in Producers,
         \A q \in Producers \ {p} :
           UNCHANGED <<mpc[q], api[q], args[q], moved[q], acc[q], rpc[q], ritem[q]>>,
         Carried(p)', \A i \in DOMAIN acc'[p] : Occurs(log', acc'[p][i])
  PROVE  AccInv'
<1>1. ASSUME NEW q \in Producers PROVE Carried(q)'
  BY Zenon DEF AccInv, Carried, LogKeeps
<1>2. AcceptedQueued'
  BY Zenon DEF AccInv, AcceptedQueued, LogKeeps
<1> QED
  BY <1>1, <1>2 DEF AccInv

\* A step that leaves every call alone keeps AccInv.
LEMMA AccStays ==
  ASSUME AccInv, LogKeeps, UNCHANGED <<mpc, api, args, moved, acc, rpc, ritem>>
  PROVE  AccInv'
BY Zenon DEF AccInv, AcceptedQueued, Carried, LogKeeps

\* A call starts with its tasks unmoved, or not at all.
LEMMA CallAcc ==
  ASSUME MbInv, AccInv, LogKeeps, NEW p \in Producers, CallStep(p) PROVE AccInv'
<1>1. PICK a, ts : Call(p, a, ts)
  BY Zenon DEF CallStep
<1>2. Carried(p) /\ \A i \in DOMAIN acc[p] : Occurs(log, acc[p][i])
  BY Zenon DEF AccInv, AcceptedQueued
<1> USE DEF Call, At, Goto, ringVars, prodVars
<1>3. /\ mpc \in [Producers -> {"idle", "push", "pushing", "spin", "fence", "load", "wake"}]
      /\ api \in [Producers -> {"post", "batch", "em"}] /\ args \in [Producers -> Seq(Items)]
      /\ moved \in [Producers -> BOOLEAN]
  BY Zenon DEF MbInv, MbTypeOK
<1>4. /\ UNCHANGED <<acc, rpc, ritem, log>> /\ mpc[p] = "idle"
      /\ \A q \in Producers \ {p} : UNCHANGED <<mpc[q], api[q], args[q], moved[q]>>
  BY <1>1, <1>3, Zenon
<1>5. \/ UNCHANGED <<mpc, api, args, moved>>
      \/ mpc'[p] = "push" /\ api'[p] = a /\ a \in Apis /\ moved'[p] = FALSE
  BY <1>1, <1>3, Zenon
<1>6. Carried(p)'
  BY <1>2, <1>4, <1>5, Zenon DEF Carried
<1>7. \A i \in DOMAIN acc'[p] : Occurs(log', acc'[p][i])
  BY <1>2, <1>4, Zenon
<1> HIDE DEF Call
<1> QED
  BY <1>4, <1>6, <1>7, AccFrame, Zenon

\* try_push starts with the task it was given, which no earlier try has moved away.
LEMMA TryPushAcc ==
  ASSUME MbInv, AccInv, LogKeeps, NEW p \in Producers, TryPush(p) PROVE AccInv'
<1>1. Carried(p) /\ \A i \in DOMAIN acc[p] : Occurs(log, acc[p][i])
  BY Zenon DEF AccInv, AcceptedQueued
<1>2. /\ mpc \in [Producers -> {"idle", "push", "pushing", "spin", "fence", "load", "wake"}]
      /\ rpc \in [Producers -> {"out", "seq", "reload", "cas", "write", "publish", "ok", "full"}]
      /\ ritem \in [Producers -> Items]
  BY Zenon DEF MbInv, MbTypeOK, RingInv, RingTypeOK
<1> USE DEF TryPush, PushBegin, At, Goto
<1>3. /\ UNCHANGED <<acc, log, args, api, moved>> /\ mpc'[p] = "pushing"
      /\ \A q \in Producers \ {p} : UNCHANGED <<mpc[q], rpc[q], ritem[q]>>
  BY <1>2, Zenon
<1>4. rpc'[p] = "seq" /\ ritem'[p] = Head(args[p]) /\ ~moved[p]
  BY <1>1, <1>2, Zenon DEF Carried
<1>5. Carried(p)'
  BY <1>1, <1>3, <1>4, Zenon DEF Carried
<1>6. \A i \in DOMAIN acc'[p] : Occurs(log', acc'[p][i])
  BY <1>1, <1>3, Zenon
<1> HIDE DEF TryPush
<1> QED
  BY <1>3, <1>5, <1>6, AccFrame, Zenon

\* The claim puts the task of the call into the ring.
LEMMA PushingAcc ==
  ASSUME MbInv, AccInv, LogKeeps, NEW p \in Producers, Pushing(p) PROVE AccInv'
<1>1. Carried(p) /\ \A i \in DOMAIN acc[p] : Occurs(log, acc[p][i])
  BY Zenon DEF AccInv, AcceptedQueued
<1>2. PushStep(p) /\ UNCHANGED <<mpc, api, args, moved, acc>>
  BY Zenon DEF Pushing, mbVars, prodMb
<1>3. /\ rpc \in [Producers -> {"out", "seq", "reload", "cas", "write", "publish", "ok", "full"}]
      /\ ritem \in [Producers -> Items] /\ log \in Seq(Items)
  BY Zenon DEF MbInv, RingInv, RingTypeOK
<1>4. ritem' = ritem /\ \A q \in Producers \ {p} : rpc'[q] = rpc[q]
  BY <1>2, <1>3, Zenon DEF PushStep, PushLoadSeq, PushReload, PushClaim, PushLose, PushWrite, PushPublish
<1>5. \/ rpc[p] \in {"write", "publish"}
      \/ rpc'[p] \in {"seq", "cas", "full", "reload"}
      \/ log' = Append(log, ritem[p])
  <2>1. CASE PushLoadSeq(p)
    BY <2>1, <1>3, Zenon DEF PushLoadSeq
  <2>2. CASE PushReload(p) \/ PushLose(p)
    BY <2>2, <1>3, Zenon DEF PushReload, PushLose
  <2>3. CASE PushClaim(p) \/ PushWrite(p) \/ PushPublish(p)
    BY <2>3, <1>3, Zenon DEF PushClaim, PushWrite, PushPublish
  <2> QED
    BY <1>2, <2>1, <2>2, <2>3, Zenon DEF PushStep
<1>6. rpc'[p] \in {"write", "publish", "ok"} => Occurs(log', ritem[p])
  <2>1. CASE rpc[p] \in {"write", "publish"}
    BY <1>1, <2>1, Zenon DEF Carried, LogKeeps
  <2>2. CASE log' = Append(log, ritem[p])
    BY <2>2, <1>3, AppendOccurs
  <2> QED
    BY <1>5, <2>1, <2>2
<1>7. Carried(p)'
  BY <1>1, <1>2, <1>4, <1>6, Zenon DEF Carried
<1>8. \A i \in DOMAIN acc'[p] : Occurs(log', acc'[p][i])
  BY <1>1, <1>2, Zenon DEF LogKeeps
<1> QED
  BY <1>2, <1>4, <1>7, <1>8, AccFrame, Zenon

\* What a push is reported for is the task it claimed a cell with.
LEMMA PushOkAcc ==
  ASSUME MbInv, AccInv, LogKeeps, NEW p \in Producers, PushOk(p) PROVE AccInv'
<1>1. Carried(p) /\ \A i \in DOMAIN acc[p] : Occurs(log, acc[p][i])
  BY Zenon DEF AccInv, AcceptedQueued
<1>2. /\ mpc \in [Producers -> {"idle", "push", "pushing", "spin", "fence", "load", "wake"}]
      /\ rpc \in [Producers -> {"out", "seq", "reload", "cas", "write", "publish", "ok", "full"}]
      /\ args \in [Producers -> Seq(Items)] /\ acc \in [Producers -> Seq(Items)]
  BY Zenon DEF MbInv, MbTypeOK, RingInv, RingTypeOK
<1>3. mpc[p] = "pushing" /\ args[p] # << >>
  BY PushArgs, Zenon DEF PushOk, At
<1>4. Head(args[p]) \in Items
  BY <1>2, <1>3, HeadTailProperties
<1> USE DEF PushOk, PushReturn, At, Goto
<1>5. /\ UNCHANGED <<log, ritem, api, moved>> /\ rpc[p] = "ok" /\ rpc'[p] = "out"
      /\ mpc'[p] \in {"push", "fence"}
      /\ \A q \in Producers \ {p} : UNCHANGED <<mpc[q], rpc[q], args[q], acc[q]>>
      /\ acc'[p] = Append(acc[p], Head(args[p]))
  BY <1>2, Zenon
<1> HIDE DEF PushOk
<1>6. Carried(p)'
  BY <1>1, <1>3, <1>5, Zenon DEF Carried
<1>7. Occurs(log, Head(args[p]))
  BY <1>1, <1>3, <1>5, Zenon DEF Carried
<1>8. \A i \in DOMAIN acc'[p] : Occurs(log', acc'[p][i])
  <2>1. \A t : Occurs(acc'[p], t) => Occurs(acc[p], t) \/ t = Head(args[p])
    <3>1. PICK l \in Seq(Items), v \in Items : l = acc[p] /\ v = Head(args[p])
      BY <1>2, <1>4
    <3>2. \A t : Occurs(Append(l, v), t) => Occurs(l, t) \/ t = v
      BY AppendOccurs, Zenon
    <3>3. acc'[p] = Append(l, v)
      BY <1>5, <3>1, Zenon
    <3> QED
      BY <3>1, <3>2, <3>3, Zenon
  <2>2. \A t : Occurs(acc[p], t) => Occurs(log, t)
    BY <1>1, Zenon DEF Occurs
  <2>3. \A i \in DOMAIN acc'[p] : Occurs(acc'[p], acc'[p][i])
    BY Zenon DEF Occurs
  <2> QED
    BY <1>5, <1>7, <2>1, <2>2, <2>3, Zenon
<1> QED
  BY <1>5, <1>6, <1>8, AccFrame, Zenon

\* A full ring ends the call of em.post, or there is none: no empty task is tried again.
LEMMA PushFullAcc ==
  ASSUME NoEmptyRetry, MbInv, AccInv, LogKeeps, NEW p \in Producers, PushFull(p) PROVE AccInv'
<1>1. Carried(p) /\ \A i \in DOMAIN acc[p] : Occurs(log, acc[p][i])
  BY Zenon DEF AccInv, AcceptedQueued
<1>2. /\ mpc \in [Producers -> {"idle", "push", "pushing", "spin", "fence", "load", "wake"}]
      /\ rpc \in [Producers -> {"out", "seq", "reload", "cas", "write", "publish", "ok", "full"}]
      /\ moved \in [Producers -> BOOLEAN]
  BY Zenon DEF MbInv, MbTypeOK, RingInv, RingTypeOK
<1> USE DEF PushFull, PushReturn, At, Goto
<1>3. /\ UNCHANGED <<log, ritem, api, args, acc>> /\ rpc'[p] = "out"
      /\ mpc'[p] \in {"fence", "idle", "push", "spin"}
      /\ \A q \in Producers \ {p} : UNCHANGED <<mpc[q], rpc[q], moved[q]>>
      /\ moved'[p] = (api[p] = "em")
  BY <1>2, Zenon
<1>4. api[p] = "em" => mpc'[p] = "idle"
  BY <1>1, <1>2, Zenon DEF Carried, NoEmptyRetry
<1> HIDE DEF PushFull
<1>5. Carried(p)'
  BY <1>1, <1>3, <1>4, Zenon DEF Carried
<1>6. \A i \in DOMAIN acc'[p] : Occurs(log', acc'[p][i])
  BY <1>1, <1>3, Zenon
<1> QED
  BY <1>3, <1>5, <1>6, AccFrame, Zenon

\* Spinning and signalling move the call on and touch no task.
LEMMA AfterPushAcc ==
  ASSUME MbInv, AccInv, LogKeeps, NEW p \in Producers,
         SpinRetry(p) \/ PostFence(p) \/ PostLoad(p) \/ PostWake(p)
  PROVE  AccInv'
<1>1. Carried(p) /\ \A i \in DOMAIN acc[p] : Occurs(log, acc[p][i])
  BY Zenon DEF AccInv, AcceptedQueued
<1>2. mpc \in [Producers -> {"idle", "push", "pushing", "spin", "fence", "load", "wake"}]
  BY Zenon DEF MbInv, MbTypeOK
<1>3. /\ UNCHANGED <<log, ritem, rpc, api, args, moved, acc>>
      /\ \A q \in Producers \ {p} : UNCHANGED <<mpc[q]>>
      /\ mpc'[p] \in {"idle", "load", "wake"} \/ (mpc[p] = "spin" /\ mpc'[p] = "push")
  BY <1>2, Zenon DEF SpinRetry, PostFence, PostLoad, PostWake, At, Goto, ringVars, prodVars
<1>4. Carried(p)'
  BY <1>1, <1>3, Zenon DEF Carried
<1>5. \A i \in DOMAIN acc'[p] : Occurs(log', acc'[p][i])
  BY <1>1, <1>3, Zenon
<1> QED
  BY <1>3, <1>4, <1>5, AccFrame, Zenon

\* Every step keeps AccInv.
LEMMA AccStepInv == ASSUME NoEmptyRetry, MbInv, AccInv, [Next]_vars PROVE AccInv'
<1>1. LogKeeps
  BY NextMovesRing, RingMoveLog DEF MbInv
<1>2. ASSUME NEW p \in Producers, CallStep(p) \/ ProducerStep(p) PROVE AccInv'
  BY <1>1, <1>2, CallAcc, TryPushAcc, PushingAcc, PushOkAcc, PushFullAcc, AfterPushAcc DEF ProducerStep
<1>3. ASSUME NEW p \in Producers, CommitPush(p) PROVE AccInv'
  BY <1>1, <1>3, AccStays, Zenon DEF CommitPush, Commit, mbVars, prodMb
<1>4. ASSUME LoopStep \/ SleepOther \/ CommitState PROVE AccInv'
  <2>1. CASE DrainPop \/ DrainRun
    BY <1>1, <2>1, AccStays, Zenon DEF DrainPop, DrainRun, PopStep, PopHit, PopMove, PopFree, PopReturn,
       mbVars, prodMb, prodVars
  <2>2. CASE LoopTop \/ DrainEnd \/ MayBlock \/ Arm \/ ArmFence \/ Recheck
    BY <1>1, <2>2, AccStays, Zenon DEF LoopTop, DrainEnd, MayBlock, Arm, ArmFence, Recheck,
       prodMb, ringVars, prodVars
  <2>3. CASE WaitBegin \/ SleepWoken \/ SleepOther \/ Resume \/ CommitState
    BY <1>1, <2>3, AccStays, Zenon DEF WaitBegin, SleepWoken, SleepOther, Resume, CommitState,
       prodMb, ringVars, prodVars
  <2> QED
    BY <1>4, <2>1, <2>2, <2>3, Zenon DEF LoopStep
<1>5. ASSUME OwnerStep PROVE AccInv'
  BY <1>1, <1>5, AccStays, Zenon DEF OwnerStep, StopStore, StopWake, MarkDead, Destroy,
     prodMb, ringVars, prodVars
<1>6. ASSUME UNCHANGED vars PROVE AccInv'
  BY <1>1, <1>6, AccStays, Zenon DEF vars, mbVars, prodMb, ringVars, prodVars
<1> QED
  BY <1>2, <1>3, <1>4, <1>5, <1>6, Zenon DEF Next

\* A task post reported Ok for, or post_batch counted, is in the ring, whatever the
\* producers race on: unless em.post spins on a full ring, whose retry passes on the
\* empty task that the first attempt left behind.
THEOREM MailboxAcceptedQueued == Cap > 1 /\ NoEmptyRetry => (Spec => []AcceptedQueued)
<1> SUFFICES ASSUME Cap > 1, NoEmptyRetry PROVE Spec => []AcceptedQueued
  OBVIOUS
<1>1. Init => MbInv /\ AccInv
  <2> SUFFICES ASSUME Init PROVE AccInv
    BY MbInvInit
  <2>1. \A p \in Producers : acc[p] = << >> /\ mpc[p] = "idle" /\ rpc[p] = "out" /\ api[p] = "post"
    BY Zenon DEF Init, RingInit
  <2>2. DOMAIN << >> = {}
    OBVIOUS
  <2> QED
    BY <2>1, <2>2, Zenon DEF AccInv, AcceptedQueued, Carried
<1>2. MbInv /\ AccInv /\ [Next]_vars => (MbInv /\ AccInv)'
  BY MbStepInv, AccStepInv
<1>3. AccInv => AcceptedQueued
  BY DEF AccInv
<1> QED
  BY <1>1, <1>2, <1>3, PTL DEF Spec
=============================================================================
