--------------------------- MODULE E2ESuite_proof ---------------------------
(***************************************************************************)
(* Proofs about ClientPool, for every number of calls, of starts and of    *)
(* processors: the inductive invariant, the safety properties that follow, *)
(* and the refinement of KeyExchange, the same abstract exchange the       *)
(* engine implements.  Then about E2ESuite: the network benchmark calls    *)
(* the client's pool as ClientPool allows, so what is proved of the pool   *)
(* holds inside it; its rows are over their own tracks; and the mask its   *)
(* caller runs under only narrows.  For every table, every number of runs  *)
(* and every pattern of failures.                                          *)
(***************************************************************************)
EXTENDS E2ESuite, TLAPS

----------------------------------------------------------------------------
(* The pool *)

\* The part of IInv that is not about types.
ControlInv == MutexInv /\ LifeInv /\ JobInv /\ NoLostWakeup

\* Every step preserves who holds the mutex, when the worker lives, and where a
\* job may be pending.
LEMMA ControlStep ==
  ASSUME TypeOK, ControlInv, [Next]_vars PROVE ControlInv'
<1> USE DEF TypeOK, ControlInv, MutexInv, LifeInv, JobInv, NoLostWakeup,
            WaitPcs, ExchangePcs, StopPcs, DonePcs, vars, frame, process,
            mainVars, workerVars, flags, poolVars
<1>1. CASE client_worker_init
  BY <1>1 DEF client_worker_init, CreateWorker, CreateWorkerFails
<1>2. CASE FailsBeforeShares
  BY <1>2 DEF FailsBeforeShares
<1>3. CASE Shutdown
  BY <1>3 DEF Shutdown, client_worker_shutdown
<1>4. CASE Exit
  BY <1>4 DEF Exit
<1>5. ASSUME NEW r \in Routes, ComputeShares(r) PROVE ControlInv'
  BY <1>5 DEF ComputeShares
<1>6. CASE LazyInit
  BY <1>6 DEF LazyInit, CreateWorker, CreateWorkerFails
<1>7. CASE InitReturns
  BY <1>7 DEF InitReturns
<1>8. CASE Inline
  BY <1>8 DEF Inline
<1>9. CASE PostLock
  BY <1>9 DEF PostLock, MainLock
<1>10. CASE Post
  BY <1>10 DEF Post, SignalWake
<1>11. CASE Derive
  BY <1>11 DEF Derive
<1>12. CASE JoinLock
  BY <1>12 DEF JoinLock, MainLock
<1>13. CASE Join
  BY <1>13 DEF Join
<1>14. CASE Judge
  BY <1>14 DEF Judge
<1>15. CASE RunHandler
  BY <1>15 DEF RunHandler, client_worker_shutdown
<1>16. CASE StopLock
  BY <1>16 DEF StopLock, MainLock
<1>17. CASE Stop
  BY <1>17 DEF Stop, SignalWake
<1>18. CASE StopJoin
  BY <1>18 DEF StopJoin
<1>19. CASE WorkerStart
  BY <1>19 DEF WorkerStart
<1>20. CASE CheckLock
  BY <1>20 DEF CheckLock, WorkerLock
<1>21. CASE WorkerCheck
  BY <1>21 DEF WorkerCheck
<1>22. CASE Encaps
  BY <1>22 DEF Encaps
<1>23. CASE DoneLock
  BY <1>23 DEF DoneLock, WorkerLock
<1>24. CASE WorkerDone
  BY <1>24 DEF WorkerDone
<1>25. CASE JoinSpurious
  BY <1>25 DEF JoinSpurious
<1>26. CASE WorkerSpurious
  BY <1>26 DEF WorkerSpurious
<1>27. CASE Gone
  BY <1>27 DEF Gone
<1>28. CASE UNCHANGED vars
  BY <1>28
<1> QED
  BY <1>1, <1>2, <1>3, <1>4, <1>5, <1>6, <1>7, <1>8, <1>9, <1>10, <1>11,
       <1>12, <1>13, <1>14, <1>15, <1>16, <1>17, <1>18, <1>19, <1>20,
       <1>21, <1>22, <1>23, <1>24, <1>25, <1>26, <1>27, <1>28
     DEF Next, Calls, MainStep, WorkerStep

\* Creating the worker, as either of its callers does, preserves the types.
LEMMA CreateTypes ==
  ASSUME TypeOK, CreateWorker, pc' \in {"boot_warm", "lazy_warm"} PROVE TypeOK'
<1>1. /\ args' \in Nat /\ handlers' \in Nat
      /\ wpc' = "start" /\ mutex' = "free" /\ worker_mask' \in Masks
  BY DEF TypeOK, CreateWorker
<1>2. /\ has_work' \in BOOLEAN /\ work_done' \in BOOLEAN /\ shutdown' \in BOOLEAN
  BY Zenon DEF CreateWorker
<1>3. UNCHANGED <<frame, rc, main_mask, exiting, wargs, g_client_worker_initialized>>
  BY DEF CreateWorker
<1> QED
  BY <1>1, <1>2, <1>3 DEF TypeOK, frame, ExchangePcs, Masks

\* So does failing to create it.
LEMMA CreateFailsTypes ==
  ASSUME TypeOK, CreateWorkerFails, pc' \in {"idle", "inline"} PROVE TypeOK'
<1>1. args' \in Nat /\ mutex' = "free"
  BY DEF CreateWorkerFails
<1>2. /\ has_work' \in BOOLEAN /\ work_done' \in BOOLEAN /\ shutdown' \in BOOLEAN
  BY Zenon DEF CreateWorkerFails
<1>3. UNCHANGED <<frame, rc, main_mask, process, workerVars,
                  g_client_worker_initialized>>
  BY DEF CreateWorkerFails
<1> QED
  BY <1>1, <1>2, <1>3 DEF TypeOK, frame, process, workerVars, ExchangePcs

\* Every step preserves the types.
LEMMA TypeStep ==
  ASSUME TypeOK, [Next]_vars PROVE TypeOK'
<1> USE DEF TypeOK, Pinned, Masks, WaitPcs, ExchangePcs, StopPcs, DonePcs, vars,
            frame, process, mainVars, workerVars, flags, poolVars
<1>1. CASE client_worker_init
  <2>1. CASE CreateWorker /\ pc' = "boot_warm"
    BY <2>1, CreateTypes
  <2>2. CASE CreateWorkerFails /\ pc' = "idle"
    BY <2>2, CreateFailsTypes
  <2> QED
    BY <1>1, <2>1, <2>2 DEF client_worker_init
<1>2. CASE FailsBeforeShares
  BY <1>2 DEF FailsBeforeShares
<1>3. CASE Shutdown
  BY <1>3 DEF Shutdown, client_worker_shutdown
<1>4. CASE Exit
  BY <1>4 DEF Exit
<1>5. ASSUME NEW r \in Routes, ComputeShares(r) PROVE TypeOK'
  <2>1. pc' \in {"inline", "post_lock", "lazy"} /\ main_mask' \in {main_mask, "core0"}
    BY <1>5, Zenon DEF ComputeShares
  <2>2. call' \in Nat /\ main_mask' \in Masks
    BY <1>5, <2>1 DEF ComputeShares
  <2>3. /\ success' \in BOOLEAN /\ c_secret' \in BOOLEAN
        /\ pqc_dispatched' \in BOOLEAN
    BY <1>5, Zenon DEF ComputeShares
  <2> QED
    <3>1. UNCHANGED <<rc, process, workerVars, poolVars>>
      BY <1>5 DEF ComputeShares
    <3> QED
      BY <2>1, <2>2, <2>3, <3>1
<1>6. CASE LazyInit
  <2>1. CASE CreateWorker /\ pc' = "lazy_warm"
    BY <2>1, CreateTypes
  <2>2. CASE CreateWorkerFails /\ pc' = "inline"
    BY <2>2, CreateFailsTypes
  <2> QED
    BY <1>6, <2>1, <2>2 DEF LazyInit
<1>7. CASE InitReturns
  BY <1>7 DEF InitReturns
<1>8. CASE Inline
  BY <1>8 DEF Inline
<1>9. CASE PostLock
  BY <1>9 DEF PostLock, MainLock
<1>10. CASE Post
  BY <1>10 DEF Post, SignalWake
<1>11. CASE Derive
  BY <1>11 DEF Derive
<1>12. CASE JoinLock
  BY <1>12 DEF JoinLock, MainLock
<1>13. CASE Join
  BY <1>13 DEF Join
<1>14. CASE Judge
  BY <1>14 DEF Judge
<1>15. CASE RunHandler
  BY <1>15 DEF RunHandler, client_worker_shutdown
<1>16. CASE StopLock
  BY <1>16 DEF StopLock, MainLock
<1>17. CASE Stop
  BY <1>17 DEF Stop, SignalWake
<1>18. CASE StopJoin
  <2>1. g_client_worker_initialized' \in BOOLEAN
    BY <1>18, Zenon DEF StopJoin
  <2>2. wpc' = "none" /\ pc' = "idle" /\ mutex' = "dead"
    BY <1>18 DEF StopJoin
  <2>3. UNCHANGED <<frame, rc, main_mask, process, wargs, worker_mask, args, flags>>
    BY <1>18 DEF StopJoin
  <2> QED
    BY <2>1, <2>2, <2>3
<1>19. CASE WorkerStart
  BY <1>19 DEF WorkerStart
<1>20. CASE CheckLock
  BY <1>20 DEF CheckLock, WorkerLock
<1>21. CASE WorkerCheck
  BY <1>21 DEF WorkerCheck
<1>22. CASE Encaps
  <2>1. success' \in BOOLEAN
    BY <1>22, Zenon DEF Encaps
  <2> QED
    BY <1>22, <2>1 DEF Encaps
<1>23. CASE DoneLock
  BY <1>23 DEF DoneLock, WorkerLock
<1>24. CASE WorkerDone
  <2>1. has_work' \in BOOLEAN /\ work_done' \in BOOLEAN
    BY <1>24, Zenon DEF WorkerDone
  <2>2. pc' \in {pc, "join_lock"} /\ wpc' = "lock" /\ mutex' = "free"
    BY <1>24 DEF WorkerDone
  <2>3. UNCHANGED <<frame, rc, main_mask, process, wargs, worker_mask,
                    g_client_worker_initialized, args, shutdown>>
    BY <1>24 DEF WorkerDone
  <2> QED
    BY <2>1, <2>2, <2>3
<1>25. CASE JoinSpurious
  BY <1>25 DEF JoinSpurious
<1>26. CASE WorkerSpurious
  BY <1>26 DEF WorkerSpurious
<1>27. CASE Gone
  BY <1>27 DEF Gone
<1>28. CASE UNCHANGED vars
  BY <1>28
<1> QED
  BY <1>1, <1>2, <1>3, <1>4, <1>5, <1>6, <1>7, <1>8, <1>9, <1>10, <1>11,
       <1>12, <1>13, <1>14, <1>15, <1>16, <1>17, <1>18, <1>19, <1>20,
       <1>21, <1>22, <1>23, <1>24, <1>25, <1>26, <1>27, <1>28
     DEF Next, Calls, MainStep, WorkerStep

\* The inductive invariant holds throughout.
THEOREM Invariance == Spec => []IInv
<1>1. Init => IInv
  <2> SUFFICES ASSUME Init PROVE IInv
    OBVIOUS
  <2>1. TypeOK
    BY DEF Init, TypeOK, Masks, WaitPcs, ExchangePcs, StopPcs, DonePcs
  <2>2. MutexInv /\ LifeInv /\ JobInv /\ NoLostWakeup
    BY DEF Init, MutexInv, LifeInv, JobInv, NoLostWakeup, WaitPcs, StopPcs, DonePcs,
         ExchangePcs
  <2> QED
    BY <2>1, <2>2 DEF IInv
<1>2. IInv /\ [Next]_vars => IInv'
  BY ControlStep, TypeStep DEF IInv, ControlInv
<1> QED
  BY <1>1, <1>2, PTL DEF Spec

\* The worker never writes through a pointer whose frame the caller has left.
THEOREM NoDanglingFrame == Spec => []FrameIsLive
<1>1. IInv => FrameIsLive
  BY DEF IInv, JobInv, LifeInv, MutexInv, FrameIsLive, WaitPcs
<1> QED
  BY <1>1, Invariance, PTL

\* Nobody sleeps while what it sleeps for already holds.
THEOREM WakeupsNotLost == Spec => []NoLostWakeup
<1>1. IInv => NoLostWakeup
  BY DEF IInv
<1> QED
  BY <1>1, Invariance, PTL

\* However often it is shut down, by hand and at exit, and started again: the
\* pool is not used destroyed, and a process that is gone has no worker.
THEOREM LifeCycle == Spec => []PoolOutlivesUse
<1>1. IInv => PoolOutlivesUse
  BY DEF IInv, TypeOK, LifeInv, PoolOutlivesUse, WaitPcs, StopPcs
<1> QED
  BY <1>1, Invariance, PTL

----------------------------------------------------------------------------
(* Refinement of KeyExchange *)

\* The abstract share function, by what it depends on.
LEMMA ShareBar ==
  /\ shareBar = [k \in {"ecdh", "kem"} |-> shareBar[k]]
  /\ shareBar["ecdh"] = IF c_secret THEN "fresh" ELSE "absent"
  /\ shareBar["kem"] = IF success THEN "fresh" ELSE "absent"
  BY DEF shareBar

\* A handshake that reaches its shares begins an exchange that needs both.
LEMMA RefBegin ==
  ASSUME IInv, NEW r \in Routes, ComputeShares(r) PROVE Exchange!Begin
<1>1. pc = "idle" /\ pc' \in {"inline", "post_lock", "lazy"} /\ call' # 0
  BY DEF ComputeShares, IInv, TypeOK
<1>2. phaseBar = "idle" /\ phaseBar' = "busy"
  BY <1>1 DEF phaseBar, ExchangePcs, WaitPcs
<1>3. needsBar' \in (SUBSET Exchange!Shares) \ {{}}
  BY <1>1 DEF needsBar, Exchange!Shares
<1>4. triedBar' = {}
  BY <1>1 DEF triedBar, KemTried, WaitPcs
<1>5. shareBar' = Exchange!NoShare
  BY DEF ComputeShares, shareBar, Exchange!NoShare, Exchange!Shares
<1>6. UNCHANGED okBar
  BY DEF ComputeShares, okBar
<1> QED
  BY <1>2, <1>3, <1>4, <1>5, <1>6 DEF Exchange!Begin

\* The caller's own encapsulation is one attempt.
LEMMA RefInline ==
  ASSUME IInv, Inline PROVE Exchange!Attempt("kem")
<1>1. /\ pc = "inline" /\ pc' = "derive" /\ ~pqc_dispatched /\ ~pqc_dispatched'
      /\ call # 0 /\ UNCHANGED <<call, rc, c_secret>>
  BY DEF Inline, IInv, JobInv, LifeInv, ExchangePcs
<1>2. phaseBar = "busy" /\ UNCHANGED <<phaseBar, okBar, needsBar>>
  BY <1>1 DEF phaseBar, ExchangePcs, WaitPcs, okBar, needsBar
<1>3. triedBar = {} /\ triedBar' = {"kem"} /\ "kem" \in needsBar
  BY <1>1 DEF triedBar, KemTried, WaitPcs, needsBar
<1>4. shareBar' = [shareBar EXCEPT !["kem"] = IF success' THEN "fresh" ELSE "absent"]
  BY <1>1 DEF shareBar
<1> QED
  BY <1>2, <1>3, <1>4 DEF Exchange!Attempt

\* The worker's encapsulation is one attempt, inside the call it is for.
LEMMA RefEncaps ==
  ASSUME IInv, Encaps PROVE Exchange!Attempt("kem")
<1>1. /\ wpc = "encaps" /\ wpc' = "done_lock"
      /\ UNCHANGED <<pc, call, rc, c_secret, pqc_dispatched, work_done>>
  BY DEF Encaps, poolVars, flags
<1>2. pc \in {"derive"} \cup WaitPcs /\ pqc_dispatched /\ ~work_done /\ call # 0
  BY <1>1 DEF IInv, JobInv, ExchangePcs, TypeOK
<1>3. phaseBar = "busy" /\ UNCHANGED <<phaseBar, okBar, needsBar>>
  BY <1>1, <1>2 DEF phaseBar, ExchangePcs, WaitPcs, okBar, needsBar
<1>4. "kem" \notin triedBar /\ triedBar' = triedBar \cup {"kem"} /\ "kem" \in needsBar
  BY <1>1, <1>2 DEF triedBar, KemTried, WaitPcs, DonePcs, needsBar
<1>5. shareBar' = [shareBar EXCEPT !["kem"] = IF success' THEN "fresh" ELSE "absent"]
  BY <1>1 DEF shareBar
<1> QED
  BY <1>3, <1>4, <1>5 DEF Exchange!Attempt

\* The classical share is one attempt, on either path.
LEMMA RefDerive ==
  ASSUME IInv, Derive PROVE Exchange!Attempt("ecdh")
<1>1. /\ pc = "derive" /\ pc' = (IF pqc_dispatched THEN "join_lock" ELSE "judge")
      /\ call # 0 /\ pqc_dispatched \in BOOLEAN
      /\ UNCHANGED <<call, rc, success, pqc_dispatched, work_done, wpc>>
  BY DEF Derive, IInv, TypeOK, JobInv, ExchangePcs, poolVars, flags, workerVars
<1>2. phaseBar = "busy" /\ UNCHANGED <<phaseBar, okBar, needsBar>>
  BY <1>1 DEF phaseBar, ExchangePcs, WaitPcs, okBar, needsBar
<1>3. KemTried' <=> KemTried
  BY <1>1 DEF KemTried, WaitPcs
<1>4. "ecdh" \notin triedBar /\ triedBar' = triedBar \cup {"ecdh"} /\ "ecdh" \in needsBar
  BY <1>1, <1>3 DEF triedBar, WaitPcs, needsBar
<1>5. shareBar' = [shareBar EXCEPT !["ecdh"] = IF c_secret' THEN "fresh" ELSE "absent"]
  BY <1>1 DEF shareBar
<1> QED
  BY <1>2, <1>4, <1>5 DEF Exchange!Attempt

\* The verdict ends the exchange.
LEMMA RefJudge ==
  ASSUME IInv, Judge PROVE Exchange!End
<1>1. /\ pc = "judge" /\ pc' = "idle" /\ call # 0
      /\ UNCHANGED <<call, success, c_secret>>
  BY DEF Judge, IInv, JobInv, ExchangePcs, frame
<1>2. phaseBar = "busy" /\ phaseBar' = "idle"
  BY <1>1 DEF phaseBar, ExchangePcs, WaitPcs
<1>3. triedBar = needsBar /\ needsBar = {"ecdh", "kem"} /\ triedBar' = {}
  BY <1>1 DEF triedBar, KemTried, WaitPcs, needsBar
<1>4. UNCHANGED <<needsBar, shareBar>>
  BY <1>1 DEF needsBar, shareBar
<1>5. okBar' <=> success /\ c_secret
  BY DEF Judge, okBar
<1>6. (\A k \in needsBar : shareBar[k] = "fresh") <=> success /\ c_secret
  BY <1>3, ShareBar
<1>7. okBar' = (\A k \in needsBar : shareBar[k] = "fresh")
  BY <1>5, <1>6 DEF okBar
<1> QED
  BY <1>2, <1>3, <1>4, <1>7 DEF Exchange!End

\* The steps KeyExchange does not see.
StutterStep ==
  \/ client_worker_init \/ Shutdown \/ Exit \/ LazyInit \/ InitReturns
  \/ PostLock \/ Post \/ JoinLock \/ Join \/ RunHandler \/ StopLock \/ Stop
  \/ StopJoin \/ WorkerStart \/ CheckLock \/ WorkerCheck \/ DoneLock
  \/ WorkerDone \/ JoinSpurious \/ WorkerSpurious \/ Gone \/ UNCHANGED vars

\* Starting, locking, waiting, signalling and shutting down are invisible.
LEMMA RefStutter ==
  ASSUME IInv, StutterStep
  PROVE  UNCHANGED <<phaseBar, needsBar, triedBar, shareBar, okBar>>
<1> USE DEF phaseBar, needsBar, triedBar, shareBar, okBar, KemTried, IInv, TypeOK,
            LifeInv, JobInv, WaitPcs, ExchangePcs, StopPcs, DonePcs, vars, frame,
            process, mainVars, workerVars, flags, poolVars
<1>1. CASE client_worker_init
  BY <1>1 DEF client_worker_init, CreateWorker, CreateWorkerFails
<1>2. CASE Shutdown
  BY <1>2 DEF Shutdown, client_worker_shutdown
<1>3. CASE Exit
  BY <1>3 DEF Exit
<1>4. CASE LazyInit
  BY <1>4 DEF LazyInit, CreateWorker, CreateWorkerFails
<1>5. CASE InitReturns
  BY <1>5 DEF InitReturns
<1>6. CASE PostLock
  BY <1>6 DEF PostLock, MainLock
<1>7. CASE Post
  BY <1>7 DEF Post, SignalWake
<1>8. CASE JoinLock
  BY <1>8 DEF JoinLock, MainLock
<1>9. CASE Join
  BY <1>9 DEF Join
<1>10. CASE RunHandler
  BY <1>10 DEF RunHandler, client_worker_shutdown
<1>11. CASE StopLock
  BY <1>11 DEF StopLock, MainLock
<1>12. CASE Stop
  BY <1>12 DEF Stop, SignalWake
<1>13. CASE StopJoin
  BY <1>13 DEF StopJoin
<1>14. CASE WorkerStart
  BY <1>14 DEF WorkerStart
<1>15. CASE CheckLock
  BY <1>15 DEF CheckLock, WorkerLock
<1>16. CASE WorkerCheck
  BY <1>16 DEF WorkerCheck
<1>17. CASE DoneLock
  BY <1>17 DEF DoneLock, WorkerLock
<1>18. CASE WorkerDone
  BY <1>18 DEF WorkerDone
<1>19. CASE JoinSpurious
  BY <1>19 DEF JoinSpurious
<1>20. CASE WorkerSpurious
  BY <1>20 DEF WorkerSpurious
<1>21. CASE Gone
  BY <1>21 DEF Gone
<1>22. CASE UNCHANGED vars
  BY <1>22
<1> QED
  BY <1>1, <1>2, <1>3, <1>4, <1>5, <1>6, <1>7, <1>8, <1>9, <1>10, <1>11,
       <1>12, <1>13, <1>14, <1>15, <1>16, <1>17, <1>18, <1>19, <1>20,
       <1>21, <1>22
     DEF StutterStep

\* Every step of the pool is a step of KeyExchange or leaves it unchanged.
LEMMA RefStep ==
  ASSUME IInv, [Next]_vars PROVE [Exchange!Next]_Exchange!vars
<1>1. CASE FailsBeforeShares
  <2>1. phaseBar = "idle" /\ okBar' = FALSE
    BY <1>1 DEF FailsBeforeShares, phaseBar, okBar, ExchangePcs, WaitPcs
  <2>2. UNCHANGED <<phaseBar, needsBar, triedBar, shareBar>>
    BY <1>1 DEF FailsBeforeShares, phaseBar, needsBar, triedBar, shareBar, KemTried,
                frame, workerVars, poolVars, flags
  <2> QED
    BY <2>1, <2>2 DEF Exchange!Next, Exchange!Refuse
<1>2. CASE \E r \in Routes : ComputeShares(r)
  BY <1>2, RefBegin DEF Exchange!Next
<1>3. CASE Inline
  BY <1>3, RefInline DEF Exchange!Next, Exchange!Shares
<1>4. CASE Encaps
  BY <1>4, RefEncaps DEF Exchange!Next, Exchange!Shares
<1>5. CASE Derive
  BY <1>5, RefDerive DEF Exchange!Next, Exchange!Shares
<1>6. CASE Judge
  BY <1>6, RefJudge DEF Exchange!Next
<1>7. CASE StutterStep
  BY <1>7, RefStutter DEF Exchange!vars
<1> QED
  BY <1>1, <1>2, <1>3, <1>4, <1>5, <1>6, <1>7
     DEF Next, Calls, MainStep, WorkerStep, StutterStep

\* The client's pool implements the abstract exchange, whichever thread computes
\* the KEM share and however the pool was started.
THEOREM Refinement == Spec => ImplementsKeyExchange
<1>1. Init => Exchange!Init
  BY DEF Init, Exchange!Init, Exchange!NoShare, Exchange!Shares, phaseBar, needsBar,
         triedBar, shareBar, okBar, KemTried, ExchangePcs, WaitPcs, DonePcs
<1>2. IInv /\ [Next]_vars => [Exchange!Next]_Exchange!vars
  BY RefStep
<1> QED
  BY <1>1, <1>2, Invariance, PTL DEF Spec, Exchange!Spec, ImplementsKeyExchange

----------------------------------------------------------------------------
(* The benchmark around it *)

InTrack == {"track", "ret"}

\* Where main() is, and which suite and mode it is at.
CounterInv ==
  /\ bpc \in {"boot", "init", "alloc", "suite", "exit", "done"} \cup InTrack
  /\ g_runs \in Int
  /\ ci \in 0..Len(Hybrids) /\ mi \in 1..3 /\ it \in Nat
  /\ bpc \in {"boot", "init", "alloc"} => ci = 0
  /\ bpc \in InTrack => ci >= 1
  /\ bpc \in {"suite"} \cup InTrack => g_runs >= 0
  /\ bpc = "ret" => it < g_runs
  /\ bpc = "track" => it <= g_runs

LEMMA E2EAssumptions ==
  /\ Len(Hybrids) \in Nat
  /\ \A i \in 1..Len(Hybrids) : Hybrids[i] \in ALGORITHM_COMBOS
  /\ Runs \subseteq Int
BY E2EAssumption

LEMMA Counters == E2ESpec => []CounterInv
<1> USE E2EAssumptions DEF CounterInv, InTrack, counters, setup, e2eVars
<1>1. E2EInit => CounterInv
  BY DEF E2EInit
<1>2. CounterInv /\ [E2ENext]_allVars => CounterInv'
  <2> SUFFICES ASSUME CounterInv, [E2ENext]_allVars PROVE CounterInv'
    OBVIOUS
  <2>1. CASE Boot \/ StartPool \/ Allocate \/ StopPool \/ Return
    BY <2>1 DEF Boot, StartPool, Allocate, StopPool, Return
  <2>2. CASE NextSuite
    BY <2>2 DEF NextSuite
  <2>3. CASE Handshake
    BY <2>3 DEF Handshake
  <2>4. CASE TrackFailed
    BY <2>4 DEF TrackFailed, NextTrack
  <2>5. CASE Measured
    BY <2>5 DEF Measured
  <2>6. CASE TrackDone
    BY <2>6 DEF TrackDone, NextTrack
  <2>7. CASE PoolStep \/ UNCHANGED allVars
    BY <2>7 DEF PoolStep, allVars
  <2> QED
    BY <2>1, <2>2, <2>3, <2>4, <2>5, <2>6, <2>7 DEF E2ENext, DriverStep
<1> QED
  BY <1>1, <1>2, PTL DEF E2ESpec

(***************************************************************************)
(* main() of bench_e2e.c is a legal caller of the pool: with the program   *)
(* around it the pool still behaves as ClientPool says.                    *)
(***************************************************************************)
THEOREM SuiteUsesPool == E2ESpec => Spec
<1>1. E2EInit => Init
  BY DEF E2EInit
<1>2. CounterInv /\ [E2ENext]_allVars => [Next]_vars
  <2> SUFFICES ASSUME CounterInv, [E2ENext]_allVars PROVE [Next]_vars
    OBVIOUS
  <2>1. CASE Boot \/ Allocate \/ NextSuite \/ TrackFailed \/ Measured \/ TrackDone
    BY <2>1 DEF Boot, Allocate, NextSuite, TrackFailed, Measured, TrackDone
  <2>2. CASE StartPool \/ StopPool \/ Return
    BY <2>2 DEF StartPool, StopPool, Return, Next, Calls
  <2>3. CASE Handshake
    <3>1. mode_local_route(BenchModes[mi], Hybrids[ci]) \in Routes
      BY DEF CounterInv, mode_local_route, BenchModes, adaptive_dispatch, Routes
    <3> QED
      BY <2>3, <3>1 DEF Handshake, Next, Calls
  <2>4. CASE PoolStep
    BY <2>4 DEF PoolStep, Next
  <2>5. CASE UNCHANGED allVars
    BY <2>5 DEF allVars
  <2> QED
    BY <2>1, <2>2, <2>3, <2>4, <2>5 DEF E2ENext, DriverStep
<1> QED
  BY <1>1, <1>2, Counters, PTL DEF E2ESpec, Spec

\* In particular, whatever the benchmark measures, its worker never writes into a
\* frame that is gone, and the program leaves no worker behind.
COROLLARY BenchmarkIsSafe == E2ESpec => [](FrameIsLive /\ PoolOutlivesUse)
BY SuiteUsesPool, NoDanglingFrame, LifeCycle, PTL

----------------------------------------------------------------------------
(* Rows *)

Cell == [suite : 1..Len(Hybrids), mode : 1..3, iter : Nat, mask : Masks,
         ran : {"worker", "caller"}] \cup {Garbage}
Row  == [suite : 1..Len(Hybrids), mode : 1..3, from : SUBSET Cell]

\* The samples taken so far on the track under way are its own.
SampleInv ==
  /\ samples \in [Iterations -> Cell]
  /\ bpc \in InTrack =>
       \A j \in Iterations : j <= it =>
         samples[j].suite = ci /\ samples[j].mode = mi /\ samples[j].iter = j

Own(r) == g_runs > 0 => /\ \A s \in r.from : s.suite = r.suite /\ s.mode = r.mode
                        /\ {s.iter : s \in r.from} = Iterations

\* Rows cover their own tracks and come in the order of the loops, so that the track
\* under way has none yet.
RowInv ==
  /\ all_results \in Seq(Row)
  /\ \A k \in DOMAIN all_results :
       /\ Own(all_results[k])
       /\ all_results[k].suite <= ci
       /\ bpc \in InTrack /\ all_results[k].suite = ci => all_results[k].mode < mi
  /\ \A k, l \in DOMAIN all_results : k < l =>
       \/ all_results[k].suite < all_results[l].suite
       \/ /\ all_results[k].suite = all_results[l].suite
          /\ all_results[k].mode < all_results[l].mode

E2EInv == CounterInv /\ SampleInv /\ RowInv

LEMMA RowTypes ==
  all_results \in Seq(Row) =>
    \A k \in DOMAIN all_results :
      all_results[k].suite \in Int /\ all_results[k].mode \in Int
<1> SUFFICES ASSUME all_results \in Seq(Row), NEW k \in DOMAIN all_results
             PROVE  all_results[k].suite \in Int /\ all_results[k].mode \in Int
  OBVIOUS
<1>1. all_results[k] \in Row
  OBVIOUS
<1> QED
  BY <1>1 DEF Row

NewRow == [suite |-> ci, mode |-> mi, from |-> Looked]

\* A measurement writes the slot of its own iteration.
LEMMA MeasuredSample ==
  ASSUME E2EInv, main_mask \in Masks, Measured PROVE SampleInv'
<1> USE E2EAssumptions DEF E2EInv, CounterInv, SampleInv, InTrack, counters, setup
<1> DEFINE new == Sample(ci, mi, it + 1)
<1>1. bpc = "ret" /\ ci \in 1..Len(Hybrids) /\ it + 1 \in Iterations
  BY DEF Measured, Iterations
<1>2. new \in Cell /\ new.suite = ci /\ new.mode = mi /\ new.iter = it + 1
  BY <1>1 DEF Sample, Cell
<1>3. samples' = [samples EXCEPT ![it + 1] = new] /\ Iterations' = Iterations
  BY DEF Measured, Iterations
<1>4. samples' \in [Iterations -> Cell]
  BY <1>1, <1>2, <1>3
<1>5. ci' = ci /\ mi' = mi /\ it' = it + 1
  BY DEF Measured
<1>6. ASSUME NEW j \in Iterations, j <= it + 1
      PROVE  samples'[j].suite = ci /\ samples'[j].mode = mi /\ samples'[j].iter = j
  <2>1. j \in Nat /\ samples'[j] = IF j = it + 1 THEN new ELSE samples[j]
    BY <1>1, <1>3 DEF Iterations
  <2>2. CASE j = it + 1
    BY <1>2, <2>1, <2>2
  <2>3. CASE j # it + 1
    <3>1. j <= it
      BY <1>6, <2>1, <2>3
    <3> QED
      BY <1>1, <2>1, <2>3, <3>1
  <2> QED
    BY <2>2, <2>3
<1> HIDE DEF new
<1> QED
  BY <1>3, <1>4, <1>5, <1>6

\* A completed track is its own.
LEMMA NewRowIsOwn ==
  ASSUME E2EInv, TrackDone PROVE NewRow \in Row /\ Own(NewRow)
<1> USE E2EAssumptions DEF E2EInv, CounterInv, SampleInv, InTrack
<1>1. bpc = "track" /\ ci \in 1..Len(Hybrids) /\ it = g_runs /\ g_runs >= 0
  BY DEF TrackDone
<1>2. Looked \subseteq Cell
  BY DEF Looked, Cell
<1>3. NewRow \in Row
  BY <1>1, <1>2 DEF NewRow, Row
<1>4. ASSUME g_runs > 0
      PROVE  /\ \A s \in Looked : s.suite = ci /\ s.mode = mi
             /\ {s.iter : s \in Looked} = Iterations
  <2>1. Looked = {samples[i] : i \in Iterations}
    BY <1>4 DEF Looked
  <2>2. \A j \in Iterations :
          samples[j].suite = ci /\ samples[j].mode = mi /\ samples[j].iter = j
    BY <1>1 DEF Iterations
  <2> QED
    BY <2>1, <2>2
<1> QED
  BY <1>3, <1>4 DEF NewRow, Own

\* Recording a completed track keeps the rows in order.
LEMMA TrackDoneRows ==
  ASSUME E2EInv, TrackDone PROVE RowInv'
<1> USE E2EAssumptions DEF E2EInv, CounterInv, RowInv, InTrack
<1>1. bpc = "track" /\ ci' = ci /\ g_runs' = g_runs /\ Iterations' = Iterations
  BY DEF TrackDone, setup, Iterations
<1>2. bpc' \in InTrack => mi' = mi + 1
  BY DEF TrackDone, NextTrack
<1>3. CASE all_results' = all_results
  BY <1>1, <1>2, <1>3, RowTypes DEF Own
<1>4. CASE all_results' = Append(all_results, NewRow)
  <2>1. NewRow \in Row /\ Own(NewRow) /\ NewRow.suite = ci /\ NewRow.mode = mi
    BY NewRowIsOwn DEF NewRow
  <2>2. /\ all_results' \in Seq(Row) /\ Len(all_results) \in Nat
        /\ DOMAIN all_results = 1..Len(all_results)
        /\ DOMAIN all_results' = 1..(Len(all_results) + 1)
    BY <1>4, <2>1
  <2>3. \A k \in DOMAIN all_results' :
          all_results'[k] = IF k \in DOMAIN all_results THEN all_results[k] ELSE NewRow
    BY <1>4, <2>1, <2>2
  <2>4. ASSUME NEW k \in DOMAIN all_results'
        PROVE  /\ Own(all_results'[k]) /\ all_results'[k].suite <= ci
               /\ bpc' \in InTrack /\ all_results'[k].suite = ci
                    => all_results'[k].mode < mi'
    <3>1. CASE k \in DOMAIN all_results
      BY <1>1, <1>2, <2>3, <3>1, RowTypes
    <3>2. CASE k \notin DOMAIN all_results
      BY <1>1, <1>2, <2>1, <2>3, <3>2
    <3> QED
      BY <3>1, <3>2
  <2>5. ASSUME NEW k \in DOMAIN all_results', NEW l \in DOMAIN all_results', k < l
        PROVE  \/ all_results'[k].suite < all_results'[l].suite
               \/ /\ all_results'[k].suite = all_results'[l].suite
                  /\ all_results'[k].mode < all_results'[l].mode
    <3>1. k \in DOMAIN all_results /\ k \in Nat /\ l \in Nat
      BY <2>2, <2>5
    <3>2. CASE l \in DOMAIN all_results
      BY <2>3, <2>5, <3>1, <3>2
    <3>3. CASE l \notin DOMAIN all_results
      BY <1>1, <2>1, <2>3, <2>5, <3>1, <3>3, RowTypes
    <3> QED
      BY <3>2, <3>3
  <2> QED
    BY <1>1, <2>2, <2>4, <2>5 DEF Own
<1> QED
  BY <1>3, <1>4 DEF TrackDone, NewRow

\* What neither measures nor moves on leaves samples and rows as they are.
LEMMA SameTrack ==
  ASSUME SampleInv, RowInv, UNCHANGED <<g_runs, counters, samples, all_results>>,
         bpc' \in InTrack => bpc \in InTrack
  PROVE  SampleInv' /\ RowInv'
<1>1. Iterations' = Iterations /\ ci' = ci /\ mi' = mi /\ it' = it
  BY DEF Iterations, counters
<1>2. SampleInv'
  BY <1>1 DEF SampleInv, Cell
<1>3. RowInv'
  BY <1>1 DEF RowInv, Own, Row, Cell
<1> QED
  BY <1>2, <1>3

LEMMA E2EStep ==
  ASSUME E2EInv, CounterInv', main_mask \in Masks, [E2ENext]_allVars PROVE E2EInv'
<1> USE DEF E2EInv, counters, setup, e2eVars
<1>1. CASE Boot \/ StartPool \/ Allocate \/ Handshake \/ StopPool \/ Return
  <2>1. UNCHANGED <<g_runs, counters, samples, all_results>>
    BY <1>1 DEF Boot, StartPool, Allocate, Handshake, StopPool, Return
  <2>2. bpc' \in InTrack => bpc \in InTrack
    BY <1>1 DEF Boot, StartPool, Allocate, Handshake, StopPool, Return, InTrack
  <2> QED
    BY <2>1, <2>2, SameTrack
<1>2. CASE NextSuite
  <2>1. SampleInv'
    BY <1>2 DEF NextSuite, SampleInv, Iterations, Cell
  <2>2. RowInv'
    BY <1>2, RowTypes DEF NextSuite, CounterInv, RowInv, Own, Iterations
  <2> QED
    BY <2>1, <2>2
<1>3. CASE TrackFailed
  <2>1. SampleInv'
    BY <1>3 DEF TrackFailed, NextTrack, SampleInv, Iterations, Cell
  <2>2. RowInv'
    BY <1>3, RowTypes DEF TrackFailed, NextTrack, CounterInv, RowInv, InTrack, Own, Iterations
  <2> QED
    BY <2>1, <2>2
<1>4. CASE Measured
  <2>1. RowInv'
    BY <1>4 DEF Measured, RowInv, InTrack, Own, Iterations
  <2> QED
    BY <1>4, <2>1, MeasuredSample
<1>5. CASE TrackDone
  <2>1. it' = 0 /\ Iterations' = Iterations
    BY <1>5 DEF TrackDone, NextTrack, Iterations
  <2>2. PICK p \in [Iterations -> Iterations] :
          samples' = [i \in Iterations |-> samples[p[i]]]
    BY <1>5 DEF TrackDone
  <2>3. samples' \in [Iterations -> Cell]
    BY <2>2 DEF SampleInv
  <2>4. \A j \in Iterations : ~(j <= 0)
    BY DEF Iterations, CounterInv
  <2>5. SampleInv'
    BY <2>1, <2>3, <2>4 DEF SampleInv, Cell
  <2> QED
    BY <1>5, <2>5, TrackDoneRows
<1>6. CASE PoolStep \/ UNCHANGED allVars
  BY <1>6, SameTrack DEF PoolStep, allVars
<1> QED
  BY <1>1, <1>2, <1>3, <1>4, <1>5, <1>6 DEF E2ENext, DriverStep

\* The driver's invariant holds, since the pool keeps the caller's mask a mask.
LEMMA Driver == E2ESpec => []E2EInv
<1>1. E2EInit => SampleInv /\ RowInv
  BY E2EAssumptions DEF E2EInit, SampleInv, RowInv, InTrack, Cell
<1>2. TypeOK => main_mask \in Masks
  BY DEF TypeOK
<1>3. E2ESpec => []IInv
  BY SuiteUsesPool, Invariance, PTL
<1>4. IInv => TypeOK
  BY DEF IInv
<1> QED
  BY <1>1, <1>2, <1>3, <1>4, Counters, E2EStep, PTL DEF E2ESpec, E2EInv

(***************************************************************************)
(* Whatever handshakes fail, a row covers every handshake of its own track *)
(* and nothing else that is or was in the shared buffer (bench_e2e.c:235), *)
(* and no track has two.                                                   *)
(***************************************************************************)
THEOREM RowsAreOwn == E2ESpec => []RowsAreWholeTracks
<1>1. ASSUME E2EInv PROVE RowsAreWholeTracks
  <2>1. ASSUME NEW k \in DOMAIN all_results, NEW l \in DOMAIN all_results, k < l
        PROVE  <<all_results[k].suite, all_results[k].mode>>
                 # <<all_results[l].suite, all_results[l].mode>>
    <3>1. /\ all_results[k].suite \in Int /\ all_results[k].mode \in Int
          /\ all_results[l].suite \in Int /\ all_results[l].mode \in Int
      BY <1>1, RowTypes DEF E2EInv, RowInv
    <3>2. \/ all_results[k].suite < all_results[l].suite
          \/ /\ all_results[k].suite = all_results[l].suite
             /\ all_results[k].mode < all_results[l].mode
      BY <1>1, <2>1 DEF E2EInv, RowInv
    <3> QED
      BY <3>1, <3>2
  <2>2. \A k \in DOMAIN all_results : Own(all_results[k])
    BY <1>1 DEF E2EInv, RowInv
  <2> QED
    BY <2>1, <2>2 DEF Own, RowsAreWholeTracks
<1> QED
  BY <1>1, Driver, PTL

----------------------------------------------------------------------------
(* Masks *)

PinningWorks == NCpus >= 2 /\ ~PinFails

Follows(s, mask) == s.mask \in {"all", "core0"} /\ (s.mask = "core0" => mask = "core0")

\* No sample was taken under a narrower mask than the caller has now, nor under a wider
\* one than that of an earlier row.
MaskInv ==
  /\ main_mask \in {"all", "core0"}
  /\ bpc \in InTrack =>
       \A j \in Iterations : j <= it => Follows(samples[j], main_mask)
  /\ \A k \in DOMAIN all_results : \A s \in all_results[k].from : s # Garbage =>
       /\ Follows(s, main_mask)
       /\ bpc \in InTrack => \A j \in Iterations : j <= it => Follows(s, samples[j].mask)
  /\ \A k, l \in DOMAIN all_results : k < l =>
       \A s \in all_results[k].from, t \in all_results[l].from :
         s # Garbage /\ t # Garbage => Follows(s, t.mask)

\* The caller is pinned to core 0 or not at all, and nothing unpins it.
LEMMA MaskStep ==
  ASSUME PinningWorks, main_mask \in {"all", "core0"}, [Next]_vars
  PROVE  main_mask' \in {"all", "core0"} /\ (main_mask = "core0" => main_mask' = "core0")
<1> USE DEF PinningWorks, Pinned, vars, mainVars
<1>1. CASE Calls
  BY <1>1 DEF Calls, client_worker_init, CreateWorker, CreateWorkerFails,
              FailsBeforeShares, Shutdown, client_worker_shutdown, Exit, ComputeShares
<1>2. CASE MainStep
  BY <1>2 DEF MainStep, LazyInit, CreateWorker, CreateWorkerFails, InitReturns, Inline,
              PostLock, Post, Derive, JoinLock, MainLock, Join, Judge, RunHandler,
              client_worker_shutdown, StopLock, Stop, StopJoin
<1>3. CASE WorkerStep
  BY <1>3 DEF WorkerStep, WorkerStart, CheckLock, WorkerCheck, Encaps, DoneLock,
              WorkerLock, WorkerDone
<1>4. CASE JoinSpurious \/ WorkerSpurious \/ Gone \/ UNCHANGED vars
  BY <1>4 DEF JoinSpurious, WorkerSpurious, Gone
<1> QED
  BY <1>1, <1>2, <1>3, <1>4 DEF Next

LEMMA MasksFollow ==
  ASSUME PinningWorks, E2EInv, E2EInv', MaskInv, [Next]_vars, [E2ENext]_allVars
  PROVE  MaskInv'
<1>1. main_mask' \in {"all", "core0"} /\ (main_mask = "core0" => main_mask' = "core0")
  BY MaskStep DEF MaskInv
<1>2. \A s : Follows(s, main_mask) => Follows(s, main_mask')
  BY <1>1 DEF Follows
<1>3. Iterations' = Iterations
  BY DEF E2ENext, DriverStep, Boot, StartPool, Allocate, NextSuite, Handshake,
         TrackFailed, Measured, TrackDone, StopPool, Return, PoolStep, Iterations,
         setup, e2eVars, allVars
<1> USE DEF counters, setup, e2eVars
<1>4. CASE \/ Boot \/ StartPool \/ Allocate \/ Handshake \/ StopPool \/ Return
           \/ PoolStep \/ UNCHANGED allVars
  <2>1. UNCHANGED <<counters, samples, all_results>>
    BY <1>4 DEF Boot, StartPool, Allocate, Handshake, StopPool, Return, PoolStep, allVars
  <2>2. bpc' \in InTrack => bpc \in InTrack
    BY <1>4 DEF Boot, StartPool, Allocate, Handshake, StopPool, Return, PoolStep,
                allVars, InTrack
  <2> QED
    BY <1>1, <1>2, <1>3, <2>1, <2>2 DEF MaskInv
<1>5. CASE NextSuite \/ TrackFailed
  <2>1. it' = 0 /\ all_results' = all_results
    BY <1>5 DEF NextSuite, TrackFailed, NextTrack
  <2>2. \A j \in Iterations : ~(j <= 0)
    BY DEF Iterations, E2EInv, CounterInv
  <2> QED
    BY <1>1, <1>2, <1>3, <2>1, <2>2 DEF MaskInv
<1>6. CASE Measured
  <2> DEFINE new == Sample(ci, mi, it + 1)
  <2>1. /\ it' = it + 1 /\ all_results' = all_results /\ main_mask' = main_mask
        /\ bpc = "ret" /\ samples' = [samples EXCEPT ![it + 1] = new]
        /\ new.mask = main_mask
    BY <1>6 DEF Measured, vars, mainVars, Sample
  <2> HIDE DEF new
  <2>2. ASSUME NEW j \in Iterations, j <= it + 1
        PROVE  j <= it \/ j = it + 1
    BY <2>2 DEF Iterations, E2EInv, CounterInv
  <2>3. \A j \in Iterations : samples'[j] = IF j = it + 1 THEN new ELSE samples[j]
    BY <2>1 DEF E2EInv, SampleInv
  <2>4. \A j \in Iterations : j <= it + 1 =>
          samples'[j].mask = main_mask \/ (j <= it /\ samples'[j] = samples[j])
    BY <2>1, <2>2, <2>3
  <2>5. \A j \in Iterations : j <= it + 1 => Follows(samples'[j], main_mask)
    BY <2>1, <2>4 DEF MaskInv, Follows, InTrack
  <2>6. \A k \in DOMAIN all_results : \A s \in all_results[k].from : s # Garbage =>
          \A j \in Iterations : j <= it + 1 => Follows(s, samples'[j].mask)
    BY <2>1, <2>4 DEF MaskInv, InTrack
  <2> QED
    BY <1>3, <2>1, <2>5, <2>6 DEF MaskInv
<1>7. CASE TrackDone
  <2>1. it' = 0 /\ main_mask' = main_mask /\ bpc = "track"
    BY <1>7 DEF TrackDone, NextTrack, vars, mainVars
  <2>2. \A j \in Iterations : ~(j <= 0) /\ j <= it
    BY <1>7 DEF TrackDone, Iterations, E2EInv, CounterInv
  <2>3. ASSUME NEW s \in Looked, s # Garbage
        PROVE  \E j \in Iterations : s = samples[j]
    BY <2>3 DEF Looked
  <2>4. CASE all_results' = all_results
    BY <1>1, <1>2, <1>3, <2>1, <2>2, <2>4 DEF MaskInv
  <2>5. CASE all_results' = Append(all_results, NewRow)
    <3>1. NewRow.from = Looked /\ NewRow \in Row
      BY <1>7, NewRowIsOwn DEF NewRow
    <3>2. /\ Len(all_results) \in Nat /\ DOMAIN all_results = 1..Len(all_results)
          /\ DOMAIN all_results' = 1..(Len(all_results) + 1)
      BY <2>5, <3>1 DEF E2EInv, RowInv
    <3>3. \A k \in DOMAIN all_results' :
            all_results'[k] = IF k \in DOMAIN all_results THEN all_results[k] ELSE NewRow
      BY <2>5, <3>1, <3>2 DEF E2EInv, RowInv
    <3>4. ASSUME NEW k \in DOMAIN all_results', NEW s \in all_results'[k].from, s # Garbage
          PROVE  Follows(s, main_mask)
      <4>1. CASE k \in DOMAIN all_results
        BY <3>3, <3>4, <4>1 DEF MaskInv
      <4>2. CASE k \notin DOMAIN all_results
        BY <2>1, <2>2, <2>3, <3>1, <3>3, <3>4, <4>2 DEF MaskInv, InTrack
      <4> QED
        BY <4>1, <4>2
    <3>5. ASSUME NEW k \in DOMAIN all_results', NEW l \in DOMAIN all_results', k < l,
                 NEW s \in all_results'[k].from, NEW t \in all_results'[l].from,
                 s # Garbage, t # Garbage
          PROVE  Follows(s, t.mask)
      <4>1. k \in DOMAIN all_results
        BY <3>2, <3>5
      <4>2. CASE l \in DOMAIN all_results
        BY <3>3, <3>5, <4>1, <4>2 DEF MaskInv
      <4>3. CASE l \notin DOMAIN all_results
        BY <2>1, <2>2, <2>3, <3>1, <3>3, <3>5, <4>1, <4>3 DEF MaskInv, InTrack
      <4> QED
        BY <4>2, <4>3
    <3> QED
      BY <1>1, <1>3, <2>1, <2>2, <3>4, <3>5 DEF MaskInv
  <2> QED
    BY <1>7, <2>4, <2>5 DEF TrackDone, NewRow
<1> QED
  BY <1>4, <1>5, <1>6, <1>7 DEF E2ENext, DriverStep

(***************************************************************************)
(* Where pinning works, the masks the tracks were measured under go from   *)
(* all processors to core 0 and never back, in the order of the rows.      *)
(***************************************************************************)
THEOREM MasksNarrow == E2ESpec => []MaskOnlyNarrows
<1>1. CASE PinningWorks
  <2>1. E2EInit => MaskInv
    BY DEF E2EInit, Init, MaskInv, InTrack
  <2>2. MaskInv => MaskOnlyNarrows
    BY DEF MaskInv, Follows, MaskOnlyNarrows
  <2>3. E2EInv /\ E2EInv' /\ MaskInv /\ [Next]_vars /\ [E2ENext]_allVars => MaskInv'
    BY <1>1, MasksFollow
  <2> QED
    BY <2>1, <2>2, <2>3, Driver, SuiteUsesPool, PTL DEF E2ESpec, Spec
<1>2. CASE ~PinningWorks
  <2>1. MaskOnlyNarrows
    BY <1>2 DEF PinningWorks, MaskOnlyNarrows
  <2> QED
    BY <2>1, PTL
<1> QED
  BY <1>1, <1>2

----------------------------------------------------------------------------
(* Tracks are uniform *)

Route == mode_local_route(BenchModes[mi], Hybrids[ci])

CallPcs == {"inline", "post_lock", "post", "derive", "join_lock", "join", "join_wait", "judge"}
Posting == {"post_lock", "post"}

\* The pool is up or coming up, and the program is not on its way out.
Up == /\ ~exiting /\ pc \in {"idle", "boot_warm"} \cup CallPcs
      /\ pc = "boot_warm" \/ g_client_worker_initialized

\* A handshake, on either route, before and after its shares are computed.
SeqCall == pc \in {"inline", "derive", "judge", "idle"} /\ ~pqc_dispatched
ParCall == /\ main_mask = "core0"
           /\ \/ pc \in Posting
              \/ pqc_dispatched /\ pc \in (CallPcs \ (Posting \cup {"inline"})) \cup {"idle"}

\* What the pool does by itself.
LEMMA PoolStays ==
  ASSUME PinningWorks, Up, MainStep \/ WorkerStep \/ JoinSpurious \/ WorkerSpurious \/ Gone
  PROVE  /\ Up'
         /\ SeqCall => SeqCall' /\ main_mask' = main_mask
         /\ ParCall => ParCall'
         /\ pc = "idle" => UNCHANGED <<pc, rc, pqc_dispatched, main_mask>>
         /\ pc = "boot_warm" => pc' \in {"boot_warm", "idle"} /\ main_mask' = main_mask
         /\ pc \in CallPcs => pc' # "boot_warm"
<1> USE DEF Up, SeqCall, ParCall, CallPcs, Posting, vars, mainVars, frame, process, poolVars
<1>1. CASE MainStep
  <2>1. CASE InitReturns
    BY <2>1 DEF InitReturns
  <2>2. CASE Inline \/ PostLock \/ Post
    BY <2>2 DEF Inline, PostLock, Post, MainLock
  <2>3. CASE Derive \/ JoinLock \/ Join \/ Judge
    BY <2>3 DEF Derive, JoinLock, Join, Judge, MainLock
  <2>4. ~(LazyInit \/ RunHandler \/ StopLock \/ Stop \/ StopJoin)
    BY DEF LazyInit, RunHandler, StopLock, Stop, StopJoin, MainLock
  <2> QED
    BY <1>1, <2>1, <2>2, <2>3, <2>4 DEF MainStep
<1>2. CASE WorkerStep
  BY <1>2 DEF WorkerStep, WorkerStart, CheckLock, WorkerCheck, Encaps, DoneLock,
              WorkerLock, WorkerDone
<1>3. CASE JoinSpurious \/ WorkerSpurious \/ Gone
  BY <1>3 DEF JoinSpurious, WorkerSpurious, Gone
<1> QED
  BY <1>1, <1>2, <1>3

Ran == IF Route = "PARALLEL" THEN "worker" ELSE "caller"

\* One mask and one thread for every sample of a row, and the right ones.
Uniform(r) ==
  \A s \in r.from \ {Garbage} :
    /\ BenchModes[r.mode] = "Strict_Parallel" => s.ran = "worker" /\ s.mask = "core0"
    /\ BenchModes[r.mode] = "Strict_Sequential" => s.ran = "caller"
    /\ \A t \in r.from \ {Garbage} : s.mask = t.mask /\ s.ran = t.ran

\* The handshake under way goes by the route of its track, or has failed.
CallInv ==
  \/ pc = "idle" /\ rc # 0
  \/ Route = "SEQUENTIAL" /\ SeqCall
  \/ Route = "PARALLEL" /\ ParCall

TrackInv ==
  \A j \in Iterations : j <= it =>
    /\ samples[j].mask = main_mask /\ samples[j].ran = Ran
    /\ Route = "PARALLEL" => main_mask = "core0"

UniformInv ==
  init_ok =>
    /\ bpc \notin {"boot", "init"}
    /\ bpc \in {"alloc", "suite"} \cup InTrack => Up
    /\ bpc \in {"alloc", "suite", "track"} => pc \in {"idle", "boot_warm"}
    /\ bpc \in {"suite"} \cup InTrack => pc # "boot_warm"
    /\ bpc = "ret" => CallInv
    /\ bpc \in InTrack => TrackInv
    /\ \A k \in DOMAIN all_results : Uniform(all_results[k])

\* A mode's route.
LEMMA RouteOfMode ==
  /\ Route \in {"SEQUENTIAL", "PARALLEL"} => Ran \in {"worker", "caller"}
  /\ BenchModes[mi] = "Strict_Parallel" => Route = "PARALLEL"
  /\ BenchModes[mi] = "Strict_Sequential" => Route = "SEQUENTIAL"
BY DEF Route, Ran, mode_local_route

\* The pool moves under a driver that stands still.
LEMMA UniformPool ==
  ASSUME PinningWorks, UniformInv, MaskInv, PoolStep PROVE UniformInv'
<1> SUFFICES ASSUME init_ok PROVE UniformInv'
  BY DEF PoolStep, UniformInv, e2eVars, setup
<1> USE DEF UniformInv, InTrack
<1>1. UNCHANGED e2eVars /\ Route' = Route /\ Ran' = Ran /\ Iterations' = Iterations
  BY DEF PoolStep, e2eVars, setup, counters, Route, Ran, mode_local_route, Iterations
<1>2. CASE bpc \in {"alloc", "suite"} \cup InTrack
  <2>1. Up
    BY <1>2
  <2>2. /\ Up'
        /\ SeqCall => SeqCall' /\ main_mask' = main_mask
        /\ ParCall => ParCall'
        /\ pc = "idle" => UNCHANGED <<pc, rc, pqc_dispatched, main_mask>>
        /\ pc = "boot_warm" => pc' \in {"boot_warm", "idle"} /\ main_mask' = main_mask
        /\ pc \in CallPcs => pc' # "boot_warm"
    BY <2>1, PoolStays DEF PoolStep
  <2>3. bpc = "ret" => CallInv' /\ (TrackInv => TrackInv')
    <3> SUFFICES ASSUME bpc = "ret" PROVE CallInv' /\ (TrackInv => TrackInv')
      OBVIOUS
    <3>1. CASE pc = "idle" /\ rc # 0
      BY <1>1, <2>2, <3>1 DEF CallInv, TrackInv, e2eVars, counters
    <3>2. CASE Route = "SEQUENTIAL" /\ SeqCall
      BY <1>1, <2>2, <3>2 DEF CallInv, TrackInv, e2eVars, counters
    <3>3. CASE Route = "PARALLEL" /\ ParCall
      <4>1. main_mask = "core0" /\ main_mask' = "core0"
        BY <2>2, <3>3 DEF ParCall
      <4> QED
        BY <1>1, <2>2, <3>3, <4>1 DEF CallInv, TrackInv, e2eVars, counters
    <3> QED
      BY <3>1, <3>2, <3>3 DEF CallInv
  <2>4. bpc = "track" => TrackInv'
    BY <1>1, <2>2 DEF TrackInv, e2eVars, counters
  <2>5. pc \in {"idle", "boot_warm"} \cup CallPcs
    BY <2>1 DEF Up
  <2>6. UNCHANGED <<bpc, init_ok, all_results>>
    BY <1>1 DEF e2eVars, setup
  <2>7. bpc \in {"alloc", "suite", "track"} => pc' \in {"idle", "boot_warm"}
    BY <2>2
  <2>8. bpc \in {"suite"} \cup InTrack => pc' # "boot_warm"
    BY <2>2, <2>5
  <2>9. \A k \in DOMAIN all_results' : Uniform(all_results'[k])
    BY <2>6
  <2> QED
    BY <2>2, <2>3, <2>4, <2>6, <2>7, <2>8, <2>9
<1>3. CASE bpc \notin {"alloc", "suite"} \cup InTrack
  BY <1>1, <1>3 DEF e2eVars, setup
<1> QED
  BY <1>2, <1>3

\* The driver's own steps, except those that take or export samples.
LEMMA UniformDriver ==
  ASSUME PinningWorks, E2EInv, UniformInv,
         \/ Boot \/ StartPool \/ Allocate \/ NextSuite \/ Handshake \/ TrackFailed
         \/ StopPool \/ Return
  PROVE  UniformInv'
<1> SUFFICES ASSUME init_ok' PROVE UniformInv'
  BY DEF UniformInv
<1> USE DEF setup, counters
<1>1. all_results' = all_results /\ samples' = samples /\ Iterations' = Iterations
  BY DEF Boot, StartPool, Allocate, NextSuite, Handshake, TrackFailed, StopPool, Return,
         Iterations
<1>2. \A j \in Iterations : ~(j <= 0)
  BY DEF Iterations, E2EInv, CounterInv
<1>3. CASE Boot
  BY <1>3 DEF Boot, UniformInv
<1>4. CASE StartPool
  <2>1. bpc = "init" /\ bpc' = "alloc" /\ pc' = "boot_warm"
    BY <1>4 DEF StartPool
  <2>2. ~exiting'
    BY <1>4 DEF StartPool, client_worker_init, CreateWorker, CreateWorkerFails, process
  <2>3. \A k \in DOMAIN all_results : Uniform(all_results[k])
    <3>1. ASSUME NEW k \in DOMAIN all_results PROVE FALSE
      <4>1. all_results[k].suite <= ci /\ ci = 0 /\ all_results \in Seq(Row)
        BY <2>1 DEF E2EInv, RowInv, CounterInv
      <4>2. all_results[k] \in Row
        BY <4>1
      <4>3. all_results[k].suite \in 1..Len(Hybrids)
        BY <4>2 DEF Row
      <4> QED
        BY <4>1, <4>3, E2EAssumptions
    <3> QED
      BY <3>1
  <2> QED
    BY <1>1, <2>1, <2>2, <2>3 DEF UniformInv, Up, InTrack
<1>5. CASE Allocate
  <2>1. /\ bpc = "alloc" /\ pc = "idle" /\ bpc' \in {"suite", "exit"}
        /\ UNCHANGED <<vars, init_ok>>
    BY <1>5 DEF Allocate
  <2> QED
    BY <1>1, <2>1 DEF UniformInv, Up, InTrack, vars, mainVars, frame, process, poolVars
<1>6. CASE NextSuite \/ TrackFailed
  <2>1. /\ it' = 0 /\ bpc' \in {"track", "suite"} /\ pc = "idle"
        /\ bpc \in {"suite", "ret"} /\ UNCHANGED <<vars, init_ok>>
    BY <1>6 DEF NextSuite, TrackFailed, NextTrack
  <2>2. TrackInv'
    BY <1>1, <1>2, <2>1 DEF TrackInv
  <2> QED
    BY <1>1, <2>1, <2>2
       DEF UniformInv, Up, InTrack, vars, mainVars, frame, process, poolVars
<1>7. CASE Handshake
  <2>1. /\ bpc = "track" /\ bpc' = "ret" /\ init_ok /\ Route' = Route /\ Ran' = Ran
        /\ it' = it /\ pc = "idle"
    BY <1>7 DEF Handshake, Route, Ran, mode_local_route, FailsBeforeShares, ComputeShares
  <2>2. Up /\ TrackInv
    BY <2>1 DEF UniformInv, InTrack
  <2>3. CASE FailsBeforeShares
    <3>1. pc' = "idle" /\ rc' # 0 /\ main_mask' = main_mask
          /\ exiting' = exiting /\ g_client_worker_initialized' = g_client_worker_initialized
      BY <2>3 DEF FailsBeforeShares, process, poolVars
    <3>2. CallInv' /\ TrackInv' /\ Up'
      BY <1>1, <2>1, <2>2, <3>1 DEF CallInv, TrackInv, Up
    <3> QED
      BY <1>1, <2>1, <3>1, <3>2 DEF UniformInv, InTrack
  <2>4. CASE ComputeShares(Route)
    <3>1. /\ ~pqc_dispatched' /\ exiting' = exiting
          /\ g_client_worker_initialized' = g_client_worker_initialized
      BY <2>4 DEF ComputeShares, process, poolVars
    <3>2. CASE Route = "SEQUENTIAL" /\ pc' = "inline" /\ main_mask' = main_mask
      <4>1. CallInv' /\ TrackInv' /\ Up'
        BY <1>1, <2>1, <2>2, <3>1, <3>2
           DEF CallInv, SeqCall, TrackInv, Up, CallPcs
      <4> QED
        BY <1>1, <2>1, <3>2, <4>1 DEF UniformInv, InTrack
    <3>3. CASE /\ Route = "PARALLEL" /\ pc' = "post_lock"
               /\ main_mask' \in Pinned(main_mask, "core0")
      <4>1. main_mask' = "core0"
        BY <3>3 DEF Pinned, PinningWorks
      <4>2. CallInv' /\ TrackInv' /\ Up'
        BY <1>1, <2>1, <2>2, <3>1, <3>3, <4>1
           DEF CallInv, ParCall, TrackInv, Up, CallPcs, Posting
      <4> QED
        BY <1>1, <2>1, <3>3, <4>2 DEF UniformInv, InTrack
    <3>4. g_client_worker_initialized
      BY <2>1, <2>2 DEF Up
    <3> QED
      BY <2>4, <3>2, <3>3, <3>4 DEF ComputeShares
  <2> QED
    BY <1>7, <2>3, <2>4 DEF Handshake, Route
<1>8. CASE StopPool \/ Return
  <2>1. bpc' \in {"exit", "done"} /\ init_ok' = init_ok
    BY <1>8 DEF StopPool, Return
  <2> QED
    BY <1>1, <2>1 DEF UniformInv, InTrack
<1> QED
  BY <1>3, <1>4, <1>5, <1>6, <1>7, <1>8

LEMMA UniformMeasured ==
  ASSUME PinningWorks, E2EInv, UniformInv, Measured PROVE UniformInv'
<1> SUFFICES ASSUME init_ok' PROVE UniformInv'
  BY DEF UniformInv
<1> DEFINE new == Sample(ci, mi, it + 1)
<1>1. /\ bpc = "ret" /\ bpc' = "track" /\ pc = "idle" /\ rc = 0 /\ it' = it + 1
      /\ samples' = [samples EXCEPT ![it + 1] = new]
      /\ UNCHANGED <<vars, setup, ci, mi, all_results>>
  BY DEF Measured
<1>2. init_ok /\ Up /\ CallInv /\ TrackInv
  BY <1>1 DEF UniformInv, setup, InTrack
<1>3. new.mask = main_mask /\ new.ran = Ran /\ (Route = "PARALLEL" => main_mask = "core0")
  BY <1>1, <1>2 DEF Sample, CallInv, SeqCall, ParCall, Ran, Posting
<1>4. Route' = Route /\ Ran' = Ran /\ Iterations' = Iterations
  BY <1>1 DEF Route, Ran, mode_local_route, setup, Iterations
<1> HIDE DEF new
<1>5. \A j \in Iterations : samples'[j] = IF j = it + 1 THEN new ELSE samples[j]
  BY <1>1 DEF E2EInv, SampleInv
<1>6. \A j \in Iterations : j <= it + 1 => j <= it \/ j = it + 1
  BY DEF Iterations, E2EInv, CounterInv
<1>7. TrackInv'
  BY <1>1, <1>2, <1>3, <1>4, <1>5, <1>6 DEF TrackInv, vars, mainVars
<1> QED
  BY <1>1, <1>2, <1>7
     DEF UniformInv, Up, InTrack, vars, mainVars, frame, process, poolVars, setup

\* The row of a completed track.
LEMMA UniformDone ==
  ASSUME PinningWorks, E2EInv, E2EInv', UniformInv, TrackDone PROVE UniformInv'
<1> SUFFICES ASSUME init_ok' PROVE UniformInv'
  BY DEF UniformInv
<1>1. /\ bpc = "track" /\ bpc' \in {"track", "suite"} /\ it' = 0 /\ pc = "idle"
      /\ UNCHANGED <<vars, setup, ci>>
  BY DEF TrackDone, NextTrack
<1>2. init_ok /\ Up /\ TrackInv /\ Iterations' = Iterations
  BY <1>1 DEF UniformInv, setup, InTrack, Iterations
<1>3. \A j \in Iterations : ~(j <= 0) /\ j <= it
  BY DEF TrackDone, Iterations, E2EInv, CounterInv
<1>4. TrackInv'
  BY <1>1, <1>2, <1>3 DEF TrackInv
<1>5. \A k \in DOMAIN all_results' : Uniform(all_results'[k])
  <2>1. CASE all_results' = all_results
    BY <1>2, <2>1 DEF UniformInv
  <2>2. CASE all_results' = Append(all_results, NewRow)
    <3>1. NewRow.from = Looked /\ NewRow.mode = mi /\ NewRow \in Row
      BY NewRowIsOwn DEF NewRow
    <3>2. ASSUME NEW s \in Looked, s # Garbage
          PROVE  /\ s.mask = main_mask /\ s.ran = Ran
                 /\ Route = "PARALLEL" => main_mask = "core0"
      BY <1>2, <1>3, <3>2 DEF Looked, TrackInv
    <3>3. Uniform(NewRow)
      BY <3>1, <3>2, RouteOfMode DEF Uniform, Ran
    <3>4. \A k \in DOMAIN all_results' :
            all_results'[k] = IF k \in DOMAIN all_results THEN all_results[k] ELSE NewRow
      BY <2>2, <3>1 DEF E2EInv, RowInv
    <3> QED
      BY <1>2, <3>3, <3>4 DEF UniformInv
  <2> QED
    BY <2>1, <2>2 DEF TrackDone, NewRow
<1> QED
  BY <1>1, <1>2, <1>4, <1>5
     DEF UniformInv, Up, InTrack, vars, mainVars, frame, process, poolVars, setup

LEMMA UniformStep ==
  ASSUME PinningWorks, E2EInv, E2EInv', MaskInv, UniformInv, [E2ENext]_allVars
  PROVE  UniformInv'
<1>1. CASE UNCHANGED allVars
  BY <1>1 DEF allVars, e2eVars, setup, counters, vars, mainVars, frame, process, poolVars,
              UniformInv, Up, CallInv, SeqCall, ParCall, TrackInv, Route, Ran,
              mode_local_route, Iterations
<1> QED
  BY <1>1, UniformPool, UniformDriver, UniformMeasured, UniformDone
     DEF E2ENext, DriverStep

(***************************************************************************)
(* With a pool that came up and pinning that works, strict parallel tracks *)
(* encapsulate on the worker throughout, sequential ones never, and all    *)
(* samples of a track were taken under one mask.                           *)
(***************************************************************************)
THEOREM TracksUniform == E2ESpec => []TracksAreUniform
<1>1. CASE PinningWorks
  <2>1. E2EInit => UniformInv /\ MaskInv
    BY DEF E2EInit, Init, UniformInv, MaskInv, InTrack
  <2>2. UniformInv => TracksAreUniform
    BY DEF UniformInv, Uniform, TracksAreUniform
  <2>3. /\ E2EInv /\ E2EInv' /\ MaskInv /\ [Next]_vars /\ [E2ENext]_allVars => MaskInv'
        /\ E2EInv /\ E2EInv' /\ MaskInv /\ UniformInv /\ [E2ENext]_allVars => UniformInv'
    BY <1>1, MasksFollow, UniformStep
  <2> QED
    BY <2>1, <2>2, <2>3, Driver, SuiteUsesPool, PTL DEF E2ESpec, Spec
<1>2. CASE ~PinningWorks
  <2>1. TracksAreUniform
    BY <1>2 DEF PinningWorks, TracksAreUniform
  <2> QED
    BY <2>1, PTL
<1> QED
  BY <1>1, <1>2
=============================================================================
