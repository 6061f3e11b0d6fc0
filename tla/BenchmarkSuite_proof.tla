------------------------ MODULE BenchmarkSuite_proof ------------------------
(***************************************************************************)
(* Proofs about EnginePool, for every value of its constants: the          *)
(* inductive invariant, the safety properties that follow from it, and     *)
(* the refinement of KeyExchange.  The invariant is proved in three parts, *)
(* types, control and data; a step's data part needs its control part.     *)
(* Then about BenchmarkSuite: the benchmark uses the engine as the engine  *)
(* expects, so everything proved of the engine holds inside it; and what   *)
(* it exports is what it says, for every table, iteration count and        *)
(* pattern of failures.                                                    *)
(***************************************************************************)
EXTENDS BenchmarkSuite, TLAPS

----------------------------------------------------------------------------
(* The engine *)

\* The part of IInv about flags, program counters and the mutex.

ControlInv == MutexInv /\ LifeInv /\ JobInv /\ TidInv /\ NoLostWakeup

\* Every step preserves the control invariant: who holds the mutex, when the
\* worker lives, from where to where a job is pending.
LEMMA ControlStep ==
  ASSUME TypeOK, ControlInv, [Next]_vars PROVE ControlInv'
<1> USE DEF TypeOK, ControlInv, MutexInv, LifeInv, JobInv, TidInv, NoLostWakeup,
            CallPcs, SeqPcs, ParPcs, WaitPcs, LifePcs, WorkerPcs, KemPcs, DonePcs,
            vars, mainVars, workerVars, request, outcome, flags, poolVars
<1>1. ASSUME NEW c \in Combos, NEW r \in Roles, execute_sequential(c, r) PROVE ControlInv'
  BY <1>1 DEF execute_sequential, Request, SequentialEntry
<1>2. ASSUME NEW c \in Combos, NEW r \in Roles, execute_parallel_optimized(c, r) PROVE ControlInv'
  BY <1>2 DEF execute_parallel_optimized, Request, SequentialEntry
<1>3. CASE ParallelRefused
  BY <1>3 DEF ParallelRefused
<1>4. CASE verify_affinity
  BY <1>4 DEF verify_affinity
<1>5. CASE engine_init
  BY <1>5 DEF engine_init, ZeroPool
<1>6. CASE EngineInitFails
  BY <1>6 DEF EngineInitFails, ZeroPool
<1>7. CASE engine_shutdown
  BY <1>7 DEF engine_shutdown
<1>8. CASE SeqEcdh
  BY <1>8 DEF SeqEcdh
<1>9. CASE SeqKem
  BY <1>9 DEF SeqKem
<1>10. CASE SeqReturn
  BY <1>10 DEF SeqReturn
<1>11. CASE PostLock
  BY <1>11 DEF PostLock, MainLock
<1>12. CASE Post
  BY <1>12 DEF Post, SignalWake
<1>13. CASE Ecdh
  BY <1>13 DEF Ecdh
<1>14. CASE JoinLock
  BY <1>14 DEF JoinLock, MainLock
<1>15. CASE Join
  BY <1>15 DEF Join
<1>16. CASE Collect
  BY <1>16 DEF Collect
<1>17. CASE EngineInitReturns
  BY <1>17 DEF EngineInitReturns
<1>18. CASE StopLock
  BY <1>18 DEF StopLock, MainLock
<1>19. CASE Stop
  BY <1>19 DEF Stop, SignalWake
<1>20. CASE StopJoin
  BY <1>20 DEF StopJoin
<1>21. CASE WorkerStart
  BY <1>21 DEF WorkerStart
<1>22. CASE CheckLock
  BY <1>22 DEF CheckLock, WorkerLock
<1>23. CASE WorkerCheck
  BY <1>23 DEF WorkerCheck
<1>24. CASE WorkerAwake
  BY <1>24 DEF WorkerAwake
<1>25. CASE KemReset
  BY <1>25 DEF KemReset
<1>26. CASE KemRun
  BY <1>26 DEF KemRun
<1>27. CASE DoneLock
  BY <1>27 DEF DoneLock, WorkerLock
<1>28. CASE WorkerDone
  BY <1>28 DEF WorkerDone
<1>29. CASE JoinSpurious
  BY <1>29 DEF JoinSpurious
<1>30. CASE WorkerSpurious
  BY <1>30 DEF WorkerSpurious
<1>31. CASE UNCHANGED vars
  BY <1>31
<1> QED
  BY <1>1, <1>2, <1>3, <1>4, <1>5, <1>6, <1>7, <1>8, <1>9, <1>10, <1>11, <1>12,
       <1>13, <1>14, <1>15, <1>16, <1>17, <1>18, <1>19, <1>20, <1>21, <1>22,
       <1>23, <1>24, <1>25, <1>26, <1>27, <1>28, <1>29, <1>30, <1>31 DEF Next,
       Calls, MainStep, WorkerStep

\* The abstract secrets are well typed.
LEMMA SecretTypes ==
  /\ \A c \in AlgoCombo, n \in Nat : EcdhOf(c, n) \in EcdhSecret
  /\ \A c \in AlgoCombo, r \in Roles, n \in Nat : KemOf(c, r, n) \in KemJob
  /\ NoKem \in KemJob /\ NoEcdh \in EcdhSecret
  BY DEF EcdhOf, KemOf, EcdhSecret, KemJob, NoKem, NoEcdh, ZeroResult,
       SharedCryptoResult,
         AlgoCombo, Curves, PqcAlgs, Roles

\* A zeroed result buffer is well typed.
LEMMA ZeroTypes == ZeroResult \in SharedCryptoResult
  BY SecretTypes DEF ZeroResult, SharedCryptoResult

\* Writing a share into a result buffer keeps it well typed.
LEMMA ResultTypes ==
  ASSUME NEW res \in SharedCryptoResult
  PROVE  /\ \A s \in EcdhSecret :
              [res EXCEPT !.ecdh_ok = TRUE, !.ecdh_secret = s] \in SharedCryptoResult
         /\ \A s \in KemJob, b \in BOOLEAN :
              [res EXCEPT !.kem_ok = b, !.kem_secret = s] \in SharedCryptoResult
         /\ res.kem_ok \in BOOLEAN /\ res.ecdh_ok \in BOOLEAN
         /\ res.kem_secret \in KemJob
  BY DEF SharedCryptoResult


\* Every step of the engine preserves the types.
LEMMA TypeStep ==
  ASSUME TypeOK, [Next]_vars
  PROVE  TypeOK'
<1> USE DEF TypeOK, CallPcs, SeqPcs, ParPcs, WaitPcs, LifePcs, WorkerPcs,
            KemPcs,
     DonePcs, vars, mainVars, workerVars, request, outcome, flags, poolVars,
     Pinned, Masks, KemLen
<1>1. ASSUME NEW c \in Combos, NEW r \in Roles, execute_sequential(c, r)
      PROVE  TypeOK'
  BY <1>1, EngineAssumption, ZeroTypes DEF execute_sequential, Request,
       SequentialEntry
<1>2. ASSUME NEW c \in Combos, NEW r \in Roles, execute_parallel_optimized(c, r)
      PROVE  TypeOK'
  BY <1>2, EngineAssumption, ZeroTypes DEF execute_parallel_optimized, Request,
       SequentialEntry
<1>3. CASE ParallelRefused
  BY <1>3 DEF ParallelRefused
<1>4. CASE verify_affinity
  BY <1>4 DEF verify_affinity
<1>5. CASE engine_init
  <2>1. NoKem \in KemJob
    BY SecretTypes
  <2> QED
    BY <1>5, <2>1 DEF engine_init, ZeroPool
<1>6. CASE EngineInitFails
  <2>1. NoKem \in KemJob
    BY SecretTypes
  <2>2. /\ pc' \in {"idle"} \cup CallPcs \cup LifePcs
        /\ combo' \in AlgoCombo /\ role' \in Roles /\ call' \in Nat
        /\ result' \in SharedCryptoResult /\ rc' \in {0, -1}
        /\ main_mask' \in Masks /\ probe' \in {"none", "unset", "worker"}
    BY <1>6 DEF EngineInitFails
  <2>3. /\ wpc' \in WorkerPcs /\ worker_mask' \in Masks
        /\ mutex' \in {"free", "main", "worker"}
        /\ g_engine_initialized' \in BOOLEAN
    BY <1>6 DEF EngineInitFails
  <2>4. /\ job' \in KemJob /\ kem_secret' \in KemJob
        /\ kem_len' \in {0, KemLen} /\ kem_ok' \in BOOLEAN
        /\ has_work' \in BOOLEAN /\ work_done' \in BOOLEAN
        /\ shutdown' \in BOOLEAN /\ worker_tid' \in BOOLEAN
    BY <1>6, <2>1 DEF EngineInitFails, ZeroPool
  <2> QED
    BY <2>2, <2>3, <2>4
<1>7. CASE engine_shutdown
  BY <1>7 DEF engine_shutdown
<1>8. CASE SeqEcdh
  <2>1. [result EXCEPT !.ecdh_ok = TRUE, !.ecdh_secret = EcdhOf(combo, call)] \in SharedCryptoResult
    BY SecretTypes, ResultTypes
  <2> QED
    BY <1>8, <2>1 DEF SeqEcdh
<1>9. CASE SeqKem
  <2>1. [result EXCEPT !.kem_ok = TRUE, !.kem_secret = KemOf(combo, role, call)] \in SharedCryptoResult
    BY SecretTypes, ResultTypes
  <2> QED
    BY <1>9, <2>1 DEF SeqKem
<1>10. CASE SeqReturn
  BY <1>10 DEF SeqReturn
<1>11. CASE PostLock
  BY <1>11 DEF PostLock, MainLock
<1>12. CASE Post
  <2>1. KemOf(combo, role, call) \in KemJob
    BY SecretTypes
  <2> QED
    BY <1>12, <2>1 DEF Post, SignalWake
<1>13. CASE Ecdh
  <2>1. [result EXCEPT !.ecdh_ok = TRUE, !.ecdh_secret = EcdhOf(combo, call)] \in SharedCryptoResult
    BY SecretTypes, ResultTypes
  <2> QED
    BY <1>13, <2>1 DEF Ecdh
<1>14. CASE JoinLock
  BY <1>14 DEF JoinLock, MainLock
<1>15. CASE Join
  BY <1>15 DEF Join
<1>16. CASE Collect
  <2>1. result.kem_secret \in KemJob
    BY ResultTypes
  <2>2. (IF kem_len = 0 THEN result.kem_secret ELSE kem_secret) \in KemJob
    BY <2>1
  <2>3. [result EXCEPT !.kem_ok = kem_ok,
           !.kem_secret = IF kem_len = 0 THEN result.kem_secret ELSE kem_secret]
          \in SharedCryptoResult
    BY <2>2, ResultTypes
  <2>4. result' \in SharedCryptoResult
    BY <1>16, <2>3 DEF Collect
  <2> QED
    BY <1>16, <2>4 DEF Collect
<1>17. CASE EngineInitReturns
  BY <1>17 DEF EngineInitReturns
<1>18. CASE StopLock
  BY <1>18 DEF StopLock, MainLock
<1>19. CASE Stop
  BY <1>19 DEF Stop, SignalWake
<1>20. CASE StopJoin
  <2>1. pc' \in {"idle"} /\ wpc' \in WorkerPcs /\ g_engine_initialized' \in BOOLEAN
    BY <1>20 DEF StopJoin
  <2>2. UNCHANGED <<request, result, rc, main_mask, probe, worker_mask, mutex,
                    poolVars>>
    BY <1>20 DEF StopJoin
  <2> QED
    BY <2>1, <2>2
<1>21. CASE WorkerStart
  BY <1>21 DEF WorkerStart
<1>22. CASE CheckLock
  BY <1>22 DEF CheckLock, WorkerLock
<1>23. CASE WorkerCheck
  BY <1>23 DEF WorkerCheck
<1>24. CASE WorkerAwake
  BY <1>24 DEF WorkerAwake
<1>25. CASE KemReset
  <2>1. wpc' \in WorkerPcs /\ kem_ok' \in BOOLEAN /\ kem_len' \in {0, KemLen}
    BY <1>25 DEF KemReset
  <2>2. UNCHANGED <<mainVars, worker_mask, mutex, g_engine_initialized, job,
                    kem_secret, flags, worker_tid>>
    BY <1>25 DEF KemReset
  <2> QED
    BY <2>1, <2>2
<1>26. CASE KemRun
  <2>1. wpc' \in WorkerPcs /\ kem_secret' \in KemJob /\ kem_len' \in {0, KemLen} /\ kem_ok' \in BOOLEAN
    BY <1>26 DEF KemRun
  <2>2. UNCHANGED <<mainVars, worker_mask, mutex, g_engine_initialized, job,
                    flags, worker_tid>>
    BY <1>26 DEF KemRun
  <2> QED
    BY <2>1, <2>2
<1>27. CASE DoneLock
  BY <1>27 DEF DoneLock, WorkerLock
<1>28. CASE WorkerDone
  <2>1. /\ pc' \in {"idle"} \cup CallPcs \cup LifePcs
        /\ combo' \in AlgoCombo /\ role' \in Roles /\ call' \in Nat
        /\ result' \in SharedCryptoResult /\ rc' \in {0, -1}
        /\ main_mask' \in Masks /\ probe' \in {"none", "unset", "worker"}
    BY <1>28 DEF WorkerDone
  <2>2. /\ wpc' \in WorkerPcs /\ worker_mask' \in Masks
        /\ mutex' \in {"free", "main", "worker"}
        /\ g_engine_initialized' \in BOOLEAN
    BY <1>28 DEF WorkerDone
  <2>3. /\ job' \in KemJob /\ kem_secret' \in KemJob
        /\ kem_len' \in {0, KemLen} /\ kem_ok' \in BOOLEAN
        /\ has_work' \in BOOLEAN /\ work_done' \in BOOLEAN
        /\ shutdown' \in BOOLEAN /\ worker_tid' \in BOOLEAN
    BY <1>28 DEF WorkerDone
  <2> QED
    BY <2>1, <2>2, <2>3
<1>29. CASE JoinSpurious
  BY <1>29 DEF JoinSpurious
<1>30. CASE WorkerSpurious
  BY <1>30 DEF WorkerSpurious
<1>31. CASE UNCHANGED vars
  BY <1>31
<1> QED
  BY <1>1, <1>2, <1>3, <1>4, <1>5, <1>6, <1>7, <1>8, <1>9, <1>10, <1>11, <1>12,
       <1>13, <1>14, <1>15, <1>16, <1>17, <1>18, <1>19, <1>20, <1>21, <1>22,
       <1>23, <1>24, <1>25, <1>26, <1>27, <1>28, <1>29, <1>30, <1>31 DEF Next,
       Calls, MainStep, WorkerStep

\* Every step preserves what is known of the secrets: whose job they belong
\* to and which length hides them.
LEMMA DataStep ==
  ASSUME TypeOK, ControlInv, SecretInv, ReplyInv, [Next]_vars
  PROVE  (SecretInv /\ ReplyInv)'
<1> USE DEF TypeOK, ControlInv, MutexInv, LifeInv, JobInv, SecretInv, ReplyInv,
     Flying, CallPcs, SeqPcs, ParPcs, WaitPcs, LifePcs, WorkerPcs, KemPcs,
     DonePcs, vars, mainVars, workerVars, request, outcome, flags, poolVars,
     KemLen, SharedCryptoResult, ZeroResult, AlgoCombo, ClassicalOnly,
     QuantumOnly, Consistent
<1>1. ASSUME NEW c \in Combos, NEW r \in Roles, execute_sequential(c, r)
      PROVE  (SecretInv /\ ReplyInv)'
  BY <1>1, EngineAssumption DEF execute_sequential, Request, SequentialEntry
<1>2. ASSUME NEW c \in Combos, NEW r \in Roles, execute_parallel_optimized(c, r)
      PROVE  (SecretInv /\ ReplyInv)'
  BY <1>2, EngineAssumption
  DEF execute_parallel_optimized, Request, SequentialEntry
<1>3. CASE ParallelRefused
  BY <1>3 DEF ParallelRefused
<1>4. CASE verify_affinity
  BY <1>4 DEF verify_affinity
<1>5. CASE engine_init
  BY <1>5 DEF engine_init, ZeroPool
<1>6. CASE EngineInitFails
  BY <1>6 DEF EngineInitFails, ZeroPool
<1>7. CASE engine_shutdown
  BY <1>7 DEF engine_shutdown
<1>8. CASE SeqEcdh
  BY <1>8 DEF SeqEcdh
<1>9. CASE SeqKem
  BY <1>9 DEF SeqKem
<1>10. CASE SeqReturn
  BY <1>10 DEF SeqReturn
<1>11. CASE PostLock
  BY <1>11 DEF PostLock, MainLock
<1>12. CASE Post
  BY <1>12 DEF Post, SignalWake
<1>13. CASE Ecdh
  BY <1>13 DEF Ecdh
<1>14. CASE JoinLock
  BY <1>14 DEF JoinLock, MainLock
<1>15. CASE Join
  BY <1>15 DEF Join
<1>16. CASE Collect
  BY <1>16 DEF Collect
<1>17. CASE EngineInitReturns
  BY <1>17 DEF EngineInitReturns
<1>18. CASE StopLock
  BY <1>18 DEF StopLock, MainLock
<1>19. CASE Stop
  BY <1>19 DEF Stop, SignalWake
<1>20. CASE StopJoin
  BY <1>20 DEF StopJoin
<1>21. CASE WorkerStart
  BY <1>21 DEF WorkerStart
<1>22. CASE CheckLock
  BY <1>22 DEF CheckLock, WorkerLock
<1>23. CASE WorkerCheck
  BY <1>23 DEF WorkerCheck
<1>24. CASE WorkerAwake
  BY <1>24 DEF WorkerAwake
<1>25. CASE KemReset
  BY <1>25 DEF KemReset
<1>26. CASE KemRun
  BY <1>26 DEF KemRun
<1>27. CASE DoneLock
  BY <1>27 DEF DoneLock, WorkerLock
<1>28. CASE WorkerDone
  BY <1>28 DEF WorkerDone
<1>29. CASE JoinSpurious
  BY <1>29 DEF JoinSpurious
<1>30. CASE WorkerSpurious
  BY <1>30 DEF WorkerSpurious
<1>31. CASE UNCHANGED vars
  BY <1>31
<1> QED
  BY <1>1, <1>2, <1>3, <1>4, <1>5, <1>6, <1>7, <1>8, <1>9, <1>10, <1>11, <1>12,
       <1>13, <1>14, <1>15, <1>16, <1>17, <1>18, <1>19, <1>20, <1>21, <1>22,
       <1>23, <1>24, <1>25, <1>26, <1>27, <1>28, <1>29, <1>30, <1>31 DEF Next,
       Calls, MainStep, WorkerStep


\* The inductive invariant holds in every reachable state, for any set of
\* suites, any number of calls and of cores, pinning failing or not.
THEOREM Invariance == Spec => []IInv
<1>1. Init => IInv
  <2> USE DEF Init, CallPcs, SeqPcs, ParPcs, WaitPcs, LifePcs, WorkerPcs,
              KemPcs,
       DonePcs
  <2>1. Init => TypeOK
    <3>1. Combo(0, "HYBRID", "X25519", "MLKEM_768") \in AlgoCombo
      BY DEF Combo, AlgoCombo, Profiles, Curves, PqcAlgs
    <3>2. NoKem \in KemJob
      BY SecretTypes
    <3>3. Init => /\ combo \in AlgoCombo /\ role \in Roles /\ call \in Nat
                  /\ result \in SharedCryptoResult /\ job \in KemJob /\ kem_secret \in KemJob
      BY <3>1, <3>2, ZeroTypes DEF Roles
    <3> QED
      BY <3>3 DEF TypeOK, Masks
  <2>2. Init => MutexInv /\ LifeInv /\ JobInv /\ TidInv /\ NoLostWakeup
    BY DEF MutexInv, LifeInv, JobInv, TidInv, NoLostWakeup
  <2>3. Init => SecretInv /\ ReplyInv
    BY DEF SecretInv, ReplyInv, Flying, ZeroResult, KemLen, Combo, Consistent
  <2> QED
    BY <2>1, <2>2, <2>3 DEF IInv
<1>2. IInv /\ [Next]_vars => IInv'
  BY TypeStep, ControlStep, DataStep DEF IInv, ControlInv
<1> QED
  BY <1>1, <1>2, PTL DEF Spec

\* Type correctness of the engine.
THEOREM TypeCorrect == Spec => []TypeOK
<1>1. IInv => TypeOK
  BY DEF IInv
<1> QED
  BY <1>1, Invariance, PTL

\* A call of execute_sequential or execute_parallel_optimized that returned 0
\* holds the shares its own request asked for, and no reply ever carries a
\* secret of an earlier call.
THEOREM FreshReplies == Spec => []ReplyIsFresh
<1>1. IInv => ReplyIsFresh
  BY DEF IInv, ReplyIsFresh, SecretInv, ReplyInv, CallPcs, SeqPcs, ParPcs,
         WaitPcs
<1> QED
  BY <1>1, Invariance, PTL

\* The worker's writes of kem_shared_secret, its length and kem_ok never
\* overlap the main thread's accesses to them outside its computation or
\* wait.
THEOREM RaceFree == Spec => []NoOutcomeRace
<1>1. IInv => NoOutcomeRace
  BY DEF IInv, NoOutcomeRace, JobInv
<1> QED
  BY <1>1, Invariance, PTL

\* Neither thread sleeps on its condition variable while what it waits for
\* already holds.
THEOREM WakeupsNotLost == Spec => []NoLostWakeup
<1>1. IInv => NoLostWakeup
  BY DEF IInv
<1> QED
  BY <1>1, Invariance, PTL

\* engine_init never re-zeroes the pool under a live worker, and a worker
\* that ran a job has recorded its thread id.
THEOREM LifeCycle == Spec => [](NoOrphanWorker /\ RanWorkerIsKnown)
<1>1. IInv => NoOrphanWorker /\ RanWorkerIsKnown
  BY DEF IInv, NoOrphanWorker, RanWorkerIsKnown, LifeInv, TidInv
<1> QED
  BY <1>1, Invariance, PTL

\* The engine starts idle, as KeyExchange does.
LEMMA RefInit == Init => Exchange!Init
  BY DEF Init, Exchange!Init, Exchange!NoShare, Exchange!Shares, phaseBar,
       needsBar, triedBar, shareBar, okBar, EcdhTried, KemTried, KemRan, Flying,
       EcdhShare, KemShare, KemKnown,
         ZeroResult, CallPcs, SeqPcs, ParPcs, WaitPcs, DonePcs

\* Entering either execution function begins an exchange.
LEMMA RefBegin ==
  ASSUME IInv, NEW c \in Combos, NEW r \in Roles,
         execute_sequential(c, r) \/ execute_parallel_optimized(c, r)
  PROVE  Exchange!Begin
<1> USE EngineAssumption DEF phaseBar, needsBar, triedBar, shareBar, okBar,
     EcdhTried, KemTried, KemRan, Flying, EcdhShare, KemShare, KemKnown,
     ZeroResult, CallPcs, SeqPcs, ParPcs, WaitPcs, DonePcs, Needs, QuantumOnly,
     ClassicalOnly, Consistent, IInv, TypeOK, ReplyInv, Request, SequentialEntry,
     Exchange!Begin, Exchange!NoShare, Exchange!Shares
<1>1. CASE execute_sequential(c, r)
  BY <1>1 DEF execute_sequential
<1>2. CASE execute_parallel_optimized(c, r)
  BY <1>2 DEF execute_parallel_optimized
<1> QED
  BY <1>1, <1>2

\* Joining the worker's outcome ends the exchange with the right verdict.
LEMMA RefCollect ==
  ASSUME IInv, Collect
  PROVE  Exchange!End
<1> USE DEF CallPcs, SeqPcs, ParPcs, WaitPcs, DonePcs
<1>1. pc = "collect" /\ pc' = "idle" /\ UNCHANGED <<combo, role, call>>
  BY DEF Collect, request
<1>2. phaseBar = "busy" /\ phaseBar' = "idle"
  BY <1>1 DEF phaseBar
<1>3. needsBar = {"ecdh", "kem"} /\ UNCHANGED needsBar
  BY <1>1 DEF needsBar, Needs, IInv, ReplyInv, QuantumOnly, ClassicalOnly
<1>4. triedBar = {"ecdh", "kem"} /\ triedBar' = {}
  BY <1>1 DEF triedBar, EcdhTried, KemTried, KemRan, Flying, IInv, JobInv
<1>5. EcdhShare = (IF result.ecdh_ok THEN "fresh" ELSE "absent") /\ UNCHANGED EcdhShare
  BY <1>1 DEF EcdhShare, Collect, IInv, TypeOK, SharedCryptoResult, SecretInv
<1>6. KemShare = (IF kem_ok THEN "fresh" ELSE "absent")
  BY <1>1 DEF KemShare, KemKnown, KemRan, Flying, IInv, JobInv, SecretInv
<1>7. KemShare' = KemShare
  <2>1. CASE kem_ok
    <3>1. kem_len # 0 /\ kem_secret = KemOf(combo, role, call)
      BY <1>1, <2>1 DEF IInv, SecretInv, Flying, KemLen
    <3>2. result'.kem_ok /\ result'.kem_secret = kem_secret
      BY <2>1, <3>1 DEF Collect, IInv, TypeOK, SharedCryptoResult
    <3>3. KemOf(combo', role', call') = kem_secret
      BY <1>1, <3>1
    <3> QED
      BY <1>1, <1>6, <2>1, <3>2, <3>3 DEF KemShare, KemKnown, Flying
  <2>2. CASE ~kem_ok
    <3>1. ~result'.kem_ok
      BY <2>2 DEF Collect, IInv, TypeOK, SharedCryptoResult
    <3> QED
      BY <1>1, <1>6, <2>2, <3>1 DEF KemShare, KemKnown, Flying
  <2> QED
    BY <2>1, <2>2
<1>8. UNCHANGED shareBar
  BY <1>5, <1>7 DEF shareBar
<1>9. okBar' = (\A k \in needsBar : shareBar[k] = "fresh")
  <2>1. okBar' <=> result.ecdh_ok /\ kem_ok
    BY DEF Collect, okBar
  <2>2. shareBar["ecdh"] = EcdhShare /\ shareBar["kem"] = KemShare
    BY DEF shareBar
  <2> QED
    BY <1>3, <1>5, <1>6, <2>1, <2>2 DEF okBar
<1> QED
  BY <1>2, <1>3, <1>4, <1>8, <1>9 DEF Exchange!End

\* The classical share on the sequential path is one attempt.
LEMMA RefSeqEcdh ==
  ASSUME IInv, SeqEcdh
  PROVE  Exchange!Attempt("ecdh")
<1> USE DEF CallPcs, SeqPcs, ParPcs, WaitPcs, DonePcs
<1>1. /\ pc = "seq_ecdh" /\ pc' \in {"seq_kem", "seq_ret"} /\ UNCHANGED <<combo, role, call, rc>>
      /\ pc' = "seq_kem" => ~ClassicalOnly(combo)
      /\ pc' = "seq_ret" => ClassicalOnly(combo) \/ ~result'.ecdh_ok
  BY DEF SeqEcdh, request, IInv, ReplyInv
<1>2. phaseBar = "busy" /\ UNCHANGED <<phaseBar, okBar>>
  BY <1>1 DEF phaseBar, okBar
<1>3. "ecdh" \in needsBar /\ UNCHANGED needsBar
  BY <1>1 DEF needsBar, Needs, IInv, ReplyInv
<1>4. triedBar = {} /\ triedBar' = {"ecdh"}
  BY <1>1 DEF triedBar, EcdhTried, KemTried, KemRan, Flying, IInv, ReplyInv,
       QuantumOnly
<1>5. KemShare = "absent" /\ KemShare' = "absent"
  BY <1>1 DEF KemShare, KemKnown, Flying, SeqEcdh, IInv, ReplyInv, TypeOK,
       SharedCryptoResult
<1>6. EcdhShare' \in {"absent", "fresh"}
  BY <1>1 DEF EcdhShare, SeqEcdh, IInv, TypeOK, ReplyInv, SharedCryptoResult
<1>7. shareBar' = [shareBar EXCEPT !["ecdh"] = EcdhShare']
  BY <1>5 DEF shareBar
<1> QED
  BY <1>2, <1>3, <1>4, <1>6, <1>7 DEF Exchange!Attempt

\* The KEM on the sequential path is one attempt.
LEMMA RefSeqKem ==
  ASSUME IInv, SeqKem
  PROVE  Exchange!Attempt("kem")
<1> USE DEF CallPcs, SeqPcs, ParPcs, WaitPcs, DonePcs
<1>1. pc = "seq_kem" /\ pc' = "seq_ret" /\ UNCHANGED <<combo, role, call, rc>>
  BY DEF SeqKem, request
<1>2. phaseBar = "busy" /\ UNCHANGED <<phaseBar, okBar>>
  BY <1>1 DEF phaseBar, okBar
<1>3. "kem" \in needsBar /\ UNCHANGED needsBar
  BY <1>1 DEF needsBar, Needs, IInv, ReplyInv
<1>4. UNCHANGED result.ecdh_ok /\ UNCHANGED result.ecdh_secret
  BY DEF SeqKem, IInv, TypeOK, SharedCryptoResult
<1>5. "kem" \notin triedBar /\ triedBar' = triedBar \cup {"kem"}
  BY <1>1, <1>4
  DEF triedBar, EcdhTried, KemTried, KemRan, Flying, IInv, ReplyInv
<1>6. UNCHANGED EcdhShare
  BY <1>1, <1>4 DEF EcdhShare
<1>7. KemShare' \in {"absent", "fresh"}
  BY <1>1 DEF KemShare, KemKnown, Flying, SeqKem, IInv, TypeOK, ReplyInv,
       SharedCryptoResult
<1>8. shareBar' = [shareBar EXCEPT !["kem"] = KemShare']
  BY <1>6 DEF shareBar
<1> QED
  BY <1>2, <1>3, <1>5, <1>7, <1>8 DEF Exchange!Attempt

\* The sequential return code is the exchange's verdict.
LEMMA RefSeqReturn ==
  ASSUME IInv, SeqReturn
  PROVE  Exchange!End
<1> USE DEF CallPcs, SeqPcs, ParPcs, WaitPcs, DonePcs
<1>1. pc = "seq_ret" /\ pc' = "idle" /\ UNCHANGED <<combo, role, call, result>>
  BY DEF SeqReturn, request
<1>2. phaseBar = "busy" /\ phaseBar' = "idle"
  BY <1>1 DEF phaseBar
<1>3. needsBar = Needs(combo) /\ UNCHANGED needsBar
  BY <1>1 DEF needsBar, IInv, ReplyInv
<1>4. /\ triedBar' = {}
      /\ "ecdh" \in triedBar <=> ~QuantumOnly(combo)
      /\ "kem" \in triedBar <=>
           ~ClassicalOnly(combo) /\ (QuantumOnly(combo) \/ result.ecdh_ok)
  BY <1>1 DEF triedBar, EcdhTried, KemTried, KemRan, Flying
<1>5. UNCHANGED shareBar
  BY <1>1 DEF shareBar, EcdhShare, KemShare, KemKnown, Flying
<1>6. /\ shareBar["ecdh"] = "fresh" <=> result.ecdh_ok
      /\ shareBar["ecdh"] = "absent" <=> ~result.ecdh_ok
      /\ shareBar["kem"] = "fresh" <=> result.kem_ok
  BY <1>1 DEF shareBar, EcdhShare, KemShare, KemKnown, Flying, IInv, SecretInv
<1>7. needsBar \subseteq triedBar \/ \E k \in triedBar : shareBar[k] = "absent"
  BY <1>3, <1>4, <1>6 DEF Needs
<1>8. okBar' = (\A k \in needsBar : shareBar[k] = "fresh")
  <2>1. ~(ClassicalOnly(combo) /\ QuantumOnly(combo))
    BY DEF IInv, ReplyInv, Consistent, ClassicalOnly, QuantumOnly
  <2>2. okBar' <=> /\ ~QuantumOnly(combo) => result.ecdh_ok
                   /\ ~ClassicalOnly(combo) => result.kem_ok
    BY <2>1 DEF okBar, SeqReturn
  <2>3. (\A k \in needsBar : shareBar[k] = "fresh")
          <=> /\ ~QuantumOnly(combo) => result.ecdh_ok
              /\ ~ClassicalOnly(combo) => result.kem_ok
    BY <1>3, <1>6 DEF Needs
  <2> QED
    BY <2>2, <2>3 DEF okBar
<1> QED
  BY <1>2, <1>3, <1>4, <1>5, <1>7, <1>8 DEF Exchange!End

\* The classical share on the parallel path is one attempt.
LEMMA RefEcdh ==
  ASSUME IInv, Ecdh
  PROVE  Exchange!Attempt("ecdh")
<1> USE DEF CallPcs, SeqPcs, ParPcs, WaitPcs, DonePcs
<1>1. /\ pc = "ecdh" /\ pc' = "join_lock"
      /\ UNCHANGED <<combo, role, call, rc, wpc, work_done, kem_ok, kem_secret>>
  BY DEF Ecdh, request, workerVars, poolVars, flags, outcome
<1>2. phaseBar = "busy" /\ UNCHANGED <<phaseBar, okBar>>
  BY <1>1 DEF phaseBar, okBar
<1>3. "ecdh" \in needsBar /\ UNCHANGED needsBar
  BY <1>1 DEF needsBar, Needs, IInv, ReplyInv
<1>4. "ecdh" \notin triedBar /\ triedBar' = triedBar \cup {"ecdh"}
  BY <1>1 DEF triedBar, EcdhTried, KemTried, KemRan, Flying
<1>5. UNCHANGED KemShare
  BY <1>1 DEF KemShare, KemKnown, KemRan, Flying
<1>6. EcdhShare' \in {"absent", "fresh"}
  BY <1>1 DEF EcdhShare, Ecdh, IInv, TypeOK, ReplyInv, SharedCryptoResult
<1>7. shareBar' = [shareBar EXCEPT !["ecdh"] = EcdhShare']
  BY <1>5 DEF shareBar
<1> QED
  BY <1>2, <1>3, <1>4, <1>6, <1>7 DEF Exchange!Attempt

\* The worker's KEM operation is one attempt, inside the call it is for.
LEMMA RefKemRun ==
  ASSUME IInv, KemRun
  PROVE  Exchange!Attempt("kem")
<1> USE DEF CallPcs, SeqPcs, ParPcs, WaitPcs, KemPcs, DonePcs
<1>1. /\ wpc = "kem_run" /\ wpc' = "done_lock"
      /\ UNCHANGED <<pc, combo, role, call, result, rc, work_done>>
  BY DEF KemRun, mainVars, flags
<1>2. pc \in WaitPcs /\ ~work_done
  BY <1>1 DEF IInv, JobInv
<1>3. phaseBar = "busy" /\ UNCHANGED <<phaseBar, okBar>>
  BY <1>1, <1>2 DEF phaseBar, okBar
<1>4. "kem" \in needsBar /\ UNCHANGED needsBar
  BY <1>1, <1>2 DEF needsBar, Needs, IInv, ReplyInv
<1>5. "kem" \notin triedBar /\ triedBar' = triedBar \cup {"kem"}
  BY <1>1, <1>2 DEF triedBar, EcdhTried, KemTried, KemRan, Flying
<1>6. UNCHANGED EcdhShare
  BY <1>1 DEF EcdhShare
<1>7. KemShare' \in {"absent", "fresh"}
  <2>1. job = KemOf(combo, role, call) /\ ~kem_ok
    BY <1>1, <1>2 DEF IInv, SecretInv, Flying
  <2>2. kem_ok' => kem_secret' = KemOf(combo', role', call')
    BY <1>1, <2>1 DEF KemRun, outcome
  <2> QED
    BY <1>1, <1>2, <2>2 DEF KemShare, KemKnown, Flying
<1>8. shareBar' = [shareBar EXCEPT !["kem"] = KemShare']
  BY <1>6 DEF shareBar
<1> QED
  BY <1>3, <1>4, <1>5, <1>7, <1>8 DEF Exchange!Attempt

\* The steps KeyExchange does not see.
StutterStep ==
  \/ verify_affinity \/ engine_init \/ EngineInitFails \/ engine_shutdown
  \/ PostLock \/ Post \/ JoinLock \/ Join
  \/ EngineInitReturns \/ StopLock \/ Stop \/ StopJoin
  \/ WorkerStart \/ CheckLock \/ WorkerCheck \/ WorkerAwake
  \/ KemReset \/ DoneLock \/ WorkerDone
  \/ JoinSpurious \/ WorkerSpurious
  \/ UNCHANGED vars

\* Locking, waiting, waking, signalling and the life cycle are invisible to
\* the caller.
LEMMA RefStutter ==
  ASSUME IInv, StutterStep
  PROVE  UNCHANGED Exchange!vars
<1> USE DEF Exchange!vars, phaseBar, needsBar, triedBar, shareBar, okBar,
     EcdhTried, KemTried, KemRan, Flying, EcdhShare, KemShare, KemKnown, CallPcs,
     SeqPcs, ParPcs, WaitPcs, LifePcs, KemPcs, DonePcs, vars, mainVars,
     workerVars, request, outcome, flags, poolVars, IInv, TypeOK, JobInv,
     ReplyInv, WorkerPcs
<1>1. CASE verify_affinity
  BY <1>1 DEF verify_affinity
<1>2. CASE engine_init
  BY <1>2 DEF engine_init, ZeroPool
<1>3. CASE EngineInitFails
  BY <1>3 DEF EngineInitFails, ZeroPool
<1>4. CASE engine_shutdown
  BY <1>4 DEF engine_shutdown
<1>5. CASE PostLock
  BY <1>5 DEF PostLock, MainLock
<1>6. CASE Post
  BY <1>6 DEF Post, SignalWake
<1>7. CASE JoinLock
  BY <1>7 DEF JoinLock, MainLock
<1>8. CASE Join
  BY <1>8 DEF Join
<1>9. CASE EngineInitReturns
  BY <1>9 DEF EngineInitReturns
<1>10. CASE StopLock
  BY <1>10 DEF StopLock, MainLock
<1>11. CASE Stop
  BY <1>11 DEF Stop, SignalWake
<1>12. CASE StopJoin
  BY <1>12 DEF StopJoin
<1>13. CASE WorkerStart
  BY <1>13 DEF WorkerStart
<1>14. CASE CheckLock
  BY <1>14 DEF CheckLock, WorkerLock
<1>15. CASE WorkerCheck
  BY <1>15 DEF WorkerCheck
<1>16. CASE WorkerAwake
  BY <1>16 DEF WorkerAwake
<1>17. CASE KemReset
  BY <1>17 DEF KemReset
<1>18. CASE DoneLock
  BY <1>18 DEF DoneLock, WorkerLock
<1>19. CASE WorkerDone
  BY <1>19 DEF WorkerDone
<1>20. CASE JoinSpurious
  BY <1>20 DEF JoinSpurious
<1>21. CASE WorkerSpurious
  BY <1>21 DEF WorkerSpurious
<1>22. CASE UNCHANGED vars
  BY <1>22
<1> QED
  BY <1>1, <1>2, <1>3, <1>4, <1>5, <1>6, <1>7, <1>8, <1>9, <1>10, <1>11, <1>12,
       <1>13, <1>14, <1>15, <1>16, <1>17, <1>18, <1>19, <1>20, <1>21, <1>22 DEF
       StutterStep

\* Every step of the engine is a step of KeyExchange or leaves it unchanged.
LEMMA RefStep ==
  ASSUME IInv, [Next]_vars
  PROVE  [Exchange!Next]_Exchange!vars
<1>1. CASE \E c \in Combos, r \in Roles : execute_sequential(c, r)
                                            \/ execute_parallel_optimized(c, r)
  BY <1>1, RefBegin DEF Exchange!Next
<1>2. CASE ParallelRefused
  <2>1. phaseBar = "idle" /\ okBar' = FALSE
    BY <1>2
    DEF ParallelRefused, phaseBar, okBar, CallPcs, SeqPcs, ParPcs, WaitPcs
  <2>2. UNCHANGED <<phaseBar, needsBar, triedBar, shareBar>>
    BY <1>2 DEF ParallelRefused, phaseBar, needsBar, triedBar, shareBar,
         EcdhTried, KemTried,
                KemRan, Flying, EcdhShare, KemShare, KemKnown, request, poolVars,
                outcome, flags, workerVars
  <2> QED
    BY <2>1, <2>2 DEF Exchange!Next, Exchange!Refuse
<1>3. CASE SeqEcdh
  BY <1>3, RefSeqEcdh DEF Exchange!Next, Exchange!Shares
<1>4. CASE SeqKem
  BY <1>4, RefSeqKem DEF Exchange!Next, Exchange!Shares
<1>5. CASE SeqReturn
  BY <1>5, RefSeqReturn DEF Exchange!Next
<1>6. CASE Ecdh
  BY <1>6, RefEcdh DEF Exchange!Next, Exchange!Shares
<1>7. CASE KemRun
  BY <1>7, RefKemRun DEF Exchange!Next, Exchange!Shares
<1>8. CASE Collect
  BY <1>8, RefCollect DEF Exchange!Next
<1>9. CASE StutterStep
  BY <1>9, RefStutter
<1> QED
  BY <1>1, <1>2, <1>3, <1>4, <1>5, <1>6, <1>7, <1>8, <1>9
     DEF Next, Calls, MainStep, WorkerStep, StutterStep

\* The engine, worker thread, mutex, condition variables and all, implements
\* the abstract exchange: each share attempted at most once and only inside
\* its call, and a verdict that says whether this call produced them.
THEOREM Refinement == Spec => ImplementsKeyExchange
<1>1. Init => Exchange!Init
  BY RefInit
<1>2. IInv /\ [Next]_vars => [Exchange!Next]_Exchange!vars
  BY RefStep
<1> QED
  BY <1>1, <1>2, Invariance, PTL DEF Spec, Exchange!Spec, ImplementsKeyExchange

----------------------------------------------------------------------------
(* Which core the overlapped computations are on *)

\* Where pinning works, main is on core 0 in a parallel call and the worker on
\* core 1 once it has started.
MaskInv ==
  NCpus >= 2 /\ ~PinFails =>
    /\ pc \in ParPcs => main_mask = "core0"
    /\ wpc \notin {"none", "start"} => worker_mask = "core1"

LEMMA MaskStep == MaskInv /\ [Next]_vars => MaskInv'
<1> SUFFICES ASSUME MaskInv, [Next]_vars, NCpus >= 2, ~PinFails
             PROVE  /\ pc' \in ParPcs => main_mask' = "core0"
                    /\ wpc' \notin {"none", "start"} => worker_mask' = "core1"
  BY DEF MaskInv
<1> USE DEF MaskInv, ParPcs, WaitPcs, SeqPcs, mainVars, workerVars
<1>1. \A mask, c : Pinned(mask, c) = {c}
  BY DEF Pinned
<1>2. ASSUME NEW c \in Combos, NEW r \in Roles,
             execute_sequential(c, r) \/ execute_parallel_optimized(c, r)
      PROVE  pc' \in ParPcs => main_mask' = "core0"
  BY <1>1, <1>2 DEF execute_sequential, execute_parallel_optimized, SequentialEntry
<1>3. ASSUME NEW c \in Combos, NEW r \in Roles,
             execute_sequential(c, r) \/ execute_parallel_optimized(c, r)
      PROVE  wpc' = wpc /\ worker_mask' = worker_mask
  BY <1>3 DEF execute_sequential, execute_parallel_optimized, workerVars
<1>4. CASE ParallelRefused \/ EngineInitFails \/ engine_init \/ engine_shutdown
  BY <1>4 DEF ParallelRefused, EngineInitFails, engine_init, engine_shutdown
<1>5. CASE verify_affinity
  BY <1>1, <1>5 DEF verify_affinity
<1>6. CASE SeqEcdh \/ SeqKem \/ SeqReturn
  BY <1>6 DEF SeqEcdh, SeqKem, SeqReturn
<1>7. CASE PostLock \/ JoinLock \/ StopLock
  BY <1>7 DEF PostLock, JoinLock, StopLock, MainLock
<1>8. CASE Post \/ Stop
  BY <1>8 DEF Post, Stop, SignalWake
<1>9. CASE Ecdh \/ Join \/ JoinSpurious \/ Collect
  BY <1>9 DEF Ecdh, Join, JoinSpurious, Collect
<1>10. CASE EngineInitReturns \/ StopJoin
  BY <1>10 DEF EngineInitReturns, StopJoin
<1>11. CASE WorkerStart
  BY <1>1, <1>11 DEF WorkerStart
<1>12. CASE CheckLock \/ DoneLock
  BY <1>12 DEF CheckLock, DoneLock, WorkerLock
<1>13. CASE WorkerCheck \/ WorkerSpurious \/ WorkerAwake
  BY <1>13 DEF WorkerCheck, WorkerSpurious, WorkerAwake
<1>14. CASE KemReset \/ KemRun \/ WorkerDone
  BY <1>14 DEF KemReset, KemRun, WorkerDone
<1>15. CASE UNCHANGED vars
  BY <1>15 DEF vars
<1> QED
  BY <1>2, <1>3, <1>4, <1>5, <1>6, <1>7, <1>8, <1>9, <1>10, <1>11, <1>12, <1>13,
     <1>14, <1>15 DEF Next, Calls, MainStep, WorkerStep

\* Where pinning works, the worker computes on core 1 while main computes on core
\* 0: engine.c pins each before it computes anything that overlaps.
THEOREM OverlapIsApart == Spec => []PinnedApart
<1>1. Init => MaskInv
  BY DEF Init, MaskInv, ParPcs, WaitPcs
<1>2. Spec => []MaskInv
  BY <1>1, MaskStep, PTL DEF Spec
<1>3. MaskInv /\ IInv => PinnedApart
  BY DEF MaskInv, IInv, JobInv, PinnedApart, KemPcs, ParPcs
<1> QED
  BY <1>2, <1>3, Invariance, PTL

----------------------------------------------------------------------------
(* The benchmark around it *)

InSuite == {"call", "ret", "verify"}

\* Where main() is, and which suite it is at.
CounterInv ==
  /\ bpc \in {"boot", "init", "probe", "alloc", "suite", "call", "ret",
              "verify", "stop", "done", "fatal"}
  /\ ci \in 0..Len(Hybrids) /\ mi \in 1..3 /\ it \in Nat
  /\ bpc \in InSuite => ci >= 1
  /\ bpc \in {"call", "ret"} => it < NUM_ITERATIONS
  /\ bpc = "verify" => it <= Warmups

LEMMA SuiteAssumptions ==
  /\ Len(Hybrids) \in Nat /\ \A i \in 1..Len(Hybrids) : Hybrids[i] \in Combos
  /\ NUM_ITERATIONS \in Nat \ {0} /\ Warmups \in Nat
BY SuiteAssumption

LEMMA CounterStep == CounterInv /\ [SuiteNext]_allVars => CounterInv'
<1> SUFFICES ASSUME CounterInv, [SuiteNext]_allVars PROVE CounterInv'
  OBVIOUS
<1> USE SuiteAssumptions DEF CounterInv, InSuite, counters, suiteVars
<1>1. CASE Boot
  BY <1>1 DEF Boot
<1>2. CASE StartEngine
  BY <1>2 DEF StartEngine
<1>3. CASE BootProbe
  BY <1>3 DEF BootProbe
<1>4. CASE Allocate
  BY <1>4 DEF Allocate
<1>5. CASE NextSuite
  BY <1>5 DEF NextSuite
<1>6. CASE Call
  BY <1>6 DEF Call
<1>7. CASE TrackFailed
  BY <1>7 DEF TrackFailed, NextTrack
<1>8. CASE CallMeasured
  BY <1>8 DEF CallMeasured, NextTrack
<1>9. CASE Warmup
  BY <1>9 DEF Warmup
<1>10. CASE LiveProbe
  BY <1>10 DEF LiveProbe
<1>11. CASE StopEngine
  BY <1>11 DEF StopEngine
<1>12. CASE Exit
  BY <1>12 DEF Exit
<1>13. CASE EngineStep
  BY <1>13 DEF EngineStep
<1>14. CASE Exited \/ UNCHANGED allVars
  BY <1>14 DEF Exited, allVars
<1> QED
  BY <1>1, <1>2, <1>3, <1>4, <1>5, <1>6, <1>7, <1>8, <1>9, <1>10, <1>11,
     <1>12, <1>13, <1>14 DEF SuiteNext, DriverStep

LEMMA Counters == SuiteSpec => []CounterInv
<1>1. SuiteInit => CounterInv
  BY SuiteAssumptions DEF SuiteInit, CounterInv, InSuite
<1> QED
  BY <1>1, CounterStep, PTL DEF SuiteSpec

(***************************************************************************)
(* main() of benchmark_suite.c is a legal caller of the engine: with the   *)
(* program around it the engine still behaves as EnginePool says, so every *)
(* theorem about EnginePool holds of the program too.                      *)
(***************************************************************************)
THEOREM SuiteUsesEngine == SuiteSpec => Spec
<1>1. SuiteInit => Init
  BY DEF SuiteInit
<1>2. CounterInv /\ [SuiteNext]_allVars => [Next]_vars
  <2> SUFFICES ASSUME CounterInv, [SuiteNext]_allVars PROVE [Next]_vars
    OBVIOUS
  <2>1. bpc \in InSuite => Suite \in Combos
    BY SuiteAssumptions DEF CounterInv, Suite
  <2>2. "SERVER" \in Roles
    BY DEF Roles
  <2>3. ASSUME NEW c \in Combos, Parallel(c) PROVE Next
    BY <2>2, <2>3 DEF Parallel, Next, Calls
  <2>4. ASSUME NEW c \in Combos, execute_sequential(c, "SERVER") PROVE Next
    BY <2>2, <2>4 DEF Next, Calls
  <2>5. CASE Boot \/ Allocate \/ NextSuite \/ TrackFailed \/ CallMeasured \/ Exit
    BY <2>5 DEF Boot, Allocate, NextSuite, TrackFailed, CallMeasured, Exit
  <2>6. CASE StartEngine \/ StopEngine
    BY <2>6 DEF StartEngine, StopEngine, Next, Calls
  <2>7. CASE BootProbe \/ LiveProbe
    BY <2>7 DEF BootProbe, LiveProbe, Next, Calls
  <2>8. CASE Call
    <3>1. bpc \in InSuite /\ Suite \in Combos
      BY <2>1, <2>8 DEF Call, InSuite
    <3>2. Parallel(Suite) \/ execute_sequential(Suite, "SERVER")
      BY <2>8 DEF Call, dispatch_execute
    <3> QED
      BY <2>3, <2>4, <3>1, <3>2
  <2>9. CASE Warmup
    BY <2>1, <2>3, <2>9 DEF Warmup, InSuite
  <2>10. CASE EngineStep
    BY <2>10 DEF EngineStep, Next
  <2>11. CASE Exited \/ UNCHANGED allVars
    BY <2>11 DEF Exited, allVars
  <2> QED
    BY <2>5, <2>6, <2>7, <2>8, <2>9, <2>10, <2>11 DEF SuiteNext, DriverStep
<1> QED
  BY <1>1, <1>2, Counters, PTL DEF SuiteSpec, Spec

\* The instance that matters most to a benchmark: whatever it measured was
\* computed by the very call it timed.
COROLLARY MeasuredRepliesAreFresh == SuiteSpec => []ReplyIsFresh
BY SuiteUsesEngine, FreshReplies, PTL

----------------------------------------------------------------------------
(* What the benchmark exports *)

InTrack == {"call", "ret"}
Cell    == Sample \cup {Garbage}

\* The samples taken so far on the track under way are its own.
SampleInv ==
  /\ samples \in [Iterations -> Cell]
  /\ bpc \in InTrack =>
       \A j \in Iterations : j <= it =>
         samples[j].suite = ci /\ samples[j].mode = mi /\ samples[j].iter = j

Own(r) == /\ \A s \in r.from : s.suite = r.suite /\ s.mode = r.mode
          /\ {s.iter : s \in r.from} = Iterations

\* Each result covers its own track, and results come in the order of the
\* loops, so that the track under way has none yet.
ResultInv ==
  /\ results \in Seq(Result)
  /\ \A k \in DOMAIN results :
       /\ Own(results[k])
       /\ results[k].suite <= ci
       /\ bpc \in InTrack /\ results[k].suite = ci => results[k].mode < mi
  /\ \A k, l \in DOMAIN results : k < l =>
       \/ results[k].suite < results[l].suite
       \/ results[k].suite = results[l].suite /\ results[k].mode < results[l].mode

SuiteInv == CounterInv /\ SampleInv /\ ResultInv

LEMMA ExportTypes ==
  results \in Seq(Result) =>
    \A k \in DOMAIN results : results[k].suite \in Int /\ results[k].mode \in Int
<1> SUFFICES ASSUME results \in Seq(Result), NEW k \in DOMAIN results
             PROVE  results[k].suite \in Int /\ results[k].mode \in Int
  OBVIOUS
<1>1. results[k] \in Result
  OBVIOUS
<1> QED
  BY <1>1 DEF Result

\* The sample CallMeasured writes.
NewSample == [suite |-> ci, mode |-> mi, iter |-> it + 1, mask |-> main_mask]
NewResult == [suite |-> ci, mode |-> mi, from |-> {Measured[i] : i \in Iterations}]

LEMMA MeasuredSample ==
  ASSUME SuiteInv, main_mask \in Masks, CallMeasured
  PROVE  /\ Measured \in [Iterations -> Cell]
         /\ \A j \in Iterations : j <= it + 1 =>
              /\ Measured[j].suite = ci /\ Measured[j].mode = mi
              /\ Measured[j].iter = j
<1> USE SuiteAssumptions DEF SuiteInv, CounterInv, SampleInv, InTrack, InSuite
<1>1. bpc = "ret" /\ ci \in 1..Len(Hybrids) /\ it + 1 \in Iterations
  BY DEF CallMeasured, Iterations
<1>2. NewSample \in Sample
  BY <1>1 DEF NewSample, Sample
<1>3. Measured = [samples EXCEPT ![it + 1] = NewSample]
  BY DEF Measured, NewSample
<1>4. Measured \in [Iterations -> Cell]
  BY <1>1, <1>2, <1>3 DEF Cell
<1>5. \A j \in Iterations : Measured[j] = IF j = it + 1 THEN NewSample ELSE samples[j]
  BY <1>1, <1>3
<1>6. NewSample.suite = ci /\ NewSample.mode = mi /\ NewSample.iter = it + 1
  BY DEF NewSample
<1>7. ASSUME NEW j \in Iterations, j <= it + 1
      PROVE  Measured[j].suite = ci /\ Measured[j].mode = mi /\ Measured[j].iter = j
  <2>1. j \in Nat
    BY DEF Iterations
  <2> QED
    BY <1>1, <1>5, <1>6, <1>7, <2>1
<1> QED
  BY <1>4, <1>7

\* Sorting keeps the buffer a buffer.
LEMMA SortedCells ==
  ASSUME NEW s \in [Iterations -> Cell], NEW t \in Sorted(s)
  PROVE  t \in [Iterations -> Cell]
BY DEF Sorted

\* A completed track is its own, and later than every track before it.
LEMMA MeasuredTrack ==
  ASSUME SuiteInv, main_mask \in Masks, CallMeasured, it + 1 = NUM_ITERATIONS
  PROVE  NewResult \in Result /\ Own(NewResult)
<1> USE SuiteAssumptions DEF SuiteInv, CounterInv, InTrack, InSuite
<1>1. bpc = "ret" /\ ci \in 1..Len(Hybrids)
  BY DEF CallMeasured
<1>2. Measured \in [Iterations -> Cell]
  BY MeasuredSample
<1>3. \A j \in Iterations :
        Measured[j].suite = ci /\ Measured[j].mode = mi /\ Measured[j].iter = j
  BY MeasuredSample DEF Iterations
<1>4. NewResult.from = {Measured[i] : i \in Iterations}
        /\ NewResult.suite = ci /\ NewResult.mode = mi
  BY DEF NewResult
<1>5. NewResult \in Result
  BY <1>1, <1>2 DEF NewResult, Result, Cell
<1>6. {s.iter : s \in NewResult.from} = Iterations
  BY <1>3, <1>4
<1> QED
  BY <1>3, <1>4, <1>5, <1>6 DEF Own

LEMMA SuiteStep ==
  SuiteInv /\ main_mask \in Masks /\ [SuiteNext]_allVars => SuiteInv'
<1> SUFFICES ASSUME SuiteInv, main_mask \in Masks, [SuiteNext]_allVars
             PROVE  SuiteInv'
  OBVIOUS
<1>0. CounterInv'
  BY CounterStep DEF SuiteInv
<1> USE SuiteAssumptions DEF CounterInv, InSuite, InTrack, counters, tallies,
        suiteVars
<1>1. CASE Boot
  BY <1>0, <1>1 DEF Boot, SuiteInv, SampleInv, ResultInv
<1>2. CASE StartEngine
  BY <1>0, <1>2 DEF StartEngine, SuiteInv, SampleInv, ResultInv
<1>3. CASE BootProbe
  BY <1>0, <1>3 DEF BootProbe, SuiteInv, SampleInv, ResultInv
<1>4. CASE Allocate
  BY <1>0, <1>4 DEF Allocate, SuiteInv, SampleInv, ResultInv
<1>5. CASE NextSuite
  <2>1. SampleInv'
    BY <1>5 DEF NextSuite, SuiteInv, SampleInv, Iterations
  <2>2. ResultInv'
    BY <1>5, ExportTypes DEF NextSuite, SuiteInv, ResultInv, Own
  <2> QED
    BY <1>0, <2>1, <2>2 DEF SuiteInv
<1>6. CASE Call
  BY <1>0, <1>6 DEF Call, SuiteInv, SampleInv, ResultInv
<1>7. CASE TrackFailed
  <2>1. SampleInv'
    BY <1>7 DEF TrackFailed, NextTrack, SuiteInv, SampleInv, Iterations
  <2>2. ResultInv'
    BY <1>7, ExportTypes DEF TrackFailed, NextTrack, SuiteInv, ResultInv, Own
  <2> QED
    BY <1>0, <2>1, <2>2 DEF SuiteInv
<1>8. CASE CallMeasured
  <2>1. CASE it + 1 < NUM_ITERATIONS
    <3>1. SampleInv'
      BY <1>8, <2>1, MeasuredSample DEF CallMeasured, SampleInv
    <3>2. ResultInv'
      BY <1>8, <2>1 DEF CallMeasured, SuiteInv, ResultInv
    <3> QED
      BY <1>0, <3>1, <3>2 DEF SuiteInv
  <2>2. CASE it + 1 = NUM_ITERATIONS
    <3>1. SampleInv'
      <4>1. samples' \in [Iterations -> Cell]
        BY <1>8, <2>2, MeasuredSample, SortedCells DEF CallMeasured
      <4> QED
        BY <1>8, <2>2, <4>1 DEF CallMeasured, NextTrack, SampleInv, Iterations
    <3>2. results' = Append(results, NewResult) /\ ci' = ci
      BY <1>8, <2>2 DEF CallMeasured, NewResult
    <3>3. bpc' \in InTrack => mi' = mi + 1
      BY <1>8, <2>2 DEF CallMeasured, NextTrack
    <3>4. NewResult \in Result /\ Own(NewResult)
      BY <1>8, <2>2, MeasuredTrack
    <3>5. NewResult.suite = ci /\ NewResult.mode = mi
      BY DEF NewResult
    <3>6. bpc \in InTrack
      BY <1>8 DEF CallMeasured
    <3>7. results \in Seq(Result) /\ results' \in Seq(Result)
      BY <3>2, <3>4 DEF SuiteInv, ResultInv
    <3>8. Len(results) \in Nat /\ DOMAIN results = 1..Len(results)
            /\ DOMAIN results' = 1..(Len(results) + 1)
      BY <3>2, <3>4, <3>7
    <3>9. \A k \in DOMAIN results' :
            results'[k] = IF k \in DOMAIN results THEN results[k] ELSE NewResult
      BY <3>2, <3>4, <3>7, <3>8
    <3>10. ResultInv'
      <4>1. \A k \in DOMAIN results' :
              /\ Own(results'[k])
              /\ results'[k].suite <= ci'
              /\ bpc' \in InTrack /\ results'[k].suite = ci' => results'[k].mode < mi'
        BY <3>2, <3>3, <3>4, <3>5, <3>6, <3>7, <3>9, ExportTypes
        DEF SuiteInv, ResultInv, Own
      <4>2. \A k, l \in DOMAIN results' : k < l =>
              \/ results'[k].suite < results'[l].suite
              \/ /\ results'[k].suite = results'[l].suite
                 /\ results'[k].mode < results'[l].mode
        <5> SUFFICES ASSUME NEW k \in DOMAIN results', NEW l \in DOMAIN results', k < l
                     PROVE  \/ results'[k].suite < results'[l].suite
                            \/ /\ results'[k].suite = results'[l].suite
                               /\ results'[k].mode < results'[l].mode
          OBVIOUS
        <5>1. k \in DOMAIN results /\ k \in Nat /\ l \in Nat
          BY <3>8
        <5>2. CASE l \in DOMAIN results
          BY <3>9, <5>1, <5>2 DEF SuiteInv, ResultInv
        <5>3. CASE l \notin DOMAIN results
          BY <3>5, <3>6, <3>7, <3>9, <5>1, <5>3, ExportTypes
          DEF SuiteInv, ResultInv
        <5> QED
          BY <5>2, <5>3
      <4> QED
        BY <3>7, <4>1, <4>2 DEF ResultInv
    <3> QED
      BY <1>0, <3>1, <3>10 DEF SuiteInv
  <2> QED
    BY <1>8, <2>1, <2>2 DEF CallMeasured, SuiteInv
<1>9. CASE Warmup
  BY <1>0, <1>9 DEF Warmup, SuiteInv, SampleInv, ResultInv
<1>10. CASE LiveProbe
  BY <1>0, <1>10 DEF LiveProbe, SuiteInv, SampleInv, ResultInv
<1>11. CASE StopEngine
  BY <1>0, <1>11 DEF StopEngine, SuiteInv, SampleInv, ResultInv
<1>12. CASE Exit
  BY <1>0, <1>12 DEF Exit, SuiteInv, SampleInv, ResultInv
<1>13. CASE EngineStep
  BY <1>0, <1>13 DEF EngineStep, SuiteInv, SampleInv, ResultInv
<1>14. CASE Exited \/ UNCHANGED allVars
  BY <1>0, <1>14 DEF Exited, allVars, SuiteInv, SampleInv, ResultInv
<1> QED
  BY <1>1, <1>2, <1>3, <1>4, <1>5, <1>6, <1>7, <1>8, <1>9, <1>10, <1>11,
     <1>12, <1>13, <1>14 DEF SuiteNext, DriverStep

(***************************************************************************)
(* Whatever calls fail and however often, a result that is exported covers *)
(* every iteration of its own track and nothing else, and no track is      *)
(* exported twice: the tracks share a buffer (benchmark_suite.c:289) but   *)
(* an abandoned one leaves nothing behind that is counted.                 *)
(***************************************************************************)
THEOREM ExportedTracksAreOwn == SuiteSpec => []ResultsAreOwnTracks
<1>1. SuiteInit => SuiteInv
  BY SuiteAssumptions
     DEF SuiteInit, SuiteInv, CounterInv, SampleInv, ResultInv, InSuite, InTrack, Cell
<1>2. TypeOK => main_mask \in Masks
  BY DEF TypeOK
<1>3. SuiteSpec => []TypeOK
  BY SuiteUsesEngine, TypeCorrect, PTL
<1>4. SuiteInv => ResultsAreOwnTracks
  <2> SUFFICES ASSUME SuiteInv PROVE ResultsAreOwnTracks
    OBVIOUS
  <2>1. \A k, l \in DOMAIN results : k < l =>
          <<results[k].suite, results[k].mode>> # <<results[l].suite, results[l].mode>>
    <3> SUFFICES ASSUME NEW k \in DOMAIN results, NEW l \in DOMAIN results, k < l
                 PROVE  <<results[k].suite, results[k].mode>>
                          # <<results[l].suite, results[l].mode>>
      OBVIOUS
    <3>1. /\ results[k].suite \in Int /\ results[k].mode \in Int
          /\ results[l].suite \in Int /\ results[l].mode \in Int
      BY ExportTypes DEF SuiteInv, ResultInv
    <3>2. \/ results[k].suite < results[l].suite
          \/ results[k].suite = results[l].suite /\ results[k].mode < results[l].mode
      BY DEF SuiteInv, ResultInv
    <3> QED
      BY <3>1, <3>2
  <2>2. \A k \in DOMAIN results : Own(results[k])
    BY DEF SuiteInv, ResultInv
  <2> QED
    BY <2>1, <2>2 DEF Own, ResultsAreOwnTracks
<1> QED
  BY <1>1, <1>2, <1>3, <1>4, SuiteStep, PTL DEF SuiteSpec

----------------------------------------------------------------------------
(* On which core it measures *)

\* Where pinning works, main is on core 0 from the boot-time probe on, and so is
\* every sample of the track under way and of every result.
CoreInv ==
  NCpus >= 2 /\ ~PinFails =>
    /\ bpc \notin {"boot", "init", "probe", "fatal"} => main_mask = "core0"
    /\ bpc \in InTrack =>
         \A j \in Iterations : j <= it => samples[j].mask = "core0"
    /\ \A k \in DOMAIN results : \A s \in results[k].from : s.mask = "core0"

\* Nothing moves main off the core it was pinned to.
LEMMA CorePersists ==
  ASSUME NCpus >= 2, ~PinFails, main_mask = "core0", CounterInv, [SuiteNext]_allVars
  PROVE  main_mask' = "core0"
<1>1. \A mask, c : Pinned(mask, c) = {c}
  BY DEF Pinned
<1>2. ASSUME NEW c, Parallel(c) \/ execute_sequential(c, "SERVER")
      PROVE  main_mask' = "core0"
  BY <1>1, <1>2 DEF Parallel, execute_parallel_optimized, execute_sequential,
     ParallelRefused
<1>3. CASE Boot \/ Allocate \/ NextSuite \/ TrackFailed \/ CallMeasured \/ Exit
  BY <1>3 DEF Boot, Allocate, NextSuite, TrackFailed, CallMeasured, Exit, vars, mainVars
<1>4. CASE StartEngine \/ StopEngine
  BY <1>4 DEF StartEngine, StopEngine, engine_init, EngineInitFails, engine_shutdown,
     mainVars
<1>5. CASE BootProbe \/ LiveProbe
  BY <1>1, <1>5 DEF BootProbe, LiveProbe, verify_affinity
<1>6. CASE Call \/ Warmup
  BY <1>2, <1>6 DEF Call, Warmup, dispatch_execute
<1>7. CASE EngineStep
  <2>1. UNCHANGED main_mask
    BY <1>7 DEF EngineStep, MainStep, WorkerStep, SeqEcdh, SeqKem, SeqReturn, PostLock,
       JoinLock, StopLock, MainLock, Post, Ecdh, Join, Collect, EngineInitReturns, Stop,
       StopJoin, WorkerStart, CheckLock, DoneLock, WorkerLock, WorkerCheck, WorkerAwake,
       KemReset, KemRun, WorkerDone, JoinSpurious, WorkerSpurious, mainVars
  <2> QED
    BY <2>1
<1>8. CASE Exited \/ UNCHANGED allVars
  BY <1>8 DEF Exited, allVars, vars, mainVars
<1> QED
  BY <1>3, <1>4, <1>5, <1>6, <1>7, <1>8 DEF SuiteNext, DriverStep

\* Before anything is measured nothing is exported.
EarlyInv == bpc \in {"boot", "init", "probe"} => results = <<>>

LEMMA CoreStep ==
  SuiteInv /\ EarlyInv /\ CoreInv /\ main_mask \in Masks /\ [SuiteNext]_allVars
    => CoreInv' /\ EarlyInv'
<1> SUFFICES ASSUME SuiteInv, EarlyInv, CoreInv, main_mask \in Masks,
                    [SuiteNext]_allVars
             PROVE  CoreInv' /\ EarlyInv'
  OBVIOUS
<1> USE SuiteAssumptions DEF suiteVars, counters, tallies, InTrack
<1>1. EarlyInv'
  BY DEF EarlyInv, SuiteNext, DriverStep, Boot, StartEngine, BootProbe, Allocate,
     NextSuite, Call, TrackFailed, CallMeasured, NextTrack, Warmup, LiveProbe, StopEngine,
     Exit, EngineStep, Exited, allVars
<1> SUFFICES ASSUME NCpus >= 2, ~PinFails
             PROVE  CoreInv'
  BY <1>1 DEF CoreInv
<1>2. ~(bpc \in {"boot", "init", "probe", "fatal"}) => main_mask' = "core0"
  BY CorePersists DEF CoreInv, SuiteInv
<1>3. CASE Boot \/ StartEngine
  BY <1>3 DEF Boot, StartEngine, CoreInv
<1>4. CASE BootProbe
  <2>1. main_mask' = "core0"
    BY <1>4 DEF BootProbe, verify_affinity, Pinned
  <2> QED
    BY <1>4, <2>1 DEF BootProbe, CoreInv
<1>5. CASE Allocate \/ LiveProbe \/ StopEngine \/ Exit \/ Warmup
  BY <1>2, <1>5 DEF Allocate, LiveProbe, StopEngine, Exit, Warmup, CoreInv
<1>6. CASE NextSuite \/ TrackFailed
  BY <1>2, <1>6 DEF NextSuite, TrackFailed, NextTrack, CoreInv, Iterations
<1>7. CASE Call
  BY <1>2, <1>7 DEF Call, CoreInv
<1>8. CASE CallMeasured
  <2>1. /\ bpc = "ret" /\ main_mask = "core0" /\ it + 1 \in Iterations
        /\ samples \in [Iterations -> Cell]
    BY <1>8 DEF CallMeasured, CoreInv, SuiteInv, SampleInv, CounterInv, Iterations
  <2>2. \A j \in Iterations :
          Measured[j] = IF j = it + 1 THEN NewSample ELSE samples[j]
    BY <2>1 DEF Measured, NewSample
  <2>3. \A j \in Iterations : j <= it + 1 => Measured[j].mask = "core0"
    <3>1. NewSample.mask = "core0"
      BY <2>1 DEF NewSample
    <3>2. \A j \in Iterations : j <= it + 1 => j = it + 1 \/ j <= it
      BY DEF Iterations, SuiteInv, CounterInv
    <3> QED
      BY <2>1, <2>2, <3>1, <3>2 DEF CoreInv
  <2>4. CASE it + 1 < NUM_ITERATIONS
    BY <1>2, <1>8, <2>1, <2>3, <2>4 DEF CallMeasured, CoreInv
  <2>5. CASE ~(it + 1 < NUM_ITERATIONS)
    <3>1. it + 1 = NUM_ITERATIONS
      BY <2>1, <2>5 DEF Iterations
    <3>2. \A s \in NewResult.from : s.mask = "core0"
      BY <2>3, <3>1 DEF NewResult, Iterations
    <3>3. results' = Append(results, NewResult) /\ it' = 0
      BY <1>8, <2>5 DEF CallMeasured, NewResult
    <3>4. NewResult \in Result /\ results \in Seq(Result)
      BY <1>8, <3>1, MeasuredTrack DEF SuiteInv, ResultInv
    <3>5. \A k \in DOMAIN results' :
            results'[k] = IF k \in DOMAIN results THEN results[k] ELSE NewResult
      BY <3>3, <3>4
    <3>6. \A k \in DOMAIN results' : \A s \in results'[k].from : s.mask = "core0"
      BY <3>2, <3>5 DEF CoreInv
    <3> QED
      BY <1>2, <2>1, <3>3, <3>6 DEF CoreInv, Iterations
  <2> QED
    BY <2>4, <2>5
<1>9. CASE EngineStep
  BY <1>2, <1>9 DEF EngineStep, CoreInv
<1>10. CASE Exited \/ UNCHANGED allVars
  BY <1>2, <1>10 DEF Exited, allVars, CoreInv, vars, mainVars
<1> QED
  BY <1>3, <1>4, <1>5, <1>6, <1>7, <1>8, <1>9, <1>10 DEF SuiteNext, DriverStep

(***************************************************************************)
(* Where pinning works, all the tracks that are exported were measured on  *)
(* core 0, whatever their mode: verify_affinity() pins main at boot        *)
(* (benchmark_suite.c:266), before the first sample, and nothing unpins it.*)
(***************************************************************************)
THEOREM TracksCompare == SuiteSpec => []TracksAreComparable
<1>1. SuiteInit => SuiteInv /\ EarlyInv /\ CoreInv
  BY SuiteAssumptions
     DEF SuiteInit, SuiteInv, CounterInv, SampleInv, ResultInv, InSuite, InTrack, Cell,
         EarlyInv, CoreInv
<1>2. SuiteSpec => []TypeOK
  BY SuiteUsesEngine, TypeCorrect, PTL
<1>3. TypeOK => main_mask \in Masks
  BY DEF TypeOK
<1>4. CoreInv => TracksAreComparable
  BY DEF CoreInv, TracksAreComparable
<1> QED
  BY <1>1, <1>2, <1>3, <1>4, SuiteStep, CoreStep, PTL DEF SuiteSpec

\* Inside the benchmark, too, overlapped computations are on different cores.
COROLLARY OverlapIsMeasuredApart == SuiteSpec => []PinnedApart
BY SuiteUsesEngine, OverlapIsApart, PTL
=============================================================================
