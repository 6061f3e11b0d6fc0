----------------------------- MODULE EnginePool -----------------------------
(***************************************************************************)
(* The execution engine, c_dispatch/src/engine.c: the calling thread       *)
(* ("main"), the persistent worker thread, the mutex and the two condition *)
(* variables between them, and the global WorkerPool both write.           *)
(*                                                                         *)
(* A critical section is two steps, taking the mutex and then running the  *)
(* body up to the unlock; code outside the mutex is one step per piece     *)
(* whose effect the other thread could see.  A sleeper on a condition      *)
(* variable wakes by a signal or spuriously, and then has to take the      *)
(* mutex again before it re-reads its predicate.                           *)
(*                                                                         *)
(* A secret is abstracted to the job it was computed for: algorithm, role  *)
(* and the number of the call, so that a secret left over from an earlier  *)
(* call differs from a new one.  NoKem and NoEcdh are all-zero buffers.    *)
(***************************************************************************)
EXTENDS AlgoConfig

CONSTANTS Combos,    \* the suites callers ask for
          MaxCalls,  \* bound on the number of handshakes in a behaviour
          NCpus,     \* sysconf(_SC_NPROCESSORS_ONLN)
          PinFails   \* may pthread_setaffinity_np fail?

ASSUME EngineAssumption ==
  /\ Combos \subseteq {c \in AlgoCombo : Consistent(c)}
  /\ MaxCalls \in Nat
  /\ NCpus \in Nat \ {0}
  /\ PinFails \in BOOLEAN

Roles == {"CLIENT", "SERVER"}
KemLen == 32              \* length_shared_secret of every suite in the table

KemJob     == [pqc : PqcAlgs, role : Roles, call : Nat]
EcdhSecret == [curve : Curves, call : Nat]
NoKem  == [pqc |-> "NONE", role |-> "CLIENT", call |-> 0]
NoEcdh == [curve |-> "NONE", call |-> 0]

SharedCryptoResult ==
  [ecdh_ok : BOOLEAN, ecdh_secret : EcdhSecret,
   kem_ok : BOOLEAN, kem_secret : KemJob]
ZeroResult == [ecdh_ok |-> FALSE, ecdh_secret |-> NoEcdh,
               kem_ok |-> FALSE, kem_secret |-> NoKem]

VARIABLES
  \* main thread
  pc, combo, role, call, result, rc, main_mask, probe,
  \* worker thread
  wpc, worker_mask,
  \* pthread mutex and g_engine_initialized
  mutex, g_engine_initialized,
  \* g_pool
  job, kem_secret, kem_len, kem_ok, has_work, work_done, shutdown, worker_tid

mainVars   == <<pc, combo, role, call, result, rc, main_mask, probe>>
workerVars == <<wpc, worker_mask>>
request    == <<combo, role, call>>
outcome    == <<kem_secret, kem_len, kem_ok>>
flags      == <<has_work, work_done, shutdown>>
poolVars   == <<job, outcome, flags, worker_tid>>
vars == <<mainVars, workerVars, mutex, g_engine_initialized, poolVars>>

\* Where the main thread is: inside execute_sequential, inside
\* execute_parallel_optimized, or in the life-cycle functions.
SeqPcs  == {"seq_ecdh", "seq_kem", "seq_ret"}
WaitPcs == {"ecdh", "join_lock", "join", "join_wait"}
ParPcs  == {"post_lock", "post", "collect"} \cup WaitPcs
CallPcs == SeqPcs \cup ParPcs
LifePcs == {"init", "stop_lock", "stop", "stop_join"}
KemPcs  == {"kem", "kem_run"}      \* the worker is inside perform_kem_operation
DonePcs == {"done_lock", "done"}   \* ... and has left it, flags not yet set
WorkerPcs == {"none", "start", "lock", "check", "wait", "awake", "exited"}
               \cup KemPcs \cup DonePcs
Masks == {"all", "core0", "core1"}
Flying == pc \in WaitPcs \cup {"collect"}  \* the pool belongs to this call's job

TypeOK ==
  /\ pc \in {"idle"} \cup CallPcs \cup LifePcs
  /\ combo \in AlgoCombo /\ role \in Roles /\ call \in Nat
  /\ result \in SharedCryptoResult
  /\ rc \in {0, -1}
  /\ main_mask \in Masks /\ worker_mask \in Masks
  /\ probe \in {"none", "unset", "worker"}
  /\ wpc \in WorkerPcs
  /\ mutex \in {"free", "main", "worker"}
  /\ g_engine_initialized \in BOOLEAN
  /\ job \in KemJob /\ kem_secret \in KemJob
  /\ kem_len \in {0, KemLen} /\ kem_ok \in BOOLEAN
  /\ has_work \in BOOLEAN /\ work_done \in BOOLEAN /\ shutdown \in BOOLEAN
  /\ worker_tid \in BOOLEAN

\* memset(&g_pool, 0, sizeof(g_pool))
ZeroPool ==
  /\ job' = NoKem /\ kem_secret' = NoKem /\ kem_len' = 0 /\ kem_ok' = FALSE
  /\ has_work' = FALSE /\ work_done' = FALSE /\ shutdown' = FALSE
  /\ worker_tid' = FALSE

Init ==
  /\ pc = "idle" /\ wpc = "none" /\ mutex = "free"
  /\ combo = Combo(0, "HYBRID", "X25519", "MLKEM_768") /\ role = "CLIENT"
  /\ call = 0 /\ result = ZeroResult /\ rc = -1
  /\ main_mask = "all" /\ worker_mask = "all" /\ probe = "none"
  /\ g_engine_initialized = FALSE
  /\ job = NoKem /\ kem_secret = NoKem /\ kem_len = 0 /\ kem_ok = FALSE
  /\ has_work = FALSE /\ work_done = FALSE /\ shutdown = FALSE
  /\ worker_tid = FALSE

\* The mask a thread ends up with when it pins itself to core c.
Pinned(mask, c) ==
  IF NCpus >= 2 THEN {c} \cup (IF PinFails THEN {mask} ELSE {}) ELSE {mask}

----------------------------------------------------------------------------
(* Requests *)

ClassicalOnly(c) == c.profile = "PURE_CLASSICAL" \/ c.pqc = "NONE"
QuantumOnly(c)   == c.profile = "PURE_QUANTUM" \/ c.curve = "NONE"
EcdhOf(c, n)   == [curve |-> c.curve, call |-> n]
KemOf(c, r, n) == [pqc |-> c.pqc, role |-> r, call |-> n]

\* A new call for suite c in role r; the result buffer is zeroed on entry.
Request(c, r) ==
  /\ pc = "idle"
  /\ call < MaxCalls
  /\ combo' = c /\ role' = r /\ call' = call + 1
  /\ result' = ZeroResult

----------------------------------------------------------------------------
(* Defects: what a plausible mistake would make of some of the actions     *)
(* below.  No specification uses them; each shows that a property notices. *)

\* The wake-up signal is forgotten.
SignalWake_Forgotten == wpc' = wpc

\* pthread_cond_signal(&wake_cond): a sleeping worker goes for the mutex.
SignalWake == wpc' = IF wpc = "wait" THEN "lock" ELSE wpc

\* A failed classical share returns at once, leaving the worker at work.
Ecdh_EarlyReturn ==
  /\ pc = "ecdh"
  /\ \/ /\ result' = [result EXCEPT !.ecdh_ok = TRUE,
                                    !.ecdh_secret = EcdhOf(combo, call)]
        /\ pc' = "join_lock" /\ rc' = rc
     \/ result' = result /\ pc' = "idle" /\ rc' = -1
  /\ UNCHANGED <<request, main_mask, probe, workerVars, mutex,
                 g_engine_initialized, poolVars>>

\* "if" instead of "while" around the wait for done_cond.
JoinSpurious_NoRecheck ==
  /\ pc = "join_wait"
  /\ pc' = "collect"
  /\ UNCHANGED <<request, result, rc, main_mask, probe, workerVars, mutex,
                 g_engine_initialized, poolVars>>

\* The whole buffer is copied, whatever its length says.
Collect_WholeBuffer ==
  /\ pc = "collect"
  /\ result' = [result EXCEPT !.kem_ok = kem_ok, !.kem_secret = kem_secret]
  /\ rc' = IF result.ecdh_ok /\ kem_ok THEN 0 ELSE -1
  /\ pc' = "idle"
  /\ UNCHANGED <<request, main_mask, probe, workerVars, mutex,
                 g_engine_initialized, poolVars>>

\* The worker pins itself to the main thread's core.
WorkerStart_SameCore ==
  /\ wpc = "start"
  /\ worker_mask' \in Pinned(worker_mask, "core0")
  /\ worker_tid' = TRUE
  /\ wpc' = "lock"
  /\ UNCHANGED <<mainVars, mutex, g_engine_initialized, job, outcome, flags>>

\* The wait for work ignores shutdown.
WorkerCheck_IgnoresShutdown ==
  /\ wpc = "check"
  /\ wpc' = IF has_work THEN "awake" ELSE "wait"
  /\ mutex' = "free"
  /\ UNCHANGED <<mainVars, worker_mask, g_engine_initialized, poolVars>>

\* Shutdown does not wait for the worker.
StopJoin_Detached ==
  /\ pc = "stop_join"
  /\ pc' = "idle" /\ g_engine_initialized' = FALSE
  /\ UNCHANGED <<request, result, rc, main_mask, probe, workerVars, mutex,
                 poolVars>>

----------------------------------------------------------------------------
(* execute_sequential, all of it on the main thread *)

SequentialEntry(c) == IF QuantumOnly(c) /\ ~ClassicalOnly(c)
                      THEN "seq_kem" ELSE "seq_ecdh"

execute_sequential(c, r) ==
  /\ Request(c, r)
  /\ pc' = SequentialEntry(c)
  /\ UNCHANGED <<rc, main_mask, probe, workerVars, mutex,
                 g_engine_initialized, poolVars>>

\* perform_ecdh() and the tests on its outcome: a failed classical share ends
\* a hybrid call before the KEM is tried.
SeqEcdh ==
  /\ pc = "seq_ecdh"
  /\ \/ /\ result' = [result EXCEPT !.ecdh_ok = TRUE,
                                    !.ecdh_secret = EcdhOf(combo, call)]
        /\ pc' = IF ClassicalOnly(combo) THEN "seq_ret" ELSE "seq_kem"
     \/ result' = result /\ pc' = "seq_ret"
  /\ UNCHANGED <<request, rc, main_mask, probe, workerVars, mutex,
                 g_engine_initialized, poolVars>>

\* perform_kem_local()
SeqKem ==
  /\ pc = "seq_kem"
  /\ pc' = "seq_ret"
  /\ \/ result' = [result EXCEPT !.kem_ok = TRUE,
                                 !.kem_secret = KemOf(combo, role, call)]
     \/ result' = result
  /\ UNCHANGED <<request, rc, main_mask, probe, workerVars, mutex,
                 g_engine_initialized, poolVars>>

SeqReturn ==
  /\ pc = "seq_ret"
  /\ pc' = "idle"
  /\ rc' = IF CASE ClassicalOnly(combo) -> result.ecdh_ok
                [] QuantumOnly(combo) /\ ~ClassicalOnly(combo) -> result.kem_ok
                [] OTHER -> result.ecdh_ok /\ result.kem_ok
           THEN 0 ELSE -1
  /\ UNCHANGED <<request, result, main_mask, probe, workerVars, mutex,
                 g_engine_initialized, poolVars>>

----------------------------------------------------------------------------
(* execute_parallel_optimized: the main thread's side *)

\* Refused before the result buffer is touched.
ParallelRefused ==
  /\ pc = "idle" /\ ~g_engine_initialized
  /\ rc' = -1
  /\ UNCHANGED <<pc, request, result, main_mask, probe, workerVars, mutex,
                 g_engine_initialized, poolVars>>

execute_parallel_optimized(c, r) ==
  /\ g_engine_initialized
  /\ Request(c, r)
  /\ IF c.pqc = "NONE" \/ c.curve = "NONE"
     THEN pc' = SequentialEntry(c) /\ UNCHANGED main_mask
     ELSE pc' = "post_lock" /\ main_mask' \in Pinned(main_mask, "core0")
  /\ UNCHANGED <<rc, probe, workerVars, mutex, g_engine_initialized, poolVars>>

MainLock(from, to) ==
  /\ pc = from /\ mutex = "free"
  /\ pc' = to /\ mutex' = "main"
  /\ UNCHANGED <<request, result, rc, main_mask, probe, workerVars,
                 g_engine_initialized, poolVars>>

Post ==
  /\ pc = "post"
  /\ job' = KemOf(combo, role, call)
  /\ kem_ok' = FALSE /\ kem_len' = 0
  /\ work_done' = FALSE /\ has_work' = TRUE
  /\ SignalWake
  /\ pc' = "ecdh" /\ mutex' = "free"
  /\ UNCHANGED <<request, result, rc, main_mask, probe, worker_mask,
                 g_engine_initialized, kem_secret, shutdown, worker_tid>>

\* The classical share overlaps the worker; a failure does not skip the wait.
Ecdh ==
  /\ pc = "ecdh"
  /\ \/ result' = [result EXCEPT !.ecdh_ok = TRUE,
                                 !.ecdh_secret = EcdhOf(combo, call)]
     \/ result' = result
  /\ pc' = "join_lock"
  /\ UNCHANGED <<request, rc, main_mask, probe, workerVars, mutex,
                 g_engine_initialized, poolVars>>

\* while (!work_done) pthread_cond_wait(&done_cond)
Join ==
  /\ pc = "join"
  /\ pc' = IF work_done THEN "collect" ELSE "join_wait"
  /\ mutex' = "free"
  /\ UNCHANGED <<request, result, rc, main_mask, probe, workerVars,
                 g_engine_initialized, poolVars>>

JoinSpurious ==
  /\ pc = "join_wait"
  /\ pc' = "join_lock"
  /\ UNCHANGED <<request, result, rc, main_mask, probe, workerVars, mutex,
                 g_engine_initialized, poolVars>>

\* Copies kem_len bytes of the pool's secret, outside the mutex.
Collect ==
  /\ pc = "collect"
  /\ result' = [result EXCEPT !.kem_ok = kem_ok,
                  !.kem_secret = IF kem_len = 0 THEN @ ELSE kem_secret]
  /\ rc' = IF result.ecdh_ok /\ kem_ok THEN 0 ELSE -1
  /\ pc' = "idle"
  /\ UNCHANGED <<request, main_mask, probe, workerVars, mutex,
                 g_engine_initialized, poolVars>>

----------------------------------------------------------------------------
(* worker_thread_func *)

\* Pin to core 1 (failure is only reported) and record the thread's identity.
WorkerStart ==
  /\ wpc = "start"
  /\ worker_mask' \in Pinned(worker_mask, "core1")
  /\ worker_tid' = TRUE
  /\ wpc' = "lock"
  /\ UNCHANGED <<mainVars, mutex, g_engine_initialized, job, outcome, flags>>

WorkerLock(from, to) ==
  /\ wpc = from /\ mutex = "free"
  /\ wpc' = to /\ mutex' = "worker"
  /\ UNCHANGED <<mainVars, worker_mask, g_engine_initialized, poolVars>>

\* while (!has_work && !shutdown) pthread_cond_wait(&wake_cond)
WorkerCheck ==
  /\ wpc = "check"
  /\ wpc' = IF has_work \/ shutdown THEN "awake" ELSE "wait"
  /\ mutex' = "free"
  /\ UNCHANGED <<mainVars, worker_mask, g_engine_initialized, poolVars>>

WorkerSpurious ==
  /\ wpc = "wait"
  /\ wpc' = "lock"
  /\ UNCHANGED <<mainVars, worker_mask, mutex, g_engine_initialized, poolVars>>

\* shutdown is read again after the unlock.
WorkerAwake ==
  /\ wpc = "awake"
  /\ wpc' = IF shutdown THEN "exited" ELSE "kem"
  /\ UNCHANGED <<mainVars, worker_mask, mutex, g_engine_initialized, poolVars>>

\* perform_kem_operation: the outcome is cleared first ...
KemReset ==
  /\ wpc = "kem"
  /\ kem_ok' = FALSE /\ kem_len' = 0
  /\ wpc' = "kem_run"
  /\ UNCHANGED <<mainVars, worker_mask, mutex, g_engine_initialized, job,
                 kem_secret, flags, worker_tid>>

\* ... and written at the end if no library call or allocation failed.
KemRun ==
  /\ wpc = "kem_run"
  /\ \/ kem_secret' = job /\ kem_len' = KemLen /\ kem_ok' = TRUE
     \/ UNCHANGED outcome
  /\ wpc' = "done_lock"
  /\ UNCHANGED <<mainVars, worker_mask, mutex, g_engine_initialized, job,
                 flags, worker_tid>>

\* pthread_cond_signal(&done_cond): a sleeping main goes for the mutex.
WorkerDone ==
  /\ wpc = "done"
  /\ work_done' = TRUE /\ has_work' = FALSE
  /\ pc' = IF pc = "join_wait" THEN "join_lock" ELSE pc
  /\ wpc' = "lock" /\ mutex' = "free"
  /\ UNCHANGED <<request, result, rc, main_mask, probe, worker_mask,
                 g_engine_initialized, job, outcome, shutdown, worker_tid>>

----------------------------------------------------------------------------
(* engine_init, engine_shutdown, verify_affinity *)

\* The worker inherits the mask of the thread that creates it.
engine_init ==
  /\ pc = "idle" /\ ~g_engine_initialized
  /\ ZeroPool
  /\ pc' = "init" /\ wpc' = "start" /\ worker_mask' = main_mask
  /\ UNCHANGED <<request, result, rc, main_mask, probe, mutex,
                 g_engine_initialized>>

\* pthread_create failed: the pool was zeroed, the engine stays down.
EngineInitFails ==
  /\ pc = "idle" /\ ~g_engine_initialized
  /\ ZeroPool
  /\ UNCHANGED <<mainVars, workerVars, mutex, g_engine_initialized>>

\* usleep() orders nothing: the worker may not have run at all.
EngineInitReturns ==
  /\ pc = "init"
  /\ pc' = "idle" /\ g_engine_initialized' = TRUE
  /\ UNCHANGED <<request, result, rc, main_mask, probe, workerVars, mutex,
                 poolVars>>

engine_shutdown ==
  /\ pc = "idle" /\ g_engine_initialized
  /\ pc' = "stop_lock"
  /\ UNCHANGED <<request, result, rc, main_mask, probe, workerVars, mutex,
                 g_engine_initialized, poolVars>>

Stop ==
  /\ pc = "stop"
  /\ shutdown' = TRUE
  /\ SignalWake
  /\ pc' = "stop_join" /\ mutex' = "free"
  /\ UNCHANGED <<request, result, rc, main_mask, probe, worker_mask,
                 g_engine_initialized, job, outcome, has_work, work_done,
                 worker_tid>>

\* pthread_join, then the mutex and the condition variables are destroyed.
StopJoin ==
  /\ pc = "stop_join" /\ wpc = "exited"
  /\ wpc' = "none" /\ pc' = "idle" /\ g_engine_initialized' = FALSE
  /\ UNCHANGED <<request, result, rc, main_mask, probe, worker_mask, mutex,
                 poolVars>>

\* Pins the caller to core 0 and copies what the worker last recorded.
verify_affinity ==
  /\ pc = "idle" /\ g_engine_initialized
  /\ main_mask' \in Pinned(main_mask, "core0")
  /\ probe' = IF worker_tid THEN "worker" ELSE "unset"
  /\ UNCHANGED <<pc, request, result, rc, workerVars, mutex,
                 g_engine_initialized, poolVars>>

----------------------------------------------------------------------------
PostLock == MainLock("post_lock", "post")
JoinLock == MainLock("join_lock", "join")
StopLock == MainLock("stop_lock", "stop")
CheckLock == WorkerLock("lock", "check")
DoneLock  == WorkerLock("done_lock", "done")

Calls ==
  \/ \E c \in Combos, r \in Roles : \/ execute_sequential(c, r)
                                    \/ execute_parallel_optimized(c, r)
  \/ ParallelRefused \/ verify_affinity
  \/ engine_init \/ EngineInitFails \/ engine_shutdown

MainStep ==
  \/ SeqEcdh \/ SeqKem \/ SeqReturn
  \/ PostLock \/ Post \/ Ecdh \/ JoinLock \/ Join \/ Collect
  \/ EngineInitReturns \/ StopLock \/ Stop \/ StopJoin

WorkerStep ==
  \/ WorkerStart \/ CheckLock \/ WorkerCheck \/ WorkerAwake
  \/ KemReset \/ KemRun \/ DoneLock \/ WorkerDone

Next == Calls \/ MainStep \/ WorkerStep \/ JoinSpurious \/ WorkerSpurious

Spec == Init /\ [][Next]_vars

(***************************************************************************)
(* Both threads keep being scheduled and every library call returns (WF).  *)
(* A thread that keeps asking for the mutex gets it (SF): the sections it  *)
(* guards are short, and only an endless run of spurious wakeups could     *)
(* take it away again and again.  Callers owe nothing: no fairness on      *)
(* Calls, nor on spurious wakeups.                                         *)
(***************************************************************************)
Fairness ==
  /\ WF_vars(MainStep) /\ WF_vars(WorkerStep)
  /\ SF_vars(PostLock) /\ SF_vars(JoinLock) /\ SF_vars(StopLock)
  /\ SF_vars(CheckLock) /\ SF_vars(DoneLock)

FairSpec == Spec /\ Fairness

----------------------------------------------------------------------------
(* Properties *)

\* A call that returned 0 has every share its suite needs, computed by this
\* call for this suite and role; a call that returned -1 carries no secret of
\* any earlier call (the pool keeps the last secret, only its length hides it).
ReplyIsFresh ==
  pc = "idle" =>
    /\ rc = 0 => /\ ~QuantumOnly(combo) =>
                      result.ecdh_ok /\ result.ecdh_secret = EcdhOf(combo, call)
                 /\ ~ClassicalOnly(combo) =>
                      result.kem_ok /\ result.kem_secret = KemOf(combo, role, call)
    /\ result.ecdh_secret \in {NoEcdh, EcdhOf(combo, call)}
    /\ result.kem_secret \in {NoKem, KemOf(combo, role, call)}

\* The worker writes the outcome outside the mutex, and main reads it (and
\* rewrites the descriptor) outside or inside it: the two never overlap.
\* While the worker works, main is computing its own share or waiting.
NoOutcomeRace == wpc \in KemPcs \cup DonePcs => pc \in WaitPcs

\* No lost wakeup: nobody sleeps while what it sleeps for already holds.
NoLostWakeup ==
  /\ wpc = "wait" => ~has_work /\ ~shutdown
  /\ pc = "join_wait" => ~work_done

\* A worker that completed a job has recorded its thread id, so the probe
\* benchmark_suite takes after a parallel warm-up names a real thread.
RanWorkerIsKnown == work_done => worker_tid

\* The pool is re-zeroed only when no worker of a previous life can see it.
NoOrphanWorker ==
  ~g_engine_initialized => wpc = "none" \/ pc = "init"

\* Every shutdown ends: the worker is woken, sees the flag and is joined,
\* whatever the interleaving and the spurious wakeups.
ShutdownReturns == pc = "stop_lock" ~> wpc = "none"

\* The overlapped computations run on different cores once pinning works.
PinnedApart ==
  NCpus >= 2 /\ ~PinFails /\ wpc \in KemPcs =>
    main_mask = "core0" /\ worker_mask = "core1"

----------------------------------------------------------------------------
(* The inductive invariant behind the safety properties *)

\* The mutex is held exactly inside the critical sections.
MutexInv ==
  /\ mutex = "main"   <=> pc \in {"post", "join", "stop"}
  /\ mutex = "worker" <=> wpc \in {"check", "done"}

\* The worker lives from pthread_create to pthread_join, and shutdown is up
\* only while main joins it or after.
LifeInv ==
  /\ wpc = "none" <=> ~g_engine_initialized /\ pc # "init"
  /\ pc = "init" => ~g_engine_initialized /\ ~shutdown
  /\ pc \in ParPcs \cup {"stop_lock", "stop", "stop_join"} => g_engine_initialized
  /\ g_engine_initialized => (shutdown <=> pc = "stop_join")
  /\ wpc = "exited" => pc = "stop_join"

\* A job is pending from Post to WorkerDone, inside the call it is for.
JobInv ==
  /\ has_work => pc \in WaitPcs /\ ~work_done
  /\ pc \in WaitPcs /\ ~has_work => work_done
  /\ pc = "collect" => work_done
  /\ wpc \in KemPcs \cup DonePcs => has_work
  /\ wpc = "awake" => has_work \/ shutdown

\* The worker recorded its thread id before anything else.
TidInv ==
  /\ wpc \notin {"none", "start"} => worker_tid
  /\ work_done => worker_tid

\* A length hides every secret but the current job's.
SecretInv ==
  /\ kem_ok <=> kem_len = KemLen
  /\ wpc = "kem_run" => ~kem_ok
  /\ Flying => job = KemOf(combo, role, call)
  /\ Flying /\ kem_ok => kem_secret = job
  /\ result.ecdh_secret = IF result.ecdh_ok THEN EcdhOf(combo, call) ELSE NoEcdh
  /\ result.kem_secret = IF result.kem_ok THEN KemOf(combo, role, call) ELSE NoKem

ReplyInv ==
  /\ Consistent(combo)
  /\ pc \in ParPcs => ~QuantumOnly(combo) /\ ~ClassicalOnly(combo)
  /\ pc \in ParPcs => ~result.kem_ok
  /\ pc \in CallPcs => call # 0
  /\ pc \in {"seq_ecdh", "seq_kem"} => ~result.kem_ok
  /\ pc = "seq_ecdh" => ~QuantumOnly(combo) /\ ~result.ecdh_ok
  /\ pc = "seq_kem" => ~ClassicalOnly(combo) /\ (QuantumOnly(combo) \/ result.ecdh_ok)
  /\ pc \in {"post_lock", "post", "ecdh"} => ~result.ecdh_ok
  /\ pc \notin CallPcs /\ rc = 0 =>
       /\ ~QuantumOnly(combo) => result.ecdh_ok
       /\ ~ClassicalOnly(combo) => result.kem_ok

IInv == /\ TypeOK /\ MutexInv /\ LifeInv /\ JobInv /\ TidInv
        /\ SecretInv /\ ReplyInv /\ NoLostWakeup

----------------------------------------------------------------------------
(* What the caller sees, as KeyExchange *)

Needs(c) == (IF QuantumOnly(c) THEN {} ELSE {"ecdh"})
              \cup (IF ClassicalOnly(c) THEN {} ELSE {"kem"})

KemRan == Flying /\ (work_done \/ wpc \in DonePcs)

EcdhTried == \/ pc \in {"seq_kem", "seq_ret"} /\ ~QuantumOnly(combo)
             \/ Flying /\ pc # "ecdh"
KemTried  == \/ KemRan
             \/ pc = "seq_ret" /\ ~ClassicalOnly(combo)
                  /\ (QuantumOnly(combo) \/ result.ecdh_ok)

EcdhShare == IF ~result.ecdh_ok THEN "absent"
             ELSE IF result.ecdh_secret = EcdhOf(combo, call)
                  THEN "fresh" ELSE "stale"
KemKnown  == IF Flying THEN KemRan /\ kem_ok ELSE result.kem_ok
KemShare  == IF ~KemKnown THEN "absent"
             ELSE IF (IF Flying THEN kem_secret ELSE result.kem_secret)
                       = KemOf(combo, role, call)
                  THEN "fresh" ELSE "stale"

phaseBar == IF pc \in CallPcs THEN "busy" ELSE "idle"
needsBar == IF call = 0 THEN {} ELSE Needs(combo)
triedBar == (IF EcdhTried THEN {"ecdh"} ELSE {})
              \cup (IF KemTried THEN {"kem"} ELSE {})
shareBar == [k \in {"ecdh", "kem"} |-> IF k = "ecdh" THEN EcdhShare ELSE KemShare]
okBar    == rc = 0

Exchange == INSTANCE KeyExchange WITH
  phase <- phaseBar, needs <- needsBar, tried <- triedBar,
  share <- shareBar, ok <- okBar

\* The engine implements KeyExchange: each share is attempted at most once and
\* only inside its call, nothing is left running when the call returns, and the
\* return code says whether this call produced every share its suite needs.
ImplementsKeyExchange == Exchange!Spec

\* ... and under the scheduling fairness every call returns.
EveryExchangeEnds == Exchange!FairSpec
=============================================================================
