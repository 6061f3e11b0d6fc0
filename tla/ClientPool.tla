----------------------------- MODULE ClientPool -----------------------------
(***************************************************************************)
(* The client's own worker pool, c_dispatch/client.c: the thread that      *)
(* encapsulates while the caller of execute_dispatch_handshake derives the *)
(* classical share.  Unlike the engine's, this pool is started by whoever  *)
(* needs it first, its job is a pointer into the caller's stack frame, and *)
(* every start registers an exit handler that shuts it down again.         *)
(*                                                                         *)
(* Steps are as in EnginePool: one to take the mutex, one for the body of  *)
(* the critical section, one per piece of code outside it.  A frame is     *)
(* named by the number of the call it belongs to (0 is NULL); what it      *)
(* holds is whether the KEM share came to be.  Reading the ServerHello     *)
(* before the shares are computed, and the messages after, are Handshake's.*)
(***************************************************************************)
EXTENDS Dispatcher

CONSTANTS MaxCalls,  \* bound on the number of times shares are computed
          MaxInits,  \* bound on the number of threads created
          NCpus,     \* sysconf(_SC_NPROCESSORS_ONLN)
          PinFails   \* may pthread_setaffinity_np fail?

ASSUME PoolAssumption ==
  /\ MaxCalls \in Nat /\ MaxInits \in Nat
  /\ NCpus \in Nat \ {0}
  /\ PinFails \in BOOLEAN

VARIABLES
  \* the calling thread, and the frame of its last call
  pc, call, pqc_dispatched, success, c_secret, rc, main_mask,
  exiting, handlers,   \* in exit(); exit handlers still registered
  \* the worker thread, with its copy of the pointer
  wpc, wargs, worker_mask,
  \* the mutex ("dead" before it is initialised and once destroyed)
  mutex, g_client_worker_initialized,
  \* g_client_worker
  args, has_work, work_done, shutdown

frame      == <<call, pqc_dispatched, success, c_secret>>
process    == <<exiting, handlers>>
mainVars   == <<pc, frame, rc, main_mask, process>>
workerVars == <<wpc, wargs, worker_mask>>
flags      == <<has_work, work_done, shutdown>>
poolVars   == <<mutex, g_client_worker_initialized, args, flags>>
vars == <<mainVars, workerVars, poolVars>>

WaitPcs  == {"join_lock", "join", "join_wait"}
ExchangePcs == {"lazy", "lazy_warm", "post_lock", "post", "inline", "derive",
                "judge"} \cup WaitPcs
StopPcs  == {"stop_lock", "stop", "stop_join"}
DonePcs  == {"done_lock", "done"}
Masks    == {"all", "core0", "core1"}

TypeOK ==
  /\ pc \in {"idle", "boot_warm"} \cup ExchangePcs \cup StopPcs
  /\ call \in Nat /\ pqc_dispatched \in BOOLEAN
  /\ success \in BOOLEAN /\ c_secret \in BOOLEAN /\ rc \in {0, -1}
  /\ main_mask \in Masks /\ worker_mask \in Masks
  /\ exiting \in BOOLEAN /\ handlers \in Nat
  /\ wpc \in {"none", "start", "lock", "check", "wait", "encaps", "exited"}
               \cup DonePcs
  /\ wargs \in Nat /\ args \in Nat
  /\ mutex \in {"dead", "free", "main", "worker"}
  /\ g_client_worker_initialized \in BOOLEAN
  /\ has_work \in BOOLEAN /\ work_done \in BOOLEAN /\ shutdown \in BOOLEAN

Init ==
  /\ pc = "idle" /\ wpc = "none" /\ mutex = "dead"
  /\ call = 0 /\ pqc_dispatched = FALSE /\ success = FALSE /\ c_secret = FALSE
  /\ rc = -1 /\ main_mask = "all" /\ worker_mask = "all"
  /\ exiting = FALSE /\ handlers = 0
  /\ wargs = 0 /\ args = 0 /\ g_client_worker_initialized = FALSE
  /\ has_work = FALSE /\ work_done = FALSE /\ shutdown = FALSE

\* The mask a thread ends up with when it pins itself to core c.
Pinned(mask, c) ==
  IF NCpus >= 2 THEN {c} \cup (IF PinFails THEN {mask} ELSE {}) ELSE {mask}

----------------------------------------------------------------------------
(* Defects, used by no specification *)

\* pthread_cond_signal(&wake_cond): a sleeping worker goes for the mutex.
SignalWake == wpc' = IF wpc = "wait" THEN "lock" ELSE wpc

\* The caller does not wait for the worker when its own share failed.
Derive_SkipsWait ==
  /\ pc = "derive"
  /\ c_secret' \in BOOLEAN
  /\ pc' = IF pqc_dispatched /\ c_secret' THEN "join_lock" ELSE "judge"
  /\ UNCHANGED <<call, pqc_dispatched, success, rc, main_mask, process,
                 workerVars, poolVars>>

\* work_done of the previous job is left up when the next one is posted.
Post_StaleDone ==
  /\ pc = "post"
  /\ args' = call /\ has_work' = TRUE
  /\ SignalWake
  /\ pqc_dispatched' = TRUE
  /\ pc' = "derive" /\ mutex' = "free"
  /\ UNCHANGED <<call, success, c_secret, rc, main_mask, process, wargs,
                 worker_mask, g_client_worker_initialized, work_done, shutdown>>

\* The worker sleeps unless there is work, whatever the shutdown flag says.
WorkerCheck_IgnoresShutdown ==
  /\ wpc = "check"
  /\ wpc' = IF has_work THEN "encaps" ELSE "wait"
  /\ wargs' = args
  /\ mutex' = "free"
  /\ UNCHANGED <<mainVars, worker_mask, g_client_worker_initialized, args, flags>>

\* The sequential route gives the caller all its cores back.
Inline_Unpins ==
  /\ pc = "inline"
  /\ success' \in BOOLEAN
  /\ pc' = "derive" /\ main_mask' = "all"
  /\ UNCHANGED <<call, pqc_dispatched, c_secret, rc, process, workerVars, poolVars>>

\* The exit handler is not registered.
CreateWorker_NoHandler ==
  /\ ~g_client_worker_initialized /\ handlers < MaxInits
  /\ args' = 0 /\ has_work' = FALSE /\ work_done' = FALSE /\ shutdown' = FALSE
  /\ mutex' = "free"
  /\ wpc' = "start" /\ worker_mask' = main_mask
  /\ UNCHANGED <<frame, rc, main_mask, process, wargs,
                 g_client_worker_initialized>>

\* Shutting down leaves the pool marked as initialised.
StopJoin_StaysInitialised ==
  /\ pc = "stop_join" /\ wpc = "exited"
  /\ wpc' = "none" /\ pc' = "idle" /\ mutex' = "dead"
  /\ UNCHANGED <<frame, rc, main_mask, process, wargs, worker_mask,
                 g_client_worker_initialized, args, flags>>

----------------------------------------------------------------------------
(* client_worker_init *)

\* The structure is zeroed, its mutex made anew, and a thread created that
\* inherits the caller's mask; the exit handler is registered.
CreateWorker ==
  /\ ~g_client_worker_initialized /\ handlers < MaxInits
  /\ args' = 0 /\ has_work' = FALSE /\ work_done' = FALSE /\ shutdown' = FALSE
  /\ mutex' = "free"
  /\ wpc' = "start" /\ worker_mask' = main_mask
  /\ handlers' = handlers + 1
  /\ UNCHANGED <<frame, rc, main_mask, exiting, wargs,
                 g_client_worker_initialized>>

\* pthread_create failed: the structure was zeroed, the pool stays down.
CreateWorkerFails ==
  /\ ~g_client_worker_initialized
  /\ args' = 0 /\ has_work' = FALSE /\ work_done' = FALSE /\ shutdown' = FALSE
  /\ mutex' = "free"
  /\ UNCHANGED <<frame, rc, main_mask, process, workerVars,
                 g_client_worker_initialized>>

\* Called by a program that wants the pool up before its first handshake.
client_worker_init ==
  /\ pc = "idle" /\ ~exiting
  /\ \/ CreateWorker /\ pc' = "boot_warm"
     \/ CreateWorkerFails /\ pc' = "idle"

\* The flag goes up after a sleep that orders nothing; a handshake that started
\* the pool goes on to use it.
InitReturns ==
  /\ pc \in {"boot_warm", "lazy_warm"}
  /\ g_client_worker_initialized' = TRUE
  /\ IF pc = "boot_warm" THEN pc' = "idle" /\ UNCHANGED main_mask
     ELSE pc' = "post_lock" /\ main_mask' \in Pinned(main_mask, "core0")
  /\ UNCHANGED <<frame, rc, process, workerVars, mutex, args, flags>>

----------------------------------------------------------------------------
(* execute_dispatch_handshake, step 3: a hybrid suite's two shares *)

\* The handshake failed before there were shares to compute.
FailsBeforeShares ==
  /\ pc = "idle" /\ ~exiting
  /\ rc' = -1
  /\ UNCHANGED <<pc, frame, main_mask, process, workerVars, poolVars>>

ComputeShares(local_route) ==
  /\ pc = "idle" /\ ~exiting /\ call < MaxCalls
  /\ call' = call + 1
  /\ success' = FALSE /\ c_secret' = FALSE /\ pqc_dispatched' = FALSE
  /\ \/ local_route = "SEQUENTIAL" /\ pc' = "inline" /\ UNCHANGED main_mask
     \/ /\ local_route = "PARALLEL" /\ g_client_worker_initialized
        /\ pc' = "post_lock" /\ main_mask' \in Pinned(main_mask, "core0")
     \/ /\ local_route = "PARALLEL" /\ ~g_client_worker_initialized
        /\ pc' = "lazy" /\ UNCHANGED main_mask
  /\ UNCHANGED <<rc, process, workerVars, poolVars>>

\* The first parallel handshake starts the pool, or does without it.
LazyInit ==
  /\ pc = "lazy"
  /\ \/ CreateWorker /\ pc' = "lazy_warm"
     \/ CreateWorkerFails /\ pc' = "inline"

Inline ==
  /\ pc = "inline"
  /\ success' \in BOOLEAN
  /\ pc' = "derive"
  /\ UNCHANGED <<call, pqc_dispatched, c_secret, rc, main_mask, process,
                 workerVars, poolVars>>

MainLock(from, to) ==
  /\ pc = from /\ mutex = "free"
  /\ pc' = to /\ mutex' = "main"
  /\ UNCHANGED <<frame, rc, main_mask, process, workerVars,
                 g_client_worker_initialized, args, flags>>

Post ==
  /\ pc = "post"
  /\ args' = call /\ work_done' = FALSE /\ has_work' = TRUE
  /\ SignalWake
  /\ pqc_dispatched' = TRUE
  /\ pc' = "derive" /\ mutex' = "free"
  /\ UNCHANGED <<call, success, c_secret, rc, main_mask, process, wargs,
                 worker_mask, g_client_worker_initialized, shutdown>>

\* The caller's own share; if it fails the worker is waited for all the same.
\* A derivation that fails on a key that loaded counts as a share here.
Derive ==
  /\ pc = "derive"
  /\ c_secret' \in BOOLEAN
  /\ pc' = IF pqc_dispatched THEN "join_lock" ELSE "judge"
  /\ UNCHANGED <<call, pqc_dispatched, success, rc, main_mask, process,
                 workerVars, poolVars>>

\* while (!work_done) pthread_cond_wait(&done_cond)
Join ==
  /\ pc = "join"
  /\ pc' = IF work_done THEN "judge" ELSE "join_wait"
  /\ mutex' = "free"
  /\ UNCHANGED <<frame, rc, main_mask, process, workerVars,
                 g_client_worker_initialized, args, flags>>

JoinSpurious ==
  /\ pc = "join_wait"
  /\ pc' = "join_lock"
  /\ UNCHANGED <<frame, rc, main_mask, process, workerVars, poolVars>>

\* The server's public key, which the worker reads, is freed here, and the
\* frame the worker writes is left for good: with an error unless both shares
\* are there, else to send the ciphertext.
Judge ==
  /\ pc = "judge"
  /\ rc' = IF success /\ c_secret THEN 0 ELSE -1
  /\ pc' = "idle"
  /\ UNCHANGED <<frame, main_mask, process, workerVars, poolVars>>

----------------------------------------------------------------------------
(* client_worker_loop *)

WorkerStart ==
  /\ wpc = "start"
  /\ worker_mask' \in Pinned(worker_mask, "core1")
  /\ wpc' = "lock"
  /\ UNCHANGED <<mainVars, wargs, poolVars>>

WorkerLock(from, to) ==
  /\ wpc = from /\ mutex = "free"
  /\ wpc' = to /\ mutex' = "worker"
  /\ UNCHANGED <<mainVars, wargs, worker_mask, g_client_worker_initialized,
                 args, flags>>

\* while (!has_work && !shutdown) pthread_cond_wait(&wake_cond); shutdown comes
\* first, and the pointer is copied before the mutex is given up.
WorkerCheck ==
  /\ wpc = "check"
  /\ wpc' = IF shutdown THEN "exited" ELSE IF has_work THEN "encaps" ELSE "wait"
  /\ wargs' = IF has_work /\ ~shutdown THEN args ELSE wargs
  /\ mutex' = "free"
  /\ UNCHANGED <<mainVars, worker_mask, g_client_worker_initialized, args, flags>>

WorkerSpurious ==
  /\ wpc = "wait"
  /\ wpc' = "lock"
  /\ UNCHANGED <<mainVars, wargs, worker_mask, poolVars>>

\* client_pqc_encaps_worker() writes through the pointer, if it is one.  A write
\* into a frame that is gone would land anywhere: FrameIsLive rules it out.
Encaps ==
  /\ wpc = "encaps"
  /\ \/ wargs = call /\ success' = TRUE
     \/ success' = success
  /\ wpc' = "done_lock"
  /\ UNCHANGED <<pc, call, pqc_dispatched, c_secret, rc, main_mask, process,
                 wargs, worker_mask, poolVars>>

\* pthread_cond_signal(&done_cond): a sleeping caller goes for the mutex.
WorkerDone ==
  /\ wpc = "done"
  /\ has_work' = FALSE /\ work_done' = TRUE
  /\ pc' = IF pc = "join_wait" THEN "join_lock" ELSE pc
  /\ wpc' = "lock" /\ mutex' = "free"
  /\ UNCHANGED <<frame, rc, main_mask, process, wargs, worker_mask,
                 g_client_worker_initialized, args, shutdown>>

----------------------------------------------------------------------------
(* client_worker_shutdown, called by the program and again by exit() *)

\* A pool that is down is left alone.
client_worker_shutdown ==
  /\ pc' = IF g_client_worker_initialized THEN "stop_lock" ELSE "idle"
  /\ UNCHANGED <<frame, rc, main_mask, workerVars, poolVars>>

Shutdown ==
  /\ pc = "idle" /\ ~exiting
  /\ client_worker_shutdown
  /\ UNCHANGED process

Exit ==
  /\ pc = "idle" /\ ~exiting
  /\ exiting' = TRUE
  /\ UNCHANGED <<pc, frame, rc, main_mask, handlers, workerVars, poolVars>>

RunHandler ==
  /\ pc = "idle" /\ exiting /\ handlers > 0
  /\ client_worker_shutdown
  /\ handlers' = handlers - 1
  /\ UNCHANGED exiting

Stop ==
  /\ pc = "stop"
  /\ shutdown' = TRUE
  /\ SignalWake
  /\ pc' = "stop_join" /\ mutex' = "free"
  /\ UNCHANGED <<frame, rc, main_mask, process, wargs, worker_mask,
                 g_client_worker_initialized, args, has_work, work_done>>

\* pthread_join; then the mutex and the condition variables are destroyed.
StopJoin ==
  /\ pc = "stop_join" /\ wpc = "exited"
  /\ wpc' = "none" /\ pc' = "idle" /\ mutex' = "dead"
  /\ g_client_worker_initialized' = FALSE
  /\ UNCHANGED <<frame, rc, main_mask, process, wargs, worker_mask, args, flags>>

----------------------------------------------------------------------------
PostLock  == MainLock("post_lock", "post")
JoinLock  == MainLock("join_lock", "join")
StopLock  == MainLock("stop_lock", "stop")
CheckLock == WorkerLock("lock", "check")
DoneLock  == WorkerLock("done_lock", "done")

\* What a program may ask of the client between two handshakes.
Calls ==
  \/ client_worker_init \/ FailsBeforeShares \/ Shutdown \/ Exit
  \/ \E r \in Routes : ComputeShares(r)

MainStep ==
  \/ LazyInit \/ InitReturns \/ Inline \/ PostLock \/ Post \/ Derive
  \/ JoinLock \/ Join \/ Judge \/ RunHandler \/ StopLock \/ Stop \/ StopJoin

WorkerStep ==
  WorkerStart \/ CheckLock \/ WorkerCheck \/ Encaps \/ DoneLock \/ WorkerDone

\* exit() returns to the system, and takes what is left of the process along.
Gone == pc = "idle" /\ exiting /\ handlers = 0 /\ UNCHANGED vars

Next == Calls \/ MainStep \/ WorkerStep \/ JoinSpurious \/ WorkerSpurious \/ Gone

Spec == Init /\ [][Next]_vars

\* As for the engine: both threads keep being scheduled, and a thread that keeps
\* asking for the mutex gets it.  Programs owe nothing.
Fairness ==
  /\ WF_vars(MainStep) /\ WF_vars(WorkerStep)
  /\ SF_vars(PostLock) /\ SF_vars(JoinLock) /\ SF_vars(StopLock)
  /\ SF_vars(CheckLock) /\ SF_vars(DoneLock)

FairSpec == Spec /\ Fairness

----------------------------------------------------------------------------
(* Properties *)

\* The worker writes only into the frame of the call under way, and only until
\* that call has left its wait: the frame and the key in it are not reused, and
\* the caller does not read the outcome, while the worker may still write.
FrameIsLive ==
  wpc = "encaps" => wargs = call /\ pc \in {"derive"} \cup WaitPcs

\* No lost wakeup, in either direction.
NoLostWakeup ==
  /\ wpc = "wait" => ~has_work /\ ~shutdown
  /\ pc = "join_wait" => ~work_done

\* Shut down explicitly, by one exit handler per start and after failed starts,
\* the pool is never used destroyed: nobody asks for a destroyed mutex, joins a
\* thread twice, or zeroes the structure under a worker.  A process that has run its
\* exit handlers leaves no worker behind.
PoolOutlivesUse ==
  /\ mutex = "dead" => wpc = "none"
  /\ pc \in {"post_lock", "join_lock"} \cup StopPcs => wpc # "none"
  /\ pc \in {"idle", "lazy"} /\ ~g_client_worker_initialized => wpc = "none"
  /\ exiting /\ handlers = 0 /\ pc = "idle" => wpc = "none"

\* The process ends once it asked to, and a program's shutdown returns.
ExitEnds == exiting ~> pc = "idle" /\ handlers = 0

----------------------------------------------------------------------------
(* The inductive invariant *)

MutexInv ==
  /\ mutex = "main"   <=> pc \in {"post", "join", "stop"}
  /\ mutex = "worker" <=> wpc \in {"check", "done"}

\* The worker lives from its creation to its join; a handler is registered for
\* every life that has not been shut down.
LifeInv ==
  /\ wpc = "none" <=> ~g_client_worker_initialized /\ pc \notin {"boot_warm", "lazy_warm"}
  /\ pc \in {"boot_warm", "lazy_warm", "lazy"} => ~g_client_worker_initialized
  /\ pc \in {"post_lock", "post"} \cup WaitPcs \cup StopPcs => g_client_worker_initialized
  /\ pc = "derive" /\ pqc_dispatched => g_client_worker_initialized
  /\ wpc # "none" => mutex # "dead"
  /\ wpc # "none" => (shutdown <=> pc = "stop_join")
  /\ wpc = "exited" => pc = "stop_join"
  /\ pc \in WaitPcs => pqc_dispatched
  /\ pc \in {"lazy", "lazy_warm", "post_lock", "post", "inline"} => ~pqc_dispatched
  /\ exiting => pc \in {"idle"} \cup StopPcs
  /\ wpc # "none" /\ ~exiting => handlers > 0
  /\ wpc # "none" /\ exiting => handlers > 0 \/ pc \in StopPcs

\* A job is pending from Post to WorkerDone, inside the call it is for.
JobInv ==
  /\ has_work /\ wpc # "none" =>
       ~work_done /\ pc \in {"derive"} \cup WaitPcs /\ pqc_dispatched /\ args = call
  /\ pc \in {"derive"} \cup WaitPcs /\ pqc_dispatched /\ ~has_work => work_done
  /\ pc = "judge" /\ pqc_dispatched => ~has_work
  /\ wpc \in {"encaps"} \cup DonePcs => has_work /\ wargs = call
  /\ pc \in {"lazy", "lazy_warm", "post_lock", "post", "inline"} => ~success
  /\ pc \in ExchangePcs => call # 0

IInv == TypeOK /\ MutexInv /\ LifeInv /\ JobInv /\ NoLostWakeup

----------------------------------------------------------------------------
(* What the caller sees, as KeyExchange *)

KemTried == \/ pc = "judge" \/ (pc = "derive" /\ ~pqc_dispatched)
            \/ pc \in {"derive"} \cup WaitPcs /\ (work_done \/ wpc \in DonePcs)

phaseBar == IF pc \in ExchangePcs THEN "busy" ELSE "idle"
needsBar == IF call = 0 THEN {} ELSE {"ecdh", "kem"}
triedBar == (IF pc \in WaitPcs \cup {"judge"} THEN {"ecdh"} ELSE {})
              \cup (IF KemTried THEN {"kem"} ELSE {})
shareBar == [k \in {"ecdh", "kem"} |->
               IF (IF k = "ecdh" THEN c_secret ELSE success)
               THEN "fresh" ELSE "absent"]
okBar    == rc = 0

Exchange == INSTANCE KeyExchange WITH
  phase <- phaseBar, needs <- needsBar, tried <- triedBar,
  share <- shareBar, ok <- okBar

\* The client's pool keeps the promise the engine makes: each share is tried at
\* most once and inside its call, inline or by the worker, nothing is left
\* running when the call returns, and it succeeds exactly with both shares.
ImplementsKeyExchange == Exchange!Spec

\* ... and every call returns, whatever the wakeups and failed starts.
EveryExchangeEnds == Exchange!FairSpec
=============================================================================
