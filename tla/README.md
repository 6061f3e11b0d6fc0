# A TLA+ model of the hybrid post-quantum handshake and its benchmarks

This directory holds TLA+ specifications of the programs in this repository:
the adaptive scheduler for hybrid (classical ECDH + post-quantum KEM) key
exchange under `src/c_dispatch/`, its benchmarks, and the client and server that
run the exchange over TCP; the older implementations in C (`src/c/`) and Python
(`src/*.py`, `src/core`, `src/telemetry`), which speak lines of JSON and share a
cost model; and the BLAKE3 hasher both derive keys with. TLC checks the
specifications on small instances; TLAPS checks the theorems in the `*_proof`
modules for every value of the constants.

Contents: [the system](#the-system), [the modules](#the-modules),
[the runs](#the-runs), [bounds](#bounds-and-why-they-are-enough),
[fairness](#fairness), [proofs](#what-is-proved),
[findings](#where-documentation-and-code-differ),
[what is left out](#what-is-not-modelled), [plan](#plan).

## The system

| Component | Source (under `src/`) | State | Operations | Modules |
|---|---|---|---|---|
| Cipher-suite table | `c_dispatch/include/algo_config.h` | constant: ten suites (profile, curve, KEM) | `get_combo_by_id` | `AlgoConfig` |
| Host profiler | `c_dispatch/src/telemetry.c` | `g_host_profile`, `g_initialized` (singleton, filled once) | `host_profile_init`, `get_host_profile` | `Dispatcher`, `HostRouter` |
| Adaptive router | `c_dispatch/src/dispatcher.c` | none (reads the profile) | `adaptive_dispatch`, `dispatch_execute` | `Dispatcher`, `HostRouter` |
| Execution engine | `c_dispatch/src/engine.c` | `g_pool` (job, secret, flags, mutex, two condition variables), the worker thread, both affinity masks | `engine_init`, `engine_shutdown`, `execute_sequential`, `execute_parallel_optimized`, `verify_affinity` | `EnginePool` |
| Micro-benchmark | `c_dispatch/benchmark_suite.c` | one shared sample buffer, results, counters | `main`, `run_bench`, `compute_stats` | `BenchmarkSuite` |
| Client's worker pool | `c_dispatch/client.c:92-239, 512-583` | `g_client_worker`, a pointer to the caller's frame, exit handlers | `client_worker_init`, `client_worker_shutdown`, posting, joining | `ClientPool` |
| End-to-end benchmark | `c_dispatch/bench_e2e.c` | as the micro-benchmark, over the network | `main`, `run_bench`, `compute_stats` | `E2ESuite` |
| Binary handshake | `c_dispatch/client.c`, `c_dispatch/server.c` | a connection per call, shares, keys; a detached thread per connection | `execute_dispatch_handshake`, `handle_client_binary`, accept loop | `Handshake` |
| JSON handshake | `c/client.c`, `c/server.c`, `c_dispatch/server.c` (fallback), `server.py`, `core/network_client.py` | as above, and a helper thread at either end | `handle_client`, `execute_handshake_with_telemetry`, ... | `JsonHandshake` |
| Cost model | `c/bench_baselines.c`, `c/bench_hybrid.c`, `bench_*.py`, `telemetry/*.py`, `c/src/hw_telemetry.c`, `c/src/metrics.c` | the weights file, sample buffers, performance counters, the report | training, evaluation | `CostPipeline` |
| BLAKE3 hasher | `c/blake3/` | `blake3_hasher` (chunk state, stack of chaining values), cached CPU features | `init*`, `update`, `finalize_seek`, `reset`, the vector back ends | `Blake3`, `Blake3Rounds` |
| Wire helpers, crypto wrapper | `c_dispatch/src/network_utils.c`, `crypto_engine.c` and their ancestors in `c/src/` | none | sends, receives; key generation, derivation, KDFs | by their outcomes, in the two handshakes |
| Level-5 and primitive benchmarks | `c_dispatch/bench_level5*.c`, `bench_prims.c` | loop counters | `main` | - |
| Report generators, cJSON | `generate_*.py`, `c/cjson/` | - | - | - |

How they interact:

* The *engine* has two threads that share one global. The caller ("main") posts
  a KEM job under the mutex, computes its ECDH share meanwhile, waits on
  `done_cond`, and then copies the worker's secret **outside** the mutex; the
  worker writes it outside the mutex too. Only the flags order the two.
* The *client's pool* does the same with a pointer: the worker writes straight
  into the frame of the call that posted the job. It is started by whoever needs
  it first, and every start registers an exit handler that stops it.
* The *router* reads the profiler's singleton and calls the engine. The
  *benchmarks* print the route of a suite once and dispatch the suite many
  times; every dispatch decides again.
* *Client and server* exchange four messages per connection; connections share
  nothing but the server process. Several return codes are not read (export,
  load, derive, encapsulate for pure post-quantum suites, decapsulate, HKDF,
  `pthread_create`, sends), so failures travel silently.
* All servers listen on the same port and all clients connect to it. The
  `c_dispatch` server looks at the first four bytes to tell a binary client from
  one that sends JSON.
* *Training* and *evaluation* of the cost model are separate programs that meet
  in one file, which training rewrites in place and evaluation reads up to three
  times. Either may be the C or the Python one.

What is hard here, with the place where each hazard bites, is the list
`hazards` in `PROJECT.json`. In short: the hand-over of an unprotected buffer,
or of a stack frame, between threads; wake-ups that come early, late or
spuriously; life cycles repeated on one global, at exit too; failures of one of
two overlapped computations; one buffer reused for several measurements; a
handshake in which each side may go on after a failure the other does not know
of; memory read after it was freed; a shared server process one connection can
end; a file read while it is written; a tree built lazily, by back ends of
different width.

What makes each component correct:

* **Engine and client's pool**: a reply is made of this call's shares and says
  so truthfully; no memory is touched by two threads at once, or after its frame
  is gone; nobody sleeps on a condition that holds; every call, every shutdown
  and the exit end; no worker outlives shutdown.
* **Profiler and router**: the printed route is the one taken; more cores never
  demote a suite.
* **Benchmarks**: exported statistics are over their own track, all of it and
  nothing else, and tracks that are compared were measured alike; they end.
* **Handshakes**: both ends of a finished handshake have the same, complete key;
  a hybrid client is never reduced to one share; nobody waits for nothing; one
  client's failure does not end the others' connections; every client gets along
  with every server.
* **Cost model**: a weight is a whole series of runs of its own algorithm; a row
  counts its own runs only; a prediction uses the suite's own algorithms.
* **BLAKE3**: however the message is cut into updates and whatever the
  processor, every stretch of output is that of the tree that defines the hash.

## The modules

```
AlgoConfig ─┬─ Dispatcher ─┬─ HostRouter
            │              ├─ ClientPool ── E2ESuite
            │              └──────┐
            ├─ EnginePool ────────┴── BenchmarkSuite
            ├─ Handshake
            ├─ JsonHandshake
            └─ CostPipeline               Blake3Rounds ── Blake3

EnginePool and ClientPool implement KeyExchange.
Handshake and JsonHandshake implement KeyAgreement.
```

A module's theorems are in `X_proof`, except that those about `EnginePool` are in
`BenchmarkSuite_proof`, next to the program that uses the engine, and those about
`ClientPool` in `E2ESuite_proof`. `Blake3_proof` uses `Blake3Rounds_proof`.

`MC*` modules give the constants of the runs their values. Each module with
state has one type invariant, which is a conjunct of the invariant its run checks
(`IInv`, `JsonInv`, `PipelineInv`, `StackIsBinary`) or, for the small state of the
drivers and of the router, part of the invariant of the proof module.

**`AlgoConfig`**: the ten rows of the table; `Consistent` is the relation
between profile, curve and KEM that the rows have and that the engine's early
tests rely on.

**`KeyExchange`** is the abstract specification: what any caller of the engine,
or of the client's pool, is promised. A call needs one or two shares; each is
attempted at most once and only inside its call; the call ends when all are
attempted or one has failed; it succeeds exactly when all were obtained, by this
call.

**`KeyAgreement`** is the other abstract specification: what the two ends of a
handshake are promised, whatever messages they exchange. Per exchange, each end
makes one key, at most once, and keeps it; where the key has a share that the
client chooses (the KEM's), the server has none before the client; and the client
is told that the exchange is finished only when both have the key that is due. `sound`
says that nothing has spoiled a key and `told` that every message was sent: from
the moment one is false, what it guards is owed no more, but a key is still made
only once. `Agreement` is what follows for every state.

**`EnginePool`** is `engine.c`. `pc` and `wpc` are the program counters of main
and worker; `mutex`, the flags, the job and its outcome are the fields of
`g_pool`. A critical section is two steps (take the mutex; run the body and
release), a wait is a state that a signal or a spurious wakeup leaves towards
taking the mutex again. Code outside the mutex is cut where the other thread
could see the difference: `KemReset` and `KemRun` are separate because
`perform_kem_operation` clears the outcome first. A secret is identified by the
job it was computed for, so a left-over secret differs from a new one although
both are 32 bytes. Pinning is a change of `main_mask` or `worker_mask` that may
fail. `engine_init` may fail in `pthread_create`; its `usleep` orders nothing.
Calling `engine_init` when up and `engine_shutdown` when down change nothing and
are stutters. `Exchange` at the end is the refinement mapping to `KeyExchange`:
a call is busy while `pc` is inside it, and the worker's share counts as
attempted once `perform_kem_operation` has returned.

**`ClientPool`** is the pool in `client.c`, cut in the same way. A frame is named
by the number of its call; `args` is the pointer in the shared structure and
`wargs` the worker's copy. The pool is started explicitly (`client_worker_init`)
or by the first parallel call, which falls back to computing inline when there is
no thread; each start that succeeds counts in `handlers`, and `exit` runs the
handlers one by one. The mutex is "dead" where it is not initialised. It
implements `KeyExchange` with the frame's two flags as the shares.

**`Dispatcher`** has the profiler's decision (`detect_hypervisor`, `ProfileOf`)
and the router's rules (`adaptive_dispatch`) as operators.

**`HostRouter`** puts them into a process: the singleton, printing and
dispatching, and a host whose processors come and go (`Hotplug`, external).

**`BenchmarkSuite`** extends `EnginePool` and `Dispatcher` and adds the driver:
the engine's own steps are taken unchanged, the driver only decides which call
comes next. `samples` is the buffer all tracks share: a failed track leaves
part of its samples there, a finished one leaves it sorted by latency, that is,
in an arbitrary order (`compute_stats` sorts in place).

**`E2ESuite`** extends `ClientPool` in the same way with `bench_e2e.c`, which
starts the pool without looking at the outcome, takes the number of runs from the
command line, and does not pin itself before it measures. A handshake may fail
before its shares are computed or because one of them is missing; what happens
after them changes no return code of the client for hybrid suites.

**`Handshake`** is the client and the server of the binary protocol. Per
connection: where the client is (`cpc`), where its handler is (`spc`), the FIFO
each way, the two socket ends and whether the server's end was reset. Every
library call that may fail is a member of `Faults`; `CheckedFaults` are noticed
by the code, `SilentFaults` are those whose result it does not read. `Shares`
is what ends up in the key for each half: nothing, zero bytes, the exchanged
secret, a KEM's rejection secret, or uninitialised bytes. A client may be killed
at any point. `HandlerWrite` is TCP after a close: a first write is lost and
answered with a reset, a second one fails or raises `SIGPIPE`, which no code
handles and which therefore ends the server. Both shares of the client are one
step here; that they are either both attempted by this call or the call fails is
what `ClientPool` implements. `Agreed` is the refinement mapping to
`KeyAgreement`: an exchange is a client's connection, the key due has every share
of the suite it asked for, and `sound` is that no fault of `KeyFaults` is among
those that may happen. `told` is always true: the one message that may stay
unsent, the ciphertext for which there is no memory, leaves nothing to misread.

**`JsonHandshake`** is one connection between any of the clients ("c", "python",
and "binary" up to its first message) and any of the servers ("c", "dispatch",
"python"). Where the programs differ, each has an operator of its own
(`SelectC`, `SelectDispatch`, `SelectPython`, ...) under a common action.
`failed` records which calls failed, so that a property can say what a failure
excuses; `Fine` and `Bad` pair what a computation yields with what it blames. The
two helper threads (`EncapsThread` in `c/client.c`, `KeygenThread` in
`c/server.c`) are processes of their own. What is read from freed memory is any
value of its type: the salt in both C servers, the name of the KDF in
`c/server.c`. In its mapping to `KeyAgreement`, `sound` and `told` are read from
`failed`, and `Seen` puts the due KDF and salt in place of what a server took from
freed memory, which is all it hides. `told` is needed: nobody looks at the type of
a line, so when the server's `KeyMaterial` is not sent, the C client of a classical
suite takes `ServerFinished` for it and makes a key without a share; TLC refutes the
mapping without `told`. Such a client never reads `ServerFinished` as what it is
(`finished`), although it returns 0 like any C client whose server closes there.

**`CostPipeline`** is training and evaluation, one after the other or at once.
`file` is the weights file ("absent", "torn" between `fopen` and `fclose`, or
"written"), `b` and `h` are the two programs and `report` what was exported. A
sample is known by suite, KDF, run and program start; a mean is the set of samples
it is taken over; a performance counter has a descriptor ("open", "failed", or
"zero" where there is none) and the set of handshakes it counted. A row has two
means: the one in the table (`emp`, warm runs only) and the one its prediction is
evaluated against (`all`), which is the same in C and, in `bench_hybrid.py:82`, that
of `calculate_summary_stats` over all runs.

**`Blake3`** is the hasher. A compression is named by its inputs, so that equal
values mean equal computations for every message; byte `i` of an input is the
number `i`, and the flags tell a context from the message that follows it. A back end's
instructions fault (`Executed`) unless the processor has them and its operating
system has switched their registers on (`Needs`), so that a back end chosen wrongly
gives a hash that is not the tree's. The
reference is `RefNode`, the tree of the BLAKE3 paper by its definition over the
whole message. Recursion (the tree, the wide subtrees, the loops over subtrees
and stack entries) is written as recursive functions, so that it can be proved
about as well as evaluated, and `Blake3Assumption` admits the numbers of the
code: `BLOCK_LEN` 64, `CHUNK_LEN` 1024, `Word` 2^32, `MAX_DEPTH` 54. The five
ways to hash many inputs are those of the portable, SSE2, SSE4.1, AVX2 and
AVX-512 back ends with their own counters and lanes. **`Blake3Rounds`** has the
seven rounds, once a word at a time and once as the vector back ends permute
them, and the transpositions of messages and outputs; a lane is a position in a
sequence.

Operators named `X_Y`, where `X` is an operator of the code, are plausible
mistakes in `X`. No specification uses them; `PROJECT.json` pairs each with the
property that notices it.

## The runs

States are distinct states; each run takes seconds to about a minute.

| Run | States | What it asks and shows |
|---|---|---|
| `engine_pool` | 148,809 | Any three calls of any suite kind by either strategy, with restarts, spurious wakeups, failing pinning, failing crypto and failing thread creation. `ReplyIsFresh`, `NoOutcomeRace`; the inductive invariant `IInv` (no lost wakeup, no orphan worker); the engine implements `KeyExchange`; with fair scheduling every call returns (`EveryExchangeEnds`, the fair abstract specification) and every shutdown joins its worker (`ShutdownReturns`). |
| `client_pool` | 22,078 | Three calls by either route, two starts, explicit or lazy, failing or not, shut down by hand, at exit or twice. `FrameIsLive`: the worker writes only to the frame of the call that waits for it; `PoolOutlivesUse`: nobody uses a destroyed pool and no worker is left running; `IInv`, `ImplementsKeyExchange`, `EveryExchangeEnds`, `ExitEnds`. |
| `e2e_suite` | 2,147,405 | The network benchmark over two suites, with two, no or a negative number of runs, any of which may fail: `RowsAreWholeTracks`, `TracksAreUniform`, and `MaskOnlyNarrows`: the masks tracks are measured under go from all cores to core 0 and never back. |
| `host_router` | 7,848 | For all hosts, with core counts on both sides of each threshold and `sysconf`'s -1 and 0: `AnnouncedRouteIsTaken`; `MoreCoresKeepParallel`: the same host, profiled again with more cores, keeps what it ran in parallel, and a count below one is one core. |
| `suite` | 215,427 | The micro-benchmark over one suite, three tracks of three iterations and a warm-up, any call of which may fail: `ResultsAreOwnTracks`, `TracksAreComparable`, `PinnedApart` (the overlapped computations are on different cores), and it always ends (`SuiteEnds`), through the engine's shutdown. |
| `handshake` | 69,088 | Two clients, any suite kind, either KDF, every failure that does not silently change a key, and clients dying anywhere: the handshake implements `KeyAgreement` (`ImplementsKeyAgreement`; `KeysAgree` follows, by the theorem `AgreementSuffices`), and under fair scheduling `EveryHandshakeEnds`. |
| `handshake_faults` | 658,000 | The same with every failure: `NoClientDowngrade`, `WaiterIsServed`, `OnlyClassicalDeathsKill`, and the inductive invariant `IInv`. |
| `json` | 32,111 | Every client against every server, up to three failures of any kind, and a client that dies anywhere: `EveryPairInteroperates` (without failures all finish), `ImplementsKeyAgreement` (hence `KeysAgree`), `NoClientDowngrade`, `ServerSurvives` (what can take a server down), `JsonInv` (helper threads end before the frames they use), `EveryHandshakeEnds`. |
| `pipeline` | 2,605,439 | Two trainings and an evaluation, each in C or Python, at the same time, with aborted profiles, kills, unwritable files and missing counters: `WeightsAreWholeProfiles`, `RowsAreOwnRuns`, `PredictionsAreTrained` (of the suite's own algorithms, of one training, and of every weight the file has for them), `PipelineInv` (no counter is left open for the next track). |
| `blake3` | 10,248 | Messages of up to 64 chunks, cut in any order into updates of nine lengths, hashed, keyed or as a derived key, on six kinds of processor: `StackIsBinary`, `HashIsTree` (with the mode's key, also after a reset, and without a fault), `BackEndsAgree`. |
| `suite_doc`, `json_doc_kdf` | - | Statements of the documentation that the code does not meet; see [findings](#where-documentation-and-code-differ). |

Deadlock is checked for the engine, the pool, the router and the benchmarks
(whose exit is an explicit stuttering step). It is not checked for the other
four: a model of a fixed number of handshakes, program starts or bytes stops
when all have ended, and a pair that waits for each other for ever is a real
outcome of two failures, which `WaiterIsServed` and `EveryHandshakeEnds` name
(`thread`: the unread result of `pthread_create`; `ct_packet`: no memory for the
ciphertext's packet; `send`: a message that was not sent).

### Bounds and why they are enough

* `MaxCalls` caps the number of calls of the engine and of the client's pool.
  Their state after a call depends on the call only through what stays in the
  pool, so the interesting histories are pairs of calls: one that leaves
  something behind and one that could pick it up; the third allows a shutdown,
  re-initialisation or sequential call in between. `MaxInits` = 2 gives the
  client's pool a second life, with two exit handlers. The proofs have no bound.
* One suite per profile reaches every branch of engine and handshakes, which
  test the profile, the curve and the KEM against "none" and otherwise hand the
  names to the library. The router, which looks at names, gets the lightweight
  suite as well, and its theorem covers every row.
* `MCCoreCounts` = {-1, 0, 1, 2, 3, 8}: an error of `sysconf`, a count of none, both
  sides of the thresholds 1 and 2 of the code, and the 8 of the documentation.
* Micro-benchmark: one suite and three iterations are enough for a track to be
  abandoned in the middle and for another to reuse the buffer; 3 tracks x 3
  iterations + 1 warm-up and the probe stay below `MaxCalls` = 14, which cuts
  nothing off. Any number of suites and iterations is proved.
* End-to-end benchmark: two suites, one of which may be routed in parallel, and
  0, 2 or -1 runs (2 suites x 3 tracks x 2 runs = `MaxCalls` 12). Four cores make
  the router use both routes.
* Two clients in `Handshake`: connections share only the server process, which
  one client can end for the other. A third adds no new kind of interaction.
  One connection in `JsonHandshake`, where the hazards are between two programs;
  `MaxFailures` = 3 lets each side and one helper thread fail at once.
* Cost model: two trainings so that a file can change between two readings; a
  baseline for a curve and one for a KEM; runs of -1, 0, 1 and 3 on both sides of
  the tests for "at most one" and "at least two". The proofs have no bound.
* BLAKE3: `BLOCK_LEN` 2 and `CHUNK_LEN` 8 keep four blocks to a chunk (16 in the
  code), so that a chunk has a first, a last and middle blocks; `MaxTotal` = 512 is
  64 chunks = 2^`MAX_DEPTH`, so that the stack is filled to its limit and AVX-512
  hashes 16 chunks at once; half of a counter wraps at `Word` = 32 instead of
  2^32. Output counters, which start anywhere, cross the wrap inside a vector;
  chunk counters cross it from one vector to the next only, since a subtree is
  aligned to its size, which is a multiple of any vector's width or fits in one.
  The six processors are one that is no x86, one with SSE2 only, one whose `cpuid`
  ends before it reports AVX2, one with AVX-512 whose operating system does not
  save the wide registers, one with AVX-512F but not VL, and one with everything.

### Fairness

* Engine and client's pool: weak fairness on the steps of main inside a call and
  on those of the worker: both are runnable threads and every library call
  returns. Strong fairness on taking the mutex: the sections are a few
  assignments long, so a thread that asks again and again gets it; weak fairness
  would not do, as spurious wakeups may take the mutex in between without end.
  Nothing is assumed of callers (they need never call again, or shut down),
  except that a process in `exit` runs its handlers, and a spurious wakeup need
  never happen.
* Benchmark: the driver is the main thread, hence weakly fair; the engine as
  above.
* Handshakes: weak fairness on each client, on the server's work for each
  connection, and on the helper threads of the JSON programs. No fairness on
  `Kill`, and none on any particular failure or on success: a step that may fail
  is free to.

## What is proved

All theorems hold for every value of the constants that satisfies the named
assumptions (`EngineAssumption`, `PoolAssumption`, `RouterAssumption`,
`SuiteAssumption`, `E2EAssumption`, `HandshakeAssumption`, `JsonAssumption`,
`PipelineAssumption`, `Blake3Assumption`): sets of suites whose rows are consistent, any number of
calls, processors, iterations, clients, trainings, any set of failures, and messages,
chunks, blocks and stacks of any size that fit together.
`PipelineAssumption` names the KEMs a hybrid suite may have, the two whose keys the
evaluation knows (`KnownKeys`), since a weight for another would be passed over.

**Engine** (`BenchmarkSuite_proof`, first half). `ReplyIsFresh` is not inductive: that the
copied secret is this call's follows from who may write the pool when. `IInv`
therefore says: the mutex is held exactly inside the critical sections
(`MutexInv`); the worker lives from create to join and `shutdown` is up only
while main joins it (`LifeInv`); a job is pending from `Post` to `WorkerDone`
inside the call it is for (`JobInv`); a length hides every secret but the
current job's (`SecretInv`); what main knows about its own shares at each point
(`ReplyInv`); and no lost wakeup. The proof has one lemma per action, split by
conjunct where the action disturbs several. Theorems: `Invariance`, `TypeCorrect`,
`FreshReplies`, `RaceFree`, `WakeupsNotLost`, `LifeCycle`, `OverlapIsApart`, and
`Refinement`: the engine implements `KeyExchange` step by step.

**Client's pool** (`E2ESuite_proof`, first half). The invariant has the same parts; `JobInv`
ties the worker's copy of the pointer to the call that is waiting, and `LifeInv`
counts an exit handler for every life that has not been shut down. Theorems:
`Invariance`, `NoDanglingFrame`, `WakeupsNotLost`, `LifeCycle`, `Refinement`.

**Router** (`HostRouter_proof`). The rules are monotone in the number of cores
(`RoutingIsMonotone`), hence `MoreCoresNeverDemote`, which needs in addition that a
profile taken has at least one core (`ProfileInv`); `RouteIsStable` rests on the profile being written only while it is not initialised.

**Benchmarks** (the second halves of `BenchmarkSuite_proof` and `E2ESuite_proof`). `SuiteUsesEngine` and
`SuiteUsesPool` show that every step of the programs is a step of the engine, or
of the pool, or leaves it alone, so their theorems hold inside
(`MeasuredRepliesAreFresh`, `OverlapIsMeasuredApart`, `BenchmarkIsSafe`).
`ExportedTracksAreOwn` and `RowsAreOwn` need that the first `it` samples of the
buffer belong to the track under way and that the results recorded so far come
strictly before it; what else is in the buffer, in whatever order sorting left
it, does not matter. `TracksCompare` adds that main is on core 0 from the probe
on; `MasksNarrow` and `TracksUniform` that in the other program this is so only
from the first parallel call on, and what a call leaves behind (`UniformInv`).

**Binary handshake** (`Handshake_proof`). `IInv` is a conjunction over
connections of `SocketInv` (sockets are open as long as their owners use them),
`RequestInv` and `ReplyInv` (what may be in flight each way, given where the two
ends are) and `KeyInv` (which shares and keys each end has), with
`OnlyClassicalDeathsKill` and `TypeOK`. Its proof uses that a step of one
connection leaves the others as they were (`OthersSame`), so each action needs
one lemma about its own connection; `SigPipe`, which touches all of them, has
its own. Theorems: `KeyAgreement`, `NobodyWaitsInVain`, `ServerSurvives`,
`NoDowngrade`.

`AgreementRefined` is the refinement of `KeyAgreement`. That both keys are right is
in `IInv`; that each is made once, and in which order, is not, and `MadeInv` adds
it: a client with a key waits for `ServerFinished` or is past it, a server with a
key has closed, and a handler that has a ciphertext, or has one coming, has a
client with a key. Three actions make or use a key (`ComputeShares`,
`SendFinished`, `ReadServerFinished`) and are the three abstract steps; all others
leave the keys alone (`QuietStep`). `AgreementSuffices` closes the circle without
the handshake: any behaviour that implements `KeyAgreement` under this mapping has
`KeysAgree`, so nothing is lost where a run checks only the refinement.

**JSON handshake** (`JsonHandshake_proof`). `IInv` says what may be in flight each
way for each pair of positions (`RequestInv`, `ReplyInv`), what each end has made
of it (`HandlerInv`, `ClientInv`), and where the helper threads may run
(`ThreadInv`). What it says of shares and keys is conditional on `Clean`, that
no failure has touched a key; that can only become false, so that a failing step
owes nothing. On top of it, `ServeInv` says when a socket is open or was reset:
before `ServerFinished` only a client of a classical suite can be gone with
something unread, so only then a handler writes to a reset socket, and a key
generation thread is missing only if it could not be started. `InteropInv` says,
for a connection on which nothing has failed, exactly what has been said so far
(`TalkInv`), so that each end finds in each line what it looks for. `TypeInv` has
both directions as sequences over the messages that exist. The refinement of
`KeyAgreement` (`AgreementRefined`) uses the three together, and a `MadeInv` like that
of the binary handshake, with one part more: as long as every message was sent, a
client that waits for the server's keys has not been answered by
`ServerFinished` alone (`SocketInv` shows that the line with the keys did go out,
to an open socket). `AgreementSuffices` is proved here, too. Theorems:
`KeyAgreement`, `AgreementRefined`, `AgreementSuffices`, `NoDowngrade`,
`ServerLives` (`ServerSurvives`), `Interoperability`
(`EveryPairInteroperates`), `JsonHandshakeIsTyped` (`JsonInv`).

**Cost model** (`CostPipeline_proof`). `IInv` has a part for training (`BaseInv`:
the first `ok` slots of the buffer are the profile under way, and the weights so
far are whole profiles), for the file (`FileInv`: what is written is of a start
that is over), and for evaluation (`HybridInv`: the same of its buffer, what the
counters have seen, and that finished rows are good; `ModelInv`: what was loaded
was once in the file). `Loaded` and `RowsKept` say more: what was loaded, and what a
row was predicted from, is all of the file for as long as it is the file of that
start, which a start that is over no longer changes. `RegisterIsLoad` shows that registering weights by label
and loading them by key come to the same. Theorems: `PipelineIsTyped`,
`WeightsAreWhole`, `RowsAreOwn`, `PredictionsTrained`.

**BLAKE3** (`Blake3_proof`, `Blake3Rounds_proof`). Neither `StackIsBinary` nor
`HashIsTree` is inductive: that the stack *becomes* binary when it is merged says
nothing of what is still unmerged, and equal output says nothing of the state.
`Blake3Inv` says what the hasher is (`Hashing`): its chunk is exactly the bytes
after the chunks that are done (`ChunkAt`), and its stack is the list of complete
subtrees by the binary digits of the number of chunks done (`Complete`) if a chunk
has been begun. If none has, the stack is empty or the last subtree pushed is not
the message's first (`Paired`), and merging may be one push behind: the code waits,
because the two topmost values may be the children of the root. The argument goes
up the layers of the code, each stated once and used above:

1. Every recursive definition exists: a function whose value rests on smaller
   arguments is determined (`RecursionExists`), which holds for the powers of two,
   the digits, the tree, the wide subtrees, and the loops.
2. However a stretch is cut, `chunk_state_update` leaves the same chunk state, and
   its output is `RefChunk`.
3. In a batch of any width, lane `i` has counter `counter + i` in halves, whichever
   way the back end carries, and `blake3_hash_many` yields for each input what
   hashing it alone yields; so nodes hashed side by side are nodes of the tree.
4. A wide subtree is its nodes at some level: the left half has as many values as
   the room left for it, so that `Side` reads no garbage, and at most sixteen are
   left for `compress_subtree_to_parent_node`, which three halvings bring to two.
5. Merging to the number of one digits, after any push the code makes, gives
   `Complete`; this is where `counter % size = 0` of the loop over subtrees is needed.
6. The loop, the chunk before it and the chunk after it keep `Hashing`; hence
   `InvNext`, and `Blake3Stack` (`StackIsBinary`, with room for `MAX_DEPTH + 1`
   values).
7. Rolling up the stack gives `RefNode(0, total)` both with a chunk begun and
   without; the three pieces of `output_root_bytes` join without a gap at any
   seek. That is `Blake3Hash` (`HashIsTree`).

`Blake3BackEnds` (`BackEndsAgree`) rests on the shape of the state: if the rows
hold the portable state at one round, they do at the next (`Blake3Rounds_proof`),
and the transpositions of 4, 8 and 16 vectors put word `w` of input `i` in its
place. A part of `HashIsTree`, `KeyIsModes`, is a theorem of its own, `Blake3Keys`:
key and flags of the mode survive updates and resets, and a derived key is what
steps 6 and 7 say of the context's hash.

**Only model-checked.** Liveness (`EveryExchangeEnds`, `ShutdownReturns`,
`ExitEnds`, `SuiteEnds`, `EveryHandshakeEnds`): fairness and ENABLED are out of
the prover's reach. All safety and action properties of the runs are proved. The
library's induction theorems take an operator as a parameter and cannot be used;
the proofs go by induction over sets of numbers instead (`Induction` and
`StrongInduction`, from the minimum principle of `WellFoundedInduction`), and the
module proved about declares no RECURSIVE operator.

## Where documentation and code differ

| Run | Documentation | Code |
|---|---|---|
| `suite_doc` | `README.md:71`: statistics omit cold-start iteration 0 | iteration 0 is a sample like the others |
| `json_doc_kdf` | `c/server.c:3` and `:7`: the same protocol as `server.py`, with SHA-256 and BLAKE3 | which KDF runs is decided by `strcmp` on a string that `cJSON_Delete` freed (`c/server.c:107`, used at `:364`): without any failure the keys may differ |

Smaller differences that the models show and that have no run of their own:

* `dispatcher.h:12` says that bare metal with 8 cores or more runs all hybrids in
  parallel; the X25519 + ML-KEM-768 suite is always sequential (`dispatcher.c:73`).
* `client.c:10` (`c_dispatch`): timing ends after `ServerFinished`; a connection
  the server closed before it counts, too.
* `client.c:244`: "-1 on error"; a failed derivation gives a key from zero bytes
  and a positive time.
* `server.c:21` (`c_dispatch`): "parallel" forces the parallel engine; the server
  computes on the handler's thread whatever was asked.
* `DEFENSE_REPORT.md:136` says that the profiler looks at the vendor and checks the
  hypervisor bit; `detect_hypervisor` (`telemetry.c:58`) reads the bit only when
  the vendor file cannot be opened.
* `c/bench_baselines.c:3` says it mirrors `bench_baselines.py` exactly; the jitter
  that Python prints includes the cold start (`metrics_collector.py:10`), that of
  the C program does not (`:89`).
* Both C servers decode the salt after `cJSON_Delete` freed it (`c/server.c:120`,
  `c_dispatch/server.c:388`, although `:364` there copies the name of the KDF), and
  `c_dispatch/server.c:6` says that it is compatible with `c/server.c`.
  `KeysAlwaysAgree` is about this, too: the trace of `json_doc_kdf` is the shorter
  one through the KDF, and with `ServerKinds = {"dispatch"}` in its cfg TLC ends a
  handshake with another salt on the server.

## What is not modelled

* The level-5 and primitive benchmarks: single loops over engine or library
  calls that read no return code and whose buffers nothing else uses. What the
  calls may do, and in which order, is what `EnginePool` lets any caller do.
* Report generators and the visualizer: formatting of exported results.
* cJSON: a third-party parser; `JsonHandshake` has what its callers do with what
  it returns, the lifetime of its strings included.
* The arithmetic of statistics and predictions, time, text and JSON output: no
  property is about them. Means are the sets they are taken over.
* Key material and the strength of the algorithms: what matters here is which
  exchange a secret comes from.
* Segmentation of TCP: `send_all`, `recv_all` and the line readers loop until a
  message is complete, and only end of file or an error stops them. The one place
  where it shows, peeking at the first four bytes, is a failure (`peek`).
* The word arithmetic of BLAKE3, and the assembly files, which no build rule of
  the repository names.
* BLAKE3's NEON back end (`blake3_dispatch.c:291`, `:328`): neither Makefile builds
  it, and on AArch64, where `blake3_impl.h:61-72` turns it on, there is nothing to
  link. A processor that is not x86 stands for one that uses the portable code.
* Results arrays that cannot be allocated: `benchmark_suite.c:304` and
  `bench_e2e.c:246` do not look at what `calloc` returns, and the program ends at its
  first result. It loses its own measurements and nothing else.
* The race on `g_cpu_features`: every thread that finds it unset computes and
  stores the same value.

## Plan

Done, in this order: `AlgoConfig`, `KeyExchange`, `EnginePool`, `Dispatcher`,
`HostRouter`, `BenchmarkSuite`, `Handshake`, `ClientPool`, `E2ESuite`,
`JsonHandshake`, `CostPipeline`, `Blake3`, and the proofs of all of them.

Then `KeyAgreement`, and that both handshakes implement it.

Left: the loops of the level-5 benchmarks, whose unread return codes no property is
about. Two more hazards have none because the code is exposed to them as it
stands, and nothing in the repository says otherwise: a `ServerFinished` that
announces success after a failed decapsulation (`c_dispatch/server.c:269`), and a
peek that sees less than the header (`:344`). Both failures are in the models
(`decaps`, `peek`); the properties that hold beside them excuse them by name.
