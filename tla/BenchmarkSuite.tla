--------------------------- MODULE BenchmarkSuite ---------------------------
(***************************************************************************)
(* benchmark_suite.c: the program that puts profiler, router and engine    *)
(* together.  It profiles the host, starts the engine, and measures every  *)
(* hybrid suite on three tracks -- always sequential, always parallel, as  *)
(* routed -- into one sample buffer that all tracks share.                 *)
(*                                                                         *)
(* The engine is EnginePool, step for step; this module only decides which *)
(* call comes next.  A sample is what identifies the measurement: suite,   *)
(* mode, iteration and the mask the measured thread ran under.             *)
(***************************************************************************)
EXTENDS EnginePool, Dispatcher, Sequences

CONSTANTS Hybrids,         \* the hybrid rows of the table, in table order
          NUM_ITERATIONS,
          Warmups          \* parallel calls before the live affinity probe

ASSUME SuiteAssumption ==
  /\ Hybrids \in Seq(Combos)
  /\ NUM_ITERATIONS \in Nat \ {0}
  /\ Warmups \in Nat

VARIABLES bpc,             \* where main() is
          g_host_profile,
          ci, mi, it,      \* suite, mode and iteration (or warm-up) counters
          adaptive_route,  \* the route printed for this suite
          samples, results

tallies   == <<samples, results>>
counters  == <<ci, mi, it>>
suiteVars == <<bpc, g_host_profile, counters, adaptive_route, tallies>>
allVars   == <<vars, suiteVars>>

Modes == <<"Strict_Sequential", "Strict_Parallel", "Adaptive_Switch">>
Iterations == 1..NUM_ITERATIONS
Garbage == [suite |-> 0, mode |-> 0, iter |-> 0, mask |-> "all"]
Sample  == [suite : 1..Len(Hybrids), mode : 1..3, iter : Iterations, mask : Masks]
Result  == [suite : 1..Len(Hybrids), mode : 1..3,
            from : SUBSET (Sample \cup {Garbage})]

SuiteInit ==
  /\ Init
  /\ bpc = "boot" /\ g_host_profile = ZeroProfile
  /\ ci = 0 /\ mi = 1 /\ it = 0
  /\ adaptive_route = "SEQUENTIAL"
  /\ samples = [i \in Iterations |-> Garbage] /\ results = <<>>

Suite == Hybrids[ci]

----------------------------------------------------------------------------
(* main() up to the first suite *)

Boot ==
  /\ bpc = "boot"
  /\ \E d \in DmiFiles, f \in CpuinfoFiles :
       g_host_profile' = ProfileOf(d, f, NCpus)
  /\ bpc' = "init"
  /\ UNCHANGED <<vars, counters, adaptive_route, tallies>>

StartEngine ==
  /\ bpc = "init"
  /\ \/ engine_init /\ bpc' = "probe"
     \/ EngineInitFails /\ bpc' = "fatal"
  /\ UNCHANGED <<g_host_profile, counters, adaptive_route, tallies>>

\* Defect: the affinity is not verified at boot.
BootProbe_Skipped ==
  /\ bpc = "probe" /\ pc = "idle" /\ g_engine_initialized
  /\ bpc' = "alloc"
  /\ UNCHANGED <<vars, g_host_profile, counters, adaptive_route, tallies>>

BootProbe ==
  /\ bpc = "probe"
  /\ verify_affinity
  /\ bpc' = "alloc"
  /\ UNCHANGED <<g_host_profile, counters, adaptive_route, tallies>>

\* malloc of the sample buffer; without it main() returns at once.
Allocate ==
  /\ bpc = "alloc"
  /\ bpc' \in {"suite", "fatal"}
  /\ UNCHANGED <<vars, g_host_profile, counters, adaptive_route, tallies>>

----------------------------------------------------------------------------
(* The calls *)

Parallel(c) == IF g_engine_initialized
               THEN execute_parallel_optimized(c, "SERVER")
               ELSE pc = "idle" /\ ParallelRefused

dispatch_execute(c) ==
  IF adaptive_dispatch(g_host_profile, c) = "PARALLEL"
  THEN Parallel(c) ELSE execute_sequential(c, "SERVER")

NextSuite ==
  /\ bpc = "suite" /\ pc = "idle" /\ ci < Len(Hybrids)
  /\ ci' = ci + 1 /\ mi' = 1 /\ it' = 0
  /\ adaptive_route' = adaptive_dispatch(g_host_profile, Hybrids[ci + 1])
  /\ bpc' = "call"
  /\ UNCHANGED <<vars, g_host_profile, tallies>>

\* One iteration of run_bench().
Call ==
  /\ bpc = "call"
  /\ \/ Modes[mi] = "Strict_Sequential" /\ execute_sequential(Suite, "SERVER")
     \/ Modes[mi] = "Strict_Parallel"   /\ Parallel(Suite)
     \/ Modes[mi] = "Adaptive_Switch"   /\ dispatch_execute(Suite)
  /\ bpc' = "ret"
  /\ UNCHANGED <<g_host_profile, counters, adaptive_route, tallies>>

NextTrack ==
  IF mi < 3 THEN mi' = mi + 1 /\ bpc' = "call" ELSE mi' = mi /\ bpc' = "verify"

\* Defect: a failed track is recorded like any other.
TrackFailed_Recorded ==
  /\ bpc = "ret" /\ pc = "idle" /\ rc # 0
  /\ results' = Append(results, [suite |-> ci, mode |-> mi,
                                 from |-> {samples[i] : i \in Iterations}])
  /\ it' = 0 /\ NextTrack
  /\ UNCHANGED <<vars, g_host_profile, ci, adaptive_route, samples>>

\* A failed call abandons its track: what it measured so far stays in the
\* buffer and no result is recorded.
TrackFailed ==
  /\ bpc = "ret" /\ pc = "idle" /\ rc # 0
  /\ it' = 0 /\ NextTrack
  /\ UNCHANGED <<vars, g_host_profile, ci, adaptive_route, tallies>>

\* The buffer with the sample of the call that just returned.
Measured == [samples EXCEPT ![it + 1] =
               [suite |-> ci, mode |-> mi, iter |-> it + 1, mask |-> main_mask]]

\* qsort(): the buffer in the order of its latencies, whichever that is.
Sorted(s) ==
  {[i \in Iterations |-> s[p[i]]] :
     p \in {q \in [Iterations -> Iterations] :
              \A i, j \in Iterations : i # j => q[i] # q[j]}}

\* A call that worked is a sample; the last one completes the track, whose
\* statistics are computed over the whole buffer, sorting it.
CallMeasured ==
  /\ bpc = "ret" /\ pc = "idle" /\ rc = 0
  /\ IF it + 1 < NUM_ITERATIONS
     THEN /\ samples' = Measured
          /\ it' = it + 1 /\ bpc' = "call" /\ UNCHANGED <<mi, results>>
     ELSE /\ samples' \in Sorted(Measured)
          /\ results' = Append(results, [suite |-> ci, mode |-> mi,
                                         from |-> {Measured[i] : i \in Iterations}])
          /\ it' = 0 /\ NextTrack
  /\ UNCHANGED <<vars, g_host_profile, ci, adaptive_route>>

----------------------------------------------------------------------------
(* run_affinity_verification() and the end of main() *)

Warmup ==
  /\ bpc = "verify" /\ it < Warmups
  /\ Parallel(Suite)
  /\ it' = it + 1
  /\ UNCHANGED <<bpc, g_host_profile, ci, mi, adaptive_route, tallies>>

LiveProbe ==
  /\ bpc = "verify" /\ it = Warmups
  /\ verify_affinity
  /\ bpc' = "suite"
  /\ UNCHANGED <<g_host_profile, counters, adaptive_route, tallies>>

StopEngine ==
  /\ bpc = "suite" /\ ci = Len(Hybrids)
  /\ engine_shutdown
  /\ bpc' = "stop"
  /\ UNCHANGED <<g_host_profile, counters, adaptive_route, tallies>>

Exit ==
  /\ bpc = "stop" /\ pc = "idle"
  /\ bpc' = "done"
  /\ UNCHANGED <<vars, g_host_profile, counters, adaptive_route, tallies>>

----------------------------------------------------------------------------
DriverStep ==
  \/ Boot \/ StartEngine \/ BootProbe \/ Allocate
  \/ NextSuite \/ Call \/ TrackFailed \/ CallMeasured
  \/ Warmup \/ LiveProbe \/ StopEngine \/ Exit

\* The engine's threads go on until the process exits.
EngineStep ==
  /\ bpc \notin {"done", "fatal"}
  /\ MainStep \/ WorkerStep \/ JoinSpurious \/ WorkerSpurious
  /\ UNCHANGED suiteVars

Exited == bpc \in {"done", "fatal"} /\ UNCHANGED allVars

SuiteNext == DriverStep \/ EngineStep \/ Exited

SuiteSpec == SuiteInit /\ [][SuiteNext]_allVars

\* main() goes on once a call returned; the engine is as fair as ever.
SuiteFairness ==
  /\ WF_allVars(DriverStep)
  /\ WF_allVars(EngineStep /\ MainStep) /\ WF_allVars(EngineStep /\ WorkerStep)
  /\ SF_allVars(EngineStep /\ PostLock) /\ SF_allVars(EngineStep /\ JoinLock)
  /\ SF_allVars(EngineStep /\ StopLock)
  /\ SF_allVars(EngineStep /\ CheckLock) /\ SF_allVars(EngineStep /\ DoneLock)

SuiteFairSpec == SuiteSpec /\ SuiteFairness

----------------------------------------------------------------------------
(* Properties *)

\* The statistics exported for a suite and mode are over all the iterations of
\* that track and of no other: nothing a previous or an abandoned track left in
\* the shared buffer is counted, and no track is exported twice.
ResultsAreOwnTracks ==
  /\ \A k \in DOMAIN results :
       /\ \A s \in results[k].from :
            s.suite = results[k].suite /\ s.mode = results[k].mode
       /\ {s.iter : s \in results[k].from} = Iterations
  /\ \A k, l \in DOMAIN results :
       k < l => <<results[k].suite, results[k].mode>>
                  # <<results[l].suite, results[l].mode>>

\* All exported tracks were measured on the same core, so that they may be
\* compared: the boot-time probe pins main before the first sample, and a
\* parallel call pins it to the same core.
TracksAreComparable ==
  NCpus >= 2 /\ ~PinFails =>
    \A k \in DOMAIN results : \A s \in results[k].from : s.mask = "core0"

\* The program ends, shutdown included, whatever calls fail.
SuiteEnds == <>(bpc \in {"done", "fatal"})

\* README.md:71, the published statistics are "omitting cold-start iteration 0".
ColdStartOmitted ==
  \A k \in DOMAIN results : \A s \in results[k].from : s.iter # 1
=============================================================================
