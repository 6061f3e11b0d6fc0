------------------------------ MODULE E2ESuite ------------------------------
(***************************************************************************)
(* bench_e2e.c: the network benchmark on top of the client.  It starts the *)
(* client's pool (without looking at the outcome), then measures every     *)
(* hybrid suite over g_runs handshakes in each of three modes, into one    *)
(* sample buffer that all tracks share.  The server always computes        *)
(* sequentially; the mode picks the client's route.                        *)
(*                                                                         *)
(* The client is ClientPool, step for step.  A sample is what identifies   *)
(* the measurement: suite, mode, iteration, the mask the caller ran under  *)
(* and the thread that encapsulated.                                       *)
(***************************************************************************)
EXTENDS ClientPool, Sequences

CONSTANTS Hybrids,   \* the hybrid rows of the table, in table order
          Runs       \* what atoi makes of the argument of --runs

ASSUME E2EAssumption ==
  /\ Hybrids \in Seq({c \in ALGORITHM_COMBOS : c.profile = "HYBRID"})
  /\ Runs \subseteq Int

VARIABLES bpc,             \* where main() is
          g_runs, g_host_profile,
          init_ok,         \* did the first client_worker_init() succeed
          ci, mi, it,      \* suite, mode and iteration counters
          samples, all_results

counters == <<ci, mi, it>>
setup    == <<g_runs, g_host_profile, init_ok>>
e2eVars  == <<bpc, setup, counters, samples, all_results>>
allVars  == <<vars, e2eVars>>

BenchModes == <<"Strict_Sequential", "Strict_Parallel", "Adaptive_Switch">>
Iterations == 1..g_runs
Garbage == [suite |-> 0, mode |-> 0, iter |-> 0, mask |-> "all", ran |-> "caller"]
Sample(s, m, i) == [suite |-> s, mode |-> m, iter |-> i, mask |-> main_mask,
                    ran |-> IF pqc_dispatched THEN "worker" ELSE "caller"]

E2EInit ==
  /\ Init
  /\ bpc = "boot"
  /\ g_runs \in Runs
  /\ g_host_profile = ZeroProfile /\ init_ok = FALSE
  /\ ci = 0 /\ mi = 1 /\ it = 0
  /\ samples = [i \in Iterations |-> Garbage] /\ all_results = <<>>

----------------------------------------------------------------------------
(* main() up to the first suite *)

Boot ==
  /\ bpc = "boot"
  /\ \E d \in DmiFiles, f \in CpuinfoFiles :
       g_host_profile' = ProfileOf(d, f, NCpus)
  /\ bpc' = "init"
  /\ UNCHANGED <<vars, g_runs, init_ok, counters, samples, all_results>>

StartPool ==
  /\ bpc = "init"
  /\ client_worker_init
  /\ init_ok' = (pc' = "boot_warm")
  /\ bpc' = "alloc"
  /\ UNCHANGED <<g_runs, g_host_profile, counters, samples, all_results>>

\* A negative number of runs asks for more memory than there is.
Allocate ==
  /\ bpc = "alloc" /\ pc = "idle"
  /\ \/ g_runs >= 0 /\ bpc' = "suite"
     \/ bpc' = "exit"
  /\ UNCHANGED <<vars, setup, counters, samples, all_results>>

----------------------------------------------------------------------------
(* The tracks *)

\* Defect: the strict parallel mode asks the router.
mode_local_route_Asks(m, c) ==
  IF m = "Strict_Sequential" THEN "SEQUENTIAL"
  ELSE adaptive_dispatch(g_host_profile, c)

mode_local_route(m, c) ==
  CASE m = "Strict_Sequential" -> "SEQUENTIAL"
    [] m = "Strict_Parallel"   -> "PARALLEL"
    [] m = "Adaptive_Switch"   -> adaptive_dispatch(g_host_profile, c)

NextSuite ==
  /\ bpc = "suite" /\ pc = "idle" /\ ci < Len(Hybrids)
  /\ ci' = ci + 1 /\ mi' = 1 /\ it' = 0
  /\ bpc' = "track"
  /\ UNCHANGED <<vars, setup, samples, all_results>>

\* One iteration of run_bench(); the handshake may fail before or after its
\* shares are computed.
Handshake ==
  /\ bpc = "track" /\ it < g_runs
  /\ \/ FailsBeforeShares
     \/ ComputeShares(mode_local_route(BenchModes[mi], Hybrids[ci]))
  /\ bpc' = "ret"
  /\ UNCHANGED <<setup, counters, samples, all_results>>

NextTrack ==
  /\ it' = 0
  /\ IF mi < 3 THEN mi' = mi + 1 /\ bpc' = "track" ELSE mi' = mi /\ bpc' = "suite"

\* Defect: a failed handshake is skipped, its sample slot left as it was.
TrackFailed_GoesOn ==
  /\ bpc = "ret" /\ pc = "idle" /\ rc # 0
  /\ it' = it + 1 /\ bpc' = "track"
  /\ UNCHANGED <<vars, setup, ci, mi, samples, all_results>>

\* A failed handshake abandons its track: no row, and zero statistics.
TrackFailed ==
  /\ bpc = "ret" /\ pc = "idle" /\ rc # 0
  /\ NextTrack
  /\ UNCHANGED <<vars, setup, ci, samples, all_results>>

Measured ==
  /\ bpc = "ret" /\ pc = "idle" /\ rc = 0
  /\ samples' = [samples EXCEPT ![it + 1] = Sample(ci, mi, it + 1)]
  /\ it' = it + 1 /\ bpc' = "track"
  /\ UNCHANGED <<vars, setup, ci, mi, all_results>>

\* The entries compute_stats() looks at: all of them for the mean, and for the
\* percentiles, of no entries, one past the end.
Looked == IF g_runs = 0 THEN {Garbage} ELSE {samples[i] : i \in Iterations}

\* compute_stats() sorts the buffer, by latencies nobody knows; the row is
\* added if there is room.
TrackDone ==
  /\ bpc = "track" /\ pc = "idle" /\ it >= g_runs
  /\ samples' \in {[i \in Iterations |-> samples[p[i]]] :
                     p \in {q \in [Iterations -> Iterations] :
                              \A i, j \in Iterations : i # j => q[i] # q[j]}}
  /\ all_results' = IF Len(all_results) < 3 * Len(Hybrids)
                    THEN Append(all_results, [suite |-> ci, mode |-> mi, from |-> Looked])
                    ELSE all_results
  /\ NextTrack
  /\ UNCHANGED <<vars, setup, ci>>

----------------------------------------------------------------------------
(* The end of main(): shut the pool down, then return, which is exit() *)

StopPool ==
  /\ bpc = "suite" /\ pc = "idle" /\ ci = Len(Hybrids)
  /\ Shutdown
  /\ bpc' = "exit"
  /\ UNCHANGED <<setup, counters, samples, all_results>>

Return ==
  /\ bpc = "exit"
  /\ Exit
  /\ bpc' = "done"
  /\ UNCHANGED <<setup, counters, samples, all_results>>

----------------------------------------------------------------------------
DriverStep ==
  \/ Boot \/ StartPool \/ Allocate \/ NextSuite \/ Handshake \/ TrackFailed
  \/ Measured \/ TrackDone \/ StopPool \/ Return

PoolStep ==
  /\ MainStep \/ WorkerStep \/ JoinSpurious \/ WorkerSpurious \/ Gone
  /\ UNCHANGED e2eVars

E2ENext == DriverStep \/ PoolStep

E2ESpec == E2EInit /\ [][E2ENext]_allVars

----------------------------------------------------------------------------
(* Properties *)

\* A row that is exported is over all the handshakes of its own track and over
\* nothing an earlier or an abandoned track left in the buffer, and no track has
\* two rows.  With no runs at all a row is over whatever is in memory.
RowsAreWholeTracks ==
  /\ g_runs > 0 =>
       \A k \in DOMAIN all_results :
         /\ \A s \in all_results[k].from :
              s.suite = all_results[k].suite /\ s.mode = all_results[k].mode
         /\ {s.iter : s \in all_results[k].from} = Iterations
  /\ \A k, l \in DOMAIN all_results :
       k < l => <<all_results[k].suite, all_results[k].mode>>
                  # <<all_results[l].suite, all_results[l].mode>>

\* A pool that came up at the start makes tracks uniform: a strict parallel
\* track encapsulates on the worker throughout, a sequential one never, and all
\* handshakes of a track ran under the same mask.
TracksAreUniform ==
  init_ok /\ NCpus >= 2 /\ ~PinFails =>
    \A k \in DOMAIN all_results :
      LET from == all_results[k].from \ {Garbage}
          mode == BenchModes[all_results[k].mode] IN
      /\ mode = "Strict_Parallel" => \A s \in from : s.ran = "worker" /\ s.mask = "core0"
      /\ mode = "Strict_Sequential" => \A s \in from : s.ran = "caller"
      /\ \A s, t \in from : s.mask = t.mask /\ s.ran = t.ran

\* Nothing pins the caller before the first parallel handshake and nothing
\* unpins it after: later tracks of a sequential mode run on core 0, earlier
\* ones anywhere, and only these two masks occur.
MaskOnlyNarrows ==
  NCpus >= 2 /\ ~PinFails =>
    \A k, l \in DOMAIN all_results : k < l =>
      \A s \in all_results[k].from, t \in all_results[l].from :
        s # Garbage /\ t # Garbage =>
          s.mask \in {"all", "core0"} /\ (s.mask = "core0" => t.mask = "core0")
=============================================================================
