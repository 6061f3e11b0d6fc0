----------------------------- MODULE HostRouter -----------------------------
(***************************************************************************)
(* The host profile singleton of telemetry.c and its reader, the router of *)
(* dispatcher.c, over the life of a process.  A benchmark asks for the     *)
(* route of a suite once, prints it, and dispatches that suite many times  *)
(* afterwards; each dispatch asks again.  Meanwhile processors may go on   *)
(* and off line.                                                           *)
(***************************************************************************)
EXTENDS Dispatcher

CONSTANTS Suites,     \* the suites dispatched
          CoreCounts  \* what sysconf may report

ASSUME RouterAssumption ==
  Suites \subseteq ALGORITHM_COMBOS /\ CoreCounts \subseteq Int

VARIABLES dmi, cpuinfo, online,       \* the host
          g_host_profile, g_initialized,
          announced,  \* the route last printed for each suite, or "none"
          taken       \* the route its last dispatch took, or "none"

host == <<dmi, cpuinfo, online>>
vars == <<host, g_host_profile, g_initialized, announced, taken>>

TypeOK ==
  /\ dmi \in DmiFiles /\ cpuinfo \in CpuinfoFiles /\ online \in CoreCounts
  /\ g_host_profile \in HostProfile
  /\ g_initialized \in BOOLEAN
  /\ announced \in [Suites -> Routes \cup {"none"}]
  /\ taken \in [Suites -> Routes \cup {"none"}]

Init ==
  /\ dmi \in DmiFiles /\ cpuinfo \in CpuinfoFiles /\ online \in CoreCounts
  /\ g_host_profile = ZeroProfile /\ g_initialized = FALSE
  /\ announced = [c \in Suites |-> "none"]
  /\ taken = announced

\* Defects, used by no specification.

\* Every call profiles the host again.
host_profile_init_EveryTime ==
  /\ g_host_profile' = ProfileOf(dmi, cpuinfo, online)
  /\ g_initialized' = TRUE
  /\ UNCHANGED <<host, announced, taken>>

\* Only the first call looks at the host.
host_profile_init ==
  /\ IF g_initialized
     THEN UNCHANGED <<g_host_profile, g_initialized>>
     ELSE /\ g_host_profile' = ProfileOf(dmi, cpuinfo, online)
          /\ g_initialized' = TRUE
  /\ UNCHANGED <<host, announced, taken>>

\* adaptive_dispatch() as the benchmarks call it, to print the route.  All of
\* them profile the host first.
Announce(c) ==
  /\ g_initialized
  /\ announced' = [announced EXCEPT ![c] = adaptive_dispatch(g_host_profile, c)]
  /\ UNCHANGED <<host, g_host_profile, g_initialized, taken>>

\* The routing half of dispatch_execute(); the engine is another component.
Dispatch(c) ==
  /\ announced[c] # "none"
  /\ taken' = [taken EXCEPT ![c] = adaptive_dispatch(g_host_profile, c)]
  /\ UNCHANGED <<host, g_host_profile, g_initialized, announced>>

Hotplug ==
  /\ online' \in CoreCounts
  /\ UNCHANGED <<dmi, cpuinfo, g_host_profile, g_initialized, announced,
                 taken>>

Next == \/ host_profile_init
        \/ \E c \in Suites : Announce(c) \/ Dispatch(c)
        \/ Hotplug

Spec == Init /\ [][Next]_vars

----------------------------------------------------------------------------
(* Properties *)

\* The route a benchmark printed for a suite is the one its dispatches take,
\* however often the host is profiled and whatever happens to its processors.
AnnouncedRouteIsTaken ==
  \A c \in Suites : taken[c] # "none" => taken[c] = announced[c]

\* A suite that runs in parallel would still do so if the host were profiled again
\* with more processors on line; and where sysconf fails nothing is overlapped.
MoreCoresKeepParallel ==
  \A c \in Suites, n \in CoreCounts :
    LET route == adaptive_dispatch(ProfileOf(dmi, cpuinfo, n), c)
    IN /\ /\ n >= g_host_profile.logical_cores
          /\ adaptive_dispatch(g_host_profile, c) = "PARALLEL"
          => route = "PARALLEL"
       /\ n < 1 => route = "SEQUENTIAL"
=============================================================================
