-------------------------- MODULE HostRouter_proof --------------------------
(* The router's promises for every table of suites and every set of core   *)
(* counts.                                                                 *)
EXTENDS HostRouter, TLAPS

(***************************************************************************)
(* dispatcher.c:56-84: the route is monotone in the host.  A host with as  *)
(* many cores, and virtual only if the other one is, gets every parallel   *)
(* route the other one gets.                                               *)
(***************************************************************************)
THEOREM RoutingIsMonotone ==
  ASSUME NEW hp \in HostProfile, NEW better \in HostProfile, NEW c \in AlgoCombo,
         better.logical_cores >= hp.logical_cores,
         better.is_virtualized => hp.is_virtualized,
         adaptive_dispatch(hp, c) = "PARALLEL"
  PROVE  adaptive_dispatch(better, c) = "PARALLEL"
BY DEF HostProfile, adaptive_dispatch

\* Once profiled, the profile is frozen, so every route recorded so far is
\* the one the router would answer now.
RouteInv ==
  /\ g_initialized \in BOOLEAN
  /\ announced \in [Suites -> Routes \cup {"none"}]
  /\ taken \in [Suites -> Routes \cup {"none"}]
  /\ \A c \in Suites :
       /\ announced[c] # "none" =>
            g_initialized /\ announced[c] = adaptive_dispatch(g_host_profile, c)
       /\ taken[c] # "none" => announced[c] # "none" /\ taken[c] = announced[c]

LEMMA RouteIsARoute ==
  ASSUME NEW hp, NEW c
  PROVE  adaptive_dispatch(hp, c) \in Routes
BY DEF adaptive_dispatch, Routes

(***************************************************************************)
(* The route printed for a suite (benchmark_suite.c:310, bench_e2e.c:251)  *)
(* is the one every later dispatch of it takes, because                    *)
(* host_profile_init() looks at the host only once.                        *)
(***************************************************************************)
THEOREM RouteIsStable == Spec => []AnnouncedRouteIsTaken
<1>1. Init => RouteInv
  BY DEF Init, RouteInv
<1>2. RouteInv /\ [Next]_vars => RouteInv'
  <2> SUFFICES ASSUME RouteInv, [Next]_vars PROVE RouteInv'
    OBVIOUS
  <2> USE DEF RouteInv
  <2>1. CASE host_profile_init
    BY <2>1 DEF host_profile_init
  <2>2. ASSUME NEW c \in Suites, Announce(c) PROVE RouteInv'
    BY <2>2, RouteIsARoute DEF Announce, Routes
  <2>3. ASSUME NEW c \in Suites, Dispatch(c) PROVE RouteInv'
    BY <2>3, RouteIsARoute DEF Dispatch, Routes
  <2>4. CASE Hotplug
    BY <2>4 DEF Hotplug
  <2>5. CASE UNCHANGED vars
    BY <2>5 DEF vars
  <2> QED
    BY <2>1, <2>2, <2>3, <2>4, <2>5 DEF Next
<1>3. RouteInv => AnnouncedRouteIsTaken
  BY DEF RouteInv, AnnouncedRouteIsTaken
<1> QED
  BY <1>1, <1>2, <1>3, PTL DEF Spec

LEMMA ProfileTyped ==
  ASSUME NEW d, NEW i, NEW n \in Int
  PROVE  ProfileOf(d, i, n) \in HostProfile
<1>1. detect_hypervisor(d, i) \in BOOLEAN
  BY DEF detect_hypervisor
<1> QED
  BY <1>1 DEF ProfileOf, HostProfile

\* Every field of the singleton keeps its type: in particular a failing
\* sysconf never leaves a negative core count behind (telemetry.c:123-125).
THEOREM RouterTypes == Spec => []TypeOK
<1> USE RouterAssumption
<1>1. Init => TypeOK
  <2>1. ZeroProfile \in HostProfile
    BY DEF ZeroProfile, HostProfile
  <2>2. [c \in Suites |-> "none"] \in [Suites -> Routes \cup {"none"}]
    OBVIOUS
  <2> QED
    BY <2>1, <2>2 DEF Init, TypeOK
<1>2. TypeOK /\ [Next]_vars => TypeOK'
  <2> SUFFICES ASSUME TypeOK, [Next]_vars PROVE TypeOK'
    OBVIOUS
  <2> USE DEF TypeOK
  <2>1. CASE host_profile_init
    <3>1. ProfileOf(dmi, cpuinfo, online) \in HostProfile
      BY RouterAssumption, ProfileTyped
    <3>2. UNCHANGED <<host, announced, taken>> /\ g_initialized' \in BOOLEAN
      BY <2>1 DEF host_profile_init
    <3>3. g_host_profile' \in HostProfile
      BY <2>1, <3>1 DEF host_profile_init
    <3> QED
      BY <3>2, <3>3 DEF host
  <2>2. ASSUME NEW c \in Suites, Announce(c) PROVE TypeOK'
    BY <2>2, RouteIsARoute DEF Announce, host
  <2>3. ASSUME NEW c \in Suites, Dispatch(c) PROVE TypeOK'
    BY <2>3, RouteIsARoute DEF Dispatch, host
  <2>4. CASE Hotplug
    BY <2>4 DEF Hotplug
  <2>5. CASE UNCHANGED vars
    BY <2>5 DEF vars, host
  <2> QED
    BY <2>1, <2>2, <2>3, <2>4, <2>5 DEF Next
<1> QED
  BY <1>1, <1>2, PTL DEF Spec

\* The profile is the host's, of some time, or none was made yet.
ProfileInv ==
  \/ g_host_profile = ZeroProfile
  \/ \E m \in CoreCounts : g_host_profile = ProfileOf(dmi, cpuinfo, m)

\* Profiling the host again with more processors on line never turns a suite
\* that is dispatched in parallel back to sequential, and a failing sysconf
\* (telemetry.c:123-125) lets nothing be overlapped.
THEOREM MoreCoresNeverDemote == Spec => []MoreCoresKeepParallel
<1> USE RouterAssumption
<1>1. Init => ProfileInv
  BY DEF Init, ProfileInv
<1>2. TypeOK /\ ProfileInv /\ [Next]_vars => ProfileInv'
  BY DEF TypeOK, ProfileInv, Next, host_profile_init, Announce, Dispatch, Hotplug, vars, host
<1>3. TypeOK /\ ProfileInv => MoreCoresKeepParallel
  <2> SUFFICES ASSUME TypeOK, ProfileInv, NEW c \in Suites, NEW n \in CoreCounts
               PROVE  /\ /\ n >= g_host_profile.logical_cores
                         /\ adaptive_dispatch(g_host_profile, c) = "PARALLEL"
                         => adaptive_dispatch(ProfileOf(dmi, cpuinfo, n), c) = "PARALLEL"
                      /\ n < 1 => adaptive_dispatch(ProfileOf(dmi, cpuinfo, n), c) = "SEQUENTIAL"
    BY DEF MoreCoresKeepParallel
  <2>1. n \in Int /\ c \in AlgoCombo
    BY DEF ALGORITHM_COMBOS, Combo, AlgoCombo, Profiles, Curves, PqcAlgs
  <2>2. ProfileOf(dmi, cpuinfo, n) \in HostProfile
    BY <2>1, ProfileTyped
  <2>3. n < 1 => adaptive_dispatch(ProfileOf(dmi, cpuinfo, n), c) = "SEQUENTIAL"
    BY <2>1 DEF ProfileOf, adaptive_dispatch
  <2>4. ASSUME n >= g_host_profile.logical_cores,
               adaptive_dispatch(g_host_profile, c) = "PARALLEL"
        PROVE  adaptive_dispatch(ProfileOf(dmi, cpuinfo, n), c) = "PARALLEL"
    <3>1. g_host_profile # ZeroProfile
      BY <2>4 DEF ZeroProfile, adaptive_dispatch
    <3>2. PICK m \in CoreCounts : g_host_profile = ProfileOf(dmi, cpuinfo, m)
      BY <3>1 DEF ProfileInv
    <3>3. m \in Int /\ g_host_profile \in HostProfile
      BY <3>2, ProfileTyped
    <3>4. /\ ProfileOf(dmi, cpuinfo, n).logical_cores >= g_host_profile.logical_cores
          /\ ProfileOf(dmi, cpuinfo, n).is_virtualized = g_host_profile.is_virtualized
      BY <2>1, <2>4, <3>2, <3>3 DEF ProfileOf
    <3> QED
      BY <2>1, <2>2, <2>4, <3>3, <3>4, RoutingIsMonotone
  <2> QED
    BY <2>3, <2>4
<1> QED
  BY <1>1, <1>2, <1>3, RouterTypes, PTL DEF Spec
=============================================================================
