----------------------------- MODULE Dispatcher -----------------------------
(***************************************************************************)
(* The pure part of the adaptive router: what telemetry.c concludes from   *)
(* the host it runs on, and which route dispatcher.c then picks for a      *)
(* suite.                                                                  *)
(*                                                                         *)
(* A host is known by what the profiler can read of it: the DMI vendor     *)
(* file ("absent", "blank", naming a known hypervisor vendor, or naming    *)
(* any other one), /proc/cpuinfo ("absent", with or without the hypervisor *)
(* flag) and the number sysconf reports, which is negative on error.       *)
(***************************************************************************)
EXTENDS AlgoConfig

DmiFiles     == {"absent", "blank", "vm_vendor", "other_vendor"}
CpuinfoFiles == {"absent", "plain", "flagged"}
Routes       == {"SEQUENTIAL", "PARALLEL"}

HostProfile == [is_virtualized : BOOLEAN, logical_cores : Nat]
ZeroProfile == [is_virtualized |-> FALSE, logical_cores |-> 0]

----------------------------------------------------------------------------
(* Defects: plausible mistakes in the rules below; no specification uses   *)
(* them.                                                                   *)

\* Rule 4 asks for exactly two cores.
adaptive_dispatch_ExactlyTwoCores(hp, c) ==
  IF /\ c.profile = "HYBRID" /\ c.pqc # "NONE" /\ c.curve # "NONE"
     /\ hp.logical_cores = 2 /\ ~hp.is_virtualized
  THEN "PARALLEL" ELSE "SEQUENTIAL"

\* The error of sysconf is kept in an unsigned number.
ProfileOf_Unsigned(dmi, cpuinfo, online) ==
  [is_virtualized |-> IF dmi = "absent" THEN cpuinfo = "flagged" ELSE dmi = "vm_vendor",
   logical_cores  |-> online % 2^16]

----------------------------------------------------------------------------
\* A readable vendor file decides alone; the CPU flag is only a fallback.
detect_hypervisor(dmi, cpuinfo) ==
  IF dmi = "absent" THEN cpuinfo = "flagged" ELSE dmi = "vm_vendor"

ProfileOf(dmi, cpuinfo, online) ==
  [is_virtualized |-> detect_hypervisor(dmi, cpuinfo),
   logical_cores  |-> IF online < 1 THEN 1 ELSE online]

Lightweight(c) == c.curve = "X25519" /\ c.pqc = "MLKEM_768"

\* Rules 1 to 4, each of which may demote the call; what is left is parallel.
adaptive_dispatch(hp, c) ==
  IF \/ c.profile # "HYBRID" \/ c.pqc = "NONE" \/ c.curve = "NONE"
     \/ hp.logical_cores <= 1
     \/ hp.is_virtualized /\ hp.logical_cores <= 2
     \/ Lightweight(c)
  THEN "SEQUENTIAL" ELSE "PARALLEL"
=============================================================================
