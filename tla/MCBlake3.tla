------------------------------ MODULE MCBlake3 ------------------------------
(* Processors with every vector back end, one whose operating system does not  *)
(* save the wide registers, one whose cpuid ends early, one with half of       *)
(* AVX-512, and one that is no x86.  Updates end on and off block, chunk and   *)
(* subtree boundaries.                                                         *)
EXTENDS Blake3

Cpu(max_id, cpuid) == [x86 |-> TRUE, max_id |-> max_id, cpuid |-> cpuid]
Saved == {"SSE41", "OSXSAVE", "YMM"}
MCHosts == {[x86 |-> FALSE, max_id |-> 0, cpuid |-> {}],
            Cpu(7, {}),
            Cpu(6, Saved \cup {"AVX2"}),
            Cpu(7, Saved \cup {"AVX2", "AVX512F", "AVX512VL"}),
            Cpu(7, Saved \cup {"AVX2", "ZMM", "AVX512F"}),
            Cpu(7, Saved \cup {"AVX2", "ZMM", "AVX512F", "AVX512VL"})}
\* From the first bytes, across a block, and across the wrap of a low word.
MCRequests == {<<0, 1>>, <<1, 4>>, <<57, 45>>}
=============================================================================
