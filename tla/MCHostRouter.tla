---------------------------- MODULE MCHostRouter ----------------------------
(* A light, a heavy and a non-hybrid suite; core counts on both sides of   *)
(* every threshold of the rules and of their documentation, and an error.  *)
EXTENDS HostRouter

MCSuites == {Combo(1, "HYBRID", "X25519", "MLKEM_768"),
             Combo(3, "HYBRID", "P384", "MLKEM_1024"),
             Combo(6, "PURE_QUANTUM", "NONE", "MLKEM_768")}
MCCoreCounts == {-1, 0, 1, 2, 3, 8}
=============================================================================
