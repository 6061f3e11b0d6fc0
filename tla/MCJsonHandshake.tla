--------------------------- MODULE MCJsonHandshake ---------------------------
(* One suite of each profile, and every failure. *)
EXTENDS JsonHandshake

MCSuites == {Combo(3, "HYBRID", "P384", "MLKEM_1024"),
             Combo(4, "PURE_CLASSICAL", "X25519", "NONE"),
             Combo(6, "PURE_QUANTUM", "NONE", "MLKEM_768")}
MCFaults == CheckedFaults \cup CrashFaults \cup KeyFaults \cup {"send", "peek"}
=============================================================================
