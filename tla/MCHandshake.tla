---------------------------- MODULE MCHandshake -----------------------------
(* One suite of each profile, and the sets of failures the runs choose from. *)
EXTENDS Handshake

MCSuites == {Combo(3, "HYBRID", "P384", "MLKEM_1024"),
             Combo(4, "PURE_CLASSICAL", "X25519", "NONE"),
             Combo(6, "PURE_QUANTUM", "NONE", "MLKEM_768")}
MCAllFaults == CheckedFaults \cup SilentFaults
MCKeySafeFaults == CheckedFaults \cup {"ct_packet", "thread"}
=============================================================================
