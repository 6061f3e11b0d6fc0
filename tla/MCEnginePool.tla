---------------------------- MODULE MCEnginePool ----------------------------
(* One suite of each profile is enough to reach every branch of the engine. *)
EXTENDS EnginePool

MCCombos == {Combo(3, "HYBRID", "P384", "MLKEM_1024"),
             Combo(4, "PURE_CLASSICAL", "X25519", "NONE"),
             Combo(6, "PURE_QUANTUM", "NONE", "MLKEM_768")}
=============================================================================
