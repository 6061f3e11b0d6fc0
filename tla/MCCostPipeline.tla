--------------------------- MODULE MCCostPipeline ---------------------------
(* A curve and a KEM, each spelt differently in labels and in keys, a hybrid    *)
(* suite that uses both, and one that uses neither.                            *)
EXTENDS CostPipeline

MCBaselines == <<Combo(8, "PURE_CLASSICAL", "P384", "NONE"),
                 Combo(7, "PURE_QUANTUM", "NONE", "MLKEM_1024")>>
MCHybrids == <<Combo(2, "HYBRID", "P256", "MLKEM_768"),
               Combo(3, "HYBRID", "P384", "MLKEM_1024")>>
MCRunCounts == {-1, 0, 1, 3}
=============================================================================
