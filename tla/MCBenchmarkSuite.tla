-------------------------- MODULE MCBenchmarkSuite --------------------------
(* One suite, which the router may keep sequential or run in parallel.     *)
EXTENDS BenchmarkSuite

MCHybrids == <<Combo(3, "HYBRID", "P384", "MLKEM_1024")>>
MCCombos  == {MCHybrids[i] : i \in DOMAIN MCHybrids}
=============================================================================
