----------------------------- MODULE MCE2ESuite -----------------------------
EXTENDS E2ESuite

\* A suite the router always keeps sequential, and one it may run in parallel.
MCHybrids == << Combo(1, "HYBRID", "X25519", "MLKEM_768"),
                Combo(3, "HYBRID", "P384", "MLKEM_1024") >>
MCRuns == {-1, 0, 2}
=============================================================================
