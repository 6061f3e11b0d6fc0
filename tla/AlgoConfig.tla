----------------------------- MODULE AlgoConfig -----------------------------
(***************************************************************************)
(* The cipher-suite table shared by the engine, the router, the clients    *)
(* and the servers (c_dispatch/include/algo_config.h).  Labels, the        *)
(* liboqs name (a function of pqc) and the HKDF info string (a function of *)
(* id) are left out: nothing depends on their text.                        *)
(***************************************************************************)
EXTENDS Integers

Profiles == {"HYBRID", "PURE_CLASSICAL", "PURE_QUANTUM"}
Curves   == {"NONE", "X25519", "P256", "P384"}
PqcAlgs  == {"NONE", "MLKEM_768", "MLKEM_1024", "FRODOKEM_1344", "BIKE_L5"}

AlgoCombo == [id : Nat, profile : Profiles, curve : Curves, pqc : PqcAlgs]

Combo(i, p, c, q) == [id |-> i, profile |-> p, curve |-> c, pqc |-> q]

\* ALGORITHM_COMBOS[] of c_dispatch.
ALGORITHM_COMBOS ==
  { Combo( 1, "HYBRID", "X25519", "MLKEM_768"),
    Combo( 2, "HYBRID", "P256",   "MLKEM_768"),
    Combo( 3, "HYBRID", "P384",   "MLKEM_1024"),
    Combo( 9, "HYBRID", "P384",   "FRODOKEM_1344"),
    Combo(10, "HYBRID", "P384",   "BIKE_L5"),
    Combo( 4, "PURE_CLASSICAL", "X25519", "NONE"),
    Combo( 5, "PURE_CLASSICAL", "P256",   "NONE"),
    Combo( 8, "PURE_CLASSICAL", "P384",   "NONE"),
    Combo( 6, "PURE_QUANTUM",   "NONE",   "MLKEM_768"),
    Combo( 7, "PURE_QUANTUM",   "NONE",   "MLKEM_1024") }

\* get_combo_by_id(): the set of matching rows, {} standing for NULL.
get_combo_by_id(id) == { c \in ALGORITHM_COMBOS : c.id = id }

\* A row whose profile agrees with its columns.  Every row of the table is;
\* so are the rows the demo benchmark builds by hand.
Consistent(c) ==
  /\ c.profile = "PURE_CLASSICAL" <=> c.pqc = "NONE"
  /\ c.profile = "PURE_QUANTUM"   <=> c.curve = "NONE"
=============================================================================
