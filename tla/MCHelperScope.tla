--------------------------- MODULE MCHelperScope ---------------------------
(* Two registering goroutines and two context creators over one name.     *)
EXTENDS HelperScope, TLC

CONSTANTS a1, a2, r1, r2, k1, k2

MCAdders  == {a1, a2}
MCReaders == {r1, r2}
MCKeys    == {k1}

=============================================================================
