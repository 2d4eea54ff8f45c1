------------------------- MODULE MCLayoutPrediction -------------------------
(* Renders with two yields, and overheads far enough apart for the growth  *)
(* limit of the ratio, the steps of an eighth, the cap of a ratio and the  *)
(* preference of the ratio to matter.                                      *)
EXTENDS LayoutPrediction, TLC

CONSTANTS r1, r2, r3

MCRenderers == {r1, r2, r3}
MCYields    == {1, 4}
MCOverheads == {1, 20}
MCEstimates == {1, 5, 9}

Symmetry == Permutations(MCRenderers)

=============================================================================
