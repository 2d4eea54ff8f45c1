-------------------------- MODULE MCLayoutProfile --------------------------
(* Two goroutines render layouts with yields of two ranges: 20 KiB is in a *)
(* range that can be split once, 100 KiB in one that can be split further. *)
(* Overheads a factor of four apart make a range unstable.                 *)
EXTENDS LayoutProfile, TLC

CONSTANTS r1, r2

MCRenderers == {r1, r2}
MCYields    == {20, 70}
MCOverheads == {1, 4}

Symmetry == Permutations(MCRenderers)

=============================================================================
