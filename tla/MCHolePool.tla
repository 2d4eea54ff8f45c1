----------------------------- MODULE MCHolePool -----------------------------
(* Two renders of a page with three holes, a limit of two or none, and a  *)
(* budget that lasts for two of the holes.                               *)
EXTENDS HolePool, TLC

CONSTANTS r1, r2

MCRenders == {r1, r2}
MCLimits == {-1, 2}

=============================================================================
