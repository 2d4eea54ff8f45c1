------------------------- MODULE MCOutputSizeStats -------------------------
(* Two renders report sizes that are far enough apart for the growth limit *)
(* (four times), the cap and the instability test to matter.               *)
EXTENDS OutputSizeStats, TLC

CONSTANTS r1, r2, q1

MCRenderers == {r1, r2}
MCPlanners  == {q1}
MCSizes     == {1, 3, 20}
MCEstimates == {0, 3}

=============================================================================
