--------------------------- MODULE MCRenderCache ---------------------------
(* Two renders of one file, whose text changes between a page with holes, *)
(* another one, and one that also has context writes.                     *)
EXTENDS RenderCache, TLC

CONSTANTS r1, r2, f, u1, u2, page, other, writer, plain, broken, blank

MCRenders == {r1, r2}
Symmetry  == Permutations(MCRenders)
OneUrl    == {u1}

=============================================================================
