------------------------------ MODULE MCBudget ------------------------------
(* Two spenders and one observer; a limit two or three charges away, and a *)
(* counter of four bits, which three calls of f make overflow.             *)
EXTENDS Budget, TLC

CONSTANTS p1, p2, q1, f, g

MCSpenders  == {p1, p2}
MCObservers == {q1}
MCNames     == {f, g}

\* Assignments are free, f is charged its own price.
MCCosts == [c \in Categories |->
    CASE c = "assign" -> 0 [] c = "function" -> 2 [] OTHER -> 1]
MCFunctionCosts == f :> 3
MCSegments == {0, 2}

=============================================================================
