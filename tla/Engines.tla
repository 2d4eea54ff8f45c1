------------------------------ MODULE Engines ------------------------------
(* The two engines on the same template: the machine runs it step by step, the
   interpreter says what it must print.                                      *)
EXTENDS Machine

Interp == INSTANCE Interpreter
State0 == [scopes |-> <<[vars |-> Context, outer |-> 0]>>, ctx |-> 1, cells |-> <<>>,
           holes |-> <<>>, calls |-> 0]
Interpreted == Interp!Compile(program, State0)
Done == result.err # "none"

(* The machine renders what the interpreter renders, with the same punch holes in
   the same places, and fails where it fails.                                *)
SameRender(i) ==
  /\ (result.err = "") = (i.err = "")
  /\ result.err = "" =>
       /\ result.text = i.v
       /\ s.calls = i.s.calls
       /\ Interp!FixHolePositions(result.text, s.holes) = Interp!FixHolePositions(i.v, i.s.holes)
EnginesAgree == Done => SameRender(Interpreted)

(* What fillHoles needs to cut the skeleton (plush.go): the markers stand in the
   text in the order of their numbers, each where it is recorded.            *)
InPlace(text, holes) ==
  \A i \in DOMAIN holes :
    /\ holes[i].start \in DOMAIN text
    /\ text[holes[i].start] = MarkerName(i - 1)
    /\ i > 1 => holes[i - 1].start < holes[i].start

(* The virtual machine, whose children write into texts of their own, leaves every
   marker of the finished text where fillHoles will look for it.             *)
MarkersInPlace ==
  result.err = "" => InPlace(result.text, Interp!FixHolePositions(result.text, s.holes))

(* The interpreter does the same (it numbers the holes of a helper's block when
   the helper runs, those beside it when the block around them is written).  *)
MarkersOf(i) == i.err = "" => InPlace(i.v, Interp!FixHolePositions(i.v, i.s.holes))
InterpretedMarkersInPlace == Done => MarkersOf(Interpreted)
=============================================================================
