-------------------------- MODULE MCCaptureSystem --------------------------
(* Instances of CaptureSystem for TLC. *)
EXTENDS CaptureSystem

CONSTANTS g1, exeA, exeB

\* One game, and a source that can be told to take it or to leave it out.
MCOneGame == [g \in Games |-> exeA]
MCTakeOrLeave == {Match(exeA), Exclude(exeA)}

\* Two games, and a source that takes any.
MCTwoGames == [g \in Games |-> IF g = g1 THEN exeA ELSE exeB]
MCAny == {AnyWindow}
============================================================================
