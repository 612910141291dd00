-------------------------- MODULE MCCaptureServer --------------------------
(* Instances of CaptureServer for TLC. *)
EXTENDS CaptureServer

CONSTANTS exeA, exeB

\* A source that can be told to take a game or to leave it out.
MCTakeOrLeave == {Match(exeA), Exclude(exeA)}

\* A source that takes one game.
MCWindowA == {Match(exeA)}
============================================================================
