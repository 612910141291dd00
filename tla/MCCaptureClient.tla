-------------------------- MODULE MCCaptureClient --------------------------
(* Instances of CaptureClient for TLC. *)
EXTENDS CaptureClient

CONSTANTS exeA

\* Every game runs the same executable: the name plays no part here.
MCExeOf == [g \in Games |-> exeA]
============================================================================
