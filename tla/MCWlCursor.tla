----------------------------- MODULE MCWlCursor -----------------------------
(* An instance of WlCursor for TLC. *)
EXTENDS WlCursor, TLC

\* No definition of WlCursor tells one output, or one shape, from another.
MCSymmetry == Permutations(Outputs) \cup Permutations(Shapes)
=============================================================================
