----------------------------- MODULE MCGlHook ------------------------------
(* An instance of GlHook for TLC. *)
EXTENDS GlHook
============================================================================
