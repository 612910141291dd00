--------------------------- MODULE MCVkInstance ---------------------------
(* An instance of VkInstance for TLC. *)
EXTENDS VkInstance, TLC

\* Handles, windows and threads are only compared.
MCSymmetry ==
    Permutations(Threads) \cup Permutations(Instances)
        \cup Permutations(Surfaces) \cup Permutations(Windows)
============================================================================
