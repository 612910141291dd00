----------------------------- MODULE MCVkLayer -----------------------------
(* Instances of VkLayer for TLC. *)
EXTENDS VkLayer, TLC

CONSTANTS d1, d2, q1, q2, a, b

\* Every handle is one of the same device.
MCOneDevice == [h \in Queues \cup Swaps |-> d1]

\* Each device has a queue and a swapchain.
MCTwoDevices == [h \in Queues \cup Swaps |-> IF h \in {q2, b} THEN d2 ELSE d1]

\* Handles and names are only compared.
MCSymmetry ==
    Permutations(Queues) \cup Permutations(Swaps) \cup Permutations(Exports)

\* So are devices, each with what is its own.
MCDeviceSymmetry ==
    {d1 :> d2 @@ d2 :> d1 @@ q1 :> q2 @@ q2 :> q1 @@ a :> b @@ b :> a}
        \cup Permutations(Exports)
============================================================================
