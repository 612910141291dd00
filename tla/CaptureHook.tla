---------------------------- MODULE CaptureHook ----------------------------
(***************************************************************************)
(* What a hook promises to the rest of the game's side, and all that       *)
(* CaptureClient knows of it: there is a buffer exactly while it captures, *)
(* and a hook that failed to start one stays off until it is set up anew.  *)
(***************************************************************************)

CONSTANTS
    Buffers,
    NoBuffer    \* not one of Buffers

VARIABLES
    capturing,  \* capture_ready()
    valid,      \* data->valid: the hook still captures
    buffer      \* the exported buffer

hookVars == <<capturing, valid, buffer>>

HookInit == ~capturing /\ ~valid /\ buffer = NoBuffer

\* A buffer is exported: where there was none, or in place of another within
\* one present call.
Start ==
    /\ valid
    /\ capturing'
    /\ buffer' \in Buffers
    /\ UNCHANGED valid

Stop ==
    /\ ~capturing'
    /\ buffer' = NoBuffer
    /\ UNCHANGED valid

\* A capture could not be started.
Disable == valid /\ ~valid' /\ ~capturing' /\ buffer' = NoBuffer

\* The hook is set up, or its owner goes away.
Renew == ~capturing /\ valid' \in BOOLEAN /\ UNCHANGED <<capturing, buffer>>

HookNext == Start \/ Stop \/ Disable \/ Renew

HookSpec == HookInit /\ [][HookNext]_hookVars
============================================================================
