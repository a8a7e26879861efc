----------------------------- MODULE Forwarding -----------------------------
(***************************************************************************)
(* The bytes of one request: its body goes up as in RequestBody, and once  *)
(* a response has been accepted and the body let go, the response comes    *)
(* down as in EventStream while uploads may still be under way.            *)
(***************************************************************************)
EXTENDS RequestBody, EventStream

vars == <<bodyVars, streamVars>>

Init == BodyInit /\ StreamInit

\* The response has gone out as far as it came.
Forwarded ==
    /\ at = "forwarding" /\ stream # "going"
    /\ at' = "leaving"
    /\ UNCHANGED <<shared, ctxBody, released, hook, attempts, buffers, uploads, streamVars>>

Next ==
    \/ BodyStep /\ UNCHANGED streamVars
    \/ at = "forwarding" /\ StreamStep /\ UNCHANGED bodyVars
    \/ Forwarded

Spec == Init /\ [][Next]_vars
=============================================================================
