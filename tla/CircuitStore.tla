---------------------------- MODULE CircuitStore ----------------------------
(***************************************************************************)
(* What a circuit breaker expects of its store, for one channel: updates   *)
(* that follow one another.  Each is computed from what the update before  *)
(* it left, and nothing but forgetting (expiry, a reset, the report's      *)
(* purge) comes between.  Forgetting is the weaker partner: an update that *)
(* read before it may put the state back.                                  *)
(*                                                                         *)
(* A store may break its promise for a while and say so.                   *)
(***************************************************************************)
CONSTANTS
    Ops,      \* the breaker's updates
    Update,   \* Update[op][s]: what op makes of the stored state s
    NoState   \* nothing is stored

VARIABLES
    cell,     \* what is stored
    latest,   \* what the latest update left
    promise   \* does the promise hold at the moment

storeVars == <<cell, latest, promise>>

StoreInit == cell = NoState /\ latest = NoState /\ promise = TRUE

Apply ==
    \E op \in Ops, base \in {cell, latest} :
        /\ latest' = Update[op][base]
        /\ cell' = latest'

Forget == cell' = NoState /\ UNCHANGED latest

StoreNext == promise /\ promise' => Apply \/ Forget

StoreSpec == StoreInit /\ [][StoreNext]_storeVars
=============================================================================
