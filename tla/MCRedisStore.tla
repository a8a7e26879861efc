---------------------------- MODULE MCRedisStore ----------------------------
(* Redis updates on a small circuit: a failure counted, the circuit open     *)
(* with its cooldown over, a probe out.                                      *)
EXTENDS RedisStore

CONSTANTS allow, succeed, fail, cancel

MCOps == {allow, succeed, fail, cancel}
MCStates == {"counting", "due", "probing"}

MCUpdate ==
    [op \in MCOps |->
      [s \in MCStates \cup {NoState} |->
         CASE op = allow   -> IF s = "due" THEN "probing" ELSE s
           [] op = succeed -> IF s = "probing" THEN NoState ELSE "counting"
           [] op = fail    -> IF s = NoState THEN "counting" ELSE "due"
           [] op = cancel  -> IF s = "probing" THEN "due" ELSE s]]
=============================================================================
