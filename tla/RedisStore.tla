----------------------------- MODULE RedisStore -----------------------------
(***************************************************************************)
(* The Redis circuit store for one channel                                 *)
(* (src/channel_breaker_redis.go): an update takes a lock that expires by  *)
(* itself, reads the state, applies the breaker's function to its copy,    *)
(* writes it back and releases the lock.  Every line is a command to Redis *)
(* that other processes' commands may come between, and may fail: with     *)
(* nothing done, or done with the reply lost.  Resets and the health       *)
(* report's purge do not take the lock.  A process may die anywhere.       *)
(*                                                                         *)
(* Times are left out: a lock that is held may expire at any moment, also  *)
(* during its holder's update (go-redis waits longer for a reply than      *)
(* LockTTL by default), and LockWait may end at any moment.                *)
(***************************************************************************)
CONSTANTS
    Workers,    \* updates that may be under way at the same time
    Ops,        \* the breaker's updates
    States,     \* what may be stored
    NoState,    \* nothing is stored
    Update,     \* Update[op][s]: what op makes of s; NoState to delete it
    IdleStates, \* those the health report purges
    Nobody,     \* the lock's key does not exist
    Stranger    \* its token is that of an update that is over

Cells == States \cup {NoState}

ASSUME OpsAssumption ==
    /\ Update \in [Ops -> [Cells -> Cells]]
    /\ IdleStates \subseteq States

ASSUME NamesAssumption ==
    /\ NoState \notin States
    /\ Nobody \notin Workers /\ Stranger \notin Workers /\ Nobody # Stranger

VARIABLES
    cell,      \* the state's key
    lock,      \* whose token the lock's key holds
    worker,    \* each update: where it is, what it does, is LockWait over, what it will write
    reporter,  \* the health report: about to purge the channel, or not running
    latest,    \* history: what the latest update wrote
    overran    \* history: the updates whose lock expired under way; Stranger for those
               \* that are over while an update they may have overlapped is not

vars == <<cell, lock, worker, reporter, latest, overran>>

Phases == {"idle", "locking", "reading", "writing", "releasing"}
WorkerState == [phase : Phases, op : Ops, late : BOOLEAN, copy : Cells]

TypeOK ==
    /\ cell \in Cells /\ latest \in Cells
    /\ lock \in Workers \cup {Nobody, Stranger}
    /\ worker \in [Workers -> WorkerState]
    /\ reporter \in {"idle", "purging"}
    /\ overran \subseteq Workers \cup {Stranger}

-----------------------------------------------------------------------------

\* The updates that believe they have the lock.
Updating == {w \in Workers : worker[w].phase \in {"reading", "writing", "releasing"}}

Goto(w, phase) == worker' = [worker EXCEPT ![w].phase = phase]

\* The end of an update; one that ends without releasing its lock leaves a token
\* there that is nobody's.
Leave(w) ==
    /\ worker' = [worker EXCEPT ![w].phase = "idle", ![w].late = FALSE, ![w].copy = NoState]
    /\ overran' = IF Updating \ {w} = {} THEN {}
                  ELSE {IF v = w THEN Stranger ELSE v : v \in overran}

Abandon(w) == lock' = IF lock = w THEN Stranger ELSE lock

Init ==
    /\ cell = NoState /\ lock = Nobody
    /\ worker \in [Workers -> {[phase |-> "idle", op |-> op, late |-> FALSE, copy |-> NoState] :
                                  op \in Ops}]
    /\ reporter = "idle"
    /\ latest = NoState /\ overran = {}

-----------------------------------------------------------------------------
(* An update.                                                              *)

Begin(w) ==
    /\ worker[w].phase = "idle"
    /\ \E op \in Ops :
         worker' = [worker EXCEPT ![w] =
                      [phase |-> "locking", op |-> op, late |-> FALSE, copy |-> NoState]]
    /\ UNCHANGED <<cell, lock, reporter, latest, overran>>

\* SETNX with a time to live.
TakeLock(w) ==
    /\ worker[w].phase = "locking"
    /\ lock = Nobody
    /\ lock' = w
    /\ Goto(w, "reading")
    /\ UNCHANGED <<cell, reporter, latest, overran>>

\* Mutant: whoever has waited long enough goes on without the lock.
GiveUpLockBreaksIn(w) ==
    /\ worker[w].phase = "locking"
    /\ lock # Nobody /\ worker[w].late
    /\ Goto(w, "reading")
    /\ UNCHANGED <<cell, lock, reporter, latest, overran>>

\* Mutant: there is no deadline for the wait.
GiveUpLockNever(w) == FALSE /\ UNCHANGED vars

\* The lock is taken and the wait is over: no update.
GiveUpLock(w) ==
    /\ worker[w].phase = "locking"
    /\ lock # Nobody /\ worker[w].late
    /\ Leave(w)
    /\ UNCHANGED <<cell, lock, reporter, latest>>

\* SETNX fails; nobody will release what it may have set.
FailLock(w) ==
    /\ worker[w].phase = "locking"
    /\ lock' \in {lock, IF lock = Nobody THEN Stranger ELSE lock}
    /\ Leave(w)
    /\ UNCHANGED <<cell, reporter, latest>>

\* GET, and the breaker's function on what it brought.
Read(w) ==
    /\ worker[w].phase = "reading"
    /\ worker' = [worker EXCEPT ![w].phase = "writing", ![w].copy = Update[worker[w].op][cell]]
    /\ UNCHANGED <<cell, lock, reporter, latest, overran>>

\* GET fails, or brings what cannot be decoded.
FailRead(w) ==
    /\ worker[w].phase = "reading"
    /\ Goto(w, "releasing")
    /\ UNCHANGED <<cell, lock, reporter, latest, overran>>

\* SET or DEL is carried out, whether or not the caller learns of it.
Write(w) ==
    /\ worker[w].phase = "writing"
    /\ cell' = worker[w].copy
    /\ latest' = worker[w].copy
    /\ Goto(w, "releasing")
    /\ UNCHANGED <<lock, reporter, overran>>

FailWrite(w) ==
    /\ worker[w].phase = "writing"
    /\ Goto(w, "releasing")
    /\ UNCHANGED <<cell, lock, reporter, latest, overran>>

\* Mutant: the lock's key is deleted whosever it is.
ReleaseLockOfAnyone(w) ==
    /\ worker[w].phase = "releasing"
    /\ lock' = Nobody
    /\ Leave(w)
    /\ UNCHANGED <<cell, reporter, latest>>

\* The script deletes the lock's key if it holds this update's token.
ReleaseLock(w) ==
    /\ worker[w].phase = "releasing"
    /\ lock' = IF lock = w THEN Nobody ELSE lock
    /\ Leave(w)
    /\ UNCHANGED <<cell, reporter, latest>>

\* The script fails; its error is dropped.
FailRelease(w) ==
    /\ worker[w].phase = "releasing"
    /\ Abandon(w)
    /\ Leave(w)
    /\ UNCHANGED <<cell, reporter, latest>>

\* The process dies.
Crash(w) ==
    /\ worker[w].phase # "idle"
    /\ Abandon(w)
    /\ Leave(w)
    /\ UNCHANGED <<cell, reporter, latest>>

-----------------------------------------------------------------------------
(* Time.                                                                   *)

WaitEnds(w) ==
    /\ worker[w].phase = "locking" /\ ~worker[w].late
    /\ worker' = [worker EXCEPT ![w].late = TRUE]
    /\ UNCHANGED <<cell, lock, reporter, latest, overran>>

LockExpires ==
    /\ lock # Nobody
    /\ lock' = Nobody
    /\ overran' = overran \cup ({lock} \cap Workers)
    /\ UNCHANGED <<cell, worker, reporter, latest>>

StateExpires ==
    /\ cell # NoState
    /\ cell' = NoState
    /\ UNCHANGED <<lock, worker, reporter, latest, overran>>

-----------------------------------------------------------------------------
(* Without the lock.                                                       *)

ResetChannelByKey ==
    /\ cell' = NoState
    /\ UNCHANGED <<lock, worker, reporter, latest, overran>>

\* SCAN and GET; what has nothing to show is purged, by a command of its own.
Snapshot ==
    /\ reporter = "idle"
    /\ cell \in IdleStates
    /\ reporter' = "purging"
    /\ UNCHANGED <<cell, lock, worker, latest, overran>>

SnapshotPurge ==
    /\ reporter = "purging"
    /\ reporter' = "idle"
    /\ cell' = NoState
    /\ UNCHANGED <<lock, worker, latest, overran>>

\* What an update does of itself, and what befalls it.
Proceed(w) ==
    \/ TakeLock(w) \/ GiveUpLock(w)
    \/ Read(w) \/ Write(w) \/ ReleaseLock(w)

Fail(w) == FailLock(w) \/ FailRead(w) \/ FailWrite(w) \/ FailRelease(w) \/ Crash(w)

Next ==
    \/ \E w \in Workers : Begin(w) \/ Proceed(w) \/ Fail(w) \/ WaitEnds(w)
    \/ LockExpires \/ StateExpires
    \/ ResetChannelByKey \/ Snapshot \/ SnapshotPurge

Spec == Init /\ [][Next]_vars

\* Commands return, and time passes for who waits.  That the lock expires is
\* not needed: nothing waits for it without an end.
FairSpec ==
    /\ Spec
    /\ \A w \in Workers : WF_vars(Proceed(w)) /\ WF_vars(WaitEnds(w))

-----------------------------------------------------------------------------
(* What the store keeps true.                                              *)

\* The lock belongs to the update that took it until it expires: no update
\* frees another's lock, not even one that comes to its end so late that
\* others have had the lock since.
LockKept == \A w \in Updating \ overran : lock = w

\* As long as no update outlives its lock, the store keeps its promise to the
\* breaker, through failed commands, lost replies, crashes and resets: updates
\* follow one another and none is lost or half written.  After one did, the
\* promise holds again as soon as the updates it overlapped are over.
Store == INSTANCE CircuitStore WITH promise <- overran = {}

ImplementsCircuitStore == Store!StoreSpec

\* An update ends, with the state updated or an error: whoever holds the lock,
\* dead or alive, the request waits for LockWait and no longer.
UpdateEnds ==
    \A w \in Workers : worker[w].phase = "locking" ~> worker[w].phase = "idle"
=============================================================================
