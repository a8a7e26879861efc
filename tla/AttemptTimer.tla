---------------------------- MODULE AttemptTimer ----------------------------
(***************************************************************************)
(* The attempt timeout (src/timeout.go): each attempt runs under a context *)
(* of its own that a timer cancels.  The timer's callback is a goroutine   *)
(* beside the handler's; between the moment the response headers are in    *)
(* and the moment the handler has judged them, both are running, and the   *)
(* client may leave.                                                       *)
(*                                                                         *)
(* The module follows the attempts of one request at the grain of single   *)
(* loads and stores.  AttemptTimeout is the nearest deadline here; one set *)
(* by the failover budget is a plain context deadline, in FailoverPipeline.*)
(***************************************************************************)
EXTENDS Integers, Sequences

CONSTANTS
    MaxAttempts,        \* attempts, over all keys, the request may make
    HasRetryOnResponse  \* is RetryOnResponse configured

ASSUME MaxAttemptsAssumption == MaxAttempts \in Nat \ {0}
ASSUME RetryAssumption == HasRetryOnResponse \in BOOLEAN

Attempts == 1..MaxAttempts

VARIABLES
    handler,   \* where the request's goroutine is
    attempt,   \* which attempt it is at
    timer,     \* for each attempt: its timer, or how far the callback got
    timedOut,  \* for each attempt: the flag attemptTimedOut
    canceled,  \* for each attempt: was its own cancel called
    client,    \* is the client there
    got,       \* what client.Do returned for the current attempt
    stopped,   \* attemptTimerStopped: timer.Stop came first
    doneErr,   \* was the attempt's context done when it was looked at
    outcome    \* for each attempt: how it ended

vars == <<handler, attempt, timer, timedOut, canceled, client, got, stopped, doneErr, outcome>>

Outcomes == {"none", "timeout", "canceled", "network", "rejected", "copied", "unread",
             "complete", "cut"}

TypeOK ==
    /\ handler \in {"idle", "sending", "stopping", "looking", "deciding", "reading", "over"}
    /\ attempt \in 0..MaxAttempts
    /\ timer \in [Attempts -> {"none", "armed", "stopped", "expired", "halfway", "spent"}]
    /\ timedOut \in [Attempts -> BOOLEAN] /\ canceled \in [Attempts -> BOOLEAN]
    /\ client \in {"here", "gone"}
    /\ got \in {"none", "response", "error", "canceled", "left"}
    /\ stopped \in BOOLEAN /\ doneErr \in BOOLEAN
    /\ outcome \in [Attempts -> Outcomes]

Init ==
    /\ handler = "idle" /\ attempt = 0
    /\ timer = [a \in Attempts |-> "none"]
    /\ timedOut = [a \in Attempts |-> FALSE]
    /\ canceled = [a \in Attempts |-> FALSE]
    /\ client = "here"
    /\ got = "none" /\ stopped = FALSE /\ doneErr = FALSE
    /\ outcome = [a \in Attempts |-> "none"]

\* attemptCtx.Err() # nil: its cancel was called, or the client left.
ContextDone(a) == canceled[a] \/ client = "gone"

\* Mutant: closing the body leaves the attempt's context alone.
ReleaseNothing(a) == UNCHANGED canceled

\* cancel(), called by the clean-up or by closing the response's body.
Release(a) == canceled' = [canceled EXCEPT ![a] = TRUE]

\* The attempt has ended; with no response to forward there may be another,
\* the error left by an "unread" one being forgotten.
End(a, how) ==
    /\ outcome' = [outcome EXCEPT ![a] = how]
    /\ \/ handler' = "over"
       \/ /\ how \in {"timeout", "network", "rejected", "copied", "unread"}
          /\ attempt < MaxAttempts
          /\ handler' = "idle"

-----------------------------------------------------------------------------
(* The handler.                                                            *)

\* The client is looked for first; then the timer is set.
StartAttempt ==
    /\ handler = "idle"
    /\ \/ /\ client = "gone"
          /\ handler' = "over"
          /\ UNCHANGED <<attempt, timer>>
       \/ /\ client = "here"
          /\ handler' = "sending"
          /\ attempt' = attempt + 1
          /\ timer' = [timer EXCEPT ![attempt + 1] = "armed"]
    /\ got' = "none" /\ stopped' = FALSE /\ doneErr' = FALSE
    /\ UNCHANGED <<timedOut, canceled, client, outcome>>

\* Response headers, an error of the channel's, or the end of the context.
\* "left" is "canceled" by a client that left before the timer did anything.
Respond ==
    /\ handler = "sending"
    /\ got' \in {"response", "error"}
    /\ handler' = "stopping"
    /\ UNCHANGED <<attempt, timer, timedOut, canceled, client, stopped, doneErr, outcome>>

GiveUpWaiting ==
    /\ handler = "sending"
    /\ ContextDone(attempt)
    /\ got' = IF canceled[attempt] THEN "canceled" ELSE "left"
    /\ handler' = "stopping"
    /\ UNCHANGED <<attempt, timer, timedOut, canceled, client, stopped, doneErr, outcome>>

\* Mutant: the clean-up asks whether the timer went off but lets it run.
StopTimerOnlyLooks ==
    /\ handler = "stopping"
    /\ stopped' = (timer[attempt] = "armed")
    /\ handler' = "looking"
    /\ UNCHANGED <<attempt, timer, timedOut, canceled, client, got, doneErr, outcome>>

StopTimer ==
    /\ handler = "stopping"
    /\ stopped' = (timer[attempt] = "armed")
    /\ timer' = [timer EXCEPT ![attempt] = IF @ = "armed" THEN "stopped" ELSE @]
    /\ handler' = "looking"
    /\ UNCHANGED <<attempt, timedOut, canceled, client, got, doneErr, outcome>>

LookAtContext ==
    /\ handler = "looking"
    /\ doneErr' = ContextDone(attempt)
    /\ handler' = "deciding"
    /\ UNCHANGED <<attempt, timer, timedOut, canceled, client, got, stopped, outcome>>

\* A response is kept if the context was not done or the timer had been stopped.
\* Otherwise the context is cancelled, and the flag says whether by the timer;
\* a response whose flag is not up goes on, its context cancelled.
Decide ==
    /\ handler = "deciding"
    /\ \/ /\ got = "response" /\ (~doneErr \/ stopped)
          /\ handler' = "reading"
          /\ UNCHANGED <<canceled, outcome>>
       \/ /\ got # "response" \/ (doneErr /\ ~stopped)
          /\ Release(attempt)
          /\ \/ timedOut[attempt] /\ End(attempt, "timeout")
             \/ /\ ~timedOut[attempt]
                /\ \/ got = "response" /\ handler' = "reading" /\ UNCHANGED outcome
                   \/ got = "error" /\ End(attempt, "network")
                   \/ got \in {"canceled", "left"} /\ End(attempt, "canceled")
    /\ UNCHANGED <<attempt, timer, timedOut, client, got, stopped, doneErr>>

\* What becomes of a response whose body is closed: it is not accepted, an event
\* stream's first bytes cannot be read as the context is done, or it is forwarded
\* to the end or to where the context ends it.  An unread stream's error has
\* context.Canceled in its chain; as the last attempt's it ends the request.
CloseResponse ==
    /\ \/ End(attempt, "rejected")
       \/ End(attempt, "complete")
       \/ ContextDone(attempt) /\ (End(attempt, "unread") \/ End(attempt, "cut"))
    /\ Release(attempt)

\* An error response that RetryOnResponse is to see is read, and a copy of its
\* bytes put in its place, whose Close cancels nothing.
ReplaceResponse ==
    /\ HasRetryOnResponse
    /\ End(attempt, "copied")
    /\ UNCHANGED canceled

Finish ==
    /\ handler = "reading"
    /\ CloseResponse \/ ReplaceResponse
    /\ UNCHANGED <<attempt, timer, timedOut, client, got, stopped, doneErr>>

-----------------------------------------------------------------------------
(* The timers, and the client.                                             *)

\* Mutant: the context is cancelled before the flag is up.
CallbackCancelsFirst == [expired |-> "cancel", halfway |-> "store"]

\* Mutant: the callback puts the flag up and leaves the attempt alone.
CallbackOnlyFlags == [expired |-> "store", halfway |-> "store"]

\* What the callback does when the timer has expired, and then.
Callback == [expired |-> "store", halfway |-> "cancel"]

\* The timer goes off: from here on Stop comes too late.
Expire(a) ==
    /\ timer[a] = "armed"
    /\ timer' = [timer EXCEPT ![a] = "expired"]
    /\ UNCHANGED <<handler, attempt, timedOut, canceled, client, got, stopped, doneErr, outcome>>

RunCallback(a) ==
    /\ timer[a] \in DOMAIN Callback
    /\ timer' = [timer EXCEPT ![a] = IF @ = "expired" THEN "halfway" ELSE "spent"]
    /\ \/ Callback[timer[a]] = "store"
          /\ timedOut' = [timedOut EXCEPT ![a] = TRUE]
          /\ UNCHANGED canceled
       \/ Callback[timer[a]] = "cancel"
          /\ Release(a)
          /\ UNCHANGED timedOut
    /\ UNCHANGED <<handler, attempt, client, got, stopped, doneErr, outcome>>

ClientLeaves ==
    /\ client = "here" /\ handler # "over"
    /\ client' = "gone"
    /\ UNCHANGED <<handler, attempt, timer, timedOut, canceled, got, stopped, doneErr, outcome>>

Next ==
    \/ StartAttempt \/ Respond \/ GiveUpWaiting
    \/ StopTimer \/ LookAtContext \/ Decide \/ Finish
    \/ \E a \in Attempts : Expire(a) \/ RunCallback(a)
    \/ ClientLeaves

Spec == Init /\ [][Next]_vars

\* Timers go off and their callbacks run; client.Do returns when its context is
\* done.  The upstream need never answer.
FairSpec ==
    /\ Spec
    /\ WF_vars(StartAttempt) /\ WF_vars(GiveUpWaiting)
    /\ WF_vars(StopTimer) /\ WF_vars(LookAtContext) /\ WF_vars(Decide)
    /\ \A a \in Attempts : WF_vars(Expire(a)) /\ WF_vars(RunCallback(a))

-----------------------------------------------------------------------------
(* What the timer keeps true.                                              *)

\* With the client there, an attempt whose timer ended its wait for the response
\* is not taken for one that the client cancelled, which would end the whole
\* request: the flag is up before the context is done, so whoever was woken by
\* the context finds it.  What does pass for the client's cancel is the time-out
\* of a response that came in as the timer went off: the flag has been passed
\* over when the callback takes an event stream's first bytes away.
TimeoutIsNotACancel ==
    \A a \in Attempts :
        outcome[a] \in {"canceled", "unread"} /\ client = "here"
            => outcome[a] = "unread" /\ timer[a] = "spent"

\* That takes a timer that went off before Stop and had not cancelled when the
\* context was looked at.  A response whose timer was stopped, or whose context
\* was found done, is interrupted by nobody but the client: not by its own
\* timer, nor by a late one of an attempt before it.
StoppedTimerStaysOut ==
    \A a \in Attempts :
        (stopped \/ doneErr) /\ a = attempt /\ outcome[a] \in {"unread", "cut"} => client = "gone"

\* On every path, past time-outs, rejected and forwarded responses, somebody
\* cancels the attempt's context, but for an error response that
\* RetryOnResponse has looked at: its context lasts as long as the request's.
ContextsReleased ==
    \A a \in Attempts :
        outcome[a] # "none" => canceled[a] \/ (HasRetryOnResponse /\ outcome[a] = "copied")

\* Every attempt ends although its upstream never answers.
AttemptEnds ==
    \A a \in Attempts : (handler = "sending" /\ attempt = a) ~> ~(handler = "sending" /\ attempt = a)
=============================================================================
