----------------------- MODULE ChannelBreakerForever ------------------------
(***************************************************************************)
(* ChannelBreaker without an end of time, for its liveness properties.     *)
(*                                                                         *)
(* Every comparison the breaker makes is between a stored time and a now   *)
(* at most MaxLag old, and looks back at most FailureWindow.  When the     *)
(* clock has reached MaxClock, time passes by moving every stored time     *)
(* back by one instead; a time that has fallen to 1 is as past as it can   *)
(* be and stays there.  The state space is then finite and has no last     *)
(* state: HorizonAssumption says why 1 is far enough back.                 *)
(***************************************************************************)
EXTENDS ChannelBreaker

ASSUME HorizonAssumption == MaxClock - MaxLag - FailureWindow > 1

VARIABLE
    healthy  \* from here on every attempt succeeds and every client stays

foreverVars == <<clock, entry, request, reporter, healthy>>

Older(t) == IF t > 1 THEN t - 1 ELSE t

OlderEvents(events) ==
    [i \in DOMAIN events |-> [events[i] EXCEPT !.at = Older(@)]]

OlderState(s) ==
    [s EXCEPT !.events = OlderEvents(@),
              !.openUntil = Older(@),
              !.probeDeadline = Older(@)]

Slide ==
    /\ clock = MaxClock
    /\ entry' = IF entry = NoEntry THEN entry
                ELSE [state |-> OlderState(entry.state), expireAt |-> Older(entry.expireAt)]
    /\ request' = [r \in Requests |->
                     [request[r] EXCEPT !.since = Older(@), !.grant = Older(@)]]
    /\ UNCHANGED <<clock, reporter>>

TimePasses == Tick \/ Slide

Fails(r) ==
    \/ RecordFailure(r) \/ FailUncounted(r) \/ ClientGone(r) \/ HookPanic(r)
    \/ RecordWhitelistedFailure(r)

Works(r) ==
    \/ Allow(r) \/ TrackChannel(r)
    \/ RecordSuccess(r) \/ RecordWhitelistedSuccess(r) \/ CancelProbe(r)

\* The channel's last failure is behind it.
Recover ==
    /\ ~healthy
    /\ healthy' = TRUE
    /\ UNCHANGED vars

NextForever ==
    \/ Recover
    \/ /\ UNCHANGED healthy
       /\ \/ TimePasses
          \/ \E r \in Requests : Works(r) \/ (~healthy /\ Fails(r))
          \/ Snapshot \/ SnapshotPurge \/ ResetChannel

SpecForever == Init /\ healthy = FALSE /\ [][NextForever]_foreverVars

\* Time passes and nothing else need happen: requests may hang for ever.
FairTime == WF_foreverVars(TimePasses /\ UNCHANGED healthy)

\* What Recovers assumes of traffic: requests keep asking for the channel, and
\* an attempt on a healthy channel comes to its end (its handler returns; a
\* probe's clean-up is a plain call).
FairRequests ==
    \A r \in Requests :
        /\ WF_foreverVars(Allow(r) /\ UNCHANGED healthy)
        /\ WF_foreverVars(healthy /\ RecordSuccess(r) /\ UNCHANGED healthy)
        /\ WF_foreverVars(CancelProbe(r) /\ UNCHANGED healthy)

SpecTime == SpecForever /\ FairTime

\* A channel that is shut, or whose probe is awaited, is let go again however
\* many requests keep asking for it, whether or not the probe ever reports,
\* and although requests let in earlier may still fail.
BlockingEnds == BlockedFor > 0 ~> BlockedFor = 0

Closed == entry = NoEntry \/ (entry.state.openUntil = NoTime /\ ~entry.state.halfOpen)

\* With traffic that keeps coming, a channel that is healthy from some point on
\* has its circuit closed for good, whatever probes were abandoned or cancelled
\* before.
Recovers == FairRequests => (<>healthy => <>[]Closed)
=============================================================================
