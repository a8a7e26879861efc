--------------------------- MODULE ChannelBreaker ---------------------------
(***************************************************************************)
(* One channel's circuit breaker under concurrent requests: the entry the  *)
(* in-memory store holds for the channel, the calls the pipeline makes on  *)
(* it for each request, the health report's two-step clean-up and the      *)
(* administrative reset.                                                   *)
(*                                                                         *)
(* The store runs every update under one mutex, so an operation is one     *)
(* step.  The operation's own now is read before the mutex is taken: a     *)
(* step may carry a time up to MaxLag old, but never one from before the   *)
(* request's previous step.  The store's own clock is read inside it.      *)
(***************************************************************************)
EXTENDS CircuitState

CONSTANTS
    Requests,      \* requests that may be using the channel at the same time
    MaxClock,      \* bound: the clock stops here
    MaxLag,        \* bound: how old a caller's now may be when it is applied
    ExemptChoices, \* may a request find the channel whitelisted: a subset of BOOLEAN
    HooksMayPanic  \* may a caller's hook panic in the middle of an attempt

ASSUME EnvironmentAssumption ==
    /\ MaxClock \in Nat /\ MaxLag \in Nat
    /\ ExemptChoices \subseteq BOOLEAN /\ HooksMayPanic \in BOOLEAN

\* The store's entry: a state and the time after which it no longer counts.
ChannelCircuitEntry == [state : ChannelCircuitState, expireAt : Nat]

ASSUME NoEntryAssumption == NoEntry \notin ChannelCircuitEntry

VARIABLES
    clock,    \* the time
    entry,    \* what the store's map holds for the channel
    request,  \* each request: where it is, as what it was admitted, its last step
    reporter  \* the health report: about to purge the channel, or not running

vars == <<clock, entry, request, reporter>>

Phases == {"idle", "upstream", "unwinding"}

\* grant is a history variable: the deadline the request's probe was given.
RequestState ==
    [phase : Phases, probe : BOOLEAN, exempt : BOOLEAN, since : Nat, grant : Nat]

Outside ==
    [phase |-> "idle", probe |-> FALSE, exempt |-> FALSE, since |-> 0, grant |-> NoTime]

TypeOK ==
    /\ clock \in Nat
    /\ entry \in ChannelCircuitEntry \cup {NoEntry}
    /\ entry # NoEntry => Len(entry.state.events) <= MaxWindowSamples
    /\ request \in [Requests -> RequestState]
    /\ reporter \in {"idle", "purging"}

-----------------------------------------------------------------------------
(* The store.                                                              *)

Expired(e) == e # NoEntry /\ e.expireAt < clock

\* The state an update starts from: an expired one is dropped first.
Loaded == IF entry = NoEntry \/ Expired(entry) THEN NewChannelCircuitState
          ELSE entry.state

Keep(s, now) == entry' = [state |-> s, expireAt |-> clock + StateTTL(s, now)]
Forget == entry' = NoEntry

\* The times a caller whose last step was at since may have read.
Readable(since) == {t \in 1..clock : t >= since /\ t + MaxLag >= clock}

\* isSlowEvent needs a configured threshold.
SlowVerdicts == IF SlowNum = 0 THEN {FALSE} ELSE BOOLEAN

-----------------------------------------------------------------------------
(* Where a request goes.                                                   *)

Leave(r) == request' = [request EXCEPT ![r] = Outside]

Enter(r, probe, exempt, grant) ==
    request' = [request EXCEPT ![r] =
        [phase |-> "upstream", probe |-> probe, exempt |-> exempt,
         since |-> clock, grant |-> grant]]

\* The attempt is over and the request goes on with another key or attempt.
TryAgain(r) == request' = [request EXCEPT ![r].since = clock]

\* tryChannel has returned an error: a probe still has to be cancelled.
GiveUp(r) ==
    IF request[r].probe
    THEN request' = [request EXCEPT ![r].phase = "unwinding", ![r].since = clock]
    ELSE Leave(r)

Upstream(r) == request[r].phase = "upstream"

-----------------------------------------------------------------------------

Init ==
    /\ clock = 1
    /\ entry = NoEntry
    /\ request = [r \in Requests |-> Outside]
    /\ reporter = "idle"

Tick ==
    /\ clock < MaxClock
    /\ clock' = clock + 1
    /\ UNCHANGED <<entry, request, reporter>>

\* Before it uses the channel a request asks the breaker, which answers by
\* what is left of the state after trimming.  A state with nothing left to
\* remember is dropped and the request let in.
Answer(r, s, now) ==
    \/ IsIdle(s, now) /\ Forget /\ Enter(r, FALSE, FALSE, NoTime)
    \/ /\ ~IsIdle(s, now)
       /\ Keep(AfterAllow(s, now), now)
       /\ \/ MustSkip(s, now) /\ UNCHANGED request
          \/ /\ GetsProbe(s, now)
             /\ Enter(r, TRUE, FALSE, AfterAllow(s, now).probeDeadline)
          \/ /\ ~MustSkip(s, now) /\ ~GetsProbe(s, now)
             /\ Enter(r, FALSE, FALSE, NoTime)

Allow(r) ==
    /\ request[r].phase = "idle"
    /\ FALSE \in ExemptChoices
    /\ \E now \in Readable(request[r].since) : Answer(r, Trimmed(Loaded, now), now)
    /\ UNCHANGED <<clock, reporter>>

\* A whitelisted channel is only tracked, never asked.
TrackChannel(r) ==
    /\ request[r].phase = "idle"
    /\ TRUE \in ExemptChoices
    /\ \E now \in Readable(request[r].since) :
         Keep([Loaded EXCEPT !.whitelisted = TRUE], now)
    /\ Enter(r, FALSE, TRUE, NoTime)
    /\ UNCHANGED <<clock, reporter>>

\* The response went out in full.
RecordSuccess(r) ==
    /\ Upstream(r) /\ ~request[r].exempt
    /\ \E now \in Readable(request[r].since), slow \in SlowVerdicts :
         IF Loaded.halfOpen THEN Forget
         ELSE Keep(AfterSuccess(Loaded, [at |-> now, success |-> TRUE, slow |-> slow], now), now)
    /\ Leave(r)
    /\ UNCHANGED <<clock, reporter>>

\* An attempt, a whole key pool, or the body of an accepted response failed in
\* a way that counts.  Opening the circuit ends the request's turn on the
\* channel; otherwise it may try another attempt or key.  A body that breaks
\* off is recorded after the pipeline's probe handling, so that a probe may
\* also end here without being cancelled.
RecordFailure(r) ==
    /\ Upstream(r) /\ ~request[r].exempt
    /\ \E now \in Readable(request[r].since), slow \in SlowVerdicts :
         LET s == WithEvent(Loaded, [at |-> now, success |-> FALSE, slow |-> slow], now)
         IN  /\ Keep(AfterFailure(Loaded, [at |-> now, success |-> FALSE, slow |-> slow], now), now)
             /\ \/ GiveUp(r)
                \/ Leave(r)
                \/ ~ShouldOpen(s) /\ TryAgain(r)
    /\ UNCHANGED <<clock, reporter>>

\* Success and failure of a request that found the channel whitelisted.
RecordWhitelistedSuccess(r) ==
    /\ Upstream(r) /\ request[r].exempt
    /\ \E now \in Readable(request[r].since), slow \in SlowVerdicts :
         Keep(AfterWhitelisted(Loaded, [at |-> now, success |-> TRUE, slow |-> slow], now), now)
    /\ Leave(r)
    /\ UNCHANGED <<clock, reporter>>

RecordWhitelistedFailure(r) ==
    /\ Upstream(r) /\ request[r].exempt
    /\ \E now \in Readable(request[r].since), slow \in SlowVerdicts :
         Keep(AfterWhitelisted(Loaded, [at |-> now, success |-> FALSE, slow |-> slow], now), now)
    /\ \/ Leave(r)
       \/ TryAgain(r)
    /\ UNCHANGED <<clock, reporter>>

\* An attempt failed in a way that does not count against the channel.
FailUncounted(r) ==
    /\ Upstream(r)
    /\ GiveUp(r) \/ TryAgain(r)
    /\ UNCHANGED <<clock, entry, reporter>>

\* The pipeline gives the half-open slot back after a failed probe.
CancelProbe(r) ==
    /\ request[r].phase = "unwinding"
    /\ \E now \in Readable(request[r].since) : Keep(CancelledProbe(Loaded), now)
    /\ Leave(r)
    /\ UNCHANGED <<clock, reporter>>

\* The client went away while the accepted response was being forwarded:
\* recordChannelSuccess returns without a call on the breaker.
ClientGone(r) ==
    /\ Upstream(r)
    /\ Leave(r)
    /\ UNCHANGED <<clock, entry, reporter>>

\* A hook or a handler panicked: the stack unwinds past every call above.
HookPanic(r) ==
    /\ HooksMayPanic
    /\ Upstream(r)
    /\ Leave(r)
    /\ UNCHANGED <<clock, entry, reporter>>

-----------------------------------------------------------------------------
(* The health report and the reset.                                        *)

\* The report copies the live entries under the mutex, then drops, one call
\* each, those whose copy has nothing left to show.
Snapshot ==
    /\ reporter = "idle"
    /\ entry # NoEntry
    /\ IF Expired(entry)
       THEN Forget /\ UNCHANGED reporter
       ELSE /\ \E now \in Readable(0) :
                 LET s == Trimmed(entry.state, now)
                 IN  reporter' = IF IsIdle(s, now) /\ ~s.whitelisted THEN "purging" ELSE "idle"
            /\ UNCHANGED entry
    /\ UNCHANGED <<clock, request>>

SnapshotPurge ==
    /\ reporter = "purging"
    /\ Forget
    /\ reporter' = "idle"
    /\ UNCHANGED <<clock, request>>

ResetChannel ==
    /\ entry # NoEntry
    /\ Forget
    /\ UNCHANGED <<clock, request, reporter>>

Next ==
    \/ Tick
    \/ \E r \in Requests :
          \/ Allow(r) \/ TrackChannel(r)
          \/ RecordSuccess(r) \/ RecordFailure(r)
          \/ RecordWhitelistedSuccess(r) \/ RecordWhitelistedFailure(r)
          \/ FailUncounted(r) \/ CancelProbe(r)
          \/ ClientGone(r) \/ HookPanic(r)
    \/ Snapshot \/ SnapshotPurge \/ ResetChannel

Spec == Init /\ [][Next]_vars

-----------------------------------------------------------------------------
(* What the breaker keeps true.                                            *)

Live == entry # NoEntry /\ ~Expired(entry)

\* The half-open flag, its deadline and the cooldown that led to it always
\* come together, whichever operations interleave: no half-open slot without
\* a deadline that frees it, none on a channel that was not opened first.
HalfOpenCoherent == entry # NoEntry => CoherentState(entry.state)

\* The backoff stays between Cooldown and MaxCooldown while it is remembered,
\* and the channel is never shut for longer than that from now on, nor a probe
\* awaited longer than ProbeTimeout.
BlockingBounded == entry # NoEntry => BoundedState(entry.state, clock)

\* The entry outlives what it says: the store's lazy expiry never drops a
\* channel that is shut or whose probe is awaited, whatever the caller's lag.
EntryOutlivesBlocking ==
    entry # NoEntry =>
        /\ IsOpen(entry.state, clock) => entry.expireAt >= entry.state.openUntil
        /\ IsProbing(entry.state, clock) => entry.expireAt >= entry.state.probeDeadline

Admitted(r) ==
    /\ request[r].phase = "idle"
    /\ request'[r].phase = "upstream"
    /\ ~request'[r].exempt

\* No request is let through to a channel that is shut, or whose probe is out
\* and not overdue, even when it read its clock late or the entry is about to
\* expire.
SkippedWhileBlocked ==
    [][\A r \in Requests : Admitted(r) =>
         entry = NoEntry \/ (~IsOpen(entry.state, clock) /\ ~IsProbing(entry.state, clock))]_vars

\* The exponential backoff never shrinks while the store remembers the
\* channel, except when a whitelisted request wipes it.
BackoffNeverShrinks ==
    [][Live /\ entry' # NoEntry /\ ~entry'.state.whitelisted =>
         entry'.state.currentCooldown >= entry.state.currentCooldown]_vars

\* While the entry lives, an event inside the window is lost to nothing but the
\* cap: to make room, when MaxWindowSamples newer ones are there.
RecentEventsKept ==
    [][Live /\ entry' # NoEntry =>
         \A i \in DOMAIN entry.state.events :
            entry.state.events[i].at >= clock - FailureWindow =>
              \/ \E j \in DOMAIN entry'.state.events :
                    entry'.state.events[j] = entry.state.events[i]
              \/ Len(entry'.state.events) = MaxWindowSamples]_vars

-----------------------------------------------------------------------------
(* What the breaker implements.                                            *)

LargestOf(a, b) == IF a >= b THEN a ELSE b

\* How long from time t on the state, or the entry, turns requests away.
StateBlocks(s, t) ==
    LargestOf(IF IsOpen(s, t) THEN s.openUntil - t ELSE 0,
              IF IsProbing(s, t) THEN s.probeDeadline - t ELSE 0)

BlockedFor == IF entry = NoEntry THEN 0 ELSE StateBlocks(entry.state, clock)

Gate == INSTANCE ChannelGate WITH
    MaxShut <- LargestOf(MaxCooldown, ProbeTimeout),
    shutFor <- BlockedFor,
    inside  <- {r \in Requests : Upstream(r) /\ ~request[r].exempt}

\* The breaker is a gate: whatever the interleaving, the lag of the callers'
\* clocks, expiry, clean-up and resets do, the channel is shut only by a
\* request that was let in, for a bounded time, and nobody passes meanwhile.
ImplementsGate == Gate!GateSpec
=============================================================================
