---------------------------- MODULE CircuitState ----------------------------
(***************************************************************************)
(* The state the circuit breaker keeps for one channel and the pure        *)
(* functions that read and update it (src/channel_breaker.go).  A module   *)
(* that owns the store (ChannelBreaker) says when they are applied and to  *)
(* what.                                                                   *)
(*                                                                         *)
(* Times are naturals read off one clock that starts at 1, so that 0 is    *)
(* Go's zero time.Time.  Durations are naturals.  Of an event the model    *)
(* keeps what the decisions read: when it happened, whether it succeeded   *)
(* and whether it was slow.  Latencies, stream flags, channel names and    *)
(* open reasons only reach the health report and are left out.             *)
(***************************************************************************)
EXTENDS Integers, Sequences, FiniteSets

CONSTANTS
    MinSamples,        \* events in the window before a rate is looked at
    ErrorNum, ErrorDen,\* ErrorRateThreshold = ErrorNum / ErrorDen
    SlowNum, SlowDen,  \* SlowRateThreshold = SlowNum / SlowDen, 0 when slowness is not judged
    FailureWindow,     \* how long an event counts
    Cooldown,          \* how long the first open lasts
    MaxCooldown,       \* cap of the exponential backoff
    ProbeTimeout,      \* how long a half-open probe may stay undecided
    MaxWindowSamples,  \* most events kept
    OpenCountBound,    \* bound: consecutiveOpenCnt, which is only compared with 0, stays here
    Minute,            \* the slack stateTTL adds
    NoEntry            \* the store has no state for the channel

\* What normalizeCircuitBreakerConfig leaves of any configuration: every
\* duration and count is positive and the cap is not below the first cooldown.
ASSUME SamplesAssumption ==
    /\ MinSamples \in Nat \ {0}
    /\ MaxWindowSamples \in Nat \ {0}
    /\ OpenCountBound \in Nat \ {0}

ASSUME RatesAssumption ==
    /\ ErrorNum \in Nat \ {0} /\ ErrorDen \in Nat \ {0}
    /\ SlowNum \in Nat /\ SlowDen \in Nat \ {0}

ASSUME DurationsAssumption ==
    /\ FailureWindow \in Nat \ {0}
    /\ Cooldown \in Nat \ {0}
    /\ MaxCooldown \in Nat
    /\ MaxCooldown >= Cooldown
    /\ ProbeTimeout \in Nat \ {0}
    /\ Minute \in Nat \ {0}

-----------------------------------------------------------------------------

NoTime == 0

ChannelCircuitEvent == [at : Nat, success : BOOLEAN, slow : BOOLEAN]

ChannelCircuitState ==
    [ events             : Seq(ChannelCircuitEvent),
      openUntil          : Nat,
      halfOpen           : BOOLEAN,
      probeDeadline      : Nat,
      currentCooldown    : Nat,
      consecutiveOpenCnt : Nat,
      whitelisted        : BOOLEAN ]

NewChannelCircuitState ==
    [ events |-> <<>>, openUntil |-> NoTime, halfOpen |-> FALSE,
      probeDeadline |-> NoTime, currentCooldown |-> 0,
      consecutiveOpenCnt |-> 0, whitelisted |-> FALSE ]

-----------------------------------------------------------------------------
(* The window of events.                                                   *)

\* Mutant: an event as old as the window is already out of it.
LeadingStaleEarly(events, now) ==
    {i \in DOMAIN events : \A j \in 1..i : events[j].at <= now - FailureWindow}

\* Only the leading events are looked at: the first one inside the window
\* ends the trimming, whatever the times of those behind it.
LeadingStale(events, now) ==
    {i \in DOMAIN events : \A j \in 1..i : events[j].at < now - FailureWindow}

TrimEvents(events, now) ==
    SubSeq(events, Cardinality(LeadingStale(events, now)) + 1, Len(events))

LastEvents(events, n) ==
    IF Len(events) > n THEN SubSeq(events, Len(events) - n + 1, Len(events)) ELSE events

\* Mutant: MaxWindowSamples is forgotten.
AppendEventUncapped(events, event, now) == Append(TrimEvents(events, now), event)

AppendEvent(events, event, now) ==
    LastEvents(Append(TrimEvents(events, now), event), MaxWindowSamples)

FailureCount(events) == Cardinality({i \in DOMAIN events : ~events[i].success})
SlowCount(events)    == Cardinality({i \in DOMAIN events : events[i].slow})

-----------------------------------------------------------------------------
(* The verdicts.                                                           *)

IsOpen(s, now)    == s.openUntil > now
IsProbing(s, now) == s.halfOpen /\ now < s.probeDeadline
IsIdle(s, now)    == s.events = <<>> /\ ~IsOpen(s, now) /\ ~s.halfOpen

\* Mutant: an undecided probe keeps nobody out.
MustSkipOpenOnly(s, now) == IsOpen(s, now)

\* Mutant: an undecided probe keeps everybody out, however long it takes.
MustSkipHalfOpen(s, now) == IsOpen(s, now) \/ (s.openUntil # NoTime /\ s.halfOpen)

\* What Allow answers on a state that is not idle.
MustSkip(s, now)  == IsOpen(s, now) \/ (s.openUntil # NoTime /\ IsProbing(s, now))
GetsProbe(s, now) == ~IsOpen(s, now) /\ s.openUntil # NoTime /\ ~IsProbing(s, now)

ShouldOpen(s) ==
    \/ s.halfOpen
    \/ /\ Len(s.events) >= MinSamples
       /\ \/ FailureCount(s.events) * ErrorDen >= ErrorNum * Len(s.events)
          \/ SlowNum > 0 /\ SlowCount(s.events) * SlowDen >= SlowNum * Len(s.events)

FirstOpen(s) == s.consecutiveOpenCnt = 0 \/ s.currentCooldown = 0

\* Mutant: the backoff is not capped.
NextCooldownUncapped(s) == IF FirstOpen(s) THEN Cooldown ELSE 2 * s.currentCooldown

\* The code saturates the doubling at the largest int64 before it applies the
\* cap; the cap is itself an int64, so the result is the minimum below.
NextCooldown(s) ==
    IF FirstOpen(s) THEN Cooldown
    ELSE IF 2 * s.currentCooldown > MaxCooldown THEN MaxCooldown
    ELSE 2 * s.currentCooldown

-----------------------------------------------------------------------------
(* The updates, each the whole function handed to the store.  now is the   *)
(* time its caller read before it took the store's lock.                   *)

\* Open the circuit (or open it again).
Opened(s, now) ==
    [s EXCEPT !.halfOpen = FALSE,
              !.probeDeadline = NoTime,
              !.consecutiveOpenCnt = IF FirstOpen(s) THEN 1
                                     ELSE IF @ < OpenCountBound THEN @ + 1 ELSE @,
              !.currentCooldown = NextCooldown(s),
              !.openUntil = now + NextCooldown(s)]

\* Mutant: clearing the circuit forgets the half-open slot.
ClearedButProbe(s) ==
    [s EXCEPT !.openUntil = NoTime, !.currentCooldown = 0, !.consecutiveOpenCnt = 0]

\* Nothing is held against the channel, and no backoff is remembered.
Cleared(s) ==
    [s EXCEPT !.openUntil = NoTime,
              !.halfOpen = FALSE,
              !.probeDeadline = NoTime,
              !.currentCooldown = 0,
              !.consecutiveOpenCnt = 0]

Trimmed(s, now) == [s EXCEPT !.events = TrimEvents(@, now)]

WithEvent(s, event, now) == [s EXCEPT !.events = AppendEvent(@, event, now)]

\* Mutant: whoever asks while a probe is out renews its deadline.
AfterAllowExtends(s, now) ==
    IF s.openUntil # NoTime /\ ~IsOpen(s, now)
    THEN [s EXCEPT !.halfOpen = TRUE, !.probeDeadline = now + ProbeTimeout]
    ELSE s

\* A probe is granted when the cooldown is over and no probe is out, or the
\* one that is out is overdue and taken for abandoned.
AfterAllow(s, now) ==
    IF GetsProbe(s, now)
    THEN [s EXCEPT !.halfOpen = TRUE, !.probeDeadline = now + ProbeTimeout]
    ELSE s

CancelledProbe(s) ==
    IF s.halfOpen THEN [s EXCEPT !.halfOpen = FALSE, !.probeDeadline = NoTime] ELSE s

\* Mutant: a success that closes an open circuit forgets its backoff.
AfterSuccessForgets(s, event, now) ==
    LET w == WithEvent(s, event, now)
        t == [(IF IsOpen(s, now) THEN Cleared(w) ELSE w) EXCEPT !.whitelisted = FALSE]
    IN  IF ShouldOpen(t) THEN Opened(t, now) ELSE t

\* A success outside half-open closes an open circuit on the spot; the rates,
\* the slow rate first of all, may still open it again.
AfterSuccess(s, event, now) ==
    LET t == [WithEvent(s, event, now) EXCEPT !.whitelisted = FALSE,
                                             !.openUntil = IF IsOpen(s, now) THEN NoTime ELSE @]
    IN  IF ShouldOpen(t) THEN Opened(t, now) ELSE t

AfterFailure(s, event, now) ==
    LET t == [WithEvent(s, event, now) EXCEPT !.whitelisted = FALSE]
    IN  IF ShouldOpen(t) THEN Opened(t, now) ELSE t

AfterWhitelisted(s, event, now) ==
    [Cleared(WithEvent(s, event, now)) EXCEPT !.whitelisted = TRUE]

\* Mutant: the entry's life does not regard the probe.
StateTTLWithoutProbe(s, now) ==
    LET base == IF IsOpen(s, now) THEN (s.openUntil - now) + FailureWindow + Minute
                ELSE FailureWindow + Cooldown + Minute
    IN  IF s.currentCooldown > Cooldown THEN base + (s.currentCooldown - Cooldown) ELSE base

\* How long the store keeps a state that is not touched again.
StateTTL(s, now) ==
    LET base   == IF IsOpen(s, now) THEN (s.openUntil - now) + FailureWindow + Minute
                  ELSE FailureWindow + Cooldown + Minute
        backed == IF s.currentCooldown > Cooldown THEN base + (s.currentCooldown - Cooldown)
                  ELSE base
        probe  == (s.probeDeadline - now) + FailureWindow + Minute
    IN  IF IsProbing(s, now) /\ probe > backed THEN probe ELSE backed

-----------------------------------------------------------------------------
(* What every update keeps true of a state, at a time t not before its now. *)

\* The half-open flag and its deadline come together, on a channel that was
\* opened and whose backoff is remembered.
CoherentState(s) ==
    /\ s.halfOpen <=> s.probeDeadline # NoTime
    /\ s.halfOpen => s.openUntil # NoTime
    /\ s.openUntil # NoTime => s.consecutiveOpenCnt > 0

\* The backoff lies between its bounds and nothing blocks for longer than it
\* says, or than a probe may take.
BoundedState(s, t) ==
    /\ IF s.consecutiveOpenCnt = 0 THEN s.currentCooldown = 0
       ELSE s.currentCooldown \in Cooldown..MaxCooldown
    /\ s.openUntil <= t + s.currentCooldown
    /\ s.probeDeadline <= t + ProbeTimeout

SoundState(s, t) ==
    /\ s \in ChannelCircuitState
    /\ Len(s.events) <= MaxWindowSamples
    /\ CoherentState(s)
    /\ BoundedState(s, t)
=============================================================================
