------------------------ MODULE ChannelBreakerProofs ------------------------
(***************************************************************************)
(* ChannelBreaker's invariants and action properties, and that it          *)
(* implements ChannelGate, for any set of requests, any configuration, any *)
(* lag of the callers' clocks.                                             *)
(***************************************************************************)
EXTENDS ChannelBreaker, CircuitStateProofs

\* An entry the store may hold at time t: a sound state that lives at least as
\* long as what it blocks.
SoundEntry(e, t) ==
    /\ e \in ChannelCircuitEntry
    /\ SoundState(e.state, t)
    /\ IsOpen(e.state, t) => e.expireAt >= e.state.openUntil
    /\ IsProbing(e.state, t) => e.expireAt >= e.state.probeDeadline

IInv ==
    /\ clock \in Nat \ {0}
    /\ entry # NoEntry => SoundEntry(entry, clock)
    /\ request \in [Requests -> RequestState]
    /\ reporter \in {"idle", "purging"}

-----------------------------------------------------------------------------
(* The entry.                                                              *)

\* Whatever sound state an update leaves, the entry it stores is sound.
LEMMA KeptEntrySound ==
    ASSUME NEW s, NEW t \in Nat, NEW now \in 1..t, SoundState(s, t)
    PROVE  SoundEntry([state |-> s, expireAt |-> t + StateTTL(s, now)], t)
<1> DEFINE e == [state |-> s, expireAt |-> t + StateTTL(s, now)]
<1>1. s \in ChannelCircuitState /\ now \in Nat /\ now <= t
  BY DEF SoundState
<1>2. /\ StateTTL(s, now) \in Nat \ {0}
      /\ IsOpen(s, now) => StateTTL(s, now) >= s.openUntil - now
      /\ IsProbing(s, now) => StateTTL(s, now) >= s.probeDeadline - now
  BY <1>1, StateTTLCovers
<1>3. s.openUntil \in Nat /\ s.probeDeadline \in Nat
  BY <1>1 DEF ChannelCircuitState
<1>4. /\ e.state = s
      /\ e.expireAt = t + StateTTL(s, now)
  OBVIOUS
<1>5. e \in ChannelCircuitEntry
  BY <1>1, <1>2 DEF ChannelCircuitEntry
<1> HIDE DEF e
<1>6. IsOpen(s, t) => e.expireAt >= s.openUntil
  BY <1>1, <1>2, <1>3, <1>4 DEF IsOpen
<1>7. IsProbing(s, t) => e.expireAt >= s.probeDeadline
  BY <1>1, <1>2, <1>3, <1>4 DEF IsProbing
<1>8. SoundEntry(e, t)
  BY <1>4, <1>5, <1>6, <1>7 DEF SoundEntry
<1>9. QED BY <1>8 DEF e

\* An entry that is sound stays so when time passes.
LEMMA SoundEntryLater ==
    ASSUME NEW e, NEW t \in Nat, NEW u \in Nat, t <= u, SoundEntry(e, t)
    PROVE  SoundEntry(e, u)
<1>1. SoundState(e.state, u)
  BY SoundLater DEF SoundEntry
<1>2. e.state.openUntil \in Nat /\ e.state.probeDeadline \in Nat
  BY DEF SoundEntry, ChannelCircuitEntry, ChannelCircuitState
<1>3. QED
  BY <1>1, <1>2 DEF SoundEntry, IsOpen, IsProbing

\* The state an update starts from is sound.
LEMMA LoadedSound ==
    ASSUME IInv
    PROVE  SoundState(Loaded, clock)
BY NewStateSound DEF IInv, SoundEntry, Loaded

\* Storing a sound state re-establishes the invariant's part on the entry.
LEMMA KeepSound ==
    ASSUME IInv, UNCHANGED clock,
           NEW now \in 1..clock, NEW s, SoundState(s, clock), Keep(s, now)
    PROVE  SoundEntry(entry, clock)'
<1>1. clock \in Nat
  BY DEF IInv
<1>2. SoundEntry([state |-> s, expireAt |-> clock + StateTTL(s, now)], clock)
  BY <1>1, KeptEntrySound
<1>3. QED BY <1>2 DEF Keep

-----------------------------------------------------------------------------
(* The requests.                                                           *)

\* Entering keeps the requests well-typed and their times not ahead of the
\* clock.
LEMMA EnterType ==
    ASSUME IInv, NEW r \in Requests, NEW probe \in BOOLEAN, NEW exempt \in BOOLEAN,
           NEW grant \in Nat, Enter(r, probe, exempt, grant)
    PROVE  request' \in [Requests -> RequestState]
BY DEF IInv, Enter, RequestState, Phases

\* So does leaving,
LEMMA LeaveType ==
    ASSUME IInv, NEW r \in Requests, Leave(r)
    PROVE  request' \in [Requests -> RequestState]
BY DEF IInv, Leave, Outside, RequestState, Phases, NoTime

\* another attempt,
LEMMA TryAgainType ==
    ASSUME IInv, NEW r \in Requests, TryAgain(r)
    PROVE  request' \in [Requests -> RequestState]
BY DEF IInv, TryAgain, RequestState

\* and giving up.
LEMMA GiveUpType ==
    ASSUME IInv, NEW r \in Requests, GiveUp(r)
    PROVE  request' \in [Requests -> RequestState]
<1>1. CASE request[r].probe
  BY <1>1 DEF IInv, GiveUp, RequestState, Phases
<1>2. CASE ~request[r].probe
  BY <1>2, LeaveType DEF GiveUp
<1>3. QED BY <1>1, <1>2

-----------------------------------------------------------------------------
(* The invariant.                                                          *)

\* The invariant holds with no entry and nobody inside.
LEMMA InitIInv == Init => IInv
BY DEF Init, IInv, Outside, RequestState, Phases, NoTime

\* An event recorded at a readable time is an event.
LEMMA EventType ==
    ASSUME NEW now \in Nat, NEW success \in BOOLEAN, NEW slow \in SlowVerdicts
    PROVE  [at |-> now, success |-> success, slow |-> slow] \in ChannelCircuitEvent
BY DEF ChannelCircuitEvent, SlowVerdicts

\* Allow keeps the invariant, whatever it answers.
LEMMA AllowIInv ==
    ASSUME IInv, NEW r \in Requests, Allow(r)
    PROVE  IInv'
<1>1. UNCHANGED <<clock, reporter>>
  BY DEF Allow
<1>2. PICK now \in Readable(request[r].since) : Answer(r, Trimmed(Loaded, now), now)
  BY DEF Allow
<1> DEFINE s == Trimmed(Loaded, now)
<1>3. now \in 1..clock /\ now \in Nat /\ clock \in Nat
  BY DEF Readable, IInv
<1>4. SoundState(s, clock)
  BY <1>3, LoadedSound, TrimmedSound
<1>5. SoundState(AfterAllow(s, now), clock)
  <2> HIDE DEF s
  <2> QED BY <1>3, <1>4, AfterAllowSound
<1> HIDE DEF s
<1>6. AfterAllow(s, now).probeDeadline \in Nat /\ NoTime \in Nat
  BY <1>5 DEF SoundState, ChannelCircuitState, NoTime
<1>7. CASE IsIdle(s, now) /\ Forget /\ Enter(r, FALSE, FALSE, NoTime)
  <2>1. request' \in [Requests -> RequestState]
    BY <1>6, <1>7, EnterType
  <2>2. QED BY <1>1, <1>7, <2>1 DEF IInv, Forget
<1>8. CASE Keep(AfterAllow(s, now), now) /\ UNCHANGED request
  <2>1. SoundEntry(entry, clock)'
    BY <1>1, <1>3, <1>5, <1>8, KeepSound
  <2>2. QED BY <1>1, <1>8, <2>1 DEF IInv
<1>9. CASE /\ Keep(AfterAllow(s, now), now)
           /\ \E probe \in BOOLEAN, grant \in Nat : Enter(r, probe, FALSE, grant)
  <2>1. SoundEntry(entry, clock)'
    BY <1>1, <1>3, <1>5, <1>9, KeepSound
  <2>2. request' \in [Requests -> RequestState]
    BY <1>9, EnterType
  <2>3. QED BY <1>1, <2>1, <2>2 DEF IInv
<1>10. QED BY <1>2, <1>6, <1>7, <1>8, <1>9 DEF s, Answer

\* TrackChannel keeps the invariant.
LEMMA TrackChannelIInv ==
    ASSUME IInv, NEW r \in Requests, TrackChannel(r)
    PROVE  IInv'
<1>1. PICK now \in Readable(request[r].since) :
         Keep([Loaded EXCEPT !.whitelisted = TRUE], now)
  BY DEF TrackChannel
<1>2. now \in 1..clock /\ now \in Nat /\ clock \in Nat /\ UNCHANGED <<clock, reporter>>
  BY DEF Readable, IInv, TrackChannel
<1>3. SoundState([Loaded EXCEPT !.whitelisted = TRUE], clock)
  BY <1>2, LoadedSound, TrackedSound
<1>4. SoundEntry(entry, clock)'
  BY <1>1, <1>2, <1>3, KeepSound
<1>5. request' \in [Requests -> RequestState]
  BY EnterType DEF TrackChannel, NoTime
<1>6. QED BY <1>2, <1>4, <1>5 DEF IInv

\* RecordSuccess keeps the invariant.
LEMMA RecordSuccessIInv ==
    ASSUME IInv, NEW r \in Requests, RecordSuccess(r)
    PROVE  IInv'
<1>1. PICK now \in Readable(request[r].since), slow \in SlowVerdicts :
         IF Loaded.halfOpen THEN Forget
         ELSE Keep(AfterSuccess(Loaded, [at |-> now, success |-> TRUE, slow |-> slow], now), now)
  BY DEF RecordSuccess
<1> DEFINE event == [at |-> now, success |-> TRUE, slow |-> slow]
<1>2. now \in 1..clock /\ now \in Nat /\ clock \in Nat /\ UNCHANGED <<clock, reporter>>
  BY DEF Readable, IInv, RecordSuccess
<1>3. event \in ChannelCircuitEvent
  BY <1>2, EventType
<1>4. request' \in [Requests -> RequestState]
  BY LeaveType DEF RecordSuccess
<1>5. CASE Loaded.halfOpen
  BY <1>1, <1>2, <1>4, <1>5 DEF IInv, Forget
<1>6. CASE ~Loaded.halfOpen
  <2>1. SoundState(AfterSuccess(Loaded, event, now), clock)
    <3> HIDE DEF event
    <3> QED BY <1>2, <1>3, <1>6, LoadedSound, AfterSuccessSound
  <2>2. SoundEntry(entry, clock)'
    BY <1>1, <1>2, <1>6, <2>1, KeepSound
  <2>3. QED BY <1>2, <1>4, <2>2 DEF IInv
<1>7. QED BY <1>5, <1>6

\* RecordFailure keeps the invariant.
LEMMA RecordFailureIInv ==
    ASSUME IInv, NEW r \in Requests, RecordFailure(r)
    PROVE  IInv'
<1>1. PICK now \in Readable(request[r].since), slow \in SlowVerdicts :
         /\ Keep(AfterFailure(Loaded, [at |-> now, success |-> FALSE, slow |-> slow], now), now)
         /\ GiveUp(r) \/ Leave(r) \/ TryAgain(r)
  BY DEF RecordFailure
<1> DEFINE event == [at |-> now, success |-> FALSE, slow |-> slow]
<1>2. now \in 1..clock /\ now \in Nat /\ clock \in Nat /\ UNCHANGED <<clock, reporter>>
  BY DEF Readable, IInv, RecordFailure
<1>3. event \in ChannelCircuitEvent
  BY <1>2, EventType
<1>4. SoundState(AfterFailure(Loaded, event, now), clock)
  <2> HIDE DEF event
  <2> QED BY <1>2, <1>3, LoadedSound, AfterFailureSound
<1>5. SoundEntry(entry, clock)'
  BY <1>1, <1>2, <1>4, KeepSound
<1>6. request' \in [Requests -> RequestState]
  BY <1>1, GiveUpType, LeaveType, TryAgainType
<1>7. QED BY <1>2, <1>5, <1>6 DEF IInv

\* The two calls made for a whitelisted channel store the same kind of state.
LEMMA WhitelistedIInv ==
    ASSUME IInv, NEW r \in Requests,
           RecordWhitelistedSuccess(r) \/ RecordWhitelistedFailure(r)
    PROVE  IInv'
<1>1. PICK now \in Readable(request[r].since), success \in BOOLEAN, slow \in SlowVerdicts :
         Keep(AfterWhitelisted(Loaded, [at |-> now, success |-> success, slow |-> slow], now), now)
  BY DEF RecordWhitelistedSuccess, RecordWhitelistedFailure
<1> DEFINE event == [at |-> now, success |-> success, slow |-> slow]
<1>2. now \in 1..clock /\ now \in Nat /\ clock \in Nat /\ UNCHANGED <<clock, reporter>>
  BY DEF Readable, IInv, RecordWhitelistedSuccess, RecordWhitelistedFailure
<1>3. event \in ChannelCircuitEvent
  BY <1>2, EventType
<1>4. SoundState(AfterWhitelisted(Loaded, event, now), clock)
  <2> HIDE DEF event
  <2> QED BY <1>2, <1>3, LoadedSound, AfterWhitelistedSound
<1>5. SoundEntry(entry, clock)'
  BY <1>1, <1>2, <1>4, KeepSound
<1>6. request' \in [Requests -> RequestState]
  BY LeaveType, TryAgainType DEF RecordWhitelistedSuccess, RecordWhitelistedFailure
<1>7. QED BY <1>2, <1>5, <1>6 DEF IInv

\* CancelProbe keeps the invariant.
LEMMA CancelProbeIInv ==
    ASSUME IInv, NEW r \in Requests, CancelProbe(r)
    PROVE  IInv'
<1>1. PICK now \in Readable(request[r].since) : Keep(CancelledProbe(Loaded), now)
  BY DEF CancelProbe
<1>2. now \in 1..clock /\ now \in Nat /\ clock \in Nat /\ UNCHANGED <<clock, reporter>>
  BY DEF Readable, IInv, CancelProbe
<1>3. SoundState(CancelledProbe(Loaded), clock)
  BY <1>2, LoadedSound, CancelledProbeSound
<1>4. SoundEntry(entry, clock)'
  BY <1>1, <1>2, <1>3, KeepSound
<1>5. request' \in [Requests -> RequestState]
  BY LeaveType DEF CancelProbe
<1>6. QED BY <1>2, <1>4, <1>5 DEF IInv

\* IInv is inductive.
LEMMA NextIInv == IInv /\ [Next]_vars => IInv'
<1> SUFFICES ASSUME IInv, [Next]_vars PROVE IInv'
  OBVIOUS
<1>1. CASE Tick
  <2>1. clock' \in Nat \ {0} /\ clock \in Nat /\ clock <= clock' /\ clock' \in Nat
    BY <1>1 DEF Tick, IInv
  <2>2. entry # NoEntry => SoundEntry(entry, clock')
    BY <2>1, SoundEntryLater DEF IInv
  <2>3. QED BY <1>1, <2>1, <2>2 DEF Tick, IInv
<1>2. ASSUME NEW r \in Requests, Allow(r) PROVE IInv'
  BY <1>2, AllowIInv
<1>3. ASSUME NEW r \in Requests, TrackChannel(r) PROVE IInv'
  BY <1>3, TrackChannelIInv
<1>4. ASSUME NEW r \in Requests, RecordSuccess(r) PROVE IInv'
  BY <1>4, RecordSuccessIInv
<1>5. ASSUME NEW r \in Requests, RecordFailure(r) PROVE IInv'
  BY <1>5, RecordFailureIInv
<1>6. ASSUME NEW r \in Requests, RecordWhitelistedSuccess(r) \/ RecordWhitelistedFailure(r)
      PROVE  IInv'
  BY <1>6, WhitelistedIInv
<1>7. ASSUME NEW r \in Requests, CancelProbe(r) PROVE IInv'
  BY <1>7, CancelProbeIInv
<1>8. ASSUME NEW r \in Requests, FailUncounted(r) \/ ClientGone(r) \/ HookPanic(r)
      PROVE  IInv'
  <2>1. GiveUp(r) \/ TryAgain(r) \/ Leave(r)
    BY <1>8 DEF FailUncounted, ClientGone, HookPanic
  <2>2. request' \in [Requests -> RequestState]
    BY <2>1, GiveUpType, TryAgainType, LeaveType
  <2>3. QED BY <1>8, <2>2 DEF FailUncounted, ClientGone, HookPanic, IInv
<1>9. CASE Snapshot
  BY <1>9 DEF Snapshot, Forget, IInv
<1>10. CASE SnapshotPurge \/ ResetChannel
  BY <1>10 DEF SnapshotPurge, ResetChannel, Forget, IInv
<1>11. CASE UNCHANGED vars
  BY <1>11 DEF vars, IInv
<1>12. QED
  BY <1>1, <1>2, <1>3, <1>4, <1>5, <1>6, <1>7, <1>8, <1>9, <1>10, <1>11 DEF Next

\* IInv is an invariant of the breaker.
LEMMA SpecIInv == Spec => []IInv
BY InitIInv, NextIInv, PTL DEF Spec

\* Every reachable state is one the code can describe: no event window above
\* its cap, no negative time, no request outside its phases.
THEOREM TypeCorrect == Spec => []TypeOK
<1>1. IInv => TypeOK
  BY DEF IInv, TypeOK, SoundEntry, SoundState
<1>2. QED BY <1>1, SpecIInv, PTL

\* The half-open flag, its deadline and the backoff stay together under every
\* interleaving of the breaker's operations.
THEOREM HalfOpenAlwaysCoherent == Spec => []HalfOpenCoherent
<1>1. IInv => HalfOpenCoherent
  BY DEF IInv, HalfOpenCoherent, SoundEntry, SoundState
<1>2. QED BY <1>1, SpecIInv, PTL

\* No channel is shut for longer than MaxCooldown, no probe awaited for longer
\* than ProbeTimeout, however often the circuit opens again.
THEOREM BlockingAlwaysBounded == Spec => []BlockingBounded
<1>1. IInv => BlockingBounded
  BY DEF IInv, BlockingBounded, SoundEntry, SoundState
<1>2. QED BY <1>1, SpecIInv, PTL

\* The store never expires an entry that still blocks, whatever the lag
\* between a caller's clock and the store's.
THEOREM EntryAlwaysOutlivesBlocking == Spec => []EntryOutlivesBlocking
<1>1. IInv => EntryOutlivesBlocking
  BY DEF IInv, EntryOutlivesBlocking, SoundEntry
<1>2. QED BY <1>1, SpecIInv, PTL

-----------------------------------------------------------------------------
(* Admission.                                                              *)

\* A blocking entry is what the next update starts from: it has not expired.
LEMMA BlockingIsLoaded ==
    ASSUME IInv, entry # NoEntry,
           IsOpen(entry.state, clock) \/ IsProbing(entry.state, clock)
    PROVE  Loaded = entry.state
<1>1. /\ clock \in Nat
      /\ entry.expireAt \in Nat
      /\ entry.state.openUntil \in Nat /\ entry.state.probeDeadline \in Nat
  BY DEF IInv, SoundEntry, ChannelCircuitEntry, ChannelCircuitState
<1>2. ~(entry.expireAt < clock)
  BY <1>1 DEF IInv, SoundEntry, IsOpen, IsProbing
<1>3. QED BY <1>2 DEF Loaded, Expired

\* Allow lets a request in only when nothing blocks at the store's time,
\* although it judges by the caller's.
LEMMA AllowAdmitsUnblocked ==
    ASSUME IInv, NEW r \in Requests, Allow(r), request' # request
    PROVE  entry = NoEntry
             \/ (~IsOpen(entry.state, clock) /\ ~IsProbing(entry.state, clock))
<1> SUFFICES ASSUME entry # NoEntry,
                    IsOpen(entry.state, clock) \/ IsProbing(entry.state, clock)
             PROVE  FALSE
  OBVIOUS
<1>1. PICK now \in Readable(request[r].since) : Answer(r, Trimmed(Loaded, now), now)
  BY DEF Allow
<1> DEFINE s == Trimmed(Loaded, now)
<1>2. now \in Nat /\ clock \in Nat /\ now <= clock
  BY DEF Readable, IInv
<1>3. Loaded = entry.state
  BY BlockingIsLoaded
<1>4. entry.state \in ChannelCircuitState /\ CoherentState(entry.state)
  BY DEF IInv, SoundEntry, SoundState
<1>5. /\ s.openUntil = entry.state.openUntil /\ s.openUntil \in Nat
      /\ s.halfOpen <=> entry.state.halfOpen
      /\ s.probeDeadline = entry.state.probeDeadline /\ s.probeDeadline \in Nat
  BY <1>3, <1>4 DEF Trimmed, ChannelCircuitState
<1> HIDE DEF s
<1>6. IsIdle(s, now) \/ ~MustSkip(s, now)
  <2>1. GetsProbe(s, now) => ~MustSkip(s, now)
    BY DEF GetsProbe, MustSkip
  <2>2. Answer(r, s, now)
    BY <1>1 DEF s
  <2>3. QED BY <2>1, <2>2 DEF Answer
<1>7. CASE IsOpen(entry.state, clock)
  <2>1. IsOpen(s, now)
    BY <1>2, <1>5, <1>7 DEF IsOpen
  <2>2. QED BY <1>6, <2>1 DEF IsIdle, MustSkip
<1>8. CASE IsProbing(entry.state, clock)
  <2>1. IsProbing(s, now) /\ s.halfOpen
    BY <1>2, <1>5, <1>8 DEF IsProbing
  <2>2. s.openUntil # NoTime
    BY <1>4, <1>5, <2>1 DEF CoherentState
  <2>3. QED BY <1>6, <2>1, <2>2 DEF IsIdle, MustSkip
<1>9. QED BY <1>7, <1>8

\* Only Allow admits.
LEMMA AdmittedByAllow ==
    ASSUME IInv, Next, NEW r \in Requests, Admitted(r)
    PROVE  Allow(r)
<1>1. request[r].phase = "idle" /\ request'[r].phase = "upstream" /\ ~request'[r].exempt
  BY DEF Admitted
<1>2. \A q \in Requests : Leave(q) \/ TryAgain(q) \/ GiveUp(q) => request'[r].phase # "upstream"
  <2> SUFFICES ASSUME NEW q \in Requests, Leave(q) \/ TryAgain(q) \/ GiveUp(q)
               PROVE  request'[r].phase # "upstream"
    OBVIOUS
  <2>1. CASE Leave(q)
    BY <1>1, <2>1 DEF Leave, Outside, IInv, RequestState
  <2>2. CASE TryAgain(q)
    BY <1>1, <2>2 DEF TryAgain, IInv, RequestState
  <2>3. CASE GiveUp(q)
    <3>1. CASE ~request[q].probe
      BY <2>1, <2>3, <3>1 DEF GiveUp
    <3>2. CASE request[q].probe /\ q # r
      BY <1>1, <2>3, <3>2 DEF GiveUp, IInv
    <3>3. CASE request[q].probe /\ q = r
      <4> DEFINE v == [request[r] EXCEPT !.phase = "unwinding", !.since = clock]
      <4>1. request'[r] = v
        BY <2>3, <3>3 DEF GiveUp, IInv
      <4>2. request[r] \in RequestState
        BY DEF IInv
      <4>3. v.phase = "unwinding"
        BY <4>2 DEF RequestState
      <4>4. QED BY <4>1, <4>3
    <3>4. QED BY <3>1, <3>2, <3>3
  <2>4. QED BY <2>1, <2>2, <2>3
<1>3. CASE UNCHANGED request
  BY <1>1, <1>3
<1>4. ASSUME NEW q \in Requests, Allow(q) PROVE Allow(r)
  <2>1. q = r \/ request'[r] = request[r]
    <3>1. UNCHANGED request \/ \E probe, grant : Enter(q, probe, FALSE, grant)
      BY <1>4 DEF Allow, Answer
    <3>2. QED BY <3>1 DEF Enter, IInv
  <2>2. QED BY <1>1, <1>4, <2>1
<1>5. ASSUME NEW q \in Requests, TrackChannel(q) PROVE Allow(r)
  <2>1. request'[r] = request[r] \/ request'[r].exempt
    BY <1>5 DEF TrackChannel, Enter, IInv
  <2>2. QED BY <1>1, <2>1
<1>6. ASSUME NEW q \in Requests,
             \/ RecordSuccess(q) \/ RecordFailure(q)
             \/ RecordWhitelistedSuccess(q) \/ RecordWhitelistedFailure(q)
             \/ FailUncounted(q) \/ CancelProbe(q) \/ ClientGone(q) \/ HookPanic(q)
      PROVE  Leave(q) \/ TryAgain(q) \/ GiveUp(q)
  BY <1>6 DEF RecordSuccess, RecordFailure, RecordWhitelistedSuccess,
     RecordWhitelistedFailure, FailUncounted, CancelProbe, ClientGone, HookPanic
<1>7. Tick \/ Snapshot \/ SnapshotPurge \/ ResetChannel => UNCHANGED request
  BY DEF Tick, Snapshot, SnapshotPurge, ResetChannel
<1>8. CASE \E q \in Requests : Leave(q) \/ TryAgain(q) \/ GiveUp(q)
  BY <1>1, <1>2, <1>8
<1>9. \/ UNCHANGED request
      \/ \E q \in Requests : Allow(q) \/ TrackChannel(q)
      \/ \E q \in Requests : Leave(q) \/ TryAgain(q) \/ GiveUp(q)
  BY <1>6, <1>7 DEF Next
<1>10. QED BY <1>3, <1>4, <1>5, <1>8, <1>9

\* A shut channel, or one whose probe is out and not overdue, lets nobody in.
THEOREM NobodyPassesWhileBlocked == Spec => SkippedWhileBlocked
<1>1. IInv /\ [Next]_vars =>
        [\A r \in Requests : Admitted(r) =>
           entry = NoEntry
             \/ (~IsOpen(entry.state, clock) /\ ~IsProbing(entry.state, clock))]_vars
  <2> SUFFICES ASSUME IInv, Next, NEW r \in Requests, Admitted(r)
               PROVE  entry = NoEntry
                        \/ (~IsOpen(entry.state, clock) /\ ~IsProbing(entry.state, clock))
    BY DEF Admitted, vars
  <2>1. Allow(r)
    BY AdmittedByAllow
  <2>2. request' # request
    BY DEF Admitted
  <2>3. QED BY <2>1, <2>2, AllowAdmitsUnblocked
<1>2. QED BY <1>1, SpecIInv, PTL DEF Spec, SkippedWhileBlocked

-----------------------------------------------------------------------------
(* The backoff.                                                            *)

BackoffKept ==
    Live /\ entry' # NoEntry /\ ~entry'.state.whitelisted =>
        entry'.state.currentCooldown >= entry.state.currentCooldown

\* Storing a state keeps the backoff if the state's own is not below.
LEMMA KeepBackoff ==
    ASSUME NEW s, NEW now, Keep(s, now),
           s.whitelisted \/ s.currentCooldown >= Loaded.currentCooldown
    PROVE  BackoffKept
BY DEF BackoffKept, Keep, Loaded, Live

\* Forgetting the entry, or leaving it alone, keeps the backoff.
LEMMA UntouchedBackoff ==
    ASSUME IInv, Forget \/ UNCHANGED entry
    PROVE  BackoffKept
BY DEF BackoffKept, Forget, IInv, SoundEntry, ChannelCircuitEntry, ChannelCircuitState

\* A state that may be opened once more: its backoff does not shrink by it.
LEMMA JudgedBackoff ==
    ASSUME NEW u, NEW t \in Nat, NEW now \in 1..t, SoundState(u, t)
    PROVE  (IF ShouldOpen(u) THEN Opened(u, now) ELSE u).currentCooldown >= u.currentCooldown
<1>1. u \in ChannelCircuitState /\ BoundedState(u, t)
  BY DEF SoundState
<1>2. u.currentCooldown \in Nat /\ NextCooldown(u) >= u.currentCooldown
  BY <1>1, NextCooldownGrows DEF ChannelCircuitState
<1>3. Opened(u, now).currentCooldown = NextCooldown(u)
  BY <1>1 DEF Opened, ChannelCircuitState
<1>4. QED BY <1>2, <1>3

\* A recorded success or failure does not shrink the backoff.
LEMMA RecordedBackoff ==
    ASSUME NEW s, NEW t \in Nat, NEW now \in 1..t, SoundState(s, t),
           NEW event \in ChannelCircuitEvent
    PROVE  /\ AfterFailure(s, event, now).currentCooldown >= s.currentCooldown
           /\ ~s.halfOpen => AfterSuccess(s, event, now).currentCooldown >= s.currentCooldown
<1> DEFINE w == WithEvent(s, event, now)
           f == [w EXCEPT !.whitelisted = FALSE]
           u == [w EXCEPT !.whitelisted = FALSE,
                          !.openUntil = IF IsOpen(s, now) THEN NoTime ELSE @]
<1>1. SoundState(w, t) /\ w.currentCooldown = s.currentCooldown /\ w.halfOpen = s.halfOpen
  BY WithEventSound DEF SoundState, ChannelCircuitState, WithEvent
<1> HIDE DEF w
<1>2. SoundState(f, t) /\ f.currentCooldown = s.currentCooldown
  BY <1>1 DEF SoundState, CoherentState, BoundedState, ChannelCircuitState
<1>3. ~s.halfOpen => SoundState(u, t) /\ u.currentCooldown = s.currentCooldown
  <2>1. /\ u \in ChannelCircuitState
        /\ u.events = w.events /\ u.halfOpen = w.halfOpen
        /\ u.openUntil = NoTime \/ u.openUntil = w.openUntil
        /\ u.probeDeadline = w.probeDeadline
        /\ u.currentCooldown = w.currentCooldown
        /\ u.consecutiveOpenCnt = w.consecutiveOpenCnt
    BY <1>1 DEF SoundState, ChannelCircuitState, NoTime
  <2> HIDE DEF u
  <2>2. QED
    BY <1>1, <2>1 DEF SoundState, CoherentState, BoundedState, ChannelCircuitState, NoTime
<1>4. AfterFailure(s, event, now) = IF ShouldOpen(f) THEN Opened(f, now) ELSE f
  BY DEF AfterFailure, w
<1>5. AfterSuccess(s, event, now) = IF ShouldOpen(u) THEN Opened(u, now) ELSE u
  BY DEF AfterSuccess, w
<1> HIDE DEF f, u
<1>6. AfterFailure(s, event, now).currentCooldown >= s.currentCooldown
  BY <1>2, <1>4, JudgedBackoff
<1>7. ~s.halfOpen => AfterSuccess(s, event, now).currentCooldown >= s.currentCooldown
  BY <1>3, <1>5, JudgedBackoff
<1>8. QED BY <1>6, <1>7

\* What the breaker does without an event leaves the backoff as it is.
LEMMA UnjudgedBackoff ==
    ASSUME NEW s, NEW t \in Nat, NEW now \in 1..t, SoundState(s, t)
    PROVE  /\ AfterAllow(Trimmed(s, now), now).currentCooldown >= s.currentCooldown
           /\ CancelledProbe(s).currentCooldown >= s.currentCooldown
<1>1. s.currentCooldown \in Nat /\ s \in ChannelCircuitState
  BY DEF SoundState, ChannelCircuitState
<1>2. /\ Trimmed(s, now).currentCooldown = s.currentCooldown
      /\ Trimmed(s, now) \in ChannelCircuitState
  BY TrimmedSound DEF Trimmed, SoundState, ChannelCircuitState
<1>3. AfterAllow(Trimmed(s, now), now).currentCooldown = Trimmed(s, now).currentCooldown
  <2> DEFINE u == Trimmed(s, now)
  <2> HIDE DEF u
  <2>1. u \in ChannelCircuitState => AfterAllow(u, now).currentCooldown = u.currentCooldown
    BY DEF AfterAllow, ChannelCircuitState
  <2>2. QED BY <1>2, <2>1 DEF u
<1>4. CancelledProbe(s).currentCooldown = s.currentCooldown
  BY <1>1 DEF CancelledProbe, ChannelCircuitState
<1>5. QED BY <1>1, <1>2, <1>3, <1>4

\* No step shrinks the backoff of a channel the store remembers.
LEMMA NextBackoff == IInv /\ [Next]_vars => BackoffKept
<1> SUFFICES ASSUME IInv, [Next]_vars PROVE BackoffKept
  OBVIOUS
<1>1. clock \in Nat /\ SoundState(Loaded, clock)
  BY LoadedSound DEF IInv
<1>2. \A r : Readable(request[r].since) \subseteq 1..clock \cap Nat
  BY <1>1 DEF Readable
<1>3. ASSUME NEW r \in Requests, Allow(r) PROVE BackoffKept
  <2>1. PICK now \in Readable(request[r].since) : Answer(r, Trimmed(Loaded, now), now)
    BY <1>3 DEF Allow
  <2>2. CASE Forget
    BY <2>2, UntouchedBackoff
  <2>3. CASE Keep(AfterAllow(Trimmed(Loaded, now), now), now)
    BY <1>1, <1>2, <2>3, UnjudgedBackoff, KeepBackoff
  <2>4. QED BY <2>1, <2>2, <2>3 DEF Answer
<1>4. ASSUME NEW r \in Requests, CancelProbe(r) PROVE BackoffKept
  <2>1. PICK now \in Readable(request[r].since) : Keep(CancelledProbe(Loaded), now)
    BY <1>4 DEF CancelProbe
  <2>2. QED BY <1>1, <1>2, <2>1, UnjudgedBackoff, KeepBackoff
<1>5. ASSUME NEW r \in Requests, RecordSuccess(r) PROVE BackoffKept
  <2>1. PICK now \in Readable(request[r].since), slow \in SlowVerdicts :
          IF Loaded.halfOpen THEN Forget
          ELSE Keep(AfterSuccess(Loaded, [at |-> now, success |-> TRUE, slow |-> slow], now), now)
    BY <1>5 DEF RecordSuccess
  <2> DEFINE event == [at |-> now, success |-> TRUE, slow |-> slow]
  <2>2. now \in 1..clock /\ now \in Nat
    BY <1>2
  <2>3. event \in ChannelCircuitEvent
    BY <2>2, EventType
  <2>4. CASE Loaded.halfOpen
    BY <2>1, <2>4, UntouchedBackoff
  <2>5. CASE ~Loaded.halfOpen
    <3>1. Keep(AfterSuccess(Loaded, event, now), now)
      BY <2>1, <2>5
    <3> HIDE DEF event
    <3>2. QED BY <1>1, <2>2, <2>3, <2>5, <3>1, RecordedBackoff, KeepBackoff
  <2>6. QED BY <2>4, <2>5
<1>6. ASSUME NEW r \in Requests, RecordFailure(r) PROVE BackoffKept
  <2>1. PICK now \in Readable(request[r].since), slow \in SlowVerdicts :
          Keep(AfterFailure(Loaded, [at |-> now, success |-> FALSE, slow |-> slow], now), now)
    BY <1>6 DEF RecordFailure
  <2> DEFINE event == [at |-> now, success |-> FALSE, slow |-> slow]
  <2>2. now \in 1..clock /\ now \in Nat
    BY <1>2
  <2>3. event \in ChannelCircuitEvent
    BY <2>2, EventType
  <2>4. Keep(AfterFailure(Loaded, event, now), now)
    BY <2>1
  <2> HIDE DEF event
  <2>5. QED BY <1>1, <2>2, <2>3, <2>4, RecordedBackoff, KeepBackoff
<1>7. ASSUME NEW r \in Requests, TrackChannel(r) PROVE BackoffKept
  <2>1. PICK now \in Readable(request[r].since) :
          Keep([Loaded EXCEPT !.whitelisted = TRUE], now)
    BY <1>7 DEF TrackChannel
  <2>2. [Loaded EXCEPT !.whitelisted = TRUE].whitelisted
    BY <1>1 DEF SoundState, ChannelCircuitState
  <2>3. QED BY <2>1, <2>2, KeepBackoff
<1>8. ASSUME NEW r \in Requests, RecordWhitelistedSuccess(r) \/ RecordWhitelistedFailure(r)
      PROVE  BackoffKept
  <2>1. PICK now \in Readable(request[r].since), success \in BOOLEAN, slow \in SlowVerdicts :
          Keep(AfterWhitelisted(Loaded, [at |-> now, success |-> success, slow |-> slow], now), now)
    BY <1>8 DEF RecordWhitelistedSuccess, RecordWhitelistedFailure
  <2> DEFINE event == [at |-> now, success |-> success, slow |-> slow]
  <2>2. AfterWhitelisted(Loaded, event, now).whitelisted
    BY <1>1 DEF AfterWhitelisted, Cleared, WithEvent, SoundState, ChannelCircuitState
  <2>3. QED BY <2>1, <2>2, KeepBackoff
<1>9. ASSUME NEW r \in Requests, FailUncounted(r) \/ ClientGone(r) \/ HookPanic(r)
      PROVE  BackoffKept
  BY <1>9, UntouchedBackoff DEF FailUncounted, ClientGone, HookPanic
<1>10. CASE Tick \/ Snapshot \/ SnapshotPurge \/ ResetChannel \/ UNCHANGED vars
  BY <1>10, UntouchedBackoff DEF Tick, Snapshot, SnapshotPurge, ResetChannel, vars
<1>11. QED
  BY <1>3, <1>4, <1>5, <1>6, <1>7, <1>8, <1>9, <1>10 DEF Next

\* Short of expiry, a reset or a whitelisted request, repeated openings only
\* ever wait longer, stragglers and overdue probes included.
THEOREM BackoffGrows == Spec => BackoffNeverShrinks
<1>1. IInv /\ [Next]_vars =>
        [Live /\ entry' # NoEntry /\ ~entry'.state.whitelisted =>
           entry'.state.currentCooldown >= entry.state.currentCooldown]_vars
  BY NextBackoff DEF BackoffKept
<1>2. QED BY <1>1, SpecIInv, PTL DEF Spec, BackoffNeverShrinks

-----------------------------------------------------------------------------
(* The window.                                                             *)

\* The events of u have those of s that are inside the window at t, or are as
\* many as may be.
KeepsRecent(s, u, t) ==
    \A i \in DOMAIN s.events :
        s.events[i].at >= t - FailureWindow =>
          \/ \E j \in DOMAIN u.events : u.events[j] = s.events[i]
          \/ Len(u.events) = MaxWindowSamples

RecentKept == Live /\ entry' # NoEntry => KeepsRecent(entry.state, entry'.state, clock)

\* Storing such a state keeps them.
LEMMA KeepRecent ==
    ASSUME NEW s, NEW now, Keep(s, now), KeepsRecent(Loaded, s, clock)
    PROVE  RecentKept
BY DEF RecentKept, Keep, Loaded, Live

\* Forgetting the entry, or leaving it alone, is no matter.
LEMMA UntouchedRecent ==
    ASSUME Forget \/ UNCHANGED entry
    PROVE  RecentKept
BY DEF RecentKept, KeepsRecent, Forget

\* What is inside the window by the store's clock is so by the caller's, which
\* is not ahead: each way of changing the events keeps it.
LEMMA EventsKeepRecent ==
    ASSUME NEW s \in ChannelCircuitState, NEW u, NEW t \in Nat, NEW now \in 1..t,
           NEW event \in ChannelCircuitEvent,
           \/ u.events = s.events
           \/ u.events = TrimEvents(s.events, now)
           \/ u.events = AppendEvent(s.events, event, now)
    PROVE  KeepsRecent(s, u, t)
<1> SUFFICES ASSUME NEW i \in DOMAIN s.events, s.events[i].at >= t - FailureWindow
             PROVE  \/ \E j \in DOMAIN u.events : u.events[j] = s.events[i]
                    \/ Len(u.events) = MaxWindowSamples
  BY DEF KeepsRecent
<1>1. s.events \in Seq(ChannelCircuitEvent)
  BY DEF ChannelCircuitState
<1>2. s.events[i].at \in Nat
  <2>1. s.events[i] \in ChannelCircuitEvent
    BY <1>1, ElementOfSeq
  <2> QED BY <2>1 DEF ChannelCircuitEvent
<1>3. s.events[i].at >= now - FailureWindow /\ now \in Nat
  BY <1>2, DurationsAssumption
<1>4. QED BY <1>1, <1>3, TrimEventsKeepsRecent, AppendEventKeepsRecent

\* What each call leaves of the events.
LEMMA EventsAfter ==
    ASSUME NEW s \in ChannelCircuitState, NEW now, NEW event
    PROVE  /\ AfterAllow(Trimmed(s, now), now).events = TrimEvents(s.events, now)
           /\ CancelledProbe(s).events = s.events
           /\ [s EXCEPT !.whitelisted = TRUE].events = s.events
           /\ AfterFailure(s, event, now).events = AppendEvent(s.events, event, now)
           /\ AfterSuccess(s, event, now).events = AppendEvent(s.events, event, now)
           /\ AfterWhitelisted(s, event, now).events = AppendEvent(s.events, event, now)
<1>1. AfterAllow(Trimmed(s, now), now).events = TrimEvents(s.events, now)
  BY DEF AfterAllow, Trimmed, ChannelCircuitState
<1>2. CancelledProbe(s).events = s.events
  BY DEF CancelledProbe, ChannelCircuitState
<1>3. AfterFailure(s, event, now).events = AppendEvent(s.events, event, now)
  BY DEF AfterFailure, Opened, WithEvent, ChannelCircuitState
<1>4. AfterSuccess(s, event, now).events = AppendEvent(s.events, event, now)
  BY DEF AfterSuccess, Opened, WithEvent, ChannelCircuitState
<1>5. AfterWhitelisted(s, event, now).events = AppendEvent(s.events, event, now)
  BY DEF AfterWhitelisted, Cleared, WithEvent, ChannelCircuitState
<1>6. QED BY <1>1, <1>2, <1>3, <1>4, <1>5 DEF ChannelCircuitState

\* A recorded outcome, of whatever request.
LEMMA RecordedRecent ==
    ASSUME IInv, NEW now \in 1..clock, NEW success \in BOOLEAN, NEW slow \in SlowVerdicts,
           LET event == [at |-> now, success |-> success, slow |-> slow]
           IN  \/ Keep(AfterSuccess(Loaded, event, now), now)
               \/ Keep(AfterFailure(Loaded, event, now), now)
               \/ Keep(AfterWhitelisted(Loaded, event, now), now)
    PROVE  RecentKept
<1> DEFINE event == [at |-> now, success |-> success, slow |-> slow]
<1>1. clock \in Nat /\ Loaded \in ChannelCircuitState
  BY LoadedSound DEF IInv, SoundState
<1>2. event \in ChannelCircuitEvent
  BY <1>1, EventType
<1>3. PICK u : Keep(u, now) /\ u.events = AppendEvent(Loaded.events, event, now)
  <2> HIDE DEF event
  <2> QED BY <1>1, EventsAfter DEF event
<1> HIDE DEF event
<1>4. KeepsRecent(Loaded, u, clock)
  BY <1>1, <1>2, <1>3, EventsKeepRecent
<1>5. QED BY <1>3, <1>4, KeepRecent

\* No step loses an event inside the window but to the cap.
LEMMA NextRecent == IInv /\ [Next]_vars => RecentKept
<1> SUFFICES ASSUME IInv, [Next]_vars PROVE RecentKept
  OBVIOUS
<1>1. clock \in Nat /\ Loaded \in ChannelCircuitState
  BY LoadedSound DEF IInv, SoundState
<1>2. \A r : Readable(request[r].since) \subseteq 1..clock
  BY DEF Readable
<1>3. PICK event : event \in ChannelCircuitEvent
  <2>1. FALSE \in SlowVerdicts
    BY DEF SlowVerdicts
  <2> QED BY <2>1, EventType
<1>4. ASSUME NEW r \in Requests, Allow(r) PROVE RecentKept
  <2>1. PICK now \in Readable(request[r].since) : Answer(r, Trimmed(Loaded, now), now)
    BY <1>4 DEF Allow
  <2>2. CASE Forget
    BY <2>2, UntouchedRecent
  <2>3. CASE Keep(AfterAllow(Trimmed(Loaded, now), now), now)
    <3>1. KeepsRecent(Loaded, AfterAllow(Trimmed(Loaded, now), now), clock)
      BY <1>1, <1>2, <1>3, EventsAfter, EventsKeepRecent
    <3> QED BY <2>3, <3>1, KeepRecent
  <2>4. QED BY <2>1, <2>2, <2>3 DEF Answer
<1>5. ASSUME NEW r \in Requests, CancelProbe(r) \/ TrackChannel(r) PROVE RecentKept
  <2>1. PICK now \in Readable(request[r].since) :
          \/ Keep(CancelledProbe(Loaded), now)
          \/ Keep([Loaded EXCEPT !.whitelisted = TRUE], now)
    BY <1>5 DEF CancelProbe, TrackChannel
  <2>2. /\ KeepsRecent(Loaded, CancelledProbe(Loaded), clock)
        /\ KeepsRecent(Loaded, [Loaded EXCEPT !.whitelisted = TRUE], clock)
    BY <1>1, <1>2, <1>3, EventsAfter, EventsKeepRecent
  <2> QED BY <2>1, <2>2, KeepRecent
<1>6. ASSUME NEW r \in Requests,
             \/ RecordSuccess(r) \/ RecordFailure(r)
             \/ RecordWhitelistedSuccess(r) \/ RecordWhitelistedFailure(r)
      PROVE  RecentKept
  <2>1. CASE Forget
    BY <2>1, UntouchedRecent
  <2>2. CASE \E now \in Readable(request[r].since), success \in BOOLEAN, slow \in SlowVerdicts :
               LET event2 == [at |-> now, success |-> success, slow |-> slow]
               IN  \/ Keep(AfterSuccess(Loaded, event2, now), now)
                   \/ Keep(AfterFailure(Loaded, event2, now), now)
                   \/ Keep(AfterWhitelisted(Loaded, event2, now), now)
    BY <1>2, <2>2, RecordedRecent
  <2> QED
    BY <1>6, <2>1, <2>2 DEF RecordSuccess, RecordFailure, RecordWhitelistedSuccess,
       RecordWhitelistedFailure
<1>7. ASSUME NEW r \in Requests, FailUncounted(r) \/ ClientGone(r) \/ HookPanic(r)
      PROVE  RecentKept
  BY <1>7, UntouchedRecent DEF FailUncounted, ClientGone, HookPanic
<1>8. CASE Tick \/ Snapshot \/ SnapshotPurge \/ ResetChannel \/ UNCHANGED vars
  BY <1>8, UntouchedRecent DEF Tick, Snapshot, SnapshotPurge, ResetChannel, vars
<1>9. QED
  BY <1>4, <1>5, <1>6, <1>7, <1>8 DEF Next

\* While the entry lives, an event inside the window is lost to the cap alone,
\* however late the callers' clocks are and in whatever order events come in.
THEOREM WindowLosesNothing == Spec => RecentEventsKept
<1>1. IInv /\ [Next]_vars =>
        [Live /\ entry' # NoEntry =>
           \A i \in DOMAIN entry.state.events :
              entry.state.events[i].at >= clock - FailureWindow =>
                \/ \E j \in DOMAIN entry'.state.events :
                      entry'.state.events[j] = entry.state.events[i]
                \/ Len(entry'.state.events) = MaxWindowSamples]_vars
  BY NextRecent DEF RecentKept, KeepsRecent
<1>2. QED BY <1>1, SpecIInv, PTL DEF Spec, RecentEventsKept

-----------------------------------------------------------------------------
(***************************************************************************)
(* The breaker is a gate.  A step is seen by the gate through two things:  *)
(* how long the channel blocks from now on, and who is inside.  The lemmas *)
(* say what each kind of step does to the first, then to the second; each  *)
(* action then pairs one of each.                                          *)
(***************************************************************************)

MaxShut == LargestOf(MaxCooldown, ProbeTimeout)

Inside == {r \in Requests : Upstream(r) /\ ~request[r].exempt}

-----------------------------------------------------------------------------
(* How long a state blocks.                                                *)

\* A sound state blocks for at most MaxShut.
LEMMA StateBlocksBounds ==
    ASSUME NEW s, NEW t \in Nat, SoundState(s, t)
    PROVE  StateBlocks(s, t) \in 0..MaxShut
<1>1. /\ s.openUntil \in Nat /\ s.probeDeadline \in Nat
      /\ s.currentCooldown \in Nat /\ s.consecutiveOpenCnt \in Nat
  BY DEF SoundState, ChannelCircuitState
<1>2. /\ s.currentCooldown <= MaxCooldown
      /\ s.openUntil <= t + s.currentCooldown
      /\ s.probeDeadline <= t + ProbeTimeout
  BY <1>1, DurationsAssumption DEF SoundState, BoundedState
<1>3. QED
  BY <1>1, <1>2, DurationsAssumption DEF StateBlocks, MaxShut, LargestOf, IsOpen, IsProbing

\* A tick takes one tick off.
LEMMA StateBlocksTick ==
    ASSUME NEW s, NEW t \in Nat, s \in ChannelCircuitState
    PROVE  StateBlocks(s, t + 1) = IF StateBlocks(s, t) > 0 THEN StateBlocks(s, t) - 1 ELSE 0
<1>1. s.openUntil \in Nat /\ s.probeDeadline \in Nat /\ s.halfOpen \in BOOLEAN
  BY DEF ChannelCircuitState
<1>2. QED
  BY <1>1 DEF StateBlocks, LargestOf, IsOpen, IsProbing

\* Nothing but these three fields blocks.
LEMMA SameBlocks ==
    ASSUME NEW s, NEW u, NEW t,
           u.openUntil = s.openUntil, u.halfOpen = s.halfOpen,
           u.probeDeadline = s.probeDeadline
    PROVE  StateBlocks(u, t) = StateBlocks(s, t)
BY DEF StateBlocks, IsOpen, IsProbing

\* Trimming the events changes nothing about what a state blocks.
LEMMA TrimmedBlocks ==
    ASSUME NEW s \in ChannelCircuitState, NEW t \in Nat, NEW now \in Nat
    PROVE  StateBlocks(Trimmed(s, now), t) = StateBlocks(s, t)
<1> DEFINE u == Trimmed(s, now)
<1>1. /\ u.openUntil = s.openUntil /\ u.halfOpen = s.halfOpen
      /\ u.probeDeadline = s.probeDeadline
  BY DEF Trimmed, ChannelCircuitState
<1> HIDE DEF u
<1>2. StateBlocks(u, t) = StateBlocks(s, t)
  BY <1>1, SameBlocks
<1>3. QED BY <1>2 DEF u

\* Nor does the whitelist mark.
LEMMA TrackedBlocks ==
    ASSUME NEW s \in ChannelCircuitState, NEW t \in Nat
    PROVE  StateBlocks([s EXCEPT !.whitelisted = TRUE], t) = StateBlocks(s, t)
<1> DEFINE u == [s EXCEPT !.whitelisted = TRUE]
<1>1. /\ u.openUntil = s.openUntil /\ u.halfOpen = s.halfOpen
      /\ u.probeDeadline = s.probeDeadline
  BY DEF ChannelCircuitState
<1> HIDE DEF u
<1>2. StateBlocks(u, t) = StateBlocks(s, t)
  BY <1>1, SameBlocks
<1>3. QED BY <1>2 DEF u

\* Cancelling a probe never blocks for longer.
LEMMA CancelledBlocks ==
    ASSUME NEW s \in ChannelCircuitState, NEW t \in Nat
    PROVE  StateBlocks(CancelledProbe(s), t) <= StateBlocks(s, t)
<1>1. s.openUntil \in Nat /\ s.probeDeadline \in Nat /\ s.halfOpen \in BOOLEAN
  BY DEF ChannelCircuitState
<1>2. CASE ~s.halfOpen
  BY <1>1, <1>2 DEF CancelledProbe, StateBlocks, LargestOf, IsOpen, IsProbing
<1>3. CASE s.halfOpen
  <2> DEFINE u == CancelledProbe(s)
  <2>1. u.openUntil = s.openUntil /\ u.halfOpen = FALSE
    BY <1>3 DEF CancelledProbe, ChannelCircuitState
  <2> HIDE DEF u
  <2>2. StateBlocks(u, t) <= StateBlocks(s, t)
    BY <1>1, <2>1 DEF StateBlocks, LargestOf, IsOpen, IsProbing
  <2>3. QED BY <2>2 DEF u
<1>4. QED BY <1>1, <1>2, <1>3

\* A whitelisted result leaves nothing blocked.
LEMMA WhitelistedBlocks ==
    ASSUME NEW s \in ChannelCircuitState, NEW event, NEW t \in Nat, NEW now \in Nat
    PROVE  StateBlocks(AfterWhitelisted(s, event, now), t) = 0
<1> DEFINE u == AfterWhitelisted(s, event, now)
<1>1. u.openUntil = 0 /\ u.halfOpen = FALSE
  BY DEF AfterWhitelisted, Cleared, WithEvent, ChannelCircuitState, NoTime
<1> HIDE DEF u
<1>2. StateBlocks(u, t) = 0
  BY <1>1 DEF StateBlocks, LargestOf, IsOpen, IsProbing
<1>3. QED BY <1>2 DEF u

\* A failure that does not open the circuit changes nothing that blocks.
LEMMA CountedBlocks ==
    ASSUME NEW s \in ChannelCircuitState, NEW event, NEW t \in Nat, NEW now \in Nat,
           ~ShouldOpen(WithEvent(s, event, now))
    PROVE  StateBlocks(AfterFailure(s, event, now), t) = StateBlocks(s, t)
<1> DEFINE w == WithEvent(s, event, now)
           u == [w EXCEPT !.whitelisted = FALSE]
<1>1. /\ u.openUntil = s.openUntil /\ u.halfOpen = s.halfOpen
      /\ u.probeDeadline = s.probeDeadline
      /\ u.halfOpen = w.halfOpen /\ u.events = w.events
  BY DEF WithEvent, ChannelCircuitState
<1>2. ~ShouldOpen(u) /\ AfterFailure(s, event, now) = IF ShouldOpen(u) THEN Opened(u, now) ELSE u
  <2> HIDE DEF u, w
  <2>1. ~ShouldOpen(w)
    BY DEF w
  <2>2. ~ShouldOpen(u)
    BY <1>1, <2>1 DEF ShouldOpen
  <2>3. QED BY <2>2 DEF AfterFailure, u, w
<1> HIDE DEF u
<1>3. StateBlocks(u, t) = StateBlocks(s, t)
  BY <1>1, SameBlocks
<1>4. QED BY <1>2, <1>3

-----------------------------------------------------------------------------
(* How long the entry blocks.                                              *)

\* What the entry blocks for is within the gate's bound.
LEMMA BlockedForBounds == IInv => BlockedFor \in 0..MaxShut
<1> SUFFICES ASSUME IInv PROVE BlockedFor \in 0..MaxShut
  OBVIOUS
<1>1. 0 \in 0..MaxShut
  BY DurationsAssumption DEF MaxShut, LargestOf
<1>2. clock \in Nat
  BY DEF IInv
<1>3. QED
  BY <1>1, <1>2, StateBlocksBounds DEF IInv, SoundEntry, BlockedFor

\* The same after a step, whose clock may have moved.
LEMMA BlockedForNextBounds == IInv' => BlockedFor' \in 0..MaxShut
<1> SUFFICES ASSUME IInv' PROVE BlockedFor' \in 0..MaxShut
  OBVIOUS
<1>1. 0 \in 0..MaxShut
  BY DurationsAssumption DEF MaxShut, LargestOf
<1>2. clock' \in Nat
  BY DEF IInv
<1>3. QED
  BY <1>1, <1>2, StateBlocksBounds DEF IInv, SoundEntry, BlockedFor

\* Dropping an expired entry changes nothing: it blocked nobody.
LEMMA LoadedBlocks ==
    ASSUME IInv
    PROVE  Loaded \in ChannelCircuitState /\ StateBlocks(Loaded, clock) = BlockedFor
<1>1. clock \in Nat /\ Loaded \in ChannelCircuitState
  BY LoadedSound DEF IInv, SoundState
<1>2. StateBlocks(NewChannelCircuitState, clock) = 0
  BY <1>1 DEF StateBlocks, NewChannelCircuitState, LargestOf, IsOpen, IsProbing, NoTime
<1>3. CASE entry = NoEntry
  BY <1>1, <1>2, <1>3 DEF Loaded, BlockedFor
<1>4. CASE entry # NoEntry /\ (IsOpen(entry.state, clock) \/ IsProbing(entry.state, clock))
  BY <1>1, <1>4, BlockingIsLoaded DEF BlockedFor
<1>5. CASE entry # NoEntry /\ ~IsOpen(entry.state, clock) /\ ~IsProbing(entry.state, clock)
  <2>1. BlockedFor = 0
    BY <1>5 DEF BlockedFor, StateBlocks, LargestOf
  <2>2. Loaded = entry.state \/ Loaded = NewChannelCircuitState
    BY DEF Loaded
  <2>3. QED BY <1>1, <1>2, <1>5, <2>1, <2>2 DEF BlockedFor
<1>6. QED BY <1>3, <1>4, <1>5

\* Without an entry nobody is blocked.
LEMMA ForgetBlocks == ASSUME Forget PROVE BlockedFor' = 0
BY DEF Forget, BlockedFor

\* What is stored is what blocks.
LEMMA KeepBlocks ==
    ASSUME IInv, UNCHANGED clock, NEW now \in 1..clock,
           NEW s \in ChannelCircuitState, Keep(s, now)
    PROVE  BlockedFor' = StateBlocks(s, clock)
<1>1. now \in Nat /\ now <= clock /\ clock \in Nat
  BY DEF IInv
<1>2. entry' # NoEntry /\ entry'.state = s
  <2>1. StateTTL(s, now) \in Nat
    BY <1>1, StateTTLCovers
  <2>2. entry' = [state |-> s, expireAt |-> clock + StateTTL(s, now)]
    BY DEF Keep
  <2>3. clock + StateTTL(s, now) \in Nat
    BY <1>1, <2>1
  <2>4. entry' \in ChannelCircuitEntry
    BY <2>2, <2>3 DEF ChannelCircuitEntry
  <2>5. QED BY <2>2, <2>4, NoEntryAssumption
<1>3. QED BY <1>2 DEF BlockedFor

-----------------------------------------------------------------------------
(* Who is inside.                                                          *)

\* A counted request that enters is inside from then on.
LEMMA EnterInside ==
    ASSUME IInv, NEW r \in Requests, NEW probe, NEW grant,
           request[r].phase = "idle", Enter(r, probe, FALSE, grant)
    PROVE  r \notin Inside /\ Inside' = Inside \cup {r}
BY DEF IInv, Enter, Inside, Upstream

\* A whitelisted one is not, and leaves the others as they were.
LEMMA EnterExempt ==
    ASSUME IInv, NEW r \in Requests, NEW probe, NEW grant,
           request[r].phase = "idle", Enter(r, probe, TRUE, grant)
    PROVE  Inside' = Inside
BY DEF IInv, Enter, Inside, Upstream

\* Whoever leaves, or unwinds, is no longer inside.
LEMMA LeaveInside ==
    ASSUME IInv, NEW r \in Requests, Leave(r)
    PROVE  Inside' = Inside \ {r}
BY DEF IInv, Leave, Outside, Inside, Upstream

\* Giving up takes a request out, by way of the probe's clean-up or not.
LEMMA GiveUpInside ==
    ASSUME IInv, NEW r \in Requests, GiveUp(r)
    PROVE  Inside' = Inside \ {r}
<1>1. CASE ~request[r].probe
  BY <1>1, LeaveInside DEF GiveUp
<1>2. CASE request[r].probe
  <2> DEFINE v == [request[r] EXCEPT !.phase = "unwinding", !.since = clock]
  <2>1. request[r] \in RequestState
    BY DEF IInv
  <2>2. v.phase = "unwinding"
    BY <2>1 DEF RequestState
  <2>3. request'[r] = v /\ \A q \in Requests : q # r => request'[q] = request[q]
    BY <1>2 DEF GiveUp, IInv
  <2> HIDE DEF v
  <2>4. QED BY <2>2, <2>3 DEF Inside, Upstream
<1>3. QED BY <1>1, <1>2

\* Another attempt keeps a request where it is.
LEMMA TryAgainInside ==
    ASSUME IInv, NEW r \in Requests, TryAgain(r)
    PROVE  Inside' = Inside
<1> DEFINE v == [request[r] EXCEPT !.since = clock]
<1>1. request[r] \in RequestState
  BY DEF IInv
<1>2. v.phase = request[r].phase /\ v.exempt = request[r].exempt
  BY <1>1 DEF RequestState
<1>3. request'[r] = v /\ \A q \in Requests : q # r => request'[q] = request[q]
  BY DEF TryAgain, IInv
<1> HIDE DEF v
<1>4. QED BY <1>2, <1>3 DEF Inside, Upstream

-----------------------------------------------------------------------------
(* The steps of the gate.                                                  *)

GateStep == [Gate!GateNext]_(Gate!gateVars)

\* A step that blocks no longer than before, and moves nobody, is a gate's step
\* or a stutter.
LEMMA NoLongerShut ==
    ASSUME IInv, IInv', BlockedFor' <= BlockedFor, Inside' = Inside
    PROVE  GateStep
<1>1. BlockedFor \in Nat /\ BlockedFor' \in Nat
  <2>1. BlockedFor \in 0..MaxShut
    BY BlockedForBounds
  <2>2. BlockedFor' \in 0..MaxShut
    BY BlockedForNextBounds
  <2>3. QED BY <2>1, <2>2
<1>2. CASE BlockedFor' = BlockedFor
  BY <1>2 DEF GateStep, Gate!gateVars, Inside
<1>3. CASE BlockedFor' < BlockedFor
  <2>1. BlockedFor' \in 0..(BlockedFor - 1)
    BY <1>1, <1>3
  <2>2. QED BY <2>1 DEF GateStep, Gate!GateNext, Gate!Relent, Inside
<1>4. QED BY <1>1, <1>2, <1>3

\* A step that takes one request out is the gate's Exit, whatever it blocks.
LEMMA Exits ==
    ASSUME IInv', NEW r \in Inside, Inside' = Inside \ {r}
    PROVE  GateStep
<1>1. BlockedFor' \in 0..MaxShut
  BY BlockedForNextBounds
<1>2. r \in Requests
  BY DEF Inside
<1>3. Gate!Exit(r)
  BY <1>1 DEF Gate!Exit, Inside, MaxShut
<1>4. QED BY <1>2, <1>3 DEF GateStep, Gate!GateNext

\* A step that lets one request into an open channel is the gate's Enter.
LEMMA Enters ==
    ASSUME IInv', BlockedFor = 0, NEW r \in Requests,
           r \notin Inside, Inside' = Inside \cup {r}
    PROVE  GateStep
<1>1. BlockedFor' \in 0..MaxShut
  BY BlockedForNextBounds
<1>2. Gate!Enter(r)
  BY <1>1 DEF Gate!Enter, Inside, MaxShut
<1>3. QED BY <1>2 DEF GateStep, Gate!GateNext

-----------------------------------------------------------------------------
(* Every action is a step of the gate.                                     *)

\* Time that passes is the gate's Pass, or a stutter when nothing is shut.
LEMMA TickStep ==
    ASSUME IInv, IInv', Tick
    PROVE  GateStep
<1>1. Inside' = Inside
  BY DEF Tick, Inside, Upstream
<1>2. clock \in Nat /\ (entry # NoEntry => entry.state \in ChannelCircuitState)
  BY DEF IInv, SoundEntry, SoundState
<1>3. BlockedFor \in Nat /\ BlockedFor' = IF BlockedFor > 0 THEN BlockedFor - 1 ELSE 0
  <2>1. BlockedFor \in 0..MaxShut
    BY BlockedForBounds
  <2>2. CASE entry = NoEntry
    BY <2>2 DEF Tick, BlockedFor
  <2>3. CASE entry # NoEntry
    BY <1>2, <2>1, <2>3, StateBlocksTick DEF Tick, BlockedFor
  <2>4. QED BY <2>2, <2>3
<1>4. BlockedFor' <= BlockedFor
  BY <1>3
<1>5. QED BY <1>1, <1>4, NoLongerShut

\* Allow turns the request away and blocks for no longer, or is the gate's Enter.
LEMMA AllowStep ==
    ASSUME IInv, IInv', NEW r \in Requests, Allow(r)
    PROVE  GateStep
<1>1. PICK now \in Readable(request[r].since) : Answer(r, Trimmed(Loaded, now), now)
  BY DEF Allow
<1> DEFINE s == Trimmed(Loaded, now)
<1>2. /\ now \in 1..clock /\ now \in Nat /\ clock \in Nat
      /\ UNCHANGED clock /\ request[r].phase = "idle"
  BY DEF Readable, IInv, Allow
<1>3. CASE /\ Keep(AfterAllow(s, now), now) /\ MustSkip(s, now) /\ UNCHANGED request
  <2>1. s \in ChannelCircuitState
    BY <1>2, LoadedSound, TrimmedSound DEF SoundState
  <2>2. StateBlocks(s, clock) = BlockedFor
    BY <1>2, LoadedBlocks, TrimmedBlocks
  <2> HIDE DEF s
  <2>3. AfterAllow(s, now) = s
    BY <1>3 DEF AfterAllow, GetsProbe, MustSkip
  <2>4. BlockedFor' = StateBlocks(s, clock)
    BY <1>2, <1>3, <2>1, <2>3, KeepBlocks
  <2>5. BlockedFor' <= BlockedFor
    <3>1. BlockedFor \in 0..MaxShut
      BY BlockedForBounds
    <3>2. QED BY <2>2, <2>4, <3>1
  <2>6. Inside' = Inside
    BY <1>3 DEF Inside, Upstream
  <2>7. QED BY <2>5, <2>6, NoLongerShut
<1>4. CASE \E probe, grant : Enter(r, probe, FALSE, grant)
  <2>1. r \notin Inside /\ Inside' = Inside \cup {r}
    BY <1>2, <1>4, EnterInside
  <2>2. request' # request
    BY <1>2, <1>4 DEF Enter, IInv
  <2>3. BlockedFor = 0
    BY <2>2, AllowAdmitsUnblocked DEF BlockedFor, StateBlocks, LargestOf
  <2>4. QED BY <2>1, <2>3, Enters
<1>5. QED
  <2> HIDE DEF s
  <2>1. Answer(r, s, now)
    BY <1>1 DEF s
  <2>2. QED BY <2>1, <1>3, <1>4 DEF Answer

\* A whitelisted request passes beside the gate.
LEMMA TrackChannelStep ==
    ASSUME IInv, IInv', NEW r \in Requests, TrackChannel(r)
    PROVE  GateStep
<1>1. PICK now \in Readable(request[r].since) :
         Keep([Loaded EXCEPT !.whitelisted = TRUE], now)
  BY DEF TrackChannel
<1> DEFINE u == [Loaded EXCEPT !.whitelisted = TRUE]
<1>2. now \in 1..clock /\ now \in Nat /\ clock \in Nat /\ UNCHANGED clock
  BY DEF Readable, IInv, TrackChannel
<1>3. u \in ChannelCircuitState /\ StateBlocks(u, clock) = BlockedFor
  <2>1. u \in ChannelCircuitState
    BY <1>2, LoadedSound, TrackedSound DEF SoundState
  <2>2. StateBlocks(u, clock) = BlockedFor
    BY <1>2, LoadedBlocks, TrackedBlocks
  <2>3. QED BY <2>1, <2>2
<1>4. Keep(u, now)
  BY <1>1
<1> HIDE DEF u
<1>5. BlockedFor' = BlockedFor
  BY <1>2, <1>3, <1>4, KeepBlocks
<1>6. Inside' = Inside
  BY EnterExempt DEF TrackChannel
<1>7. QED BY <1>5, <1>6 DEF GateStep, Gate!gateVars, Inside

\* A success is a request's Exit.
LEMMA RecordSuccessStep ==
    ASSUME IInv, IInv', NEW r \in Requests, RecordSuccess(r)
    PROVE  GateStep
<1>1. r \in Inside
  BY DEF RecordSuccess, Inside
<1>2. Inside' = Inside \ {r}
  BY LeaveInside DEF RecordSuccess
<1>3. QED BY <1>1, <1>2, Exits

\* A counted failure is an Exit, or keeps the request inside and opens nothing.
LEMMA RecordFailureStep ==
    ASSUME IInv, IInv', NEW r \in Requests, RecordFailure(r)
    PROVE  GateStep
<1>1. PICK now \in Readable(request[r].since), slow \in SlowVerdicts :
         LET event == [at |-> now, success |-> FALSE, slow |-> slow]
         IN  /\ Keep(AfterFailure(Loaded, event, now), now)
             /\ \/ GiveUp(r)
                \/ Leave(r)
                \/ ~ShouldOpen(WithEvent(Loaded, event, now)) /\ TryAgain(r)
  BY DEF RecordFailure
<1> DEFINE event == [at |-> now, success |-> FALSE, slow |-> slow]
<1>2. now \in 1..clock /\ now \in Nat /\ clock \in Nat /\ UNCHANGED clock
  BY DEF Readable, IInv, RecordFailure
<1>3. r \in Inside
  BY DEF RecordFailure, Inside
<1>4. CASE GiveUp(r) \/ Leave(r)
  <2>1. Inside' = Inside \ {r}
    BY <1>4, GiveUpInside, LeaveInside
  <2>2. QED BY <1>3, <2>1, Exits
<1>5. CASE ~ShouldOpen(WithEvent(Loaded, event, now)) /\ TryAgain(r)
  <2>1. event \in ChannelCircuitEvent /\ Keep(AfterFailure(Loaded, event, now), now)
    BY <1>1, <1>2, EventType
  <2> HIDE DEF event
  <2>2. AfterFailure(Loaded, event, now) \in ChannelCircuitState
    BY <1>2, <2>1, LoadedSound, AfterFailureSound DEF SoundState
  <2>3. BlockedFor' = StateBlocks(AfterFailure(Loaded, event, now), clock)
    BY <1>2, <2>1, <2>2, KeepBlocks
  <2>4. StateBlocks(AfterFailure(Loaded, event, now), clock) = StateBlocks(Loaded, clock)
    BY <1>2, <1>5, LoadedBlocks, CountedBlocks
  <2>5. BlockedFor' = BlockedFor
    BY <2>3, <2>4, LoadedBlocks
  <2>6. Inside' = Inside
    BY <1>5, TryAgainInside
  <2>7. QED BY <2>5, <2>6 DEF GateStep, Gate!gateVars, Inside
<1>6. QED BY <1>1, <1>4, <1>5

\* A whitelisted result at most opens the gate.
LEMMA WhitelistedStep ==
    ASSUME IInv, IInv', NEW r \in Requests,
           RecordWhitelistedSuccess(r) \/ RecordWhitelistedFailure(r)
    PROVE  GateStep
<1>1. PICK now \in Readable(request[r].since), success \in BOOLEAN, slow \in SlowVerdicts :
         Keep(AfterWhitelisted(Loaded, [at |-> now, success |-> success, slow |-> slow], now), now)
  BY DEF RecordWhitelistedSuccess, RecordWhitelistedFailure
<1> DEFINE event == [at |-> now, success |-> success, slow |-> slow]
<1>2. now \in 1..clock /\ now \in Nat /\ clock \in Nat /\ UNCHANGED clock
  BY DEF Readable, IInv, RecordWhitelistedSuccess, RecordWhitelistedFailure
<1>3. event \in ChannelCircuitEvent /\ Keep(AfterWhitelisted(Loaded, event, now), now)
  BY <1>1, <1>2, EventType
<1> HIDE DEF event
<1>4. AfterWhitelisted(Loaded, event, now) \in ChannelCircuitState
  BY <1>2, <1>3, LoadedSound, AfterWhitelistedSound DEF SoundState
<1>5. BlockedFor' = StateBlocks(AfterWhitelisted(Loaded, event, now), clock)
  BY <1>2, <1>3, <1>4, KeepBlocks
<1>6. BlockedFor' = 0
  BY <1>2, <1>5, LoadedBlocks, WhitelistedBlocks
<1>7. BlockedFor' <= BlockedFor
  <2>1. BlockedFor \in 0..MaxShut
    BY BlockedForBounds
  <2>2. QED BY <1>6, <2>1
<1>8. Inside' = Inside
  <2>1. r \notin Inside
    BY DEF Inside, RecordWhitelistedSuccess, RecordWhitelistedFailure
  <2>2. Inside' = Inside \ {r} \/ Inside' = Inside
    BY LeaveInside, TryAgainInside DEF RecordWhitelistedSuccess, RecordWhitelistedFailure
  <2>3. QED BY <2>1, <2>2
<1>9. QED BY <1>7, <1>8, NoLongerShut

\* Giving a probe back at most opens the gate.
LEMMA CancelProbeStep ==
    ASSUME IInv, IInv', NEW r \in Requests, CancelProbe(r)
    PROVE  GateStep
<1>1. PICK now \in Readable(request[r].since) : Keep(CancelledProbe(Loaded), now)
  BY DEF CancelProbe
<1>2. now \in 1..clock /\ now \in Nat /\ clock \in Nat /\ UNCHANGED clock
  BY DEF Readable, IInv, CancelProbe
<1>3. CancelledProbe(Loaded) \in ChannelCircuitState
  BY <1>2, LoadedSound, CancelledProbeSound DEF SoundState
<1>4. BlockedFor' = StateBlocks(CancelledProbe(Loaded), clock)
  BY <1>1, <1>2, <1>3, KeepBlocks
<1>5. BlockedFor' <= BlockedFor
  BY <1>2, <1>4, LoadedBlocks, CancelledBlocks
<1>6. Inside' = Inside
  <2>1. r \notin Inside
    BY DEF CancelProbe, Inside, Upstream
  <2>2. Inside' = Inside \ {r}
    BY LeaveInside DEF CancelProbe
  <2>3. QED BY <2>1, <2>2
<1>7. QED BY <1>5, <1>6, NoLongerShut

\* The steps the breaker is not told of.
LEMMA UntoldStep ==
    ASSUME IInv, IInv', NEW r \in Requests,
           FailUncounted(r) \/ ClientGone(r) \/ HookPanic(r)
    PROVE  GateStep
<1>1. BlockedFor' = BlockedFor
  BY DEF FailUncounted, ClientGone, HookPanic, BlockedFor
<1>2. Inside' = Inside \/ Inside' = Inside \ {r}
  BY GiveUpInside, TryAgainInside, LeaveInside DEF FailUncounted, ClientGone, HookPanic
<1>3. CASE Inside' = Inside
  BY <1>1, <1>3 DEF GateStep, Gate!gateVars, Inside
<1>4. CASE Inside' = Inside \ {r} /\ r \in Inside
  BY <1>4, Exits
<1>5. QED BY <1>2, <1>3, <1>4

\* The health report and the reset only ever open the gate.
LEMMA ReportStep ==
    ASSUME IInv, IInv', Snapshot \/ SnapshotPurge \/ ResetChannel
    PROVE  GateStep
<1>1. Forget \/ UNCHANGED <<entry, clock>>
  BY DEF Snapshot, SnapshotPurge, ResetChannel
<1>2. BlockedFor' <= BlockedFor
  <2>1. BlockedFor \in 0..MaxShut
    BY BlockedForBounds
  <2>2. BlockedFor' = 0 \/ BlockedFor' = BlockedFor
    BY <1>1, ForgetBlocks DEF BlockedFor
  <2>3. QED BY <2>1, <2>2
<1>3. Inside' = Inside
  BY DEF Snapshot, SnapshotPurge, ResetChannel, Inside, Upstream
<1>4. QED BY <1>2, <1>3, NoLongerShut

\* Every step of the breaker is a step of the gate or a stutter.
LEMMA NextStep == IInv /\ IInv' /\ [Next]_vars => [Gate!GateNext]_(Gate!gateVars)
<1> SUFFICES ASSUME IInv, IInv', [Next]_vars PROVE GateStep
  BY DEF GateStep
<1>1. CASE UNCHANGED vars
  BY <1>1 DEF vars, GateStep, Gate!gateVars, BlockedFor, Upstream
<1>2. CASE Next
  <2>1. ASSUME NEW r \in Requests,
               \/ Allow(r) \/ TrackChannel(r)
               \/ RecordSuccess(r) \/ RecordFailure(r)
               \/ RecordWhitelistedSuccess(r) \/ RecordWhitelistedFailure(r)
               \/ FailUncounted(r) \/ CancelProbe(r)
               \/ ClientGone(r) \/ HookPanic(r)
        PROVE  GateStep
    BY <2>1, AllowStep, TrackChannelStep, RecordSuccessStep, RecordFailureStep,
       WhitelistedStep, CancelProbeStep, UntoldStep
  <2>2. QED BY <1>2, <2>1, TickStep, ReportStep DEF Next
<1>3. QED BY <1>1, <1>2

\* The breaker starts as an open gate with nobody inside.
LEMMA InitStep == Init => Gate!GateInit
BY DEF Init, Gate!GateInit, BlockedFor, Upstream, Outside

\* The breaker is a gate: the channel is shut only by a request that was let
\* in, for at most MaxCooldown or ProbeTimeout, and nobody passes meanwhile,
\* whatever expiry, lagging clocks, reports and resets do.
THEOREM BreakerIsAGate == Spec => ImplementsGate
<1>1. IInv /\ [Next]_vars => IInv'
  BY NextIInv
<1>2. QED
  BY InitIInv, <1>1, InitStep, NextStep, PTL DEF Spec, ImplementsGate, Gate!GateSpec
=============================================================================
