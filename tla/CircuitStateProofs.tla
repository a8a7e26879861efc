------------------------- MODULE CircuitStateProofs -------------------------
(***************************************************************************)
(* Every update of a channel's circuit state keeps it sound, and the       *)
(* lifetime the store gives it covers whatever it blocks.                  *)
(***************************************************************************)
EXTENDS CircuitState, SequenceTheorems, FiniteSetTheorems, TLAPS

\* Trimming leaves a suffix: no event is invented and none is duplicated.
LEMMA TrimEventsType ==
    ASSUME NEW events \in Seq(ChannelCircuitEvent), NEW now \in Nat
    PROVE  /\ TrimEvents(events, now) \in Seq(ChannelCircuitEvent)
           /\ Len(TrimEvents(events, now)) <= Len(events)
<1> DEFINE stale == LeadingStale(events, now)
           n == Cardinality(stale)
<1>1. /\ Len(events) \in Nat
      /\ DOMAIN events = 1..Len(events)
      /\ \A i \in 1..Len(events) : events[i] \in ChannelCircuitEvent
  BY LenProperties, ElementOfSeq
<1>2. stale \in SUBSET (1..Len(events))
  BY <1>1 DEF LeadingStale
<1>3. IsFiniteSet(1..Len(events))
  BY <1>1, FS_Interval
<1>4. n \in Nat
  <2>1. IsFiniteSet(stale)
    BY <1>2, <1>3, FS_Subset
  <2>2. QED BY <2>1, FS_CardinalityType
<1> HIDE DEF n
<1>5. \A i \in (n + 1)..Len(events) : events[i] \in ChannelCircuitEvent
  BY <1>1, <1>4
<1>6. /\ SubSeq(events, n + 1, Len(events)) \in Seq(ChannelCircuitEvent)
      /\ Len(SubSeq(events, n + 1, Len(events)))
            = IF n + 1 <= Len(events) THEN Len(events) - (n + 1) + 1 ELSE 0
  <2>1. n + 1 \in Int /\ Len(events) \in Int
    BY <1>1, <1>4
  <2>2. QED BY <1>5, <2>1, SubSeqProperties
<1>7. TrimEvents(events, now) = SubSeq(events, n + 1, Len(events))
  BY DEF TrimEvents, n
<1>8. QED BY <1>1, <1>4, <1>6, <1>7

\* The window never holds more than MaxWindowSamples events after an append.
LEMMA AppendEventType ==
    ASSUME NEW events \in Seq(ChannelCircuitEvent), NEW now \in Nat,
           NEW event \in ChannelCircuitEvent
    PROVE  /\ AppendEvent(events, event, now) \in Seq(ChannelCircuitEvent)
           /\ Len(AppendEvent(events, event, now)) <= MaxWindowSamples
<1> DEFINE all == Append(TrimEvents(events, now), event)
           m == Len(all) - MaxWindowSamples + 1
<1>1. all \in Seq(ChannelCircuitEvent)
  BY TrimEventsType
<1> HIDE DEF all
<1>2. /\ Len(all) \in Nat
      /\ \A i \in 1..Len(all) : all[i] \in ChannelCircuitEvent
  BY <1>1, LenProperties, ElementOfSeq
<1>3. CASE Len(all) > MaxWindowSamples
  <2>1. m \in Int /\ Len(all) \in Int /\ m >= 1 /\ m <= Len(all)
    BY <1>2, <1>3, SamplesAssumption
  <2>2. \A i \in m..Len(all) : all[i] \in ChannelCircuitEvent
    BY <1>2, <2>1
  <2>3. /\ SubSeq(all, m, Len(all)) \in Seq(ChannelCircuitEvent)
        /\ Len(SubSeq(all, m, Len(all))) = IF m <= Len(all) THEN Len(all) - m + 1 ELSE 0
    <3> HIDE DEF m
    <3> QED BY <2>1, <2>2, SubSeqProperties
  <2>4. AppendEvent(events, event, now) = SubSeq(all, m, Len(all))
    BY <1>3 DEF AppendEvent, LastEvents, all
  <2>5. QED BY <1>2, <2>1, <2>3, <2>4, SamplesAssumption
<1>4. CASE Len(all) <= MaxWindowSamples
  <2>1. AppendEvent(events, event, now) = all
    BY <1>2, <1>4, SamplesAssumption DEF AppendEvent, LastEvents, all
  <2>2. QED BY <1>1, <1>4, <2>1
<1>5. QED BY <1>2, <1>3, <1>4, SamplesAssumption

\* Trimming drops leading events, and stops short of every one inside the window.
LEMMA TrimEventsIsSuffix ==
    ASSUME NEW events \in Seq(ChannelCircuitEvent), NEW now \in Nat
    PROVE  \E n \in 0..Len(events) :
             /\ TrimEvents(events, now) = SubSeq(events, n + 1, Len(events))
             /\ \A i \in 1..Len(events) : events[i].at >= now - FailureWindow => n < i
<1> DEFINE stale == LeadingStale(events, now)
           n == Cardinality(stale)
<1>1. /\ Len(events) \in Nat /\ DOMAIN events = 1..Len(events)
      /\ \A k \in 1..Len(events) : events[k] \in ChannelCircuitEvent
  BY LenProperties, ElementOfSeq
<1>2. ASSUME NEW m \in 0..Len(events), stale \subseteq 1..m
      PROVE  n \in 0..m
  <2>1. IsFiniteSet(1..m) /\ Cardinality(1..m) = m
    BY <1>1, FS_Interval
  <2>2. IsFiniteSet(stale) /\ n <= m
    BY <1>2, <2>1, FS_Subset
  <2>3. n \in Nat
    BY <2>2, FS_CardinalityType
  <2> HIDE DEF n
  <2> QED
    BY <1>1, <2>2, <2>3
<1>3. n \in 0..Len(events)
  <2>1. stale \subseteq 1..Len(events) /\ Len(events) \in 0..Len(events)
    BY <1>1 DEF LeadingStale
  <2> QED
    BY <1>2, <2>1
<1>4. ASSUME NEW i \in 1..Len(events), events[i].at >= now - FailureWindow
      PROVE  n < i
  <2>1. stale \subseteq 1..(i - 1)
    <3> SUFFICES ASSUME NEW k \in stale, k >= i PROVE FALSE
      BY <1>1 DEF LeadingStale
    <3>1. events[i].at < now - FailureWindow
      BY <1>1 DEF LeadingStale
    <3>2. events[i].at \in Nat
      BY <1>1 DEF ChannelCircuitEvent
    <3> QED
      BY <1>4, <3>1, <3>2, DurationsAssumption
  <2>2. i - 1 \in 0..Len(events)
    BY <1>1
  <2>3. n \in 0..(i - 1)
    BY <1>2, <2>1, <2>2
  <2> HIDE DEF n
  <2> QED
    BY <1>1, <2>3
<1>5. TrimEvents(events, now) = SubSeq(events, n + 1, Len(events))
  BY DEF TrimEvents
<1> HIDE DEF n
<1> QED BY <1>3, <1>4, <1>5

\* So an event inside the window stays.
LEMMA TrimEventsKeepsRecent ==
    ASSUME NEW events \in Seq(ChannelCircuitEvent), NEW now \in Nat,
           NEW i \in DOMAIN events, events[i].at >= now - FailureWindow
    PROVE  \E j \in DOMAIN TrimEvents(events, now) : TrimEvents(events, now)[j] = events[i]
<1>1. Len(events) \in Nat /\ DOMAIN events = 1..Len(events)
  BY LenProperties
<1>2. PICK n \in 0..Len(events) :
        /\ TrimEvents(events, now) = SubSeq(events, n + 1, Len(events))
        /\ n < i
  BY <1>1, TrimEventsIsSuffix
<1>3. SubSeq(events, n + 1, Len(events)) = [k \in 1..(Len(events) - n) |-> events[n + k]]
  BY <1>1, <1>2
<1>4. i - n \in 1..(Len(events) - n) /\ n + (i - n) = i
  BY <1>1, <1>2
<1>5. QED BY <1>2, <1>3, <1>4

\* Appending adds the event behind a suffix of those there were.
LEMMA AppendEventIsSuffix ==
    ASSUME NEW events \in Seq(ChannelCircuitEvent), NEW now \in Nat,
           NEW event \in ChannelCircuitEvent
    PROVE  \E n \in 0..Len(events) :
             LET out == AppendEvent(events, event, now)
             IN  /\ Len(out) = Len(events) - n + 1 /\ out[Len(out)] = event
                 /\ \A i \in 1..(Len(events) - n) : out[i] = events[n + i]
                 /\ \/ Len(out) = MaxWindowSamples
                    \/ \A i \in 1..Len(events) : events[i].at >= now - FailureWindow => n < i
<1> DEFINE trimmed == TrimEvents(events, now)
           all == Append(trimmed, event)
           out == AppendEvent(events, event, now)
<1>1. Len(events) \in Nat
  BY LenProperties
<1>2. PICK k \in 0..Len(events) :
        /\ trimmed = SubSeq(events, k + 1, Len(events))
        /\ \A i \in 1..Len(events) : events[i].at >= now - FailureWindow => k < i
  BY TrimEventsIsSuffix
<1>3. trimmed \in Seq(ChannelCircuitEvent)
  BY TrimEventsType
<1>4. /\ Len(trimmed) = Len(events) - k
      /\ \A i \in 1..(Len(events) - k) : trimmed[i] = events[k + i]
  BY <1>1, <1>2
<1> HIDE DEF trimmed
<1>5. /\ all \in Seq(ChannelCircuitEvent) /\ Len(all) = Len(events) - k + 1
      /\ all[Len(events) - k + 1] = event
      /\ \A i \in 1..(Len(events) - k) : all[i] = events[k + i]
  BY <1>1, <1>3, <1>4
<1>6. out = LastEvents(all, MaxWindowSamples)
  BY DEF AppendEvent, trimmed
<1> HIDE DEF all
<1>7. CASE Len(all) <= MaxWindowSamples
  <2>1. out = all
    BY <1>1, <1>5, <1>6, <1>7, SamplesAssumption DEF LastEvents
  <2> HIDE DEF out
  <2>2. /\ Len(out) = Len(events) - k + 1 /\ out[Len(out)] = event
        /\ \A i \in 1..(Len(events) - k) : out[i] = events[k + i]
    BY <1>1, <1>5, <2>1
  <2> QED
    BY <1>2, <2>2 DEF out
<1>8. CASE Len(all) > MaxWindowSamples
  <2> DEFINE m == Len(all) - MaxWindowSamples
             n == k + m
  <2>1. m \in 1..(Len(events) - k) /\ n \in 0..Len(events) /\ Len(all) \in Nat
    BY <1>1, <1>5, <1>8, SamplesAssumption
  <2>2. out = SubSeq(all, m + 1, Len(all))
    BY <1>6, <1>8 DEF LastEvents
  <2>3. Len(all) - m = MaxWindowSamples /\ Len(events) - n + 1 = MaxWindowSamples
    BY <1>1, <1>5, <2>1, SamplesAssumption
  <2> HIDE DEF m, out
  <2>4. out = [i \in 1..(Len(all) - m) |-> all[m + i]]
    BY <1>5, <2>1, <2>2
  <2>5. Len(out) = Len(all) - m /\ \A i \in 1..(Len(all) - m) : out[i] = all[m + i]
    BY <1>5, <2>1, <2>2, <2>4
  <2>6. out[Len(out)] = event
    BY <1>5, <2>1, <2>3, <2>5, SamplesAssumption
  <2>7. ASSUME NEW i \in 1..(Len(events) - n) PROVE out[i] = events[n + i]
    <3>1. /\ i \in 1..(Len(all) - m) /\ m + i \in 1..(Len(events) - k)
          /\ k + (m + i) = n + i
      BY <1>1, <1>5, <2>1
    <3>2. out[i] = all[m + i] /\ all[m + i] = events[k + (m + i)]
      BY <1>5, <2>5, <3>1
    <3> QED
      BY <3>1, <3>2
  <2>8. Len(out) = MaxWindowSamples /\ Len(out) = Len(events) - n + 1
    BY <2>3, <2>5
  <2> HIDE DEF n
  <2> QED
    BY <2>1, <2>6, <2>7, <2>8 DEF out
<1>9. Len(all) <= MaxWindowSamples \/ Len(all) > MaxWindowSamples
  BY <1>1, <1>5, SamplesAssumption
<1>10. QED BY <1>7, <1>8, <1>9

\* An event inside the window is lost only to the cap.
LEMMA AppendEventKeepsRecent ==
    ASSUME NEW events \in Seq(ChannelCircuitEvent), NEW now \in Nat,
           NEW event \in ChannelCircuitEvent,
           NEW i \in DOMAIN events, events[i].at >= now - FailureWindow
    PROVE  \/ \E j \in DOMAIN AppendEvent(events, event, now) :
                 AppendEvent(events, event, now)[j] = events[i]
           \/ Len(AppendEvent(events, event, now)) = MaxWindowSamples
<1> DEFINE out == AppendEvent(events, event, now)
<1>1. Len(events) \in Nat /\ DOMAIN events = 1..Len(events)
  BY LenProperties
<1>2. DOMAIN out = 1..Len(out)
  BY AppendEventType, LenProperties
<1>3. PICK n \in 0..Len(events) :
        /\ Len(out) = Len(events) - n + 1 /\ out[Len(out)] = event
        /\ \A k \in 1..(Len(events) - n) : out[k] = events[n + k]
        /\ \/ Len(out) = MaxWindowSamples
           \/ \A k \in 1..Len(events) : events[k].at >= now - FailureWindow => n < k
  BY AppendEventIsSuffix
<1> HIDE DEF out
<1>4. CASE n < i
  <2>1. i - n \in 1..(Len(events) - n) /\ i - n \in 1..Len(out) /\ n + (i - n) = i
    BY <1>1, <1>3, <1>4
  <2>2. out[i - n] = events[i]
    BY <1>3, <2>1
  <2> QED
    BY <1>2, <2>1, <2>2 DEF out
<1>5. QED BY <1>1, <1>3, <1>4 DEF out

\* Events of one sort stay of that sort.
LEMMA TrimEventsIn ==
    ASSUME NEW S \in SUBSET ChannelCircuitEvent, NEW events \in Seq(S), NEW now \in Nat
    PROVE  TrimEvents(events, now) \in Seq(S)
<1>1. events \in Seq(ChannelCircuitEvent) /\ Len(events) \in Nat
  OBVIOUS
<1>2. PICK n \in 0..Len(events) : TrimEvents(events, now) = SubSeq(events, n + 1, Len(events))
  BY <1>1, TrimEventsIsSuffix
<1>3. \A i \in (n + 1)..Len(events) : events[i] \in S
  BY <1>1, <1>2
<1> QED BY <1>1, <1>2, <1>3, SubSeqProperties

LEMMA AppendEventIn ==
    ASSUME NEW S \in SUBSET ChannelCircuitEvent, NEW events \in Seq(S), NEW now \in Nat,
           NEW event \in S
    PROVE  AppendEvent(events, event, now) \in Seq(S)
<1> DEFINE out == AppendEvent(events, event, now)
<1>1. events \in Seq(ChannelCircuitEvent) /\ event \in ChannelCircuitEvent
  OBVIOUS
<1>2. out \in Seq(ChannelCircuitEvent)
  BY <1>1, AppendEventType
<1>3. PICK n \in 0..Len(events) :
        /\ Len(out) = Len(events) - n + 1 /\ out[Len(out)] = event
        /\ \A k \in 1..(Len(events) - n) : out[k] = events[n + k]
        /\ \/ Len(out) = MaxWindowSamples
           \/ \A k \in 1..Len(events) : events[k].at >= now - FailureWindow => n < k
  BY <1>1, AppendEventIsSuffix
<1> HIDE DEF out
<1>4. ASSUME NEW i \in 1..Len(out) PROVE out[i] \in S
  <2>1. Len(events) \in Nat
    OBVIOUS
  <2>2. CASE i = Len(out)
    BY <1>3, <2>2
  <2>3. CASE i # Len(out)
    <3>1. i \in 1..(Len(events) - n) /\ n + i \in 1..Len(events)
      BY <1>3, <2>1, <2>3
    <3>2. events[n + i] \in S
      BY <3>1
    <3> QED
      BY <1>3, <3>1, <3>2
  <2> QED
    BY <2>2, <2>3
<1> QED BY <1>2, <1>4 DEF out

\* The last events of a stretch of time inside the window stay the last.
LEMMA TrimEventsKeepsTail ==
    ASSUME NEW events \in Seq(ChannelCircuitEvent), NEW now \in Nat,
           NEW since \in Int, since >= now - FailureWindow, NEW n \in 0..Len(events),
           \A i \in (Len(events) - n + 1)..Len(events) : events[i].at >= since
    PROVE  LET out == TrimEvents(events, now)
           IN  n \in 0..Len(out) /\ \A i \in (Len(out) - n + 1)..Len(out) : out[i].at >= since
<1> DEFINE out == TrimEvents(events, now)
<1>1. Len(events) \in Nat /\ n \in Nat
  OBVIOUS
<1>2. PICK k \in 0..Len(events) :
        /\ out = SubSeq(events, k + 1, Len(events))
        /\ \A i \in 1..Len(events) : events[i].at >= now - FailureWindow => k < i
  BY TrimEventsIsSuffix
<1> HIDE DEF out
<1>3. out = [i \in 1..(Len(events) - k) |-> events[k + i]] /\ Len(out) = Len(events) - k
  BY <1>1, <1>2
<1>4. k + n <= Len(events)
  <2>1. CASE n = 0
    BY <1>1, <1>2, <2>1
  <2>2. CASE n > 0
    <3>1. Len(events) - n + 1 \in 1..Len(events)
      BY <1>1, <2>2
    <3>2. events[Len(events) - n + 1].at >= since
      BY <1>1, <3>1
    <3>3. events[Len(events) - n + 1].at \in Nat
      <4>1. events[Len(events) - n + 1] \in ChannelCircuitEvent
        BY <3>1
      <4> QED
        BY <4>1 DEF ChannelCircuitEvent
    <3>4. events[Len(events) - n + 1].at >= now - FailureWindow
      BY <3>2, <3>3, DurationsAssumption
    <3> QED
      BY <1>1, <1>2, <3>1, <3>4
  <2> QED
    BY <1>1, <2>1, <2>2
<1>5. ASSUME NEW i \in (Len(out) - n + 1)..Len(out) PROVE out[i].at >= since
  <2>1. i \in 1..(Len(events) - k) /\ k + i \in (Len(events) - n + 1)..Len(events)
    BY <1>1, <1>3, <1>4
  <2> QED
    BY <1>3, <2>1
<1>6. n \in 0..Len(out)
  BY <1>1, <1>3, <1>4
<1> QED BY <1>5, <1>6 DEF out

\* After an append they are still there, with the new event behind them, unless
\* there are too many to be kept.
LEMMA AppendEventKeepsTail ==
    ASSUME NEW events \in Seq(ChannelCircuitEvent), NEW now \in Nat,
           NEW event \in ChannelCircuitEvent, NEW since \in Int, since >= now - FailureWindow,
           event.at >= since, NEW n \in 0..Len(events),
           \A i \in (Len(events) - n + 1)..Len(events) : events[i].at >= since,
           NEW m \in 0..(n + 1), m <= MaxWindowSamples
    PROVE  LET out == AppendEvent(events, event, now)
           IN  m \in 0..Len(out) /\ \A i \in (Len(out) - m + 1)..Len(out) : out[i].at >= since
<1> DEFINE out == AppendEvent(events, event, now)
<1>1. Len(events) \in Nat /\ n \in Nat /\ m \in Nat
  OBVIOUS
<1>2. PICK k \in 0..Len(events) :
        /\ Len(out) = Len(events) - k + 1 /\ out[Len(out)] = event
        /\ \A i \in 1..(Len(events) - k) : out[i] = events[k + i]
        /\ \/ Len(out) = MaxWindowSamples
           \/ \A i \in 1..Len(events) : events[i].at >= now - FailureWindow => k < i
  BY AppendEventIsSuffix
<1> HIDE DEF out
<1>3. k + n <= Len(events) \/ Len(out) = MaxWindowSamples
  <2>1. CASE n = 0
    BY <1>1, <1>2, <2>1
  <2>2. CASE n > 0
    <3>1. Len(events) - n + 1 \in 1..Len(events)
      BY <1>1, <2>2
    <3>2. events[Len(events) - n + 1].at >= since
      BY <1>1, <3>1
    <3>3. events[Len(events) - n + 1].at \in Nat
      <4>1. events[Len(events) - n + 1] \in ChannelCircuitEvent
        BY <3>1
      <4> QED
        BY <4>1 DEF ChannelCircuitEvent
    <3>4. events[Len(events) - n + 1].at >= now - FailureWindow
      BY <3>2, <3>3, DurationsAssumption
    <3> QED
      BY <1>1, <1>2, <3>1, <3>4
  <2> QED
    BY <1>1, <2>1, <2>2
<1>4. m \in 0..Len(out)
  BY <1>1, <1>2, <1>3, SamplesAssumption
<1>5. ASSUME NEW i \in (Len(out) - m + 1)..Len(out) PROVE out[i].at >= since
  <2>1. CASE i = Len(out)
    BY <1>2, <2>1
  <2>2. CASE i # Len(out)
    <3>1. i \in Int /\ Len(out) \in Int /\ i >= Len(out) - m + 1 /\ i < Len(out)
      BY <1>1, <1>2, <2>2
    <3>2. m <= n + 1 /\ m <= Len(out) /\ Len(out) = Len(events) - k + 1 /\ k \in Nat
      BY <1>1, <1>2, <1>4
    <3>3. i \in 1..(Len(events) - k) /\ k + i \in (Len(events) - n + 1)..Len(events)
      BY <1>1, <3>1, <3>2
    <3> QED
      BY <1>2, <3>3
  <2> QED
    BY <2>1, <2>2
<1> QED BY <1>4, <1>5 DEF out

\* The counts of events that are all alike.
LEMMA AllFailuresCounted ==
    ASSUME NEW events \in Seq(ChannelCircuitEvent), \A i \in 1..Len(events) : ~events[i].success
    PROVE  FailureCount(events) = Len(events)
<1>1. {i \in DOMAIN events : ~events[i].success} = 1..Len(events) /\ Len(events) \in Nat
  OBVIOUS
<1>2. Cardinality(1..Len(events)) = Len(events)
  <2>1. ASSUME NEW n \in Nat PROVE Cardinality(1..n) = n
    BY FS_Interval
  <2> QED
    BY <1>1, <2>1
<1> QED BY <1>1, <1>2 DEF FailureCount

LEMMA NothingCounted ==
    ASSUME NEW events \in Seq(ChannelCircuitEvent),
           \A i \in 1..Len(events) : events[i].success /\ ~events[i].slow
    PROVE  FailureCount(events) = 0 /\ SlowCount(events) = 0
<1>1. {i \in DOMAIN events : ~events[i].success} = {} /\ {i \in DOMAIN events : events[i].slow} = {}
  OBVIOUS
<1> QED BY <1>1, FS_EmptySet DEF FailureCount, SlowCount

\* Doubling with a cap stays between the first cooldown and the cap.
LEMMA NextCooldownBounds ==
    ASSUME NEW s \in ChannelCircuitState, NEW t \in Nat, BoundedState(s, t)
    PROVE  NextCooldown(s) \in Cooldown..MaxCooldown
BY DurationsAssumption DEF NextCooldown, FirstOpen, BoundedState, ChannelCircuitState

\* The next cooldown is never below the one before.
LEMMA NextCooldownGrows ==
    ASSUME NEW s \in ChannelCircuitState, NEW t \in Nat, BoundedState(s, t)
    PROVE  NextCooldown(s) >= s.currentCooldown
BY DurationsAssumption DEF NextCooldown, FirstOpen, BoundedState, ChannelCircuitState

\* The state of a channel that was never used is sound.
LEMMA NewStateSound ==
    ASSUME NEW t \in Nat
    PROVE  SoundState(NewChannelCircuitState, t)
<1>1. <<>> \in Seq(ChannelCircuitEvent) /\ Len(<<>>) = 0
  BY EmptySeq
<1>2. QED
  BY <1>1, DurationsAssumption, SamplesAssumption
  DEF SoundState, CoherentState, BoundedState, NewChannelCircuitState,
      ChannelCircuitState, NoTime

\* What was sound stays sound as time passes.
LEMMA SoundLater ==
    ASSUME NEW s, NEW t \in Nat, NEW u \in Nat, t <= u, SoundState(s, t)
    PROVE  SoundState(s, u)
BY DurationsAssumption DEF SoundState, BoundedState, ChannelCircuitState

-----------------------------------------------------------------------------
(* The updates.  t is the store's time, now the caller's, which is not     *)
(* later.                                                                  *)

\* Trimming keeps a state sound.
LEMMA TrimmedSound ==
    ASSUME NEW s, NEW t \in Nat, NEW now \in Nat, SoundState(s, t)
    PROVE  SoundState(Trimmed(s, now), t)
<1>1. /\ TrimEvents(s.events, now) \in Seq(ChannelCircuitEvent)
      /\ Len(TrimEvents(s.events, now)) <= Len(s.events)
  BY TrimEventsType DEF SoundState, ChannelCircuitState
<1>2. Len(s.events) \in Nat /\ Len(TrimEvents(s.events, now)) \in Nat
  BY <1>1, LenProperties DEF SoundState, ChannelCircuitState
<1>3. QED
  BY <1>1, <1>2, SamplesAssumption
  DEF SoundState, CoherentState, BoundedState, Trimmed, ChannelCircuitState

\* Recording an event keeps a state sound.
LEMMA WithEventSound ==
    ASSUME NEW s, NEW t \in Nat, NEW now \in Nat, SoundState(s, t),
           NEW event \in ChannelCircuitEvent
    PROVE  SoundState(WithEvent(s, event, now), t)
<1>1. /\ AppendEvent(s.events, event, now) \in Seq(ChannelCircuitEvent)
      /\ Len(AppendEvent(s.events, event, now)) <= MaxWindowSamples
  BY AppendEventType DEF SoundState, ChannelCircuitState
<1>2. QED
  BY <1>1 DEF SoundState, CoherentState, BoundedState, WithEvent, ChannelCircuitState

\* Opening needs the backoff to be in bounds, not the rest of the state.
LEMMA OpenedSound ==
    ASSUME NEW s \in ChannelCircuitState, NEW t \in Nat, NEW now \in 1..t,
           Len(s.events) <= MaxWindowSamples, BoundedState(s, t)
    PROVE  SoundState(Opened(s, now), t)
<1>1. NextCooldown(s) \in Cooldown..MaxCooldown
  BY NextCooldownBounds
<1>2. NextCooldown(s) \in Nat /\ NextCooldown(s) > 0
  BY <1>1, DurationsAssumption
<1>3. Opened(s, now) \in ChannelCircuitState
  <2> DEFINE count == IF FirstOpen(s) THEN 1
                      ELSE IF s.consecutiveOpenCnt < OpenCountBound THEN s.consecutiveOpenCnt + 1
                           ELSE s.consecutiveOpenCnt
             until == now + NextCooldown(s)
  <2>1. count \in Nat /\ until \in Nat /\ NextCooldown(s) \in Nat /\ 0 \in Nat
    BY <1>2, SamplesAssumption DEF ChannelCircuitState
  <2>2. Opened(s, now) = [s EXCEPT !.halfOpen = FALSE, !.probeDeadline = 0,
                                   !.consecutiveOpenCnt = count,
                                   !.currentCooldown = NextCooldown(s),
                                   !.openUntil = until]
    BY DEF Opened, NoTime, ChannelCircuitState
  <2> HIDE DEF count, until
  <2>3. QED BY <2>1, <2>2 DEF ChannelCircuitState
<1>4. /\ Opened(s, now).events = s.events
      /\ ~Opened(s, now).halfOpen
      /\ Opened(s, now).probeDeadline = NoTime
      /\ Opened(s, now).currentCooldown = NextCooldown(s)
      /\ Opened(s, now).openUntil = now + NextCooldown(s)
  BY DEF Opened, ChannelCircuitState
<1>5. Opened(s, now).consecutiveOpenCnt > 0
  <2>1. Opened(s, now).consecutiveOpenCnt
          = IF FirstOpen(s) THEN 1
            ELSE IF s.consecutiveOpenCnt < OpenCountBound THEN s.consecutiveOpenCnt + 1
                 ELSE s.consecutiveOpenCnt
    BY DEF Opened, ChannelCircuitState
  <2>2. QED BY <2>1, SamplesAssumption DEF ChannelCircuitState
<1> HIDE DEF Opened
<1>6. QED
  BY <1>1, <1>2, <1>3, <1>4, <1>5, DurationsAssumption
  DEF SoundState, CoherentState, BoundedState, NoTime

\* What Allow does keeps a state sound.
LEMMA AfterAllowSound ==
    ASSUME NEW s, NEW t \in Nat, NEW now \in 1..t, SoundState(s, t)
    PROVE  SoundState(AfterAllow(s, now), t)
<1> DEFINE u == [s EXCEPT !.halfOpen = TRUE, !.probeDeadline = now + ProbeTimeout]
<1>1. CASE GetsProbe(s, now)
  <2>0. now + ProbeTimeout \in Nat
    BY DurationsAssumption
  <2>1. /\ u \in ChannelCircuitState
        /\ u.events = s.events /\ u.openUntil = s.openUntil
        /\ u.halfOpen /\ u.probeDeadline = now + ProbeTimeout
        /\ u.currentCooldown = s.currentCooldown
        /\ u.consecutiveOpenCnt = s.consecutiveOpenCnt
    BY <2>0 DEF SoundState, ChannelCircuitState
  <2>2. AfterAllow(s, now) = u
    BY <1>1 DEF AfterAllow
  <2> HIDE DEF u
  <2>3. QED
    BY <1>1, <2>1, <2>2, DurationsAssumption
    DEF SoundState, CoherentState, BoundedState, GetsProbe, NoTime
<1>2. CASE ~GetsProbe(s, now)
  BY <1>2 DEF AfterAllow
<1>3. QED BY <1>1, <1>2

\* Cancelling a probe keeps a state sound.
LEMMA CancelledProbeSound ==
    ASSUME NEW s, NEW t \in Nat, SoundState(s, t)
    PROVE  SoundState(CancelledProbe(s), t)
<1> DEFINE u == [s EXCEPT !.halfOpen = FALSE, !.probeDeadline = NoTime]
<1>1. /\ u \in ChannelCircuitState
      /\ u.events = s.events /\ u.openUntil = s.openUntil
      /\ ~u.halfOpen /\ u.probeDeadline = NoTime
      /\ u.currentCooldown = s.currentCooldown
      /\ u.consecutiveOpenCnt = s.consecutiveOpenCnt
  BY DEF SoundState, ChannelCircuitState, NoTime
<1>2. CancelledProbe(s) = u \/ CancelledProbe(s) = s
  BY DEF CancelledProbe
<1> HIDE DEF u
<1>3. SoundState(u, t)
  BY <1>1, DurationsAssumption DEF SoundState, CoherentState, BoundedState, NoTime
<1>4. QED BY <1>2, <1>3

\* Marking a state as whitelisted keeps it sound.
LEMMA TrackedSound ==
    ASSUME NEW s, NEW t \in Nat, SoundState(s, t)
    PROVE  SoundState([s EXCEPT !.whitelisted = TRUE], t)
BY DEF SoundState, CoherentState, BoundedState, ChannelCircuitState

\* A failure keeps a state sound, opened or not.
LEMMA AfterFailureSound ==
    ASSUME NEW s, NEW t \in Nat, NEW now \in 1..t, SoundState(s, t),
           NEW event \in ChannelCircuitEvent
    PROVE  SoundState(AfterFailure(s, event, now), t)
<1> DEFINE u == [WithEvent(s, event, now) EXCEPT !.whitelisted = FALSE]
<1>1. SoundState(WithEvent(s, event, now), t)
  BY WithEventSound
<1>2. SoundState(u, t)
  BY <1>1 DEF SoundState, CoherentState, BoundedState, ChannelCircuitState
<1>3. SoundState(Opened(u, now), t)
  <2> HIDE DEF u
  <2> QED BY <1>2, OpenedSound DEF SoundState
<1>4. AfterFailure(s, event, now) = IF ShouldOpen(u) THEN Opened(u, now) ELSE u
  BY DEF AfterFailure
<1>5. QED
  <2> HIDE DEF u
  <2> QED BY <1>2, <1>3, <1>4

\* The success of a request on a circuit that is not half-open.
LEMMA AfterSuccessSound ==
    ASSUME NEW s, NEW t \in Nat, NEW now \in 1..t, SoundState(s, t), ~s.halfOpen,
           NEW event \in ChannelCircuitEvent
    PROVE  SoundState(AfterSuccess(s, event, now), t)
<1> DEFINE w == WithEvent(s, event, now)
           u == [w EXCEPT !.whitelisted = FALSE,
                          !.openUntil = IF IsOpen(s, now) THEN NoTime ELSE @]
<1>1. SoundState(w, t) /\ ~w.halfOpen
  BY WithEventSound DEF SoundState, ChannelCircuitState, WithEvent
<1>2. SoundState(u, t)
  <2> HIDE DEF w
  <2>1. /\ u \in ChannelCircuitState
        /\ u.events = w.events /\ ~u.halfOpen
        /\ u.openUntil = NoTime \/ u.openUntil = w.openUntil
        /\ u.probeDeadline = w.probeDeadline
        /\ u.currentCooldown = w.currentCooldown
        /\ u.consecutiveOpenCnt = w.consecutiveOpenCnt
    BY <1>1 DEF SoundState, ChannelCircuitState, NoTime
  <2> HIDE DEF u
  <2>2. QED
    BY <1>1, <2>1 DEF SoundState, CoherentState, BoundedState, ChannelCircuitState, NoTime
<1>3. SoundState(Opened(u, now), t)
  <2> HIDE DEF u
  <2> QED BY <1>2, OpenedSound DEF SoundState
<1>4. AfterSuccess(s, event, now) = IF ShouldOpen(u) THEN Opened(u, now) ELSE u
  BY DEF AfterSuccess
<1>5. QED
  <2> HIDE DEF u
  <2> QED BY <1>2, <1>3, <1>4

\* A whitelisted result keeps a state sound.
LEMMA AfterWhitelistedSound ==
    ASSUME NEW s, NEW t \in Nat, NEW now \in 1..t, SoundState(s, t),
           NEW event \in ChannelCircuitEvent
    PROVE  SoundState(AfterWhitelisted(s, event, now), t)
<1> DEFINE w == WithEvent(s, event, now)
           u == AfterWhitelisted(s, event, now)
<1>1. SoundState(w, t)
  BY WithEventSound
<1>2. u = [Cleared(w) EXCEPT !.whitelisted = TRUE]
  BY DEF AfterWhitelisted
<1> HIDE DEF w, u
<1>3. /\ u \in ChannelCircuitState
      /\ u.events = w.events /\ ~u.halfOpen
      /\ u.openUntil = NoTime /\ u.probeDeadline = NoTime
      /\ u.currentCooldown = 0 /\ u.consecutiveOpenCnt = 0
  BY <1>1, <1>2 DEF SoundState, Cleared, ChannelCircuitState, NoTime
<1>4. SoundState(u, t)
  BY <1>1, <1>3, DurationsAssumption DEF SoundState, CoherentState, BoundedState, NoTime
<1>5. QED BY <1>4 DEF u

\* The lifetime is positive and covers what is left of an open circuit and of
\* a probe, counted from the caller's now.
LEMMA StateTTLCovers ==
    ASSUME NEW s \in ChannelCircuitState, NEW now \in Nat
    PROVE  /\ StateTTL(s, now) \in Nat \ {0}
           /\ IsOpen(s, now) => StateTTL(s, now) >= s.openUntil - now
           /\ IsProbing(s, now) => StateTTL(s, now) >= s.probeDeadline - now
<1> DEFINE base   == IF IsOpen(s, now) THEN (s.openUntil - now) + FailureWindow + Minute
                     ELSE FailureWindow + Cooldown + Minute
           backed == IF s.currentCooldown > Cooldown THEN base + (s.currentCooldown - Cooldown)
                     ELSE base
           probe  == (s.probeDeadline - now) + FailureWindow + Minute
<1>1. /\ base \in Nat \ {0}
      /\ IsOpen(s, now) => base >= s.openUntil - now
  BY DurationsAssumption DEF IsOpen, ChannelCircuitState
<1>2. backed \in Nat /\ backed >= base
  <2> HIDE DEF base
  <2> QED BY <1>1, DurationsAssumption DEF ChannelCircuitState
<1>3. IsProbing(s, now) => probe \in Nat /\ probe >= s.probeDeadline - now
  BY DurationsAssumption DEF IsProbing, ChannelCircuitState
<1>4. StateTTL(s, now) = IF IsProbing(s, now) /\ probe > backed THEN probe ELSE backed
  BY DEF StateTTL
<1> HIDE DEF base, backed, probe
<1>5. s.openUntil \in Nat /\ s.probeDeadline \in Nat
  BY DEF ChannelCircuitState
<1>6. QED BY <1>1, <1>2, <1>3, <1>4, <1>5
=============================================================================
