----------------------------- MODULE Algorithms -----------------------------
(***************************************************************************)
(* The package's pure functions that are not part of a component of their  *)
(* own: the back-off between attempts (src/utils.go), the rotation of a    *)
(* channel's keys (src/channel.go), the statistics the breaker judges and  *)
(* the health report shows (src/channel_breaker.go), and the names of the  *)
(* stores' entries (src/channel_breaker.go, src/channel_breaker_redis.go). *)
(* Each is evaluated on every input within small bounds and held against   *)
(* what it is for; Ask chooses a function and its arguments.               *)
(***************************************************************************)
EXTENDS Integers, Sequences, FiniteSets, SequencesExt

CONSTANTS
    MaxDuration,   \* largest duration (time.Duration has 64 bits: 2^63 - 1)
    MaxTries,      \* bound: attempts on a channel
    MaxKeys,       \* bound: keys of a channel
    MaxLatency,    \* bound: latency of an event
    MaxEvents,     \* bound: events in a window
    MaxLatencies,  \* bound: latencies a percentile is taken of
    MaxNameLength  \* bound: characters of a scope or a channel key

ASSUME BoundsAssumption ==
    /\ {MaxDuration, MaxTries, MaxKeys} \subseteq Nat \ {0}
    /\ {MaxLatency, MaxEvents, MaxLatencies, MaxNameLength} \subseteq Nat

VARIABLE question  \* the function that is asked, and its arguments

-----------------------------------------------------------------------------
(* The back-off before an attempt.                                         *)

\* A time.Duration is a signed integer: the sum wraps around.
Wrapped(d) == ((d + MaxDuration + 1) % (2 * (MaxDuration + 1))) - MaxDuration - 1

\* Mutant: the delay is compared with the cap before it is doubled.
DoubledThenCapped(turn, max) ==
    IF max > 0 /\ turn.delay > max
    THEN [delay |-> max, returned |-> TRUE]
    ELSE [turn EXCEPT !.delay = Wrapped(2 * @)]

\* One turn of the loop: the delay is doubled; when a cap is configured and the
\* double passes it, the cap is returned.
Doubled(turn, max) ==
    IF turn.returned THEN turn
    ELSE IF max > 0 /\ Wrapped(2 * turn.delay) > max
    THEN [delay |-> max, returned |-> TRUE]
    ELSE [turn EXCEPT !.delay = Wrapped(2 * @)]

\* The delay before each attempt.
Backoff(base, max) ==
    LET turn[i \in 1..MaxTries] ==
          IF i = 1 THEN [delay |-> IF base <= 0 THEN 0 ELSE base, returned |-> base <= 0]
          ELSE Doubled(turn[i - 1], max)
    IN  [i \in 1..MaxTries |-> turn[i].delay]

-----------------------------------------------------------------------------
(* The keys of a channel, listed for one request after the other.          *)

\* Mutant: the start only moves when it would not wrap.
RotatedToTheLast(current, n) == IF current + 1 < n THEN current + 1 ELSE n - 1

\* Where the next list starts.
Rotated(current, n) == (current + 1) % n

\* The list a call returns, as indexes into the configured keys.
KeysFrom(current, n) == [i \in 1..n |-> (current + i - 1) % n]

\* The lists returned to successive calls; a mutex makes a call one step.
KeyLists(n, calls) ==
    LET current[c \in 1..calls] == IF c = 1 THEN 0 ELSE Rotated(current[c - 1], n)
    IN  [c \in 1..calls |-> KeysFrom(current[c], n)]

-----------------------------------------------------------------------------
(* The statistics of the events in the window.                             *)

EventKinds == [success : BOOLEAN, slow : BOOLEAN, stream : BOOLEAN, latency : 0..MaxLatency]

\* What one mode of request, streams or the others, or all of them, add up to.
ModeSummary == [requests |-> 0, successes |-> 0, failures |-> 0, slow |-> 0, total |-> 0, max |-> 0]

Larger(a, b) == IF a > b THEN a ELSE b
One(holds) == IF holds THEN 1 ELSE 0

\* Mutant: a failed request does not count as slow.
WithEventSlowSuccess(summary, event) ==
    [requests  |-> summary.requests + 1,
     successes |-> summary.successes + One(event.success),
     failures  |-> summary.failures + One(~event.success),
     slow      |-> summary.slow + One(event.slow /\ event.success),
     total     |-> summary.total + event.latency,
     max       |-> Larger(summary.max, event.latency)]

WithEvent(summary, event) ==
    [requests  |-> summary.requests + 1,
     successes |-> summary.successes + One(event.success),
     failures  |-> summary.failures + One(~event.success),
     slow      |-> summary.slow + One(event.slow),
     total     |-> summary.total + event.latency,
     max       |-> Larger(summary.max, event.latency)]

NoSummary == [all |-> ModeSummary, stream |-> ModeSummary, other |-> ModeSummary, last |-> 0]

Counted(summary, event) ==
    [all    |-> WithEvent(summary.all, event),
     stream |-> IF event.stream THEN WithEvent(summary.stream, event) ELSE summary.stream,
     other  |-> IF event.stream THEN summary.other ELSE WithEvent(summary.other, event),
     last   |-> event.latency]

\* One pass over the events.
Summarize(events) == FoldLeft(Counted, NoSummary, events)

\* The index of the 95th percentile among n sorted latencies: ceil(0.95 n),
\* within 1..n.
PercentileIndex(n) == (95 * n + 99) \div 100

\* What sort.Slice makes of the latencies.
Inserted(sorted, latency) ==
    LET before == Cardinality({i \in DOMAIN sorted : sorted[i] <= latency})
    IN  SubSeq(sorted, 1, before) \o <<latency>> \o SubSeq(sorted, before + 1, Len(sorted))

Percentile(latencies) ==
    IF latencies = << >> THEN 0
    ELSE FoldLeft(Inserted, << >>, latencies)[PercentileIndex(Len(latencies))]

-----------------------------------------------------------------------------
(* The names of the stores' entries.                                       *)

Letters == {"a", ":", "/", "%"}
Names == SeqOf(Letters, MaxNameLength)

Nul == <<"NUL">>

\* url.PathEscape: a colon is legal in a path and stays, a slash and a percent
\* sign do not.
WithEscaped(done, letter) ==
    done \o CASE letter = "/" -> <<"%", "2F">>
              [] letter = "%" -> <<"%", "25">>
              [] OTHER        -> <<letter>>

Escaped(name) == FoldLeft(WithEscaped, << >>, name)

MemoryPrefix(scope) == scope \o Nul
MemoryKey(scope, key) == MemoryPrefix(scope) \o key

\* Mutant: a scope's prefix does not end in a separator.
StatePrefixOpen(scope) == <<"state", ":">> \o Escaped(scope)

StatePrefix(scope) == <<"state", ":">> \o Escaped(scope) \o <<":">>
StateKey(scope, key) == StatePrefix(scope) \o Escaped(key)

\* The channel key of an entry found under a scope's prefix: the prefix is cut
\* off and the rest unescaped.
Unescaped(name) ==
    LET plain[i \in 1..(Len(name) + 2)] ==
          IF i > Len(name) THEN << >>
          ELSE IF name[i] = "%"
               THEN (IF name[i + 1] = "2F" THEN <<"/">> ELSE <<"%">>) \o plain[i + 2]
               ELSE <<name[i]>> \o plain[i + 1]
    IN  plain[1]

After(prefix, name) == SubSeq(name, Len(prefix) + 1, Len(name))
ChannelKeyFromStateKey(scope, name) == Unescaped(After(StatePrefix(scope), name))

-----------------------------------------------------------------------------
Init == question = [of |-> "nothing"]

AskBackoff ==
    \E base, max \in 0..MaxDuration : question' = [of |-> "backoff", base |-> base, max |-> max]

AskKeys == \E n \in 1..MaxKeys : question' = [of |-> "keys", n |-> n]

AskSummary == \E events \in SeqOf(EventKinds, MaxEvents) : question' = [of |-> "summary", events |-> events]

\* Latencies of three sizes, in an order that is not the sorted one.
AskPercentile ==
    \E low, middle, high \in 0..MaxLatencies :
        /\ low + middle + high <= MaxLatencies
        /\ question' = [of |-> "percentile", low |-> low, middle |-> middle, high |-> high]

AskNames ==
    \E scope, other, key \in Names :
        question' = [of |-> "names", scope |-> scope, other |-> other, key |-> key]

Ask ==
    /\ question.of = "nothing"
    /\ \/ AskBackoff
       \/ AskKeys
       \/ AskSummary
       \/ AskPercentile
       \/ AskNames

Spec == Init /\ [][Ask]_question

-----------------------------------------------------------------------------
(* The back-off a caller may rely on: with a base delay that does not pass  *)
(* the cap, and a cap below half of what a duration holds, no delay is      *)
(* negative (which sleep would skip), none passes the cap, none is shorter  *)
(* than the one before, and they grow until the cap is reached              *)
(* (src/utils.go:177-190).  With no cap the doubling wraps: from a base of  *)
(* one second the 35th delay is negative and is not slept at all; the model *)
(* has that behaviour and promises nothing of it.                           *)
DelaysGrowToTheCap ==
    question.of = "backoff" /\ 0 < question.base /\ question.base <= question.max
        /\ question.max <= MaxDuration \div 2 =>
        LET delay == Backoff(question.base, question.max)
        IN  \A i \in 1..MaxTries :
              /\ delay[i] \in question.base..question.max
              /\ i > 1 => delay[i] > delay[i - 1] \/ delay[i] = question.max

(* Key rotation spreads the load: of n requests in a row, whenever they     *)
(* come, each is offered every key once, and no two are offered the same    *)
(* key first (src/channel.go:131-146).                                      *)
KeysTakeTurns ==
    question.of = "keys" =>
        LET n     == question.n
            lists == KeyLists(n, 3 * n)
        IN  /\ \A c \in 1..(3 * n) : ToSet(lists[c]) = 0..(n - 1) /\ Len(lists[c]) = n
            /\ \A c \in 1..(2 * n + 1) : Cardinality({lists[d][1] : d \in c..(c + n - 1)}) = n

\* What a summary of the events of some modes says of them.
IsSummaryOf(summary, events, modes) ==
    LET those == {i \in DOMAIN events : events[i].stream \in modes}
    IN  /\ summary.requests = Cardinality(those)
        /\ summary.successes = Cardinality({i \in those : events[i].success})
        /\ summary.failures = summary.requests - summary.successes
        /\ summary.slow = Cardinality({i \in those : events[i].slow})
        /\ \A i \in those : events[i].latency <= summary.max
        /\ summary.max \in {events[i].latency : i \in those} \cup {0}
        /\ summary.max <= summary.total /\ summary.total <= summary.max * summary.requests

Latencies == [i \in 1..(question.low + question.middle + question.high) |->
                IF i <= question.high THEN 9 ELSE IF i <= question.high + question.low THEN 1 ELSE 5]

(* The statistics the breaker opens on and the health report shows are      *)
(* those of the window's events: the running sums agree with the counts of  *)
(* the events, over all of them and over each mode; and the percentile is   *)
(* the least latency that at least 95 in 100 do not exceed                  *)
(* (src/channel_breaker.go:1012-1098).                                      *)
StatisticsAddUp ==
    /\ question.of = "summary" =>
        LET summary == Summarize(question.events)
        IN  /\ IsSummaryOf(summary.all, question.events, BOOLEAN)
            /\ IsSummaryOf(summary.stream, question.events, {TRUE})
            /\ IsSummaryOf(summary.other, question.events, {FALSE})
            /\ \A counted \in DOMAIN ModeSummary \ {"max"} :
                 summary.all[counted] = summary.stream[counted] + summary.other[counted]
    /\ question.of = "percentile" =>
        LET NotAbove(bound) == {i \in DOMAIN Latencies : Latencies[i] <= bound}
            Covers(bound)   == 100 * Cardinality(NotAbove(bound)) >= 95 * Len(Latencies)
            p95             == Percentile(Latencies)
        IN  \/ Latencies = << >> /\ p95 = 0
            \/ /\ p95 \in ToSet(Latencies) /\ Covers(p95)
               /\ \A shorter \in ToSet(Latencies) : shorter < p95 => ~Covers(shorter)

(* A scope's report and its reset reach the entries of that scope and no     *)
(* other, and a key read back from an entry's name is the channel's key:     *)
(* two breakers over one store do not clear or report each other's circuits. *)
(* In the memory store this holds of every scope; in Redis, whose names are  *)
(* separated by a colon that url.PathEscape leaves alone, of scopes without  *)
(* one only (src/channel_breaker.go:933-939,                                 *)
(* src/channel_breaker_redis.go:246-261).                                    *)
ScopesApart ==
    question.of = "names" =>
        LET scope == question.scope
            other == question.other
            key   == question.key
        IN  /\ IsPrefix(MemoryPrefix(other), MemoryKey(scope, key)) => other = scope
            /\ ":" \notin ToSet(scope) \cup ToSet(other) =>
                 (IsPrefix(StatePrefix(other), StateKey(scope, key)) => other = scope)
            /\ ChannelKeyFromStateKey(scope, StateKey(scope, key)) = key
=============================================================================
