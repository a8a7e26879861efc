# llm-failover in TLA+

Models, model-checking runs and machine-checked proofs for the Go package
`failover` under `src/`: a reverse proxy that sends one LLM request through a
list of upstream channels until one answers, with a circuit breaker per channel,
key pools, retries, a total time budget and a timer per attempt.

`PROJECT.json` lists components, runs, mutants, theorems, findings and hazards,
and maps every definition to the lines it models.

## 1. The system

| Component | Source | State it keeps | Operations |
|---|---|---|---|
| Circuit breaker, in-memory store | `channel_breaker.go` | per channel: window of events, `openUntil`, `halfOpen`, `probeDeadline`, `currentCooldown`, `consecutiveOpenCnt`, `whitelisted`; the store adds `expireAt` | `Allow`, `CancelProbe`, `TrackChannel`, `RecordSuccess`, `RecordFailure`, `RecordWhitelisted*`, snapshot with purge, resets |
| Redis store | `channel_breaker_redis.go` | the same as JSON under a key with a TTL, and a lock key | locked update, unlocked delete, scan |
| Registry, scopes | `channel_breaker.go` | process-wide set of breakers, scope prefixes | register, look up, report |
| Pipeline | `pipeline.go`, `handler.go` | per request: `pipelineResult`, `Context` | channel loop, recording, final answer |
| Channel attempts | `channel_retry.go`, `attempt_http.go` | per request: key, attempt, a key slot held until the body is closed | key and attempt loops, retry decision, internal handler |
| Budget and timer | `timeout.go` | a deadline per request; per attempt a context, a timer and two flags | budget checks, timer callback, clean-up |
| Response forwarding | `response.go`, `sse_write.go` | the lines of the unfinished event | pass on or rewrite events, detect how a body ends |
| Error classes, helpers | `utils.go` | none | predicates on errors, backoff, peeking at a body |
| Channel builders | `channel.go` | a rotation counter per third-party channel | key choice, model rewrite |
| Shared request body | `request_body.go` | one buffer, a buffer and a reader per attempt, a released flag | share, upload, rewind, release |
| Observers, logging, masking, tracing | `observer*.go`, `logger.go`, `mask.go`, `trace.go`, `request_error.go`, `response_decode.go` | counters | callbacks, formatting, decompression |

**How they interact.** One goroutine per request runs `ServeHTTP`, which puts the
budget's deadline on the request's context and calls `tryChannels`. For each
channel the pipeline asks the breaker (`Allow`, or `TrackChannel` if the channel
is whitelisted), calls `tryChannel`, and tells the breaker what came of it: for a
third-party channel after every attempt, for a pool once at the end. A probe that
ended without a verdict is given back with `CancelProbe`. `tryChannel` loops over
keys and attempts; each attempt runs under its own context which a timer cancels
from another goroutine. A key's slot is released by closing the response body. An
accepted response is forwarded under the request's context, and only then is
success recorded. Before it is forwarded the shared request body is let go, while
the transport's goroutine may still be uploading it. Breakers are shared between
all requests; the in-memory store runs each update under one mutex, but the caller
reads its clock before it takes it; the Redis store is shared between processes
and runs an update as five commands under a lock that expires. When the store fails
the breaker lets requests in and forgets what it is told. The health report reads
and purges the same store without a lock.

**What is hard.**

* Requests that were let in before a circuit opened report while it is open or
  half-open (*stragglers*); overdue probes report after they were replaced.
* A probe leaves its channel by many paths (verdict, uncounted error, busy keys,
  client gone, spent budget, panic) and its half-open slot must be freed on each.
* Updates reach the store with clock readings out of order; entries expire lazily.
* The report decides on a copy and deletes in a second step.
* Failures are to be counted once per attempt or once per pool on five return paths.
* The body whose `Close` frees a key is replaced, read ahead and closed in
  several places.
* An update in Redis outlives its lock, its process dies, or a reply is lost; resets
  come between its commands.
* The request body is let go while an upload still reads it; hooks panic meanwhile.
* Error variables and the Context are carried from channel to channel.
* The timer's callback, the handler and the client race at the moment the
  response headers arrive.
* Nested loops have to end on a deadline or on the client, whatever upstreams do.

**What makes each part correct.**

* *Breaker*: half-open flag, deadline and opening belong together; backoff is
  bounded and does not shrink; nobody is let through while the channel is
  shut; the shut state always ends; a healthy channel ends up closed; expiry
  never forgets a channel that is shut; the window loses nothing early.
* *Pipeline and attempts*: each breaker hears a well-formed sequence of calls; every
  probe is resolved; a pool is judged once; slots come back; the client gets the
  right kind of error; `OnError` runs exactly once; no channel is left untried
  without reason; the request ends.
* *Redis store*: as long as locks last it is what the in-memory store is; a lock is
  freed by nobody but its holder; nobody waits for ever.
* *The whole*: a client with one healthy channel in its list is served, unless a
  time-out passes for the request's end, and a sick channel costs no more than its
  breaker allows.
* *Bodies*: uploads are whole, the body is released once; observers and client see
  the same texts in the same events, in either mode of streaming.
* *Timer*: a time-out of the wait for a response is not taken for the client's
  cancel; a timer that was stopped or seen stays out of the body; contexts are
  released; an attempt ends.

## 2. Modules

| Module | Models | Uses |
|---|---|---|
| `CircuitState` | one channel's circuit as pure functions: trimming, appending, `ShouldOpen`, `NextCooldown`, what each breaker call makes of a state, `StateTTL` | |
| `ChannelBreaker` | one channel under concurrent requests: clock, store entry, requests, health report, reset | extends `CircuitState` |
| `ChannelGate` | abstract specification: a gate shut for a bounded time | |
| `ChannelBreakerForever` | the breaker without an end of time, for liveness | extends `ChannelBreaker` |
| `CircuitStore` | abstract specification: updates of one cell that follow one another | |
| `RedisStore` | the Redis store at the grain of single commands | instance of `CircuitStore` |
| `FailoverPipeline` | one request through channels, keys and attempts | |
| `FailoverService` | requests one after another with their breakers, other requests, an outage of the store | extends `FailoverPipeline`, `CircuitState` |
| `AttemptTimer` | the attempt timeout at the grain of single loads and stores | |
| `RequestBody` | the shared request body against the transport | |
| `EventStream` | an event stream line by line, in both modes | |
| `Forwarding` | body up, events down | extends `RequestBody`, `EventStream` |
| `Algorithms` | pure functions on all inputs within bounds | |
| `BreakerClaims`, `PipelineClaims` | statements of the documents the code does not keep | |
| `MCChannelBreaker`, `MCRedisStore` | symmetry, and a small circuit for TLC | |
| `CircuitStateProofs`, `ChannelBreakerProofs`, `RedisStoreProofs`, `AttemptTimerProofs`, `FailoverPipelineProofs`, `FailoverServiceProofs`, `ForwardingProofs`, `AlgorithmsProofs` | proofs | |

### The breaker

`entry` is the store's map entry for one channel; channels are independent keys
of one map, so one is enough. A breaker call is one action, as the store runs it
under its mutex. Its `now` was read earlier: it is any time in `Readable(since)`,
up to `MaxLag` old but not older than the caller's previous step. `Keep` stores
with a new expiry, `Loaded` drops an expired entry first. What the pipeline does
around the calls is reduced to a request's `phase`: `idle`, `upstream` (let in),
`unwinding` (failed, `CancelProbe` still to come). `HookPanic` is a caller's hook
panicking in mid-attempt, which skips every later call. `Snapshot` and
`SnapshotPurge` are the two critical sections of the health report.

Data left out: latencies (only *slow or not* remains, any event may be slow when
slowness is judged), names, stream flags, open reasons and statistics, which only
the report shows. `consecutiveOpenCnt` is only compared with 0; it is capped at
`OpenCountBound`. Doubling saturates and is then capped in the code; as the cap is
itself an int64 the model takes the minimum.

`ChannelBreakerForever` checks liveness on a finite graph: at `MaxClock` every
stored time moves back by one instead of the clock moving on, and a time that has
reached 1 stays there. All comparisons look back at most `FailureWindow + MaxLag`,
so `HorizonAssumption` makes a time of 1 as past as any earlier one.

### The pipeline

`pc` is where the goroutine is; `pos` the channel, key and attempt; `calls[c]` is
a history of what `c`'s breaker answered and was told, `tries` of the requests
sent. `budget` (`ample`, `short` of `MinAttemptTimeout`, `spent`) and `client`
change at any moment. What the environment returns is chosen by `\E`: the
breakers' answers, keys, errors of each kind, a status, what the first bytes of an
event stream say, how the body ends. An error keeps its kind and whether a
context error is in its chain, which is what the predicates of `utils.go` test. A
response keeps its status and `lease`, whether closing it releases a key's slot.

| Action | Code |
|---|---|
| `LeaveLoop`, `SkipChannel`, `SelectChannel`, `FailChannel` | the loop of `tryChannels` |
| `GetKeys`, `CannotPrepare`, `RunInternalHandler` | `prepareChannelAttempt`, `BeforeProxy` |
| `StartAttempt`, `SendRequest` | head of the attempt loop, `requestForAttempt` |
| `FailAttempt`, `Respond` | `executeSingleAttempt`'s results and what `tryChannel` does with an error |
| `RejectResponse`, `ReturnErrorResponse`, `AcceptResponse` | `evaluateRetryDecision` and its outcomes |
| `WriteResponse`, `WriteError` | `writePipelineResponse`, `recordChannelSuccess` |

Three time-outs are not the request's and pass for its end, as
`IsContextDoneError` cannot tell them from the budget's or the client's; the request
then ends with channels untried (`pipeline.go:302`). The `http.Client`'s own
(`HasClientTimeout`) ends the wait for a response or cuts its body with a deadline
error. One of its transport's (`HasTransportTimeout`), to dial or for the headers,
does so before there is a response (`UpstreamCauses`): the default client has no
time-out but the default transport has 30 seconds to dial, so an upstream that
swallows packets is enough. An attempt's timer (`HasAttemptTimeout`) that goes off as
the headers come in, too late for `Stop` and not yet to be seen in `Err()`, cancels
a body that was kept (`BodyCauses`), and with it the reading of an event stream's
first bytes. `OwnTimeout` names the three for the properties.
`tries.open` counts the attempts the observer heard begin and not end. `DoneErr` is
what `OnRequestDone` is told.

Left out: back-off sleeps (time), URLs, headers and model rewriting (data), the
wording of errors.

**How the two fit.** `ChannelBreaker` lets its requests make any sequence of calls
of a certain shape: failures, then at most one success, or a failure that opens,
followed at the end by `CancelProbe` if it was a probe. `CallsFollowProtocol`
checks that the pipeline's calls have exactly this shape. `FailoverService` then
puts the two together.

### The service

A step of `FailoverService` is a step of the pipeline together with what the words
it adds to `calls` do to the channel's circuit, computed with the operators of
`CircuitState`; `Fits` lets a breaker say only what its circuit makes it say. Each
channel is healthy, flaky or sick (`AsHealthy` restricts what the upstream may do).
Beside the request, each troubled channel may have one other request, which reports,
cancels or vanishes (a client that hangs up in mid-response). `Outage` takes the
store away once: `Answer` is then *admitted* and nothing that is said is kept, as
`Allow` and the `Record*` calls do when `update` returns an error. Left out here,
because `ChannelBreaker` has them: the lag of clocks, expiry of entries, panics,
whitelisting. Time passes only where the request waits or is over.

### The Redis store

`RedisStore` has one action per command: `TakeLock` (SETNX), `Read` (GET and the
breaker's function on the copy), `Write` (SET or DEL), `ReleaseLock` (the script),
each with its failure, with nothing done or with the reply lost. A process may
`Crash` at any point. Both keys may expire at any moment: go-redis waits for a reply
for three seconds by default, longer than the lock's two, so an update that outlives
its lock is an ordinary event. `ResetChannelByKey`, and `Snapshot` with
`SnapshotPurge`, act without the lock. What is stored is any set of states with any
functions on them; the JSON of the code keeps every field of the state, so that
encoding leaves nothing to model but its failure, which is `FailRead`.

A command is carried out while its update waits for it or not at all. go-redis itself
may repeat a command whose reply did not come, so that a SET may also be executed
twice or after its update gave up; that is not modelled.

`CircuitStore` says what the breaker needs: each update is computed from what the
update before it left, and nothing but forgetting comes between. Forgetting is weak:
a reset that comes between GET and SET is undone, which the abstract store allows
(`base \in {cell, latest}`), for the code gives nothing stronger. An update that
outlives its lock breaks the promise, and the refinement says for how long: until
the updates it overlapped are over (`promise <- overran = {}`).

### The bodies

`RequestBody` has the request's goroutine and one uploading goroutine per attempt.
`Available` is the point of the design: a reader keeps the bytes, so that the
buffers may be let go under it. `Panic` is a host's hook that panics at any point
after the body was read. `EventStream` has the two modes: `PassLine` writes each line
as it comes and assembles events on the side; `HoldLine` and `FlushBlock` parse a
block and write it anew. A field's value is a text of a small set, the empty one among
them, with or without white space around it, which `TrimSpace` takes away; several
data lines are the sequence of their values. What a client makes of the lines
(`EventsIn`, `EventOf`) is written from the format and not from the code: a blank line
dispatches an event if there was a data line, be it empty, and none otherwise, be
there a name. There the code differs, and the two properties are about the rest, the
events with a text, but for the space around it (`WithText`):

* a lone blank `data:` is an event at the client, and observed at most for its name;
* rewritten, an event with a name or an id and a lone blank `data:` loses that line
  (`sse_write.go:18`), after which a client dispatches nothing;
* a name without data is observed, and no event at the client;
* white space around values is not observed and not written again, nor is an empty `id:`,
  which at a client resets the last event's.

Field names without a colon, which the format allows, are left out.
`Picked` selects the elements of a sequence at a set of
positions; it takes the place of `SelectSeq`, whose definition the prover does not see.

### The pure functions

`Ask` chooses a function and its arguments, so that an invariant evaluates it on
every input within the bounds: `Backoff` in integers up to `MaxDuration` that wrap;
`KeyLists`, what successive calls of `GetKeys` return; `Summarize` and `Percentile`;
the names of both stores' entries with what `url.PathEscape` does to a colon, a
slash and a percent sign. The latencies are sorted by insertion (`Inserted`), which
stands for what `sort.Slice` makes of them: equal numbers cannot be told apart, so any
sort gives the same list.

### The attempt timer

The handler stops the timer, looks at the context and decides in three steps
(`StopTimer`, `LookAtContext`, `Decide`); the timer's goroutine sets its flag and
cancels in two (`Expire`, `RunCallback`). Each attempt has its own timer, so late
callbacks of earlier attempts run beside later attempts. A response that is kept ends by
`CloseResponse`, which cancels the attempt's context, or by `ReplaceResponse`: for an
error response that `RetryOnResponse` is to see (`HasRetryOnResponse`) the body is
replaced by a copy of its bytes, so that nobody calls `cancel` until the request is
over. Of what ends a body, `unread` is an event stream whose first bytes could not be
read, the outcome the pipeline may take for a cancelled request.

## 3. Runs

Deadlock is checked in the breaker's endless run, in `redis` and in `service`; it is
off (`CHECK_DEADLOCK FALSE`) where a request that is over stays over and where a
question is asked once. The bounded breaker run does not stop: the report and
requests can always take a step.

### Runs that pass

| Run | Bounds | Shows |
|---|---|---|
| `breaker` | 2 requests, 4 ticks, lag 1, window 1, cap 2, cooldown 1 to 3, probe 4, whitelisting, slowness, panics | `TypeOK`, `HalfOpenCoherent`, `BlockingBounded`, `EntryOutlivesBlocking`, `BackoffNeverShrinks`, `RecentEventsKept`, `SkippedWhileBlocked`, and that the breaker implements `ChannelGate` |
| `breaker_forever` | 2 requests, no end of time, lag 1 | `BlockingEnds` with time alone, `Recovers` with traffic |
| `pipeline_default` | pool and third-party channel, 2 keys, 2 attempts, budget, the time-outs of client, transport and attempt | slots, the right error of the right channel, `OnError`, the observer's pairs, order of giving up, and that a spent budget or a gone client ends the request |
| `pipeline_retry` | pool, third-party and whitelisted channel, 2 keys, 2 attempts, all retries on | calls, probes and pools |
| `timer` | 3 attempts, `RetryOnResponse` | the timer's races |
| `redis` | 2 updates at a time, 3 stored states, 4 operations | the lock, the refinement of `CircuitStore`, and that updates end |
| `service` | a sick or flaky channel before a healthy one, 2 attempts, 3 ticks, one other request, one outage, the time-outs of transport and attempt | `HealthyChannelServes`, `HalfOpenSlotAccounted`, `SickChannelSpared` |
| `forwarding` | 2 attempts, a body of 2 chunks, 3 lines, 2 texts with space around or none | uploads, release, and the events of both modes |
| `algorithms` | durations up to 127, 10 attempts, 6 keys, 3 events, 41 latencies, names of 2 characters | the pure functions |

*Why the bounds are enough.* Two requests are a straggler and a probe, or an
overdue probe and its successor; a request that leaves may come back, so longer
chains occur over time. Four ticks hold openings with a doubled and a capped
cooldown and a probe that outlasts the entry's ordinary TTL; what happens after an
overdue probe, over and over, is in `breaker_forever`. A cap of 2 events with a
quorum of 2 is over-full and partly stale at once. Lag 1 puts events out of order.
In the pipeline two keys and two attempts have a first and a last of each; the third
channel has one before it that failed, one that was skipped, or both. Three attempts
let a callback of the first be late for two others. Statuses are one of each class
the code tells apart: success, redirect, an uncounted 4xx, and a counted one. Two
updates overlap in every order, and a worker that ends may begin again while the
other still runs, so that a lock is taken, lost, taken by another and released late.
Three ticks hold a cooldown, a probe and its overrun under the pipeline. Three lines
are an event of two lines and its end, with any two of event, id, data and comment, or
an event of one line and the beginning of the next; longer streams are the theorems'.
41 latencies are two steps
of a percentile's index beyond 20, where 95 in 100 first leaves one out; two
characters are enough for a name to begin with another, or with an escape.

### Fairness

* `FairTime`: time passes. Nothing is assumed of requests, so `BlockingEnds` holds
  although every probe hangs.
* `FairRequests`, an assumption of `Recovers` only: requests keep asking, an attempt
  on a healthy channel returns, `CancelProbe`, a plain call, is made.
* Pipeline: the request's goroutine is scheduled (`WF(Proceed)`), and a call that
  waits for an upstream returns once its context is done
  (`WF(ContextDone /\ Await)`), which is the contract of `net/http`. Upstreams need
  never answer and neither the budget's end nor the client's leaving is assumed;
  the property starts from them. `WF(Proceed)` takes it that the hosts' hooks and
  internal handlers return, and that a write to a client that stays but reads nothing
  does, which `net/http` grants only under a `WriteTimeout` of the server's.
* Timer: the timer goes off and its callback runs, and the handler's own steps are
  taken; `Respond` is not fair.
* Redis: a command returns and `LockWait` passes for who waits. That locks expire is
  not assumed: `UpdateEnds` holds although a dead process's lock stays for ever.

### Runs that refute a document

Each checks one statement the repository makes; TLC's trace shows the code doing
otherwise. Lines are quoted in `PROJECT.json`.

| Run | Statement | What happens |
|---|---|---|
| `claim_probe_released` | a probe without verdict, a client's cancel among them, is given back | a client that leaves during forwarding: neither verdict nor `CancelProbe`; the channel waits for `ProbeTimeout` |
| `claim_slots` | acquire and release bound a key's use | an error response read for `RetryOnResponse` loses its releasing body, so the slot is never released |
| `claim_done_error` | `OnRequestDone` sees what the breaker concluded | a request that its second channel served is reported with the first channel's error, as `result.lastErr` is never cleared |

The models have further behaviours worth knowing, which no run is spent on:

* a straggler's success closes an open circuit before its cooldown, or a half-open
  one while its probe is out; an overdue probe's `CancelProbe` frees its successor's
  slot, so that a third is granted while that one is out (the comment at
  `channel_breaker.go:354` says the others keep skipping);
* with a cooldown longer than the window `Allow` finds no events and no open
  circuit, deletes the state and lets everyone in without a probe
  (`README.md:256`, `:261` promise one); `SickChannelSpared` therefore counts in
  windows where they are shorter than the cooldown;
* a probe's single attempt is per key, so a second key's success closes the circuit
  (`README.md:263`, `:268`); `ProbeTriesKeyOnce` states what holds;
* the budget's deadline is on the context the response body is read under, so it
  cuts a body that was accepted in time (`README.md:540`, `config.go:37` say
  otherwise);
* the report's purge may delete a circuit that opened after the report copied it;
* an attempt's timer that goes off as the headers come in, after which `Stop` is too
  late while `Err()` is still nil, cancels the body that was kept (`timeout.go:149`).
  If that is an event stream's, its first bytes cannot be read, the retry error has
  `context.Canceled` in its chain (`channel_retry.go:500`), and as the last attempt's
  with the last key it ends the request with channels untried (`pipeline.go:302`).
  `timeout.go:14-17`, `channel_retry.go:90` and `README.md:542-545` say that an
  attempt's time-out leads on to the next channel and that only the client or the
  budget ends a request. `TimeoutIsNotACancel` and `GivesUpOnlyOnVerdict` say how
  far that is so;
* so does the default transport's time-out to dial, by `errors.Is(err,
  context.DeadlineExceeded)` (`utils.go:210`): a channel that swallows packets denies
  the request the healthy one after it. `HealthyChannelServes` excepts both;
* the context of an error response that `RetryOnResponse` looked at, as its key's
  slot, is released by nobody: `io.NopCloser` (`channel_retry.go:420`) takes the place
  of `cancelOnClose` too (`ContextsReleased`);
* a client's cancel is reported as `ErrAttemptTimeout` when the timer goes off before
  the clean-up;
* event streams: the differences to the format listed under *The bodies*;
* `RewriteModel` is said to prefer an exact match to a pattern (`channel.go:188`);
  its loop (`channel.go:198-208`) takes the first rule that fits, so that an earlier
  pattern wins over a later exact rule;
* in Redis the prefix of scope `a` is also a prefix of the entries of scope `a:b`, as
  `url.PathEscape` leaves colons alone: a reset or report of the one reaches the
  other's, although `README.md:870` has the scope separate them. `ScopesApart` holds
  for scopes without a colon, and in memory for all that have no NUL;
* without `MaxDelay` the back-off of one second wraps to a negative delay at the
  35th attempt, which is then not slept at all.

### Mutants

Every property of a passing run has a mutant: an operator marked `Mutant:` that
changes a mapped definition as a plausible bug would (a dropped reset, a cap
forgotten, flag and cancel swapped, a lock released whosever it is, the shared
buffer read by an upload). Put in its place, it makes TLC refute the property.

## 4. Proofs

TLAPS proves the following for all values of the constants that satisfy the named
assumptions of the modules: any number of requests, channels, keys, attempts,
processes and lines, any configuration, any lag and any length of time.

| Theorem | Says |
|---|---|
| `TypeCorrect` | `[]TypeOK` of the breaker |
| `HalfOpenAlwaysCoherent` | `[]HalfOpenCoherent` |
| `BlockingAlwaysBounded` | `[]BlockingBounded` |
| `EntryAlwaysOutlivesBlocking` | `[]EntryOutlivesBlocking` |
| `NobodyPassesWhileBlocked` | `SkippedWhileBlocked` |
| `BackoffGrows` | `BackoffNeverShrinks` |
| `WindowLosesNothing` | `RecentEventsKept` |
| `BreakerIsAGate` | `ImplementsGate` |
| `RedisTypeCorrect`, `LockAlwaysKept` | types of the Redis store, `[]LockKept` |
| `RedisIsACircuitStore` | `ImplementsCircuitStore` |
| `TimerTypeCorrect`, `TimeoutNeverACancel`, `StoppedTimerAlwaysStaysOut`, `ContextsAlwaysReleased` | types of the timer, and its three invariants |
| `PipelineTypeCorrect` | `[]TypeOK` of the pipeline |
| `SlotsAlwaysReturned` | `[]KeySlotsReturned`, if there is no `RetryOnResponse` |
| `AttemptsAlwaysPaired` | `[]AttemptsPaired` |
| `RealErrorsAlwaysKept`, `ErrorsAreTheLast` | `[]RealErrorKept`, `[]UpstreamErrorIsTheLast` |
| `FailuresReportedOnce` | `[]OnErrorOnce` |
| `ChannelsAreUsedUp` | `[]GivesUpOnlyOnVerdict` |
| `ProbesAreShort` | `[]ProbeTriesKeyOnce` |
| `CallsAlwaysFollowProtocol`, `ProbesAlwaysResolved`, `PoolsJudgedOnce` | `[]CallsFollowProtocol`, `[]ProbeResolved`, `[]PoolJudgedOnce` |
| `SlotsAlwaysAccounted` | `[]HalfOpenSlotAccounted` |
| `HealthyChannelAlwaysServes` | `[]HealthyChannelServes`, if `~HasBudget` and `ErrorsArePassedOver` |
| `SickChannelsSpared` | `[]SickChannelSpared`, if `RatesReachable` |
| `UploadsStayWhole`, `BodyAlwaysReleased` | `[]UploadsAreWhole`, `[]BodyReleasedOnce` |
| `ObserversSeeWhatIsSent`, `RewritingLosesNothing` | `[]ObservedIsSent`, `[]NothingLostInRewriting` |
| `DelaysAlwaysGrowToTheCap`, `KeysAlwaysTakeTurns` | `[]DelaysGrowToTheCap`, `[]KeysTakeTurns` |
| `StatisticsAlwaysAddUp`, `ScopesAlwaysApart` | `[]StatisticsAddUp`, `[]ScopesApart` |

*The breaker.* `CircuitStateProofs` shows, operator by operator, that every update
turns a `SoundState` (typed, capped, coherent, bounded at time *t*) into another,
and how `StateTTL` compares with what the state blocks. `ChannelBreakerProofs`
has the inductive invariant `IInv`: types, a clock of at least 1, and that the
entry is sound and expires no earlier than it blocks. Neither
half is inductive alone: `HalfOpenCoherent` survives an expiry only because
nothing expires while it blocks, and `BlockingBounded` needs the backoff's range
together with the opening it came from. `BackoffGrows` follows from the same
invariant: a cooldown within its bounds is at most the next one.
`AllowAdmitsUnblocked` is where a late clock matters: the caller's `now` may be
before the store's, and a state that lets the caller in at `now` must not block at
`clock`. `BreakerIsAGate` maps a channel to `BlockedFor`, the longer of
what is left of the open period and of the probe, and the requests inside, and shows
that every step is `Pass`, `Enter`, `Exit`, `Relent` or a stutter. `WindowLosesNothing`
rests on what `TrimEvents` and `LastEvents` leave at the end of a window: appending an
event drops from the front only, and only what is too old for every caller whose clock
is late by `MaxLag` at most, or what is over the cap.

*The Redis store.* The invariant says who may hold what: an update that is under
way and has not overrun holds the lock, hence there is at most one, and what it is
about to write was computed from the cell as it is now or as the latest update left
it. A step of an update that is alone is then `Apply` or a stutter, a deletion is
`Forget`, and any other step touches neither the cell nor the history. Overlapping
updates stay marked until the last of them is over, which is what makes the promise
come back.

*The timer.* The invariant relates a timer's flag, its cancel and where the handler
is: the flag is up before the callback cancels anything, a timer that was stopped
has cancelled nothing, and an attempt that ended has a cancelled context unless its
response was replaced. That an unread stream's timer went off too late for `Stop` follows
from its context being done while the client is there.

*The pipeline.* `FailoverPipelineProofs` has the inductive invariant `IInv`: there is a
response exactly while somebody has to close it and closing gives back a slot that
was taken (`SlotWithResponse`); requests are sent at most once per attempt
(`SentByAttempt`); the channel the Context names is the one whose turn it is or the
last that had one (`ChannelOfContext`); channels are asked in order
(`AskedInOrder`); an error response kept in the Context belongs to the error in hand
(`BodyIsTheLast`); an error with a context's cause has its reason in budget, client
or time-out (`CausesHaveReasons`); nothing is answered before the end
(`QuietUntilTheEnd`), and the loop is left for a reason (`LeftForAReason`). Most steps
fall into three lemmas, for a step within a turn, one that ends an attempt and one that
ends the turn.
Its second part adds `WordsInv`: what a channel's breaker has heard is the
beginning of a well-formed conversation, as far as `pc` says it should have got.
`SlotsAlwaysReturned` is proved of configurations without `RetryOnResponse`, as with
it slots are lost (`claim_slots`).

*The service.* A step of the service is a step of the pipeline and what the words it
adds to `calls` do to one circuit (`StepTells`), so the invariants of
`FailoverPipelineProofs` carry over (`RequestInv`) and
what is new is said about circuits and words.

* `SlotsAlwaysAccounted` needs no hypothesis. `HalfOpenSlotAccounted` is inductive
  together with them: the pipeline's probe ends with a word that frees the slot, or its
  client has gone and the channel is in `left`.
* `HealthyChannelAlwaysServes`: a healthy channel's circuit holds no failures, hence is
  never opened (`HealthyBlameless`), and until it answers the request's turn is at or
  before it (`HealthyTurn`); the one way past it is a time-out of an unhealthy channel
  that ended the request (`TimedOutElsewhere`), which the property excepts. Its
  hypotheses are needed: a budget may end the request first, and a status the
  configuration does not pass over is returned as it came.
* `SickChannelsSpared` counts over all time, so its invariant is a potential: there is
  a number `k` of periods that have begun such that what a channel has suffered is at
  most `MinSamples` for each, less what its breaker still lacks to open (`SparedAll`).
  It holds because nobody succeeds on a sick channel (`SickNeverServes`) and its window
  therefore has failures only (`OnlyFailures`). `RatesReachable` says `MinSamples <=
  MaxWindowSamples` and an error rate of at most 1. `normalizeCircuitBreakerConfig`
  enforces neither, and without it the circuit never opens and nothing is bounded
  (see the hazard at `channel_breaker.go:298`).

*The bodies.* Readers are as long as the body because a buffer an attempt reads from
was filled before anything was released (`HeldUntilReleased`), and only the attempt
that is sending has one (`BuffersOfTheSending`).

*The stream.* Three facts about data carry the two theorems. Folding `AddLine` over a
block gives what the format says of the block (`FoldIsRaw`, `ParsedIs`): last
event name, last id, all data lines in order, each without the space around it, and a
single blank one for none. What `WriteSSEEvent` writes of an event reads back as that
event (`BodySays`, `ReadByClient`), unless its data is a single blank line, which
`ParseSSEBlock` never returns. And what the code makes of some lines (`Shown`) changes
only when a blank line completes a block (`EventsSilent`, `EventsBlank`). Where format
and code differ on which blocks are events, neither's event has a text (`SameText`), so
that the events with a text are the same for both (`TextKept`, `ClientSees`).
`StreamInv` then says what is under way: a passthrough's text is what was read and
`pending` its unfinished block (`PassedOn`); a rewritten text consists of whole blocks,
what was read ends in `pending`, and both hold the same events while no hook has
changed one (`WrittenAnew`). The prover cannot use an induction theorem that takes an
operator, so induction over lengths goes through a set of numbers (`Counting`), which
follows from the library's theorem that the strict subsets of finite sets are
well-founded.

*The pure functions.* Each is computed along its input, so each proof is an induction,
again through `Counting`, over what the fold has made of the first elements
(`FoldInSteps`) or what a function gives at its earlier arguments (`Iterated`).

* Below half of the range a double does not wrap and is longer than the delay, or is
  cut to the cap (`DoubledGrows`).
* Two lists that begin within one turn of each other begin with different keys
  (`TurnsAreTaken`), so *n* in a row are a permutation of the keys.
* A summary of the first events that is right stays right with one more (`ModeGrows`);
  the bound on the total is the one fact that multiplies (`TotalBounded`).
* A list is sorted and of the same latencies if, at each of its positions, as many
  latencies are at or below, and as few below, as the position says (`Sorts`). Inserting
  keeps that (`SortGrows`), and the percentile's rank follows from it (`PercentileIs`).
* Of two texts, each up to its first separator, neither begins the other
  (`SameUpToSeparator`); escaping brings no colon (`NoColonEscaped`) and is undone sign
  by sign (`ReadBack`), where `Unescaped` has first to be shown to have a value at all,
  as it is defined from the back (`PlainExists`).

Model-checked only: liveness, which is out of the prover's reach (`BlockingEnds`,
`Recovers`, the ends of requests, attempts and updates).

## 5. Not modelled

* The registry of breakers: a map under a mutex; no behaviour of a circuit depends on
  it. `scopes()` lists only scopes used in this process.
* `normalizeCircuitBreakerConfig`: its result is what the constants' assumptions say.
* The report's fields other than the statistics; observers and Prometheus counters
  (they feed nothing back); logging, masking and tracing; messages of errors.
* Decompression (library code), copying of headers, plain response bodies (one read,
  one write), building URLs and channels from records (assignment of fields).
* Choosing the enabled channels, which happens before the loop.
* `GetBody` after `client.Do` has returned, which the transport does not do.
* Examples.

## 6. Plan

Done: the breaker with its gate, the Redis store with its cell, the pipeline, the
service, the timer, the bodies, the pure functions, and the proofs above.

Further work, should the code change there: several concurrent requests of full pipelines in
`FailoverService` in place of one beside an abstract other; the rules of
`rewriteModelByRules` with the order its comment announces.
