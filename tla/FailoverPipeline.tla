-------------------------- MODULE FailoverPipeline --------------------------
(***************************************************************************)
(* One request on its way through the proxy: the channels it tries in      *)
(* order, the keys of each channel, the attempts with each key             *)
(* (src/pipeline.go, src/channel_retry.go, src/attempt_http.go).           *)
(*                                                                         *)
(* The request is one goroutine; around it the failover budget runs out    *)
(* and the client may leave at any moment, and everything it meets may go  *)
(* either way: what the breakers answer, what GetKeys, AcquireKey and the  *)
(* upstream return.  Of an error the model keeps its kind and the context  *)
(* error in its chain, of a response its status, whether its first bytes   *)
(* are those of a broken event stream, and whether closing its body gives  *)
(* a key's slot back.  The breakers themselves are in ChannelBreaker; here *)
(* calls records what they are told.                                       *)
(***************************************************************************)
EXTENDS Integers, Sequences, FiniteSets

CONSTANTS
    NumChannels,      \* enabled channels, in their order
    NumKeys,          \* keys GetKeys returns
    MaxAttempts,      \* RetryConfig.MaxAttempts
    PoolChannels,     \* channels with CType pool; the others are third-party
    ExemptChannels,   \* channels whitelisted from the circuit breaker
    Statuses,         \* status codes an upstream may answer with
    HasRetryOnResponse, \* is RetryOnResponse configured,
    RetryStatuses,      \* and for which codes it says yes
    HasRetryOnError,    \* is RetryOnError configured (as IsRetryableError)
    LimitsKeys,       \* do the channels have AcquireKey and ReleaseKey
    HasBudget,        \* is FailoverTimeout configured, with a MinAttemptTimeout
    HasClientTimeout, \* has the http.Client a Timeout of its own
    HasTransportTimeout, \* has its transport one, to dial or for the headers: the
                         \* default transport has, 30 seconds to dial
    HasAttemptTimeout,\* is AttemptTimeout configured
    NoResponse        \* a nil *http.Response

Channels == 1..NumChannels

ASSUME CountsAssumption ==
    /\ NumChannels \in Nat \ {0} /\ NumKeys \in Nat \ {0} /\ MaxAttempts \in Nat \ {0}

ASSUME ConfigAssumption ==
    /\ PoolChannels \subseteq Channels /\ ExemptChannels \subseteq Channels
    /\ Statuses \subseteq 200..599
    /\ RetryStatuses \subseteq 400..599
    /\ {HasRetryOnResponse, HasRetryOnError, LimitsKeys,
        HasBudget, HasClientTimeout, HasTransportTimeout, HasAttemptTimeout} \subseteq BOOLEAN
    /\ NoResponse \notin [status : Statuses, lease : BOOLEAN]

VARIABLES
    pc,        \* where the request is
    pos,       \* the channel, key and attempt it is at
    probe,     \* probeMode: this channel was granted as a half-open probe
    budget,    \* what is left of FailoverTimeout
    client,    \* is the client still there
    ctx,       \* Context: the channel, LastStatusCode, is LastResponseBody non-empty
    err,       \* the error tryChannel returned
    resp,      \* the response in hand
    result,    \* pipelineResult: lastErr and whose it is, skipped
    held,      \* key slots acquired and not released
    onErrors,  \* calls of the OnError hook
    calls,     \* for each channel, what its breaker was told and answered
    tries,     \* requests sent with the current key; attempts the observer was told
               \* the start but not the end of
    reply      \* what the client got

vars == <<pc, pos, probe, budget, client, ctx, err, resp, result,
          held, onErrors, calls, tries, reply>>

env == <<budget, client>>

-----------------------------------------------------------------------------
(* Errors.                                                                 *)

NoError == [kind |-> "none", cause |-> "none"]
Failure(kind) == [kind |-> kind, cause |-> "none"]

ErrorKinds == {"none", "context", "timeout", "network", "empty", "setup",
               "busy", "noKeys", "handler", "retry", "status", "open"}
Errors == [kind : ErrorKinds, cause : {"none", "canceled", "deadline"}]

\* Mutant: the request's context does not carry the budget's deadline.
ContextDoneWhenGone == client = "gone"

\* The request's context: done when the client left or the budget is spent.
ContextDone == client = "gone" \/ budget = "spent"
ContextCauses == (IF client = "gone" THEN {"canceled"} ELSE {})
                   \cup (IF budget = "spent" THEN {"deadline"} ELSE {})

\* The context errors of a call that waits for the upstream: a timeout of the
\* http.Client's or of its transport's is a deadline exceeded like the budget's.
UpstreamCauses ==
    ContextCauses \cup (IF HasClientTimeout \/ HasTransportTimeout THEN {"deadline"} ELSE {})

\* And those of reading a body: the http.Client's timeout covers it, and the timer
\* of its attempt cancels it if it went off as the headers came in, too late for
\* Stop, and had not cancelled when the context was looked at (AttemptTimer).
BodyCauses ==
    ContextCauses \cup (IF HasClientTimeout THEN {"deadline"} ELSE {})
                  \cup (IF HasAttemptTimeout THEN {"canceled"} ELSE {})

BudgetError == budget # "ample"

IsContextDoneError(e)   == e.cause # "none"
IsPoolExhaustedError(e) == e.kind \in {"busy", "noKeys"}
IsRetryableError(e)     == ~IsContextDoneError(e) /\ ~IsPoolExhaustedError(e)

\* Is the failure the channel's fault, by the status it left behind if any.
ShouldCount(e, status) ==
    \/ status \in {403, 422, 429} \/ status >= 500
    \/ status < 400 /\ IsRetryableError(e)

IsCircuitBreakerWhitelisted(c) == c \in ExemptChannels

\* What recordCircuitFailure tells the breaker, one of these: a breaker that
\* is told of a failure answers whether that opened the circuit.
Verdicts(c, e, status) ==
    IF IsContextDoneError(e) THEN {<<>>}
    ELSE IF IsCircuitBreakerWhitelisted(c) THEN {<<"exemptFailure">>}
    ELSE IF ~ShouldCount(e, status) THEN {<<>>}
    ELSE {<<"failure">>, <<"opened">>}

\* Mutant: pools are told of every failure too.
AttemptVerdictsOfPools(c, e, status) == Verdicts(c, e, status)

\* Third-party channels are told of every failure, pools once at the end.
AttemptVerdicts(c, e, status) == IF c \in PoolChannels THEN {<<>>} ELSE Verdicts(c, e, status)
ChannelVerdicts(c, e, status) == IF c \in PoolChannels THEN Verdicts(c, e, status) ELSE {<<>>}

\* Mutant: a pool without a free key ends the request.
ShouldContinueUnlessBusy(e, status) ==
    /\ ~IsContextDoneError(e)
    /\ \/ e.kind = "timeout"
       \/ /\ status >= 400
          /\ IF HasRetryOnResponse THEN status \in RetryStatuses
             ELSE status = 429 \/ status >= 500
       \/ status < 400 /\ IsRetryableError(e)

\* Does the next channel get its turn.
ShouldContinue(e, status) ==
    /\ ~IsContextDoneError(e)
    /\ \/ e.kind = "timeout"
       \/ IsPoolExhaustedError(e)
       \/ /\ status >= 400
          /\ IF HasRetryOnResponse THEN status \in RetryStatuses
             ELSE status = 429 \/ status >= 500
       \/ status < 400 /\ IsRetryableError(e)

\* Mutant: the keys are tried on although the circuit has opened.
EndsTurnOnContextOnly(e, told) == IsContextDoneError(e)

\* Does a failed attempt end the channel's turn, whatever keys are left.
EndsTurn(e, told) == IsContextDoneError(e) \/ told = <<"opened">>

-----------------------------------------------------------------------------
(* Steps the request is made of.                                           *)

Tell(c, told) == calls' = [calls EXCEPT ![c] = @ \o told]

\* Mutant: a probe has as many attempts as any request.
AttemptLimitOfAll == MaxAttempts

\* A half-open probe gets a single attempt with each key.
AttemptLimit == IF probe THEN 1 ELSE MaxAttempts

\* Mutant: a probe is never given back, only judged.
ProbeEndForgotten == <<>>

\* After a failed channel the half-open slot is given back, if it was granted.
ProbeEnd == IF probe THEN <<"cancel">> ELSE <<>>

\* Mutant: the slot is released by every Close on the way, not only the first.
CloseTwice(r) == held' = IF r # NoResponse /\ r.lease THEN held - 2 ELSE held

\* Closing the body in hand; only one that was not replaced by a copy of its
\* bytes gives the key's slot back.
Close(r) == held' = IF r # NoResponse /\ r.lease THEN held - 1 ELSE held

\* tryChannel ends with an error, in the middle of an attempt or outside of one.
ReturnError(e, told) ==
    /\ pc' = "failed"
    /\ err' = e
    /\ tries' = [tries EXCEPT !.open = @ - told]
    /\ UNCHANGED pos

NextAttempt ==
    /\ pc' = "attempt"
    /\ pos' = [pos EXCEPT !.attempt = @ + 1]
    /\ tries' = [tries EXCEPT !.open = @ - 1]
    /\ UNCHANGED err

NextKey(e) ==
    \/ /\ pos.key < NumKeys
       /\ pc' = "attempt"
       /\ pos' = [pos EXCEPT !.key = @ + 1, !.attempt = 1]
       /\ tries' = [tries EXCEPT !.key = 0, !.open = @ - 1]
       /\ UNCHANGED err
    \/ pos.key = NumKeys /\ ReturnError(e, 1)

-----------------------------------------------------------------------------
Init ==
    /\ pc = "channel"
    /\ pos = [chan |-> 1, key |-> 0, attempt |-> 0]
    /\ probe = FALSE
    /\ budget = "ample" /\ client = "here"
    /\ ctx = [channel |-> 0, status |-> 0, body |-> FALSE]
    /\ err = NoError /\ resp = NoResponse
    /\ result = [lastErr |-> NoError, from |-> 0, skipped |-> 0]
    /\ held = 0
    /\ onErrors = 0
    /\ calls = [c \in Channels |-> <<>>]
    /\ tries = [key |-> 0, open |-> 0]
    /\ reply = "none"

\* The channels are used up, or the budget is, with whatever errors there were.
LeaveLoop ==
    /\ pc = "channel"
    /\ \/ pos.chan > NumChannels /\ UNCHANGED result
       \/ /\ pos.chan <= NumChannels
          /\ BudgetError
          /\ result' = [result EXCEPT !.lastErr = [kind |-> "context", cause |-> "deadline"],
                                      !.from = 0]
    /\ pc' = "answer"
    /\ UNCHANGED <<pos, probe, env, ctx, err, resp, held, onErrors, calls, tries, reply>>

\* Mutant: a skipped channel's error replaces the one before it.
AfterSkipOverwrites(c) ==
    [lastErr |-> Failure("open"), from |-> c,
     skipped |-> IF result.skipped = 0 THEN c ELSE result.skipped]

\* The first skipped channel is remembered, its error only if there is none yet.
AfterSkip(c) ==
    [lastErr |-> IF result.lastErr = NoError THEN Failure("open") ELSE result.lastErr,
     from    |-> IF result.lastErr = NoError THEN c ELSE result.from,
     skipped |-> IF result.skipped = 0 THEN c ELSE result.skipped]

\* The breaker says no.
SkipChannel ==
    /\ pc = "channel" /\ pos.chan <= NumChannels /\ ~BudgetError
    /\ ~IsCircuitBreakerWhitelisted(pos.chan)
    /\ Tell(pos.chan, <<"denied">>)
    /\ result' = AfterSkip(pos.chan)
    /\ pos' = [pos EXCEPT !.chan = @ + 1]
    /\ UNCHANGED <<pc, probe, env, ctx, err, resp, held, onErrors, tries, reply>>

\* Mutant: the next channel's Context starts from what the one before left.
SelectChannelStale ==
    /\ pc = "channel" /\ pos.chan <= NumChannels /\ ~BudgetError
    /\ probe' = FALSE /\ Tell(pos.chan, <<"admitted">>)
    /\ ctx' = [ctx EXCEPT !.channel = pos.chan]
    /\ pc' = "prepare"
    /\ tries' = [key |-> 0, open |-> 0]
    /\ UNCHANGED <<pos, env, err, resp, result, held, onErrors, reply>>

\* The breaker lets the request in, perhaps as the probe, or is not asked.
SelectChannel ==
    /\ pc = "channel" /\ pos.chan <= NumChannels /\ ~BudgetError
    /\ \/ /\ IsCircuitBreakerWhitelisted(pos.chan)
          /\ probe' = FALSE /\ Tell(pos.chan, <<"tracked">>)
       \/ /\ ~IsCircuitBreakerWhitelisted(pos.chan)
          /\ \/ probe' = FALSE /\ Tell(pos.chan, <<"admitted">>)
             \/ probe' = TRUE /\ Tell(pos.chan, <<"probe">>)
    /\ ctx' = [channel |-> pos.chan, status |-> 0, body |-> FALSE]
    /\ pc' = "prepare"
    /\ tries' = [key |-> 0, open |-> 0]
    /\ UNCHANGED <<pos, env, err, resp, result, held, onErrors, reply>>

\* prepareChannelAttempt: the keys to try, or none, or a request whose model
\* cannot be rewritten.
PrepareErrors == {Failure("setup"), Failure("noKeys")}

GetKeys ==
    /\ pc = "prepare"
    /\ pc' = "attempt"
    /\ pos' = [pos EXCEPT !.key = 1, !.attempt = 1]
    /\ UNCHANGED <<probe, env, ctx, err, resp, result, held, onErrors, calls, tries, reply>>

CannotPrepare ==
    /\ pc = "prepare"
    /\ \E e \in PrepareErrors :
         /\ ReturnError(e, 0)
         /\ \E told \in AttemptVerdicts(pos.chan, e, ctx.status) : Tell(pos.chan, told)
    /\ UNCHANGED <<probe, env, ctx, resp, result, held, onErrors, reply>>

\* BeforeProxy takes the request over: its answer is taken as it is, whatever
\* the status; with neither answer nor error the breaker is told nothing.
RunInternalHandler ==
    /\ pc = "prepare"
    /\ \E status \in Statuses :
         LET answer == [status |-> status, lease |-> FALSE]
         IN  \/ pc' = "writing" /\ resp' = answer /\ UNCHANGED <<pos, err, calls, tries>>
             \/ ReturnError(Failure("empty"), 0) /\ UNCHANGED <<resp, calls>>
             \/ \E e \in {Failure("handler")}
                           \cup [kind : {"context"}, cause : UpstreamCauses] :
                  /\ ReturnError(e, 0)
                  /\ resp' \in {NoResponse, answer}
                  /\ \E told \in AttemptVerdicts(pos.chan, e, ctx.status) : Tell(pos.chan, told)
    /\ UNCHANGED <<probe, env, ctx, result, held, onErrors, reply>>

\* The head of the attempt loop: no budget, no attempt; no client, an attempt
\* that ends where it starts.
StartAttempt ==
    /\ pc = "attempt"
    /\ \/ /\ BudgetError
          /\ ReturnError([kind |-> "context", cause |-> "deadline"], 0)
          /\ UNCHANGED ctx
       \/ /\ ~BudgetError
          /\ ctx' = [ctx EXCEPT !.status = 0, !.body = FALSE]
          /\ \/ client = "gone" /\ ReturnError([kind |-> "context", cause |-> "canceled"], 0)
             \/ client = "here" /\ pc' = "starting"
                /\ tries' = [tries EXCEPT !.open = @ + 1]
                /\ UNCHANGED <<pos, err>>
    /\ UNCHANGED <<probe, env, resp, result, held, onErrors, calls, reply>>

\* Mutant: an attempt that is not sent for want of budget has no end.
SendRequestUntold ==
    /\ pc = "starting"
    /\ \/ BudgetError
          /\ ReturnError([kind |-> "context", cause |-> "deadline"], 0)
       \/ ~BudgetError
          /\ pc' = "waiting"
          /\ tries' = [tries EXCEPT !.key = @ + 1]
          /\ UNCHANGED <<pos, err>>
    /\ UNCHANGED <<probe, env, ctx, resp, result, held, onErrors, calls, reply>>

\* requestForAttempt looks at the budget once more.
SendRequest ==
    /\ pc = "starting"
    /\ \/ BudgetError
          /\ ReturnError([kind |-> "context", cause |-> "deadline"], 1)
       \/ ~BudgetError
          /\ pc' = "waiting"
          /\ tries' = [tries EXCEPT !.key = @ + 1]
          /\ UNCHANGED <<pos, err>>
    /\ UNCHANGED <<probe, env, ctx, resp, result, held, onErrors, calls, reply>>

\* The attempt brings no response, and its key's slot is free again.  A
\* context error ends it all; a failure that opens the circuit ends the
\* channel; an attempt that ran out of time ends the key.
AttemptErrors ==
    {Failure(k) : k \in {"network", "empty"}}
      \cup (IF LimitsKeys THEN {Failure("busy")} ELSE {})
      \cup (IF HasAttemptTimeout THEN {Failure("timeout")} ELSE {})
      \cup [kind : {"context"}, cause : UpstreamCauses]

FailAttempt ==
    /\ pc = "waiting"
    /\ \E e \in AttemptErrors :
         \E told \in AttemptVerdicts(pos.chan, e, ctx.status) :
           LET again == /\ e.kind # "timeout" /\ HasRetryOnError /\ IsRetryableError(e)
                        /\ pos.attempt < AttemptLimit
           IN  /\ Tell(pos.chan, told)
               /\ \/ EndsTurn(e, told) /\ ReturnError(e, 1)
                  \/ /\ ~EndsTurn(e, told)
                     /\ \/ again /\ NextAttempt
                        \/ ~again /\ NextKey(e)
    /\ UNCHANGED <<probe, env, ctx, resp, result, held, onErrors, reply>>

\* Response headers are in.
Respond ==
    /\ pc = "waiting"
    /\ \E status \in Statuses : resp' = [status |-> status, lease |-> LimitsKeys]
    /\ held' = IF LimitsKeys THEN held + 1 ELSE held
    /\ pc' = "judging"
    /\ UNCHANGED <<pos, probe, env, ctx, err, result, onErrors, calls, tries, reply>>

\* Mutant: every response is read into a copy.
BufferedAlways(r) == [r EXCEPT !.lease = FALSE]

\* evaluateRetryDecision.  When RetryOnResponse is to see an error response its
\* body is read and replaced by a reader of the bytes, whose Close does nothing.
Buffered(r) ==
    IF HasRetryOnResponse /\ r.status >= 400 THEN [r EXCEPT !.lease = FALSE] ELSE r

\* The errors that reject a response: a status to be retried, or an event
\* stream that is empty, reports an error or breaks off before its first event,
\* whatever broke it off.
Rejections(r) ==
    (IF HasRetryOnResponse /\ r.status \in RetryStatuses THEN {Failure("retry")} ELSE {})
      \cup (IF r.status < 300 THEN {Failure("retry")} \cup [kind : {"retry"}, cause : BodyCauses]
            ELSE {})

\* The response is to be retried: it is closed, and the request goes on as
\* after a failed attempt.
RejectResponse ==
    /\ pc = "judging"
    /\ resp' = NoResponse
    /\ Close(Buffered(resp))
    /\ \E body \in BOOLEAN : ctx' = [ctx EXCEPT !.status = resp.status, !.body = body]
    /\ \E e \in Rejections(resp) :
         \E told \in AttemptVerdicts(pos.chan, e, resp.status) :
           /\ Tell(pos.chan, told)
           /\ \/ told = <<"opened">> /\ ReturnError(e, 1)
              \/ told # <<"opened">> /\ pos.attempt < AttemptLimit /\ NextAttempt
              \/ told # <<"opened">> /\ pos.attempt >= AttemptLimit /\ NextKey(e)
    /\ UNCHANGED <<probe, env, result, onErrors, reply>>

\* An error response that is not retried is the channel's answer.
ReturnErrorResponse ==
    /\ pc = "judging"
    /\ resp.status >= 400
    /\ ~(HasRetryOnResponse /\ resp.status \in RetryStatuses)
    /\ resp' = Buffered(resp)
    /\ \E body \in (IF HasRetryOnResponse THEN BOOLEAN ELSE {FALSE}) :
         ctx' = [ctx EXCEPT !.status = resp.status, !.body = body]
    /\ ReturnError(Failure("status"), 1)
    /\ \E told \in AttemptVerdicts(pos.chan, Failure("status"), resp.status) :
         Tell(pos.chan, told)
    /\ UNCHANGED <<probe, env, result, held, onErrors, reply>>

AcceptResponse ==
    /\ pc = "judging"
    /\ resp.status < 400
    /\ ctx' = [ctx EXCEPT !.status = resp.status]
    /\ pc' = "writing"
    /\ tries' = [tries EXCEPT !.open = @ - 1]
    /\ UNCHANGED <<pos, probe, env, err, resp, result, held, onErrors, calls, reply>>

\* tryChannels after a failed channel: the body of a returned response is read
\* and closed, the pool's failure recorded, the probe given back.
FailChannel ==
    /\ pc = "failed"
    /\ LET status == IF resp = NoResponse THEN ctx.status ELSE resp.status
       IN  /\ \E body \in (IF resp = NoResponse \/ ctx.body THEN {ctx.body} ELSE BOOLEAN) :
                ctx' = [ctx EXCEPT !.status = status, !.body = body]
           /\ \E told \in ChannelVerdicts(pos.chan, err, status) :
                Tell(pos.chan, told \o ProbeEnd)
           /\ IF ShouldContinue(err, status)
              THEN pc' = "channel" /\ pos' = [pos EXCEPT !.chan = @ + 1]
              ELSE pc' = "answer" /\ UNCHANGED pos
    /\ Close(resp)
    /\ resp' = NoResponse
    /\ result' = [result EXCEPT !.lastErr = err, !.from = pos.chan]
    /\ err' = NoError
    /\ UNCHANGED <<probe, env, onErrors, tries, reply>>

\* The accepted response is forwarded: in full, until the upstream breaks off,
\* or until a context error, the request's own or another, cuts it.
Streamings ==
    {"complete", "broken"} \cup (IF BodyCauses # {} THEN {"cut"} ELSE {})

WriteResponse ==
    /\ pc = "writing"
    /\ \E how \in Streamings :
         /\ reply' = how
         /\ \E told \in CASE how = "complete" ->
                              {<<IF IsCircuitBreakerWhitelisted(pos.chan) THEN "exemptSuccess" ELSE "success">>}
                          [] how = "broken" -> Verdicts(pos.chan, Failure("network"), ctx.status)
                          [] how = "cut" -> {<<>>} :
              Tell(pos.chan, told)
    /\ Close(resp)
    /\ resp' = NoResponse
    /\ pc' = "done"
    /\ UNCHANGED <<pos, probe, env, ctx, err, result, onErrors, tries>>

\* What the observer's OnRequestDone is told of a request that is over.
DoneErr ==
    IF result.lastErr # NoError THEN result.lastErr
    ELSE IF reply = "broken" THEN Failure("network") ELSE NoError

FromUpstream == ctx.body /\ ctx.status >= 400

\* Mutant: a request that was only ever skipped has no channel to report.
ErrorChannelUnlessSkipped == ctx.channel

\* The channel an error is reported for: a request that was only ever skipped
\* counts as the first skipped channel's.
ErrorChannel == IF ctx.channel = 0 /\ ~FromUpstream THEN result.skipped ELSE ctx.channel

\* No channel succeeded: the client gets the last upstream error, or one made
\* up from the last error.
WriteError ==
    /\ pc = "answer"
    /\ reply' = IF FromUpstream THEN "upstreamError"
                ELSE IF result.lastErr.kind = "open" THEN "unavailable" ELSE "error"
    /\ ctx' = [ctx EXCEPT !.channel = ErrorChannel]
    /\ onErrors' = IF ErrorChannel # 0 THEN onErrors + 1 ELSE onErrors
    /\ pc' = "done"
    /\ UNCHANGED <<pos, probe, env, err, resp, result, held, calls, tries>>

-----------------------------------------------------------------------------
(* What happens around the request.                                        *)

BudgetShrinks ==
    /\ HasBudget /\ pc # "done"
    /\ \/ budget = "ample" /\ budget' \in {"short", "spent"}
       \/ budget = "short" /\ budget' = "spent"
    /\ UNCHANGED <<pc, pos, probe, client, ctx, err, resp, result, held, onErrors, calls, tries, reply>>

ClientLeaves ==
    /\ client = "here" /\ pc # "done"
    /\ client' = "gone"
    /\ UNCHANGED <<pc, pos, probe, budget, ctx, err, resp, result, held, onErrors, calls, tries, reply>>

\* Steps that never wait for the upstream.
Proceed ==
    \/ LeaveLoop \/ SkipChannel \/ SelectChannel
    \/ GetKeys \/ CannotPrepare
    \/ StartAttempt \/ SendRequest
    \/ FailChannel \/ WriteError

\* Steps that do: a handler's answer, response headers, the first bytes of a
\* body, the rest of it.
Await ==
    \/ RunInternalHandler \/ FailAttempt \/ Respond
    \/ RejectResponse \/ ReturnErrorResponse \/ AcceptResponse
    \/ WriteResponse

Next == Proceed \/ Await \/ BudgetShrinks \/ ClientLeaves

Spec == Init /\ [][Next]_vars

\* The goroutine runs, and a call that waits for the upstream returns once the
\* request's context is done.  The upstream itself need never answer, nor the
\* client ever leave.
FairSpec ==
    /\ Spec
    /\ WF_vars(Proceed)
    /\ WF_vars(ContextDone /\ Await)

-----------------------------------------------------------------------------
(* What the pipeline keeps true.                                           *)

Answers  == {"denied", "admitted", "probe", "tracked"}
Verdict  == {"failure", "opened", "success", "exemptFailure", "exemptSuccess"}

TypeOK ==
    /\ pc \in {"channel", "prepare", "attempt", "starting", "waiting", "judging",
               "writing", "failed", "answer", "done"}
    /\ pos \in [chan : 1..(NumChannels + 1), key : 0..NumKeys, attempt : 0..MaxAttempts]
    /\ probe \in BOOLEAN
    /\ budget \in {"ample", "short", "spent"} /\ client \in {"here", "gone"}
    /\ ctx \in [channel : 0..NumChannels, status : Statuses \cup {0}, body : BOOLEAN]
    /\ err \in Errors
    /\ resp \in [status : Statuses, lease : BOOLEAN] \cup {NoResponse}
    /\ result \in [lastErr : Errors, from : 0..NumChannels, skipped : 0..NumChannels]
    /\ held \in Nat /\ onErrors \in 0..1
    /\ calls \in [Channels -> Seq(Answers \cup Verdict \cup {"cancel"})]
    /\ tries \in [key : 0..MaxAttempts, open : 0..1]
    /\ reply \in {"none", "complete", "broken", "cut", "upstreamError", "unavailable", "error"}

Tried(c) == calls[c] # <<>> /\ calls[c][1] # "denied"
ErrorReply == reply \in {"upstreamError", "unavailable", "error"}

\* What a request may tell a breaker that gave it this answer.
MayTell(answer) ==
    CASE answer = "denied"   -> {}
      [] answer = "admitted" -> {"failure", "opened", "success"}
      [] answer = "probe"    -> {"failure", "opened", "success", "cancel"}
      [] answer = "tracked"  -> {"exemptFailure", "exemptSuccess"}

\* Only a failure that opens nothing is followed by more than a cancel, and
\* nothing by an answer, a success or a cancel that is not the last word.
\* ChannelBreaker's requests are exactly of this form, so this is what makes
\* its theorems theorems about the pipeline.
CallsFollowProtocol ==
    \A c \in Channels : LET told == calls[c] IN
        told # <<>> =>
            /\ told[1] \in Answers
            /\ \A i \in 2..Len(told) :
                 /\ told[i] \in MayTell(told[1])
                 /\ i < Len(told) =>
                      \/ told[i] \in {"failure", "exemptFailure"}
                      \/ told[i] = "opened" /\ told[i + 1] = "cancel" /\ i + 1 = Len(told)

\* Whatever way a request leaves a channel it was probing, past 4xx answers,
\* busy keys, a cancelled client or a spent budget, it gives the breaker a
\* verdict or the half-open slot back.  One way out is not covered: a body
\* that a context error cuts, the client's, the budget's, the http.Client's or
\* one that a late attempt timer makes.
ProbeResolved ==
    \A c \in Channels :
        /\ calls[c] # <<>> /\ calls[c][1] = "probe"
        /\ pos.chan > c \/ pc \in {"answer", "done"}
        /\ ~(reply = "cut" /\ c = pos.chan)
        => calls[c][Len(calls[c])] \in {"success", "failure", "opened", "cancel"}

\* The pool as a whole is judged, once: however many keys and attempts failed,
\* its breaker hears of one failure or one success.
PoolJudgedOnce ==
    \A c \in PoolChannels : Cardinality({i \in DOMAIN calls[c] : calls[c][i] \in Verdict}) <= 1

\* The client is told that everything is shut only if nothing was tried: a real
\* upstream error is not masked by circuits found open after it.
RealErrorKept ==
    reply = "unavailable" => \A c \in Channels : ~Tried(c)

\* An upstream's error response is passed on only as that of the last channel
\* tried, and only if it was that channel's last word: an attempt or a channel
\* that came to nothing after it wipes it out, whatever was left of the Context.
UpstreamErrorIsTheLast ==
    reply = "upstreamError" =>
        /\ result.from \in {0, ctx.channel}
        /\ \/ result.lastErr.kind \in {"status", "retry", "handler"}
           \/ IsContextDoneError(result.lastErr)

\* The observer hears of the end of every attempt it heard the start of, once,
\* and before anything else: the Prometheus observer counts the ends.
AttemptsPaired ==
    tries.open = IF pc \in {"starting", "waiting", "judging"} THEN 1 ELSE 0

\* Every request that ends in an error while some channel was in question is
\* reported to OnError, once, also when all channels were skipped.
OnErrorOnce ==
    pc = "done" =>
        onErrors = IF ErrorReply /\ \E c \in Channels : calls[c] # <<>> THEN 1 ELSE 0

\* A context error that is not the request's: the http.Client or its transport ran
\* out of time, or an event stream's first bytes were taken away by the timer of
\* its own attempt.  IsContextDoneError does not tell them apart.
OwnTimeout(e) ==
    \/ e.cause = "deadline" /\ HasClientTimeout
    \/ e.cause = "deadline" /\ HasTransportTimeout /\ e.kind = "context"
    \/ e.cause = "canceled" /\ HasAttemptTimeout /\ e.kind = "retry"

\* With a client and a budget left, a request is given up before every channel
\* had its turn only upon an upstream's error status that is not to be retried,
\* or when the last channel tried ended in one of these timeouts of its own.
GivesUpOnlyOnVerdict ==
    /\ ErrorReply
    /\ ~ContextDone /\ ~BudgetError
    /\ ~OwnTimeout(result.lastErr)
    /\ \E c \in Channels : calls[c] = <<>>
    => /\ ctx.status >= 400
       /\ ctx.status \notin (IF HasRetryOnResponse THEN RetryStatuses ELSE {429} \cup 500..599)

\* A probe sends at most one request with each key.
ProbeTriesKeyOnce == probe /\ pc \notin {"channel", "answer", "done"} => tries.key <= 1

\* When the request is over every key slot it acquired has been released,
\* whichever of retries, rejected streams, failed channels and hung-up clients
\* it went through.
KeySlotsReturned == pc = "done" => held = 0

\* A spent budget ends the request, although its client stays and no upstream
\* ever answers; and a client that leaves takes its request with it, although
\* the budget lasts.
StoppedRequestEnds == (budget = "spent" \/ client = "gone") ~> pc = "done"
=============================================================================
