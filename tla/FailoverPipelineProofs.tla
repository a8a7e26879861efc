----------------------- MODULE FailoverPipelineProofs -----------------------
(***************************************************************************)
(* What FailoverPipeline keeps true, for any number of channels, keys and  *)
(* attempts and every configuration.                                       *)
(***************************************************************************)
EXTENDS FailoverPipeline, TLAPS, FiniteSetTheorems

USE CountsAssumption

\* A response is not the absence of one.
LEMMA ResponsesAreSome == \A r \in [status : Statuses, lease : BOOLEAN] : r # NoResponse
  BY ConfigAssumption

LEMMA StatusesAreCodes == \A status \in Statuses : status \in 200..599
  BY ConfigAssumption

\* The request is at a channel; it is in an attempt the observer knows of.
AtChannel == pc \in {"prepare", "attempt", "starting", "waiting", "judging", "writing", "failed"}
InAttempt == pc \in {"starting", "waiting", "judging"}

\* There is a response exactly while somebody has to close it, and closing it
\* never gives back a slot that was not taken.  Without RetryOnResponse, for
\* which responses are read into copies, no slot is taken but with a response.
Lease == IF resp # NoResponse /\ resp.lease THEN 1 ELSE 0

SlotWithResponse ==
    /\ pc \in {"judging", "writing"} => resp # NoResponse
    /\ pc \notin {"judging", "writing", "failed"} => resp = NoResponse
    /\ held >= Lease
    /\ ~HasRetryOnResponse => held = Lease

\* A request is sent at most once for each attempt there has been with the key.
SentByAttempt ==
    /\ AtChannel /\ pc # "prepare" => tries.key <= AttemptLimit
    /\ pc \in {"attempt", "starting", "waiting", "judging"} => pos.attempt \in 1..AttemptLimit
    /\ pc \in {"attempt", "starting"} => tries.key < pos.attempt
    /\ pc \in {"waiting", "judging"} => tries.key <= pos.attempt
    /\ pc = "prepare" => tries.key = 0

\* The channel the Context names had its turn or has it.
ChannelOfContext ==
    /\ AtChannel => pos.chan \in Channels /\ ctx.channel = pos.chan
    /\ ctx.body => ctx.channel # 0
    /\ pc # "done" /\ ctx.channel # 0 => Tried(ctx.channel)
    /\ result.skipped # 0 => calls[result.skipped] # <<>>

\* Channels are asked in their order, and which were is known from the Context
\* and the result.
AskedInOrder ==
    /\ \A c \in Channels :
         /\ c < pos.chan => calls[c] # <<>>
         /\ c > pos.chan => calls[c] = <<>>
         /\ pc = "channel" /\ c = pos.chan => calls[c] = <<>>
         /\ Tried(c) => ctx.channel # 0
         /\ calls[c] # <<>> => ctx.channel # 0 \/ result.skipped # 0

\* An error an error response is kept with.
KeptWithBody(e) == e.kind \in {"status", "retry", "handler"} \/ IsContextDoneError(e)

\* Where an error response may be kept, and with which error.
BodyIsTheLast ==
    /\ pc \in {"prepare", "starting", "waiting", "judging"} => ~ctx.body
    /\ pc = "failed" => err.kind \notin {"none", "open"}
    /\ pc = "failed" /\ (ctx.body \/ resp # NoResponse) => KeptWithBody(err)
    /\ pc \in {"channel", "answer"} /\ ctx.body => KeptWithBody(result.lastErr)
    /\ pc \in {"channel", "answer"} /\ ctx.channel # 0 =>
         /\ result.lastErr.kind \notin {"none", "open"}
         /\ result.from \in {0, ctx.channel}

\* Errors claim a context to be done that is not only as a timeout of their own.
HasReason(e) == ~IsContextDoneError(e) \/ ContextDone \/ BudgetError \/ OwnTimeout(e)
CausesHaveReasons == HasReason(err) /\ HasReason(result.lastErr)

\* Nobody is told of the end before it is there.
QuietUntilTheEnd == pc # "done" => onErrors = 0 /\ reply = "none"

\* The channels were left before they were used up.
LeftForAReason ==
    pc = "answer" /\ (\E c \in Channels : calls[c] = <<>>) =>
        \/ ContextDone \/ BudgetError \/ OwnTimeout(result.lastErr)
        \/ /\ ctx.status >= 400
           /\ ctx.status \notin (IF HasRetryOnResponse THEN RetryStatuses ELSE {429} \cup 500..599)

IInv ==
    /\ TypeOK /\ AttemptsPaired
    /\ SlotWithResponse /\ SentByAttempt
    /\ ChannelOfContext /\ AskedInOrder /\ BodyIsTheLast
    /\ CausesHaveReasons /\ QuietUntilTheEnd /\ LeftForAReason
    /\ RealErrorKept /\ OnErrorOnce /\ UpstreamErrorIsTheLast /\ GivesUpOnlyOnVerdict

Words == Answers \cup Verdict \cup {"cancel"}

-----------------------------------------------------------------------------
(* What a breaker is told, and what that leaves of what it was told before. *)

LEMMA VerdictWords ==
    ASSUME NEW c, NEW e, NEW status, NEW told \in Verdicts(c, e, status)
    PROVE  told \in {<<>>, <<"exemptFailure">>, <<"failure">>, <<"opened">>}
  BY DEF Verdicts

LEMMA AttemptVerdictWords ==
    ASSUME NEW c, NEW e, NEW status, NEW told \in AttemptVerdicts(c, e, status)
    PROVE  /\ told \in {<<>>, <<"exemptFailure">>, <<"failure">>, <<"opened">>}
           /\ told \in Seq(Words)
  <1>1. told \in {<<>>, <<"exemptFailure">>, <<"failure">>, <<"opened">>}
    BY VerdictWords DEF AttemptVerdicts
  <1>2. "exemptFailure" \in Words /\ "failure" \in Words /\ "opened" \in Words
    BY DEF Words, Verdict
  <1>3. /\ <<>> \in Seq(Words) /\ <<"exemptFailure">> \in Seq(Words)
        /\ <<"failure">> \in Seq(Words) /\ <<"opened">> \in Seq(Words)
    BY <1>2
  <1> QED
    BY <1>1, <1>3

LEMMA TellTyped ==
    ASSUME calls \in [Channels -> Seq(Words)], NEW c \in Channels, NEW told \in Seq(Words),
           Tell(c, told)
    PROVE  /\ calls' \in [Channels -> Seq(Words)]
           /\ calls'[c] = calls[c] \o told
           /\ \A d \in Channels : d # c => calls'[d] = calls[d]
  BY DEF Tell

\* Who has been asked, and who let the request in.
SameStanding ==
    \A d \in Channels : (calls'[d] = <<>> <=> calls[d] = <<>>) /\ (Tried(d)' <=> Tried(d))

LEMMA TellKeepsStanding ==
    ASSUME calls \in [Channels -> Seq(Words)], NEW c \in Channels, NEW told \in Seq(Words),
           Tell(c, told), Tried(c)
    PROVE  SameStanding
  <1>1. calls'[c] = calls[c] \o told /\ \A d \in Channels : d # c => calls'[d] = calls[d]
    BY TellTyped
  <1>2. calls[c] \in Seq(Words) /\ calls[c] # <<>>
    BY DEF Tried
  <1>3. calls'[c] # <<>> /\ calls'[c][1] = calls[c][1]
    BY <1>1, <1>2
  <1> QED
    BY <1>1, <1>3 DEF SameStanding, Tried

-----------------------------------------------------------------------------
(* The steps of a channel's turn.                                          *)

\* What all of them leave alone.
MidTurn ==
    /\ AtChannel /\ AtChannel'
    /\ pos'.chan = pos.chan /\ ctx'.channel = ctx.channel
    /\ UNCHANGED <<probe, env, result, onErrors, reply>>
    /\ SameStanding

\* What is left to show of each.
TurnInv ==
    /\ TypeOK /\ AttemptsPaired /\ SlotWithResponse /\ SentByAttempt /\ BodyIsTheLast
    /\ HasReason(err)

LEMMA MidTurnKeeps ==
    ASSUME IInv, MidTurn, TurnInv'
    PROVE  IInv'
  <1> USE DEF MidTurn, AtChannel
  <1>1. ChannelOfContext'
    <2>1. pos'.chan \in Channels /\ ctx'.channel = pos'.chan
      BY DEF IInv, ChannelOfContext
    <2>2. Tried(pos.chan)' /\ pos.chan # 0
      BY DEF IInv, ChannelOfContext, SameStanding, Channels
    <2>3. ctx'.channel # 0 /\ Tried(ctx.channel)'
      BY <2>1, <2>2 DEF Tried, IInv, ChannelOfContext
    <2>4. result'.skipped # 0 => calls'[result'.skipped] # <<>>
      BY DEF IInv, TypeOK, ChannelOfContext, SameStanding, Channels
    <2> QED
      BY <2>1, <2>3, <2>4 DEF ChannelOfContext
  <1>2. AskedInOrder'
    BY DEF IInv, AskedInOrder, SameStanding
  <1>3. CausesHaveReasons'
    BY DEF IInv, TurnInv, CausesHaveReasons, HasReason, ContextDone, BudgetError, env
  <1>4. QuietUntilTheEnd' /\ LeftForAReason' /\ OnErrorOnce'
    BY DEF IInv, QuietUntilTheEnd, LeftForAReason, OnErrorOnce
  <1>5. reply' = "none"
    BY DEF IInv, QuietUntilTheEnd
  <1>6. RealErrorKept' /\ UpstreamErrorIsTheLast' /\ GivesUpOnlyOnVerdict'
    BY <1>5 DEF RealErrorKept, UpstreamErrorIsTheLast, GivesUpOnlyOnVerdict, ErrorReply
  <1> QED
    BY <1>1, <1>2, <1>3, <1>4, <1>6 DEF IInv, TurnInv

LEMMA SilentKeepsStanding == UNCHANGED calls => SameStanding
  BY DEF SameStanding, Tried

LEMMA GetKeysKeeps == IInv /\ GetKeys => IInv'
  <1> SUFFICES ASSUME IInv, GetKeys PROVE IInv'
    OBVIOUS
  <1> USE DEF GetKeys
  <1>1. MidTurn
    BY SilentKeepsStanding DEF IInv, TypeOK, MidTurn, AtChannel, env
  <1>2. TypeOK'
    <2>1. 1 \in 0..NumKeys /\ 1 \in 0..MaxAttempts
      OBVIOUS
    <2>2. pos' \in [chan : 1..(NumChannels + 1), key : 0..NumKeys, attempt : 0..MaxAttempts]
      BY <2>1 DEF IInv, TypeOK
    <2> QED
      BY <2>2 DEF IInv, TypeOK, env
  <1>3. AttemptsPaired' /\ SlotWithResponse'
    BY DEF IInv, AttemptsPaired, SlotWithResponse, Lease
  <1>4. SentByAttempt'
    BY DEF IInv, TypeOK, SentByAttempt, AtChannel, AttemptLimit
  <1>5. BodyIsTheLast' /\ HasReason(err)'
    BY DEF IInv, BodyIsTheLast, CausesHaveReasons, HasReason, ContextDone, BudgetError, env
  <1> QED
    BY <1>1, <1>2, <1>3, <1>4, <1>5, MidTurnKeeps DEF TurnInv

LEMMA CannotPrepareKeeps == IInv /\ CannotPrepare => IInv'
  <1> SUFFICES ASSUME IInv, CannotPrepare PROVE IInv'
    OBVIOUS
  <1>1. PICK e \in PrepareErrors : ReturnError(e, 0)
             /\ \E told \in AttemptVerdicts(pos.chan, e, ctx.status) : Tell(pos.chan, told)
    BY DEF CannotPrepare
  <1>2. PICK told \in AttemptVerdicts(pos.chan, e, ctx.status) : Tell(pos.chan, told)
    BY <1>1
  <1>3. told \in Seq(Words)
    BY AttemptVerdictWords
  <1>4. /\ pc = "prepare" /\ UNCHANGED <<probe, env, ctx, resp, result, held, onErrors, reply>>
        /\ pc' = "failed" /\ err' = e /\ pos' = pos /\ tries' = [tries EXCEPT !.open = @ - 0]
    BY <1>1 DEF CannotPrepare, ReturnError
  <1>5. e \in Errors /\ e.kind \notin {"none", "open"} /\ e.cause = "none"
    BY DEF PrepareErrors, Failure, Errors, ErrorKinds
  <1>6. pos.chan \in Channels /\ Tried(pos.chan) /\ calls \in [Channels -> Seq(Words)]
    BY <1>4 DEF IInv, TypeOK, Words, ChannelOfContext, AtChannel, Channels
  <1>7. MidTurn
    BY <1>2, <1>3, <1>4, <1>6, TellKeepsStanding DEF MidTurn, AtChannel
  <1>8. TypeOK'
    <2>1. calls' \in [Channels -> Seq(Words)]
      BY <1>2, <1>3, <1>6, TellTyped
    <2> QED
      BY <2>1, <1>4, <1>5 DEF IInv, TypeOK, Words, env
  <1>9. AttemptsPaired' /\ SlotWithResponse'
    BY <1>4 DEF IInv, TypeOK, AttemptsPaired, SlotWithResponse, Lease
  <1>10. SentByAttempt'
    BY <1>4 DEF IInv, TypeOK, SentByAttempt, AtChannel, AttemptLimit
  <1>11. BodyIsTheLast' /\ HasReason(err)'
    BY <1>4, <1>5 DEF IInv, TypeOK, BodyIsTheLast, KeptWithBody, SlotWithResponse,
                HasReason, IsContextDoneError
  <1> QED
    BY <1>7, <1>8, <1>9, <1>10, <1>11, MidTurnKeeps DEF TurnInv

\* What a call or a body may fail with.
Caused(e) ==
    \/ e.cause = "none"
    \/ e.kind = "context" /\ e.cause \in UpstreamCauses
    \/ e.kind = "retry" /\ e.cause \in BodyCauses

\* A context error the pipeline makes up has its reason.
LEMMA CausesAreReasons ==
    ASSUME NEW e \in Errors, Caused(e) \/ BudgetError \/ client = "gone"
    PROVE  HasReason(e)
  BY DEF Caused, HasReason, OwnTimeout, UpstreamCauses, BodyCauses, ContextCauses,
         IsContextDoneError, ContextDone, Errors

LEMMA RunInternalHandlerKeeps == IInv /\ RunInternalHandler => IInv'
  <1> SUFFICES ASSUME IInv, RunInternalHandler PROVE IInv'
    OBVIOUS
  <1>1. pc = "prepare" /\ UNCHANGED <<probe, env, ctx, result, held, onErrors, reply>>
    BY DEF RunInternalHandler
  <1>2. pos.chan \in Channels /\ Tried(pos.chan) /\ calls \in [Channels -> Seq(Words)]
    BY <1>1 DEF IInv, TypeOK, Words, ChannelOfContext, AtChannel, Channels
  <1>3. PICK status \in Statuses :
          LET answer == [status |-> status, lease |-> FALSE]
          IN  \/ pc' = "writing" /\ resp' = answer /\ UNCHANGED <<pos, err, calls, tries>>
              \/ ReturnError(Failure("empty"), 0) /\ UNCHANGED <<resp, calls>>
              \/ \E e \in {Failure("handler")} \cup [kind : {"context"}, cause : UpstreamCauses] :
                   /\ ReturnError(e, 0)
                   /\ resp' \in {NoResponse, answer}
                   /\ \E told \in AttemptVerdicts(pos.chan, e, ctx.status) : Tell(pos.chan, told)
    BY DEF RunInternalHandler
  <1> DEFINE answer == [status |-> status, lease |-> FALSE]
  <1>4. answer \in [status : Statuses, lease : BOOLEAN] /\ answer # NoResponse /\ ~answer.lease
    <2>1. answer \in [status : Statuses, lease : BOOLEAN] /\ ~answer.lease
      OBVIOUS
    <2> HIDE DEF answer
    <2> QED
      BY <2>1, ResponsesAreSome
  <1> HIDE DEF answer
  <1>5. CASE pc' = "writing" /\ resp' = answer /\ UNCHANGED <<pos, err, calls, tries>>
    <2>1. MidTurn
      BY <1>1, <1>5, SilentKeepsStanding DEF MidTurn, AtChannel
    <2>2. TypeOK'
      BY <1>1, <1>4, <1>5 DEF IInv, TypeOK, env
    <2>3. AttemptsPaired' /\ SlotWithResponse'
      BY <1>1, <1>4, <1>5 DEF IInv, AttemptsPaired, SlotWithResponse, Lease
    <2>4. SentByAttempt'
      BY <1>1, <1>5 DEF IInv, TypeOK, SentByAttempt, AtChannel, AttemptLimit
    <2>5. BodyIsTheLast' /\ HasReason(err)'
      BY <1>1, <1>5 DEF IInv, BodyIsTheLast, CausesHaveReasons, HasReason, ContextDone, BudgetError, env
    <2> QED
      BY <2>1, <2>2, <2>3, <2>4, <2>5, MidTurnKeeps DEF TurnInv
  <1>6. ASSUME NEW e \in Errors, ReturnError(e, 0), resp' \in {NoResponse, answer},
               NEW told \in Seq(Words), Tell(pos.chan, told),
               resp' # NoResponse => KeptWithBody(e),
               e.kind \notin {"none", "open"}, Caused(e)
        PROVE  IInv'
    <2>1. pc' = "failed" /\ err' = e /\ pos' = pos /\ tries' = [tries EXCEPT !.open = @ - 0]
      BY <1>6 DEF ReturnError
    <2>2. MidTurn
      BY <1>1, <1>2, <1>6, <2>1, TellKeepsStanding DEF MidTurn, AtChannel
    <2>3. TypeOK'
      <3>1. calls' \in [Channels -> Seq(Words)]
        BY <1>2, <1>6, TellTyped
      <3>2. resp' \in [status : Statuses, lease : BOOLEAN] \cup {NoResponse}
        BY <1>4, <1>6
      <3>3. tries' = tries
        BY <2>1 DEF IInv, TypeOK
      <3>4. pc' = "failed" /\ err' \in Errors
        BY <1>6, <2>1
      <3> QED
        BY <1>1, <2>1, <3>1, <3>2, <3>3, <3>4 DEF IInv, TypeOK, Words, env
    <2>4. AttemptsPaired' /\ SlotWithResponse'
      BY <1>1, <1>4, <1>6, <2>1 DEF IInv, TypeOK, AttemptsPaired, SlotWithResponse, Lease
    <2>5. SentByAttempt'
      BY <1>1, <2>1 DEF IInv, TypeOK, SentByAttempt, AtChannel, AttemptLimit
    <2>6. BodyIsTheLast'
      BY <1>1, <1>6, <2>1 DEF IInv, TypeOK, BodyIsTheLast, KeptWithBody, SlotWithResponse
    <2>7. HasReason(err)'
      <3>1. HasReason(e)
        BY <1>6, CausesAreReasons
      <3> QED
        BY <1>1, <2>1, <3>1 DEF HasReason, ContextDone, BudgetError, env
    <2> QED
      BY <2>2, <2>3, <2>4, <2>5, <2>6, <2>7, MidTurnKeeps DEF TurnInv
  <1>7. CASE ReturnError(Failure("empty"), 0) /\ UNCHANGED <<resp, calls>>
    <2>1. Failure("empty") \in Errors /\ Failure("empty").kind = "empty"
            /\ Caused(Failure("empty"))
      BY DEF Failure, Errors, ErrorKinds, Caused
    <2>2. resp' = NoResponse
      BY <1>1, <1>7 DEF IInv, SlotWithResponse
    <2>3. Tell(pos.chan, <<>>) /\ <<>> \in Seq(Words)
      BY <1>2, <1>7 DEF Tell
    <2> QED
      BY <1>6, <1>7, <2>1, <2>2, <2>3
  <1>8. ASSUME NEW e \in {Failure("handler")} \cup [kind : {"context"}, cause : UpstreamCauses],
               ReturnError(e, 0), resp' \in {NoResponse, answer},
               NEW told \in AttemptVerdicts(pos.chan, e, ctx.status), Tell(pos.chan, told)
        PROVE  IInv'
    <2>1. e \in Errors /\ e.kind \in {"handler", "context"} /\ Caused(e)
      BY DEF Failure, Errors, ErrorKinds, Caused, UpstreamCauses, ContextCauses
    <2>2. KeptWithBody(e)
      BY DEF KeptWithBody, Failure, IsContextDoneError, UpstreamCauses, ContextCauses
    <2>3. told \in Seq(Words)
      BY AttemptVerdictWords
    <2> QED
      BY <1>6, <1>8, <2>1, <2>2, <2>3
  <1> QED
    BY <1>3, <1>5, <1>7, <1>8 DEF answer

LEMMA ResetTyped ==
    ASSUME TypeOK, ctx' = [ctx EXCEPT !.status = 0, !.body = FALSE]
    PROVE  /\ ctx' \in [channel : 0..NumChannels, status : Statuses \cup {0}, body : BOOLEAN]
           /\ ctx'.channel = ctx.channel
  <1>1. ctx.channel \in 0..NumChannels /\ ctx' = [channel |-> ctx.channel, status |-> 0, body |-> FALSE]
    BY DEF TypeOK
  <1>2. 0 \in Statuses \cup {0} /\ FALSE \in BOOLEAN
    OBVIOUS
  <1> QED
    BY <1>1, <1>2

LEMMA StartAttemptKeeps == IInv /\ StartAttempt => IInv'
  <1> SUFFICES ASSUME IInv, StartAttempt PROVE IInv'
    OBVIOUS
  <1>1. pc = "attempt" /\ UNCHANGED <<probe, env, resp, result, held, onErrors, calls, reply>>
    BY DEF StartAttempt
  <1>2. SameStanding
    BY <1>1, SilentKeepsStanding
  <1>3. ASSUME NEW e \in Errors, ReturnError(e, 0), e.kind = "context", e.cause # "none",
               HasReason(e), ctx' \in {ctx, [ctx EXCEPT !.status = 0, !.body = FALSE]}
        PROVE  IInv'
    <2>1. pc' = "failed" /\ err' = e /\ pos' = pos /\ tries' = [tries EXCEPT !.open = @ - 0]
      BY <1>3 DEF ReturnError
    <2>2. ctx' \in [channel : 0..NumChannels, status : Statuses \cup {0}, body : BOOLEAN]
            /\ ctx'.channel = ctx.channel
      BY <1>3, ResetTyped DEF IInv, TypeOK
    <2>3. MidTurn
      BY <1>1, <1>2, <2>1, <2>2 DEF MidTurn, AtChannel
    <2>4. TypeOK'
      BY <1>1, <2>1, <2>2 DEF IInv, TypeOK, env
    <2>5. AttemptsPaired' /\ SlotWithResponse'
      BY <1>1, <2>1 DEF IInv, TypeOK, AttemptsPaired, SlotWithResponse, Lease
    <2>6. SentByAttempt'
      BY <1>1, <2>1 DEF IInv, TypeOK, SentByAttempt, AtChannel, AttemptLimit
    <2>7. BodyIsTheLast' /\ HasReason(err)'
      BY <1>1, <1>3, <2>1 DEF BodyIsTheLast, KeptWithBody, IsContextDoneError, HasReason,
                  ContextDone, BudgetError, env
    <2> QED
      BY <2>3, <2>4, <2>5, <2>6, <2>7, MidTurnKeeps DEF TurnInv
  <1>4. CASE /\ ctx' = [ctx EXCEPT !.status = 0, !.body = FALSE]
             /\ pc' = "starting" /\ tries' = [tries EXCEPT !.open = @ + 1] /\ UNCHANGED <<pos, err>>
    <2>1. MidTurn
      BY <1>1, <1>2, <1>4 DEF IInv, TypeOK, MidTurn, AtChannel
    <2>2. AttemptsPaired' /\ SlotWithResponse'
      BY <1>1, <1>4 DEF IInv, TypeOK, AttemptsPaired, SlotWithResponse, Lease
    <2>3. TypeOK'
      <3>1. tries' \in [key : 0..MaxAttempts, open : 0..1]
        BY <1>1, <1>4, <2>2 DEF IInv, TypeOK, AttemptsPaired
      <3> QED
        BY <1>1, <1>4, <3>1, ResetTyped DEF IInv, TypeOK, env
    <2>4. SentByAttempt'
      BY <1>1, <1>4 DEF IInv, TypeOK, SentByAttempt, AtChannel, AttemptLimit
    <2>5. BodyIsTheLast' /\ HasReason(err)'
      BY <1>1, <1>4 DEF IInv, TypeOK, BodyIsTheLast, CausesHaveReasons, HasReason, ContextDone,
                  BudgetError, env
    <2> QED
      BY <2>1, <2>2, <2>3, <2>4, <2>5, MidTurnKeeps DEF TurnInv
  <1>5. CASE BudgetError /\ ReturnError([kind |-> "context", cause |-> "deadline"], 0) /\ UNCHANGED ctx
    <2> DEFINE e == [kind |-> "context", cause |-> "deadline"]
    <2>1. e \in Errors /\ e.kind = "context" /\ e.cause # "none"
      BY DEF Errors, ErrorKinds
    <2>2. HasReason(e)
      BY <1>5, <2>1, CausesAreReasons
    <2> HIDE DEF e
    <2> QED
      BY <1>3, <1>5, <2>1, <2>2 DEF e
  <1>6. CASE /\ ctx' = [ctx EXCEPT !.status = 0, !.body = FALSE] /\ client = "gone"
             /\ ReturnError([kind |-> "context", cause |-> "canceled"], 0)
    <2> DEFINE e == [kind |-> "context", cause |-> "canceled"]
    <2>1. e \in Errors /\ e.kind = "context" /\ e.cause # "none"
      BY DEF Errors, ErrorKinds
    <2>2. HasReason(e)
      BY <1>6, <2>1, CausesAreReasons
    <2> HIDE DEF e
    <2> QED
      BY <1>3, <1>6, <2>1, <2>2 DEF e
  <1> QED
    BY <1>4, <1>5, <1>6 DEF StartAttempt

LEMMA SendRequestKeeps == IInv /\ SendRequest => IInv'
  <1> SUFFICES ASSUME IInv, SendRequest PROVE IInv'
    OBVIOUS
  <1>1. pc = "starting" /\ UNCHANGED <<probe, env, ctx, resp, result, held, onErrors, calls, reply>>
    BY DEF SendRequest
  <1>2. SameStanding
    BY <1>1, SilentKeepsStanding
  <1>3. CASE BudgetError /\ ReturnError([kind |-> "context", cause |-> "deadline"], 1)
    <2>1. /\ pc' = "failed" /\ err' = [kind |-> "context", cause |-> "deadline"] /\ pos' = pos
          /\ tries' = [tries EXCEPT !.open = @ - 1]
      BY <1>3 DEF ReturnError
    <2>2. MidTurn
      BY <1>1, <1>2, <2>1 DEF MidTurn, AtChannel
    <2>3. AttemptsPaired' /\ SlotWithResponse'
      BY <1>1, <2>1 DEF IInv, TypeOK, AttemptsPaired, SlotWithResponse, Lease
    <2>4. TypeOK'
      <3>1. tries' \in [key : 0..MaxAttempts, open : 0..1]
        BY <1>1, <2>1 DEF IInv, TypeOK, AttemptsPaired
      <3>2. err' \in Errors
        BY <2>1 DEF Errors, ErrorKinds
      <3> QED
        BY <1>1, <2>1, <3>1, <3>2 DEF IInv, TypeOK, env
    <2>5. SentByAttempt'
      BY <1>1, <2>1 DEF IInv, TypeOK, SentByAttempt, AtChannel, AttemptLimit
    <2>6. BodyIsTheLast' /\ HasReason(err)'
      BY <1>1, <1>3, <2>1 DEF BodyIsTheLast, KeptWithBody, IsContextDoneError, HasReason,
                  ContextDone, BudgetError, env
    <2> QED
      BY <2>2, <2>3, <2>4, <2>5, <2>6, MidTurnKeeps DEF TurnInv
  <1>4. CASE pc' = "waiting" /\ tries' = [tries EXCEPT !.key = @ + 1] /\ UNCHANGED <<pos, err>>
    <2>1. MidTurn
      BY <1>1, <1>2, <1>4 DEF MidTurn, AtChannel
    <2>2. AttemptsPaired' /\ SlotWithResponse'
      BY <1>1, <1>4 DEF IInv, TypeOK, AttemptsPaired, SlotWithResponse, Lease
    <2>3. SentByAttempt'
      BY <1>1, <1>4 DEF IInv, TypeOK, SentByAttempt, AtChannel, AttemptLimit
    <2>4. TypeOK'
      <3>1. tries' \in [key : 0..MaxAttempts, open : 0..1]
        BY <1>1, <1>4 DEF IInv, TypeOK, SentByAttempt, AttemptLimit
      <3> QED
        BY <1>1, <1>4, <3>1 DEF IInv, TypeOK, env
    <2>5. BodyIsTheLast' /\ HasReason(err)'
      BY <1>1, <1>4 DEF IInv, BodyIsTheLast, CausesHaveReasons, HasReason, ContextDone, BudgetError, env
    <2> QED
      BY <2>1, <2>2, <2>3, <2>4, <2>5, MidTurnKeeps DEF TurnInv
  <1> QED
    BY <1>3, <1>4 DEF SendRequest

\* An attempt ends without an accepted response: another attempt, another key,
\* or the end of the channel's turn.
LEMMA EndAttemptKeeps ==
    ASSUME IInv, pc \in {"waiting", "judging"},
           UNCHANGED <<probe, env, result, onErrors, reply>>,
           NEW e \in Errors, e.kind \notin {"none", "open"}, HasReason(e),
           NEW told \in Seq(Words), Tell(pos.chan, told),
           ctx' \in [channel : 0..NumChannels, status : Statuses \cup {0}, body : BOOLEAN],
           ctx'.channel = ctx.channel,
           ctx'.body \/ resp' # NoResponse => KeptWithBody(e),
           resp' \in [status : Statuses, lease : BOOLEAN] \cup {NoResponse},
           held' \in Nat, held' >= Lease', ~HasRetryOnResponse => held' = Lease',
           \/ ReturnError(e, 1)
           \/ pos.attempt < AttemptLimit /\ NextAttempt /\ resp' = NoResponse
           \/ NextKey(e) /\ resp' = NoResponse
    PROVE  IInv'
  <1>1. pos.chan \in Channels /\ Tried(pos.chan) /\ calls \in [Channels -> Seq(Words)]
    <2>1. calls \in [Channels -> Seq(Words)]
      BY DEF IInv, TypeOK, Words
    <2>2. pos.chan \in Channels /\ ctx.channel = pos.chan
      BY DEF IInv, ChannelOfContext, AtChannel
    <2>3. pos.chan # 0
      BY <2>2 DEF Channels
    <2>4. Tried(pos.chan)
      BY <2>2, <2>3 DEF IInv, ChannelOfContext
    <2> QED
      BY <2>1, <2>2, <2>4
  <1>2. SameStanding
    BY <1>1, TellKeepsStanding
  <1>3. calls' \in [Channels -> Seq(Words)]
    BY <1>1, TellTyped
  <1>4. tries.open = 1 /\ tries.key \in Nat /\ tries.key <= AttemptLimit /\ AttemptLimit \in 1..MaxAttempts
          /\ pos.attempt \in 1..AttemptLimit /\ tries.key <= pos.attempt
    BY DEF IInv, TypeOK, AttemptsPaired, SentByAttempt, AttemptLimit, AtChannel
  <1>5. AttemptLimit' = AttemptLimit
    BY DEF AttemptLimit
  <1> DEFINE Positions == [chan : 1..(NumChannels + 1), key : 0..NumKeys, attempt : 0..MaxAttempts]
             Counts    == [key : 0..MaxAttempts, open : 0..1]
  <1>0. pos \in Positions /\ tries \in Counts
    BY DEF IInv, TypeOK
  <1>6. CASE ReturnError(e, 1)
    <2>1. pc' = "failed" /\ err' = e /\ pos' = pos /\ tries' = [tries EXCEPT !.open = @ - 1]
      BY <1>6 DEF ReturnError
    <2>2. MidTurn
      BY <1>2, <2>1 DEF MidTurn, AtChannel
    <2>3. tries' \in Counts /\ tries'.open = 0 /\ tries'.key = tries.key
      BY <1>0, <1>4, <2>1
    <2>4. TypeOK'
      BY <1>3, <2>1, <2>3 DEF IInv, TypeOK, Words, env
    <2>5. AttemptsPaired' /\ SlotWithResponse'
      BY <2>1, <2>3 DEF AttemptsPaired, SlotWithResponse
    <2>6. SentByAttempt'
      BY <1>4, <1>5, <2>1, <2>3 DEF SentByAttempt, AtChannel
    <2>7. BodyIsTheLast' /\ HasReason(err)'
      BY <2>1 DEF BodyIsTheLast, KeptWithBody, HasReason, ContextDone, BudgetError, env
    <2> QED
      BY <2>2, <2>4, <2>5, <2>6, <2>7, MidTurnKeeps DEF TurnInv
  <1>7. ASSUME pc' = "attempt", UNCHANGED err, resp' = NoResponse,
               pos' \in Positions,
               pos'.chan = pos.chan, pos'.attempt \in 1..AttemptLimit,
               tries' \in Counts, tries'.open = 0,
               tries'.key < pos'.attempt
        PROVE  IInv'
    <2>1. MidTurn
      BY <1>2, <1>7 DEF MidTurn, AtChannel
    <2>2. TypeOK'
      BY <1>3, <1>7 DEF IInv, TypeOK, Words, env
    <2>3. AttemptsPaired' /\ SlotWithResponse'
      BY <1>7 DEF AttemptsPaired, SlotWithResponse
    <2>4. SentByAttempt'
      BY <1>4, <1>5, <1>7 DEF SentByAttempt, AtChannel
    <2>5. BodyIsTheLast' /\ HasReason(err)'
      BY <1>7 DEF IInv, BodyIsTheLast, CausesHaveReasons, HasReason, ContextDone, BudgetError, env
    <2> QED
      BY <2>1, <2>2, <2>3, <2>4, <2>5, MidTurnKeeps DEF TurnInv
  <1>8. CASE pos.attempt < AttemptLimit /\ NextAttempt /\ resp' = NoResponse
    <2>1. /\ pc' = "attempt" /\ UNCHANGED err
          /\ pos' = [pos EXCEPT !.attempt = @ + 1] /\ tries' = [tries EXCEPT !.open = @ - 1]
      BY <1>8 DEF NextAttempt
    <2>2. pos.attempt + 1 \in 0..MaxAttempts /\ pos.attempt + 1 \in 1..AttemptLimit
      BY <1>4, <1>8
    <2>3. /\ pos' \in Positions
          /\ pos'.chan = pos.chan /\ pos'.attempt = pos.attempt + 1
      BY <1>0, <2>1, <2>2
    <2>4. tries' \in Counts /\ tries'.open = 0 /\ tries'.key = tries.key
      BY <1>0, <1>4, <2>1
    <2> QED
      BY <1>4, <1>7, <1>8, <2>1, <2>2, <2>3, <2>4
  <1>9. CASE NextKey(e) /\ resp' = NoResponse
    <2>1. CASE pos.key = NumKeys /\ ReturnError(e, 1)
      BY <1>6, <2>1
    <2>2. CASE /\ pos.key < NumKeys /\ pc' = "attempt" /\ UNCHANGED err
               /\ pos' = [pos EXCEPT !.key = @ + 1, !.attempt = 1]
               /\ tries' = [tries EXCEPT !.key = 0, !.open = @ - 1]
      <3>1. pos.key + 1 \in 0..NumKeys /\ 1 \in 0..MaxAttempts /\ 1 \in 1..AttemptLimit
        <4>1. pos.key \in 0..NumKeys
          BY DEF IInv, TypeOK
        <4>2. pos.key + 1 \in 0..NumKeys
          BY <2>2, <4>1
        <4> QED
          BY <1>4, <4>2
      <3>2. /\ pos' \in Positions
            /\ pos'.chan = pos.chan /\ pos'.attempt = 1
        <4>1. pos' = [chan |-> pos.chan, key |-> pos.key + 1, attempt |-> 1]
          BY <1>0, <2>2
        <4> QED
          BY <1>0, <3>1, <4>1
      <3>3. tries' \in Counts /\ tries'.open = 0 /\ tries'.key = 0
        <4>1. tries' = [key |-> 0, open |-> tries.open - 1]
          BY <1>0, <2>2
        <4> QED
          BY <1>4, <4>1
      <3> QED
        BY <1>7, <1>9, <2>2, <3>1, <3>2, <3>3
    <2> QED
      BY <1>9, <2>1, <2>2 DEF NextKey
  <1> QED
    BY <1>6, <1>8, <1>9

LEMMA AttemptErrorsTyped ==
    ASSUME NEW e \in AttemptErrors
    PROVE  e \in Errors /\ e.kind \notin {"none", "open"} /\ Caused(e)
  BY DEF AttemptErrors, Failure, Errors, ErrorKinds, Caused, UpstreamCauses, ContextCauses

LEMMA FailAttemptKeeps == IInv /\ FailAttempt => IInv'
  <1> SUFFICES ASSUME IInv, FailAttempt PROVE IInv'
    OBVIOUS
  <1>1. pc = "waiting" /\ UNCHANGED <<probe, env, ctx, resp, result, held, onErrors, reply>>
    BY DEF FailAttempt
  <1>2. PICK e \in AttemptErrors : \E told \in AttemptVerdicts(pos.chan, e, ctx.status) :
          /\ Tell(pos.chan, told)
          /\ \/ ReturnError(e, 1)
             \/ pos.attempt < AttemptLimit /\ NextAttempt
             \/ NextKey(e)
    BY DEF FailAttempt
  <1>3. e \in Errors /\ e.kind \notin {"none", "open"} /\ HasReason(e)
    BY AttemptErrorsTyped, CausesAreReasons
  <1>4. PICK told \in AttemptVerdicts(pos.chan, e, ctx.status) :
          /\ told \in Seq(Words)
          /\ Tell(pos.chan, told)
          /\ \/ ReturnError(e, 1)
             \/ pos.attempt < AttemptLimit /\ NextAttempt
             \/ NextKey(e)
    BY <1>2, AttemptVerdictWords
  <1>5. /\ ctx' \in [channel : 0..NumChannels, status : Statuses \cup {0}, body : BOOLEAN]
        /\ ctx' = ctx /\ ~ctx.body /\ resp' = NoResponse
    BY <1>1 DEF IInv, TypeOK, BodyIsTheLast, SlotWithResponse
  <1>6. held' \in Nat /\ held' >= Lease' /\ (~HasRetryOnResponse => held' = Lease')
    BY <1>1 DEF IInv, TypeOK, SlotWithResponse, Lease
  <1> QED
    BY <1>1, <1>3, <1>4, <1>5, <1>6, EndAttemptKeeps

LEMMA RespondKeeps == IInv /\ Respond => IInv'
  <1> SUFFICES ASSUME IInv, Respond PROVE IInv'
    OBVIOUS
  <1>1. /\ pc = "waiting" /\ pc' = "judging"
        /\ UNCHANGED <<pos, probe, env, ctx, err, result, onErrors, calls, tries, reply>>
        /\ held' = IF LimitsKeys THEN held + 1 ELSE held
    BY DEF Respond
  <1>2. PICK status \in Statuses : resp' = [status |-> status, lease |-> LimitsKeys]
    BY DEF Respond
  <1>3. resp' \in [status : Statuses, lease : BOOLEAN] /\ resp'.lease = LimitsKeys
    <2>1. LimitsKeys \in BOOLEAN
      BY ConfigAssumption
    <2> QED
      BY <1>2, <2>1
  <1>4. resp' # NoResponse
    BY <1>3, ResponsesAreSome
  <1>5. MidTurn
    BY <1>1, SilentKeepsStanding DEF MidTurn, AtChannel
  <1>6. TypeOK'
    <2>1. held' \in Nat
      BY <1>1 DEF IInv, TypeOK
    <2> QED
      BY <1>1, <1>3, <2>1 DEF IInv, TypeOK, env
  <1>7. AttemptsPaired' /\ SlotWithResponse'
    <2>1. held = 0 \/ HasRetryOnResponse
      BY <1>1 DEF IInv, SlotWithResponse, Lease
    <2>2. held \in Nat
      BY DEF IInv, TypeOK
    <2> QED
      BY <1>1, <1>3, <1>4, <2>1, <2>2 DEF IInv, AttemptsPaired, SlotWithResponse, Lease
  <1>8. SentByAttempt'
    BY <1>1 DEF IInv, SentByAttempt, AtChannel, AttemptLimit
  <1>9. BodyIsTheLast' /\ HasReason(err)'
    BY <1>1 DEF IInv, BodyIsTheLast, CausesHaveReasons, HasReason, ContextDone, BudgetError, env
  <1> QED
    BY <1>5, <1>6, <1>7, <1>8, <1>9, MidTurnKeeps DEF TurnInv

\* A response is read, and perhaps kept, as the Context's last.
LEMMA KeepTyped ==
    ASSUME TypeOK, resp # NoResponse, NEW body \in BOOLEAN,
           ctx' = [ctx EXCEPT !.status = resp.status, !.body = body]
    PROVE  /\ ctx' \in [channel : 0..NumChannels, status : Statuses \cup {0}, body : BOOLEAN]
           /\ ctx'.channel = ctx.channel /\ ctx'.status = resp.status
  <1>1. /\ ctx \in [channel : 0..NumChannels, status : Statuses \cup {0}, body : BOOLEAN]
        /\ resp.status \in Statuses \cup {0}
    BY DEF TypeOK
  <1>2. ctx' \in [channel : 0..NumChannels, status : Statuses \cup {0}, body : BOOLEAN]
    BY <1>1
  <1>3. ctx'.channel = ctx.channel /\ ctx'.status = resp.status
    BY <1>1
  <1> QED
    BY <1>2, <1>3

LEMMA BufferedTyped ==
    ASSUME NEW r \in [status : Statuses, lease : BOOLEAN]
    PROVE  /\ Buffered(r) \in [status : Statuses, lease : BOOLEAN]
           /\ Buffered(r) # NoResponse
           /\ Buffered(r).status = r.status
           /\ Buffered(r).lease => r.lease
           /\ ~HasRetryOnResponse => Buffered(r) = r
  <1>1. [r EXCEPT !.lease = FALSE] \in [status : Statuses, lease : BOOLEAN]
    OBVIOUS
  <1>2. [r EXCEPT !.lease = FALSE].status = r.status /\ ~[r EXCEPT !.lease = FALSE].lease
    OBVIOUS
  <1>3. Buffered(r) \in {r, [r EXCEPT !.lease = FALSE]} /\ (~HasRetryOnResponse => Buffered(r) = r)
    BY DEF Buffered
  <1> HIDE DEF Buffered
  <1>4. Buffered(r) \in [status : Statuses, lease : BOOLEAN]
    BY <1>1, <1>3
  <1>5. Buffered(r) # NoResponse
    BY <1>4, ResponsesAreSome
  <1>6. Buffered(r).status = r.status /\ (Buffered(r).lease => r.lease)
    BY <1>2, <1>3
  <1> QED
    BY <1>3, <1>4, <1>5, <1>6

LEMMA RejectResponseKeeps == IInv /\ RejectResponse => IInv'
  <1> SUFFICES ASSUME IInv, RejectResponse PROVE IInv'
    OBVIOUS
  <1>1. /\ pc = "judging" /\ resp' = NoResponse /\ Close(Buffered(resp))
        /\ UNCHANGED <<probe, env, result, onErrors, reply>>
    BY DEF RejectResponse
  <1>2. PICK body \in BOOLEAN : ctx' = [ctx EXCEPT !.status = resp.status, !.body = body]
    BY DEF RejectResponse
  <1>3. PICK e \in Rejections(resp) : \E told \in AttemptVerdicts(pos.chan, e, resp.status) :
           /\ Tell(pos.chan, told)
           /\ \/ ReturnError(e, 1)
              \/ pos.attempt < AttemptLimit /\ NextAttempt
              \/ NextKey(e)
    BY DEF RejectResponse
  <1>4. PICK told \in AttemptVerdicts(pos.chan, e, resp.status) :
           /\ told \in Seq(Words)
           /\ Tell(pos.chan, told)
           /\ \/ ReturnError(e, 1)
              \/ pos.attempt < AttemptLimit /\ NextAttempt
              \/ NextKey(e)
    BY <1>3, AttemptVerdictWords
  <1>5. e \in Errors /\ e.kind = "retry" /\ Caused(e)
    BY DEF Rejections, Failure, Errors, ErrorKinds, Caused, BodyCauses, ContextCauses
  <1>6. HasReason(e) /\ KeptWithBody(e)
    BY <1>5, CausesAreReasons DEF KeptWithBody
  <1>7. resp \in [status : Statuses, lease : BOOLEAN] /\ resp # NoResponse
    BY <1>1 DEF IInv, TypeOK, SlotWithResponse
  <1>8. /\ ctx' \in [channel : 0..NumChannels, status : Statuses \cup {0}, body : BOOLEAN]
        /\ ctx'.channel = ctx.channel
    BY <1>2, <1>7, KeepTyped DEF IInv
  <1>9. held' \in Nat /\ held' >= Lease' /\ (~HasRetryOnResponse => held' = Lease')
    <2>1. held \in Nat /\ held >= Lease /\ (~HasRetryOnResponse => held = Lease)
      BY DEF IInv, TypeOK, SlotWithResponse
    <2>2. /\ Buffered(resp) # NoResponse /\ (Buffered(resp).lease => resp.lease)
          /\ (~HasRetryOnResponse => Buffered(resp) = resp)
      BY <1>7, BufferedTyped
    <2>3. Lease' = 0
      BY <1>1 DEF Lease
    <2> QED
      BY <1>1, <1>7, <2>1, <2>2, <2>3 DEF Close, Lease
  <1> QED
    BY <1>1, <1>4, <1>5, <1>6, <1>8, <1>9, EndAttemptKeeps

LEMMA ReturnErrorResponseKeeps == IInv /\ ReturnErrorResponse => IInv'
  <1> SUFFICES ASSUME IInv, ReturnErrorResponse PROVE IInv'
    OBVIOUS
  <1>1. /\ pc = "judging" /\ resp' = Buffered(resp) /\ ReturnError(Failure("status"), 1)
        /\ UNCHANGED <<probe, env, result, held, onErrors, reply>>
    BY DEF ReturnErrorResponse
  <1>2. PICK body \in BOOLEAN : ctx' = [ctx EXCEPT !.status = resp.status, !.body = body]
    BY DEF ReturnErrorResponse
  <1>3. PICK told \in AttemptVerdicts(pos.chan, Failure("status"), resp.status) :
           told \in Seq(Words) /\ Tell(pos.chan, told)
    BY AttemptVerdictWords DEF ReturnErrorResponse
  <1> DEFINE e == Failure("status")
  <1>4. e \in Errors /\ e.kind = "status" /\ e.cause = "none" /\ Caused(e)
    BY DEF Failure, Errors, ErrorKinds, Caused
  <1>5. HasReason(e) /\ KeptWithBody(e)
    BY <1>4, CausesAreReasons DEF KeptWithBody
  <1>6. resp \in [status : Statuses, lease : BOOLEAN] /\ resp # NoResponse
    BY <1>1 DEF IInv, TypeOK, SlotWithResponse
  <1>7. /\ ctx' \in [channel : 0..NumChannels, status : Statuses \cup {0}, body : BOOLEAN]
        /\ ctx'.channel = ctx.channel
    BY <1>2, <1>6, KeepTyped DEF IInv
  <1>8. /\ resp' \in [status : Statuses, lease : BOOLEAN] /\ (resp'.lease => resp.lease)
        /\ (~HasRetryOnResponse => resp' = resp)
    BY <1>1, <1>6, BufferedTyped
  <1>9. held' \in Nat /\ held' >= Lease' /\ (~HasRetryOnResponse => held' = Lease')
    BY <1>1, <1>6, <1>8 DEF IInv, TypeOK, SlotWithResponse, Lease
  <1> HIDE DEF e
  <1>10. ReturnError(e, 1)
    BY <1>1 DEF e
  <1> QED
    BY <1>1, <1>3, <1>4, <1>5, <1>7, <1>8, <1>9, <1>10, EndAttemptKeeps

LEMMA AcceptResponseKeeps == IInv /\ AcceptResponse => IInv'
  <1> SUFFICES ASSUME IInv, AcceptResponse PROVE IInv'
    OBVIOUS
  <1>1. /\ pc = "judging" /\ pc' = "writing" /\ ctx' = [ctx EXCEPT !.status = resp.status]
        /\ tries' = [tries EXCEPT !.open = @ - 1]
        /\ UNCHANGED <<pos, probe, env, err, resp, result, held, onErrors, calls, reply>>
    BY DEF AcceptResponse
  <1>2. resp \in [status : Statuses, lease : BOOLEAN] /\ resp # NoResponse
    BY <1>1 DEF IInv, TypeOK, SlotWithResponse
  <1>3. /\ ctx' \in [channel : 0..NumChannels, status : Statuses \cup {0}, body : BOOLEAN]
        /\ ctx'.channel = ctx.channel
    BY <1>1, <1>2 DEF IInv, TypeOK
  <1>4. tries' \in [key : 0..MaxAttempts, open : 0..1] /\ tries'.open = 0 /\ tries'.key = tries.key
    BY <1>1 DEF IInv, TypeOK, AttemptsPaired
  <1>5. MidTurn
    BY <1>1, <1>3, SilentKeepsStanding DEF MidTurn, AtChannel
  <1>6. TypeOK'
    BY <1>1, <1>3, <1>4 DEF IInv, TypeOK, env
  <1>7. AttemptsPaired' /\ SlotWithResponse'
    BY <1>1, <1>2, <1>4 DEF IInv, AttemptsPaired, SlotWithResponse, Lease
  <1>8. SentByAttempt'
    BY <1>1, <1>4 DEF IInv, SentByAttempt, AtChannel, AttemptLimit
  <1>9. BodyIsTheLast' /\ HasReason(err)'
    BY <1>1 DEF IInv, BodyIsTheLast, CausesHaveReasons, HasReason, ContextDone, BudgetError, env
  <1> QED
    BY <1>5, <1>6, <1>7, <1>8, <1>9, MidTurnKeeps DEF TurnInv

-----------------------------------------------------------------------------
(* The steps between the channels' turns.                                  *)

LEMMA InitInvariant == Init => IInv
  <1> SUFFICES ASSUME Init PROVE IInv
    OBVIOUS
  <1> USE DEF Init
  <1>1. TypeOK
    <2>1. NoError \in Errors
      BY DEF NoError, Errors, ErrorKinds
    <2>2. calls \in [Channels -> Seq(Words)]
      OBVIOUS
    <2>3. pos \in [chan : 1..(NumChannels + 1), key : 0..NumKeys, attempt : 0..MaxAttempts]
      OBVIOUS
    <2>4. ctx \in [channel : 0..NumChannels, status : Statuses \cup {0}, body : BOOLEAN]
      <3>1. 0 \in 0..NumChannels /\ 0 \in Statuses \cup {0} /\ FALSE \in BOOLEAN
        OBVIOUS
      <3> QED
        BY <3>1
    <2>5. result \in [lastErr : Errors, from : 0..NumChannels, skipped : 0..NumChannels]
      BY <2>1
    <2>6. tries \in [key : 0..MaxAttempts, open : 0..1]
      OBVIOUS
    <2> QED
      BY <2>1, <2>2, <2>3, <2>4, <2>5, <2>6 DEF TypeOK, Words
  <1>2. AttemptsPaired /\ SlotWithResponse /\ SentByAttempt /\ ChannelOfContext
    BY DEF AttemptsPaired, SlotWithResponse, Lease, SentByAttempt, AtChannel, ChannelOfContext
  <1>3. AskedInOrder
    BY DEF AskedInOrder, Tried, Channels
  <1>4. BodyIsTheLast /\ CausesHaveReasons /\ QuietUntilTheEnd /\ LeftForAReason
    BY DEF BodyIsTheLast, CausesHaveReasons, HasReason, IsContextDoneError, NoError,
           QuietUntilTheEnd, LeftForAReason
  <1>5. RealErrorKept /\ OnErrorOnce /\ UpstreamErrorIsTheLast /\ GivesUpOnlyOnVerdict
    BY DEF RealErrorKept, OnErrorOnce, UpstreamErrorIsTheLast, GivesUpOnlyOnVerdict, ErrorReply
  <1> QED
    BY <1>1, <1>2, <1>3, <1>4, <1>5 DEF IInv

LEMMA LeaveLoopKeeps == IInv /\ LeaveLoop => IInv'
  <1> SUFFICES ASSUME IInv, LeaveLoop PROVE IInv'
    OBVIOUS
  <1>1. /\ pc = "channel" /\ pc' = "answer"
        /\ UNCHANGED <<pos, probe, env, ctx, err, resp, held, onErrors, calls, tries, reply>>
    BY DEF LeaveLoop
  <1> DEFINE e == [kind |-> "context", cause |-> "deadline"]
  <1>2. e \in Errors /\ e.kind = "context" /\ e.cause = "deadline"
    BY DEF Errors, ErrorKinds
  <1>3. \/ pos.chan > NumChannels /\ result' = result
        \/ BudgetError /\ result' = [result EXCEPT !.lastErr = e, !.from = 0]
    BY DEF LeaveLoop
  <1> HIDE DEF e
  <1>4. /\ result' \in [lastErr : Errors, from : 0..NumChannels, skipped : 0..NumChannels]
        /\ result'.skipped = result.skipped
        /\ \/ pos.chan > NumChannels /\ result'.lastErr = result.lastErr /\ result'.from = result.from
           \/ BudgetError /\ result'.lastErr = e /\ result'.from = 0
    <2>1. result \in [lastErr : Errors, from : 0..NumChannels, skipped : 0..NumChannels]
            /\ 0 \in 0..NumChannels
      BY DEF IInv, TypeOK
    <2>2. CASE result' = [result EXCEPT !.lastErr = e, !.from = 0]
      <3>1. result' = [lastErr |-> e, from |-> 0, skipped |-> result.skipped]
        BY <2>1, <2>2
      <3> QED
        BY <1>2, <1>3, <2>1, <3>1
    <2> QED
      BY <1>3, <2>1, <2>2
  <1>5. TypeOK'
    BY <1>1, <1>4 DEF IInv, TypeOK, env
  <1>6. AttemptsPaired' /\ SlotWithResponse' /\ SentByAttempt'
    BY <1>1 DEF IInv, AttemptsPaired, SlotWithResponse, Lease, SentByAttempt, AtChannel
  <1>7. ChannelOfContext' /\ AskedInOrder'
    BY <1>1, <1>4 DEF IInv, ChannelOfContext, AskedInOrder, AtChannel, Tried
  <1>8. BodyIsTheLast'
    BY <1>1, <1>2, <1>4 DEF IInv, BodyIsTheLast, KeptWithBody, IsContextDoneError
  <1>9. CausesHaveReasons'
    BY <1>1, <1>2, <1>4 DEF IInv, CausesHaveReasons, HasReason, ContextDone, BudgetError, env,
                IsContextDoneError
  <1>10. LeftForAReason'
    BY <1>1, <1>4 DEF IInv, TypeOK, LeftForAReason, BudgetError, env, AskedInOrder, Channels
  <1>11. QuietUntilTheEnd' /\ pc' # "done" /\ reply' = "none"
    BY <1>1 DEF IInv, QuietUntilTheEnd
  <1>12. RealErrorKept' /\ OnErrorOnce' /\ UpstreamErrorIsTheLast' /\ GivesUpOnlyOnVerdict'
    BY <1>11 DEF RealErrorKept, OnErrorOnce, UpstreamErrorIsTheLast, GivesUpOnlyOnVerdict, ErrorReply
  <1> QED
    BY <1>5, <1>6, <1>7, <1>8, <1>9, <1>10, <1>11, <1>12 DEF IInv

\* A channel that was not asked before is asked.
LEMMA AskTyped ==
    ASSUME IInv, pc = "channel", pos.chan <= NumChannels, NEW word \in Words,
           Tell(pos.chan, <<word>>)
    PROVE  /\ pos.chan \in Channels
           /\ calls' \in [Channels -> Seq(Words)]
           /\ calls'[pos.chan] = <<word>>
           /\ \A d \in Channels : d # pos.chan => calls'[d] = calls[d]
  <1>1. pos.chan \in Channels /\ calls \in [Channels -> Seq(Words)]
    <2>1. calls \in [Channels -> Seq(Words)]
      BY DEF IInv, TypeOK, Words
    <2>2. pos.chan \in 1..(NumChannels + 1)
      BY DEF IInv, TypeOK
    <2> QED
      BY <2>1, <2>2 DEF Channels
  <1>2. <<word>> \in Seq(Words)
    OBVIOUS
  <1>3. calls[pos.chan] = <<>>
    BY <1>1 DEF IInv, AskedInOrder
  <1>4. /\ calls' \in [Channels -> Seq(Words)]
        /\ calls'[pos.chan] = calls[pos.chan] \o <<word>>
        /\ \A d \in Channels : d # pos.chan => calls'[d] = calls[d]
    BY <1>1, <1>2, TellTyped
  <1>5. <<>> \o <<word>> = <<word>>
    OBVIOUS
  <1> QED
    BY <1>1, <1>3, <1>4, <1>5

LEMMA NextChannelTyped ==
    ASSUME pos \in [chan : 1..(NumChannels + 1), key : 0..NumKeys, attempt : 0..MaxAttempts],
           pos.chan \in Channels, pos' = [pos EXCEPT !.chan = @ + 1]
    PROVE  /\ pos' \in [chan : 1..(NumChannels + 1), key : 0..NumKeys, attempt : 0..MaxAttempts]
           /\ pos'.chan = pos.chan + 1
  <1>1. pos.chan + 1 \in 1..(NumChannels + 1)
    BY DEF Channels
  <1>2. pos'.chan = pos.chan + 1
    OBVIOUS
  <1>3. pos' \in [chan : 1..(NumChannels + 1), key : 0..NumKeys, attempt : 0..MaxAttempts]
    BY <1>1
  <1> QED
    BY <1>2, <1>3

LEMMA SkipChannelKeeps == IInv /\ SkipChannel => IInv'
  <1> SUFFICES ASSUME IInv, SkipChannel PROVE IInv'
    OBVIOUS
  <1>1. /\ pc = "channel" /\ pos.chan <= NumChannels /\ Tell(pos.chan, <<"denied">>)
        /\ result' = AfterSkip(pos.chan) /\ pos' = [pos EXCEPT !.chan = @ + 1]
        /\ UNCHANGED <<pc, probe, env, ctx, err, resp, held, onErrors, tries, reply>>
    BY DEF SkipChannel
  <1>2. "denied" \in Words
    BY DEF Words, Answers
  <1>3. /\ pos.chan \in Channels
        /\ calls' \in [Channels -> Seq(Words)]
        /\ calls'[pos.chan] = <<"denied">>
        /\ \A d \in Channels : d # pos.chan => calls'[d] = calls[d]
    BY <1>1, <1>2, AskTyped
  <1>4. /\ pos' \in [chan : 1..(NumChannels + 1), key : 0..NumKeys, attempt : 0..MaxAttempts]
        /\ pos'.chan = pos.chan + 1
    <2>1. pos \in [chan : 1..(NumChannels + 1), key : 0..NumKeys, attempt : 0..MaxAttempts]
      BY DEF IInv, TypeOK
    <2> QED
      BY <1>1, <1>3, <2>1, NextChannelTyped
  <1>5. /\ result'.lastErr = IF result.lastErr = NoError THEN Failure("open") ELSE result.lastErr
        /\ result'.from = IF result.lastErr = NoError THEN pos.chan ELSE result.from
        /\ result'.skipped = IF result.skipped = 0 THEN pos.chan ELSE result.skipped
        /\ result' \in [lastErr : Errors, from : 0..NumChannels, skipped : 0..NumChannels]
    <2>1. Failure("open") \in Errors
      BY DEF Failure, Errors, ErrorKinds
    <2>2. pos.chan \in 0..NumChannels
      BY <1>3 DEF Channels
    <2> QED
      BY <1>1, <2>1, <2>2 DEF IInv, TypeOK, AfterSkip
  <1>6. TypeOK'
    <2>1. TypeOK
      BY DEF IInv
    <2>2. calls' \in [Channels -> Seq(Answers \cup Verdict \cup {"cancel"})]
      BY <1>3 DEF Words
    <2>3. result' \in [lastErr : Errors, from : 0..NumChannels, skipped : 0..NumChannels]
      BY <1>5
    <2>4. pos' \in [chan : 1..(NumChannels + 1), key : 0..NumKeys, attempt : 0..MaxAttempts]
      BY <1>4
    <2>5. /\ pc' = pc /\ probe' = probe /\ budget' = budget /\ client' = client /\ ctx' = ctx
          /\ err' = err /\ resp' = resp /\ held' = held /\ onErrors' = onErrors
          /\ tries' = tries /\ reply' = reply
      BY <1>1 DEF env
    <2> QED
      BY SMTT(30), <2>1, <2>2, <2>3, <2>4, <2>5 DEF TypeOK
  <1>7. AttemptsPaired' /\ SlotWithResponse' /\ SentByAttempt'
    BY <1>1 DEF IInv, AttemptsPaired, SlotWithResponse, Lease, SentByAttempt, AtChannel
  <1>8. ctx.channel # pos.chan
    <2>1. calls[pos.chan] = <<>>
      BY <1>1, <1>3 DEF IInv, AskedInOrder
    <2>2. ~Tried(pos.chan)
      BY <2>1 DEF Tried
    <2>3. ctx.channel # 0 => Tried(ctx.channel)
      BY <1>1 DEF IInv, ChannelOfContext
    <2>4. pos.chan # 0
      BY <1>3 DEF Channels
    <2> QED
      BY <2>2, <2>3, <2>4
  <1>9. ChannelOfContext'
    <2>1. ctx.channel # 0 => Tried(ctx.channel)'
      <3>1. ctx.channel # 0 => ctx.channel \in Channels /\ Tried(ctx.channel)
        BY <1>1 DEF IInv, TypeOK, ChannelOfContext, Channels
      <3>2. ctx.channel # 0 => calls'[ctx.channel] = calls[ctx.channel]
        BY <1>3, <1>8, <3>1
      <3> QED
        BY <1>1, <3>1, <3>2 DEF Tried
    <2>2. result'.skipped # 0 => calls'[result'.skipped] # <<>>
      <3>1. /\ result.skipped \in 0..NumChannels
            /\ result.skipped # 0 => calls[result.skipped] # <<>>
        BY DEF IInv, TypeOK, ChannelOfContext
      <3>2. calls'[pos.chan] # <<>>
        BY <1>3
      <3>3. result.skipped # 0 => calls'[result.skipped] # <<>>
        <4>1. result.skipped # 0 => result.skipped \in Channels
          BY <3>1 DEF Channels
        <4> QED
          BY <1>3, <3>1, <3>2, <4>1
      <3> QED
        BY <1>5, <3>2, <3>3
    <2> QED
      BY <1>1, <2>1, <2>2 DEF IInv, ChannelOfContext, AtChannel
  <1>10. AskedInOrder'
    <2> SUFFICES ASSUME NEW c \in Channels
                 PROVE  /\ c < pos'.chan => calls'[c] # <<>>
                        /\ c > pos'.chan => calls'[c] = <<>>
                        /\ c = pos'.chan => calls'[c] = <<>>
                        /\ Tried(c)' => ctx'.channel # 0
                        /\ calls'[c] # <<>> => ctx'.channel # 0 \/ result'.skipped # 0
      BY DEF AskedInOrder
    <2>1. CASE c = pos.chan
      <3>1. c \in Nat /\ c # 0 /\ c < pos'.chan /\ ~(c > pos'.chan) /\ c # pos'.chan
        BY <1>3, <1>4, <2>1 DEF Channels
      <3>2. calls'[c] # <<>> /\ calls'[c][1] = "denied"
        <4>1. <<"denied">> # <<>> /\ <<"denied">>[1] = "denied"
          OBVIOUS
        <4>2. calls'[c] = <<"denied">>
          BY <1>3, <2>1
        <4> QED
          BY <4>1, <4>2
      <3>3. ~Tried(c)'
        BY <3>2 DEF Tried
      <3>4. result'.skipped # 0
        BY <1>5, <2>1, <3>1
      <3> QED
        BY <3>1, <3>2, <3>3, <3>4
    <2>2. CASE c # pos.chan
      <3>1. calls'[c] = calls[c] /\ pos.chan \in Nat /\ c \in Nat
        BY <1>3, <2>2 DEF Channels
      <3>2. result.skipped # 0 => result'.skipped # 0
        BY <1>5
      <3> QED
        BY <1>1, <1>4, <2>2, <3>1, <3>2 DEF IInv, AskedInOrder, Tried
    <2> QED
      BY <2>1, <2>2
  <1>11. BodyIsTheLast'
    BY <1>1, <1>5 DEF IInv, BodyIsTheLast, KeptWithBody, NoError, ChannelOfContext
  <1>12. CausesHaveReasons'
    BY <1>1, <1>5 DEF IInv, CausesHaveReasons, HasReason, ContextDone, BudgetError, env,
                IsContextDoneError, Failure
  <1>13. LeftForAReason' /\ QuietUntilTheEnd' /\ pc' # "done" /\ reply' = "none"
    BY <1>1 DEF IInv, LeftForAReason, QuietUntilTheEnd
  <1>14. RealErrorKept' /\ OnErrorOnce' /\ UpstreamErrorIsTheLast' /\ GivesUpOnlyOnVerdict'
    BY <1>13 DEF RealErrorKept, OnErrorOnce, UpstreamErrorIsTheLast, GivesUpOnlyOnVerdict, ErrorReply
  <1> QED
    BY <1>6, <1>7, <1>9, <1>10, <1>11, <1>12, <1>13, <1>14 DEF IInv

LEMMA SelectChannelKeeps == IInv /\ SelectChannel => IInv'
  <1> SUFFICES ASSUME IInv, SelectChannel PROVE IInv'
    OBVIOUS
  <1>1. /\ pc = "channel" /\ pos.chan <= NumChannels /\ pc' = "prepare"
        /\ ctx' = [channel |-> pos.chan, status |-> 0, body |-> FALSE]
        /\ tries' = [key |-> 0, open |-> 0] /\ probe' \in BOOLEAN
        /\ UNCHANGED <<pos, env, err, resp, result, held, onErrors, reply>>
    BY DEF SelectChannel
  <1>2. PICK word \in {"admitted", "probe", "tracked"} : Tell(pos.chan, <<word>>)
    BY DEF SelectChannel
  <1>3. word \in Words /\ word # "denied"
    BY DEF Words, Answers
  <1>4. /\ pos.chan \in Channels
        /\ calls' \in [Channels -> Seq(Words)]
        /\ calls'[pos.chan] = <<word>>
        /\ \A d \in Channels : d # pos.chan => calls'[d] = calls[d]
    BY <1>1, <1>2, <1>3, AskTyped
  <1>5. TypeOK'
    <2>1. ctx' \in [channel : 0..NumChannels, status : Statuses \cup {0}, body : BOOLEAN]
      <3>1. pos.chan \in 0..NumChannels /\ 0 \in Statuses \cup {0} /\ FALSE \in BOOLEAN
        BY <1>4 DEF Channels
      <3> QED
        BY <1>1, <3>1
    <2>2. tries' \in [key : 0..MaxAttempts, open : 0..1]
      BY <1>1
    <2> QED
      BY <1>1, <1>4, <2>1, <2>2 DEF IInv, TypeOK, Words, env
  <1>6. AttemptsPaired' /\ SlotWithResponse' /\ SentByAttempt'
    BY <1>1 DEF IInv, AttemptsPaired, SlotWithResponse, Lease, SentByAttempt, AtChannel
  <1>7. Tried(pos.chan)' /\ calls'[pos.chan] # <<>> /\ pos.chan # 0
    <2>1. calls'[pos.chan][1] = word /\ calls'[pos.chan] # <<>> /\ pos.chan # 0
      BY <1>4 DEF Channels
    <2>2. pos' = pos
      BY <1>1
    <2>3. Tried(pos.chan)'
      BY <1>3, <2>1, <2>2 DEF Tried
    <2> QED
      BY <2>1, <2>3
  <1>8. ChannelOfContext'
    <2>1. result'.skipped # 0 => calls'[result'.skipped] # <<>>
      <3>1. /\ result.skipped \in 0..NumChannels /\ result' = result
            /\ result.skipped # 0 => calls[result.skipped] # <<>>
        BY <1>1 DEF IInv, TypeOK, ChannelOfContext
      <3>2. result.skipped # 0 => result.skipped \in Channels
        BY <3>1 DEF Channels
      <3> QED
        BY <1>4, <1>7, <3>1, <3>2
    <2>2. Tried(ctx.channel)' /\ ctx'.channel = pos.chan /\ pos' = pos
      BY <1>1, <1>7 DEF Tried
    <2> QED
      BY <1>4, <1>7, <2>1, <2>2 DEF ChannelOfContext
  <1>9. AskedInOrder'
    <2> SUFFICES ASSUME NEW c \in Channels
                 PROVE  /\ c < pos.chan => calls'[c] # <<>>
                        /\ c > pos.chan => calls'[c] = <<>>
      BY <1>1, <1>7 DEF AskedInOrder
    <2>1. c \in Nat /\ pos.chan \in Nat
      BY <1>4 DEF Channels
    <2> QED
      BY <1>4, <2>1 DEF IInv, AskedInOrder
  <1>10. BodyIsTheLast' /\ CausesHaveReasons'
    BY <1>1 DEF IInv, BodyIsTheLast, CausesHaveReasons, HasReason, ContextDone, BudgetError, env
  <1>11. LeftForAReason' /\ QuietUntilTheEnd' /\ pc' # "done" /\ reply' = "none"
    BY <1>1 DEF IInv, LeftForAReason, QuietUntilTheEnd
  <1>12. RealErrorKept' /\ OnErrorOnce' /\ UpstreamErrorIsTheLast' /\ GivesUpOnlyOnVerdict'
    BY <1>11 DEF RealErrorKept, OnErrorOnce, UpstreamErrorIsTheLast, GivesUpOnlyOnVerdict, ErrorReply
  <1> QED
    BY <1>5, <1>6, <1>8, <1>9, <1>10, <1>11, <1>12 DEF IInv

LEMMA ChannelVerdictWords ==
    ASSUME NEW c, NEW e, NEW status, NEW told \in ChannelVerdicts(c, e, status)
    PROVE  told \o ProbeEnd \in Seq(Words)
  <1>1. told \in {<<>>, <<"exemptFailure">>, <<"failure">>, <<"opened">>}
    BY VerdictWords DEF ChannelVerdicts
  <1>2. "exemptFailure" \in Words /\ "failure" \in Words /\ "opened" \in Words /\ "cancel" \in Words
    BY DEF Words, Verdict
  <1>3. /\ <<>> \in Seq(Words) /\ <<"exemptFailure">> \in Seq(Words) /\ <<"cancel">> \in Seq(Words)
        /\ <<"failure">> \in Seq(Words) /\ <<"opened">> \in Seq(Words)
    BY <1>2
  <1>4. told \in Seq(Words) /\ ProbeEnd \in Seq(Words)
    BY <1>1, <1>3 DEF ProbeEnd
  <1> QED
    BY <1>4

\* The errors that do not take the request on to the next channel.
LEMMA StopsForAReason ==
    ASSUME NEW e \in Errors, NEW status \in Statuses \cup {0}, ~ShouldContinue(e, status)
    PROVE  \/ IsContextDoneError(e)
           \/ /\ status >= 400
              /\ status \notin (IF HasRetryOnResponse THEN RetryStatuses ELSE {429} \cup 500..599)
  <1>1. status \in 0..599
    BY StatusesAreCodes
  <1>2. CASE IsContextDoneError(e)
    BY <1>2
  <1>3. CASE ~IsContextDoneError(e)
    <2>1. ~IsPoolExhaustedError(e)
      BY <1>3 DEF ShouldContinue
    <2>2. status >= 400
      BY <1>1, <1>3, <2>1 DEF ShouldContinue, IsRetryableError
    <2>3. CASE HasRetryOnResponse
      BY <1>3, <2>2, <2>3 DEF ShouldContinue
    <2>4. CASE ~HasRetryOnResponse
      <3>1. status # 429 /\ ~(status >= 500)
        BY <1>3, <2>2, <2>4 DEF ShouldContinue
      <3> QED
        BY <1>1, <2>2, <2>4, <3>1
    <2> QED
      BY <2>3, <2>4
  <1> QED
    BY <1>2, <1>3

LEMMA FailChannelKeeps == IInv /\ FailChannel => IInv'
  <1> SUFFICES ASSUME IInv, FailChannel PROVE IInv'
    OBVIOUS
  <1> DEFINE status == IF resp = NoResponse THEN ctx.status ELSE resp.status
  <1>1. /\ pc = "failed" /\ Close(resp) /\ resp' = NoResponse /\ err' = NoError
        /\ result' = [result EXCEPT !.lastErr = err, !.from = pos.chan]
        /\ UNCHANGED <<probe, env, onErrors, tries, reply>>
    BY DEF FailChannel
  <1>2. PICK body \in (IF resp = NoResponse \/ ctx.body THEN {ctx.body} ELSE BOOLEAN) :
          ctx' = [ctx EXCEPT !.status = status, !.body = body]
    BY DEF FailChannel
  <1>3. PICK told \in ChannelVerdicts(pos.chan, err, status) : Tell(pos.chan, told \o ProbeEnd)
    BY DEF FailChannel
  <1>4. \/ ShouldContinue(err, status) /\ pc' = "channel" /\ pos' = [pos EXCEPT !.chan = @ + 1]
        \/ ~ShouldContinue(err, status) /\ pc' = "answer" /\ pos' = pos
    BY DEF FailChannel
  <1>5. status \in Statuses \cup {0} /\ body \in BOOLEAN
    BY <1>2 DEF IInv, TypeOK
  <1>6. pos.chan \in Channels /\ ctx.channel = pos.chan /\ Tried(pos.chan)
          /\ calls \in [Channels -> Seq(Words)]
    <2>1. calls \in [Channels -> Seq(Words)]
      BY DEF IInv, TypeOK, Words
    <2>2. pos.chan \in Channels /\ ctx.channel = pos.chan
      BY <1>1 DEF IInv, ChannelOfContext, AtChannel
    <2>3. pos.chan # 0
      BY <2>2 DEF Channels
    <2>4. Tried(pos.chan)
      BY <1>1, <2>2, <2>3 DEF IInv, ChannelOfContext
    <2> QED
      BY <2>1, <2>2, <2>4
  <1>7. told \o ProbeEnd \in Seq(Words)
    BY ChannelVerdictWords
  <1>8. calls' \in [Channels -> Seq(Words)] /\ SameStanding
    BY <1>3, <1>6, <1>7, TellTyped, TellKeepsStanding
  <1> HIDE DEF status
  <1>9. /\ ctx' \in [channel : 0..NumChannels, status : Statuses \cup {0}, body : BOOLEAN]
        /\ ctx'.channel = ctx.channel /\ ctx'.status = status /\ ctx'.body = body
    <2>1. ctx \in [channel : 0..NumChannels, status : Statuses \cup {0}, body : BOOLEAN]
      BY DEF IInv, TypeOK
    <2>2. ctx' \in [channel : 0..NumChannels, status : Statuses \cup {0}, body : BOOLEAN]
      BY <1>2, <1>5, <2>1
    <2>3. ctx'.channel = ctx.channel /\ ctx'.status = status /\ ctx'.body = body
      BY <1>2, <1>5, <2>1
    <2> QED
      BY <2>2, <2>3
  <1>10. /\ result' \in [lastErr : Errors, from : 0..NumChannels, skipped : 0..NumChannels]
         /\ result'.lastErr = err /\ result'.from = pos.chan /\ result'.skipped = result.skipped
    <2>1. result \in [lastErr : Errors, from : 0..NumChannels, skipped : 0..NumChannels]
            /\ err \in Errors
      BY DEF IInv, TypeOK
    <2>2. pos.chan \in 0..NumChannels
      BY <1>6 DEF Channels
    <2>3. result' = [lastErr |-> err, from |-> pos.chan, skipped |-> result.skipped]
      BY <1>1, <2>1
    <2> QED
      BY <2>1, <2>2, <2>3
  <1>11. /\ pos' \in [chan : 1..(NumChannels + 1), key : 0..NumKeys, attempt : 0..MaxAttempts]
         /\ \/ pc' = "channel" /\ pos'.chan = pos.chan + 1
            \/ pc' = "answer" /\ pos' = pos /\ ~ShouldContinue(err, status)
    <2>1. pos \in [chan : 1..(NumChannels + 1), key : 0..NumKeys, attempt : 0..MaxAttempts]
            /\ pos.chan + 1 \in 1..(NumChannels + 1)
      BY <1>6 DEF IInv, TypeOK, Channels
    <2>2. CASE pos' = [pos EXCEPT !.chan = @ + 1]
      BY <1>4, <1>6, <2>1, <2>2, NextChannelTyped
    <2> QED
      BY <1>4, <2>1, <2>2
  <1>12. held' \in Nat /\ held' >= Lease' /\ (~HasRetryOnResponse => held' = Lease')
    BY <1>1 DEF IInv, TypeOK, SlotWithResponse, Close, Lease
  <1>13. TypeOK'
    <2>1. err' \in Errors
      BY <1>1 DEF NoError, Errors, ErrorKinds
    <2>2. pc' \in {"channel", "answer"}
      BY <1>11
    <2> QED
      BY <1>1, <1>8, <1>9, <1>10, <1>11, <1>12, <2>1, <2>2 DEF IInv, TypeOK, Words, env
  <1>14. AttemptsPaired' /\ SlotWithResponse' /\ SentByAttempt'
    BY <1>1, <1>11, <1>12 DEF IInv, AttemptsPaired, SlotWithResponse, SentByAttempt, AtChannel
  <1>15. ChannelOfContext'
    <2>1. Tried(ctx.channel)' /\ ctx'.channel # 0
      <3>1. ctx'.channel = pos.chan /\ pos.chan \in Channels
        BY <1>6, <1>9
      <3>2. calls'[pos.chan] # <<>> /\ calls'[pos.chan][1] # "denied"
        BY <1>6, <1>8 DEF SameStanding, Tried
      <3> QED
        BY <3>1, <3>2 DEF Tried, Channels
    <2>2. result'.skipped # 0 => calls'[result'.skipped] # <<>>
      <3>1. /\ result.skipped \in 0..NumChannels
            /\ result.skipped # 0 => calls[result.skipped] # <<>>
        BY DEF IInv, TypeOK, ChannelOfContext
      <3>2. result.skipped # 0 => result.skipped \in Channels
        BY <3>1 DEF Channels
      <3> QED
        BY <1>8, <1>10, <3>1, <3>2 DEF SameStanding
    <2> QED
      BY <1>11, <2>1, <2>2 DEF ChannelOfContext, AtChannel
  <1>16. AskedInOrder'
    <2> SUFFICES ASSUME NEW c \in Channels
                 PROVE  /\ c < pos'.chan => calls'[c] # <<>>
                        /\ c > pos'.chan => calls'[c] = <<>>
                        /\ pc' = "channel" /\ c = pos'.chan => calls'[c] = <<>>
                        /\ ctx'.channel # 0
      BY DEF AskedInOrder
    <2>1. c \in Nat /\ pos.chan \in Nat /\ pos.chan # 0
      BY <1>6 DEF Channels
    <2>2. /\ c <= pos.chan => calls'[c] # <<>>
          /\ c > pos.chan => calls'[c] = <<>>
      BY <1>6, <1>8, <2>1 DEF IInv, AskedInOrder, SameStanding, Tried
    <2> QED
      BY <1>6, <1>9, <1>11, <2>1, <2>2
  <1>17. BodyIsTheLast'
    <2>1. body => ctx.body \/ resp # NoResponse
      BY <1>2
    <2>2. err.kind \notin {"none", "open"} /\ (ctx.body \/ resp # NoResponse => KeptWithBody(err))
      BY <1>1 DEF IInv, BodyIsTheLast
    <2> QED
      BY <1>6, <1>9, <1>10, <1>11, <2>1, <2>2 DEF BodyIsTheLast, KeptWithBody
  <1>18. CausesHaveReasons'
    BY <1>1, <1>10 DEF IInv, CausesHaveReasons, HasReason, ContextDone, BudgetError, env,
                IsContextDoneError, NoError
  <1>19. LeftForAReason'
    <2> SUFFICES ASSUME pc' = "answer"
                 PROVE  \/ ContextDone' \/ BudgetError'
                        \/ OwnTimeout(result'.lastErr)
                        \/ /\ ctx'.status >= 400
                           /\ ctx'.status \notin (IF HasRetryOnResponse THEN RetryStatuses
                                                 ELSE {429} \cup 500..599)
      BY DEF LeftForAReason
    <2>1. ~ShouldContinue(err, status) /\ err \in Errors /\ HasReason(err)
      BY <1>11 DEF IInv, TypeOK, CausesHaveReasons
    <2>2. ContextDone' = ContextDone /\ BudgetError' = BudgetError
      BY <1>1 DEF ContextDone, BudgetError, env
    <2>3. CASE IsContextDoneError(err)
      BY <1>10, <2>1, <2>2, <2>3 DEF HasReason
    <2>4. CASE ~IsContextDoneError(err)
      <3>1. /\ status >= 400
            /\ status \notin (IF HasRetryOnResponse THEN RetryStatuses ELSE {429} \cup 500..599)
        BY <1>5, <2>1, <2>4, StopsForAReason
      <3> QED
        BY <1>9, <3>1
    <2> QED
      BY <2>3, <2>4
  <1>20. QuietUntilTheEnd' /\ pc' # "done" /\ reply' = "none"
    BY <1>1, <1>11 DEF IInv, QuietUntilTheEnd
  <1>21. RealErrorKept' /\ OnErrorOnce' /\ UpstreamErrorIsTheLast' /\ GivesUpOnlyOnVerdict'
    BY <1>20 DEF RealErrorKept, OnErrorOnce, UpstreamErrorIsTheLast, GivesUpOnlyOnVerdict, ErrorReply
  <1> QED
    BY <1>13, <1>14, <1>15, <1>16, <1>17, <1>18, <1>19, <1>20, <1>21 DEF IInv

LEMMA WriteResponseKeeps == IInv /\ WriteResponse => IInv'
  <1> SUFFICES ASSUME IInv, WriteResponse PROVE IInv'
    OBVIOUS
  <1>1. /\ pc = "writing" /\ pc' = "done" /\ Close(resp) /\ resp' = NoResponse
        /\ UNCHANGED <<pos, probe, env, ctx, err, result, onErrors, tries>>
    BY DEF WriteResponse
  <1>2. PICK how \in Streamings :
          /\ reply' = how
          /\ \E told \in CASE how = "complete" ->
                               {<<IF IsCircuitBreakerWhitelisted(pos.chan) THEN "exemptSuccess" ELSE "success">>}
                           [] how = "broken" -> Verdicts(pos.chan, Failure("network"), ctx.status)
                           [] how = "cut" -> {<<>>} :
               Tell(pos.chan, told)
    BY DEF WriteResponse
  <1>3. how \in {"complete", "broken", "cut"}
    BY DEF Streamings
  <1>4. PICK told \in {<<>>, <<"exemptFailure">>, <<"failure">>, <<"opened">>,
                      <<"success">>, <<"exemptSuccess">>} : Tell(pos.chan, told)
    <2>1. CASE how = "complete"
      BY <1>2, <2>1
    <2>2. CASE how = "broken"
      <3>1. PICK word \in Verdicts(pos.chan, Failure("network"), ctx.status) : Tell(pos.chan, word)
        BY <1>2, <2>2
      <3> QED
        BY <3>1, VerdictWords
    <2>3. CASE how = "cut"
      BY <1>2, <2>3
    <2> QED
      BY <1>3, <2>1, <2>2, <2>3
  <1>5. told \in Seq(Words)
    <2>1. /\ "exemptFailure" \in Words /\ "failure" \in Words /\ "opened" \in Words
          /\ "success" \in Words /\ "exemptSuccess" \in Words
      BY DEF Words, Verdict
    <2>2. /\ <<>> \in Seq(Words) /\ <<"exemptFailure">> \in Seq(Words) /\ <<"failure">> \in Seq(Words)
          /\ <<"opened">> \in Seq(Words) /\ <<"success">> \in Seq(Words)
          /\ <<"exemptSuccess">> \in Seq(Words)
      BY <2>1
    <2>3. CASE told \in {<<>>, <<"exemptFailure">>, <<"failure">>}
      BY <2>2, <2>3
    <2>4. CASE told \in {<<"opened">>, <<"success">>, <<"exemptSuccess">>}
      BY <2>2, <2>4
    <2> QED
      BY <1>4, <2>3, <2>4
  <1>6. pos.chan \in Channels /\ Tried(pos.chan) /\ calls \in [Channels -> Seq(Words)]
    BY <1>1 DEF IInv, TypeOK, Words, ChannelOfContext, AtChannel, Channels
  <1>7. calls' \in [Channels -> Seq(Words)] /\ SameStanding
    BY <1>4, <1>5, <1>6, TellTyped, TellKeepsStanding
  <1>8. held' \in Nat /\ held' >= Lease' /\ (~HasRetryOnResponse => held' = Lease')
    BY <1>1 DEF IInv, TypeOK, SlotWithResponse, Close, Lease
  <1>9. TypeOK'
    BY <1>1, <1>2, <1>3, <1>7, <1>8 DEF IInv, TypeOK, Words, env
  <1>10. AttemptsPaired' /\ SlotWithResponse' /\ SentByAttempt'
    BY <1>1, <1>8 DEF IInv, AttemptsPaired, SlotWithResponse, SentByAttempt, AtChannel
  <1>11. ChannelOfContext'
    <2>1. /\ result.skipped \in 0..NumChannels /\ result' = result
          /\ result.skipped # 0 => calls[result.skipped] # <<>>
      BY <1>1 DEF IInv, TypeOK, ChannelOfContext
    <2>2. result.skipped # 0 => result.skipped \in Channels
      BY <2>1 DEF Channels
    <2>3. result'.skipped # 0 => calls'[result'.skipped] # <<>>
      BY <1>7, <2>1, <2>2 DEF SameStanding
    <2> QED
      BY <1>1, <2>3 DEF IInv, ChannelOfContext, AtChannel
  <1>12. AskedInOrder'
    BY <1>1, <1>7 DEF IInv, AskedInOrder, SameStanding
  <1>13. BodyIsTheLast' /\ CausesHaveReasons'
    BY <1>1 DEF IInv, BodyIsTheLast, CausesHaveReasons, HasReason, ContextDone, BudgetError, env
  <1>14. LeftForAReason' /\ QuietUntilTheEnd' /\ ~ErrorReply' /\ onErrors' = 0
    BY <1>1, <1>2, <1>3 DEF IInv, LeftForAReason, QuietUntilTheEnd, ErrorReply
  <1>15. RealErrorKept' /\ OnErrorOnce' /\ UpstreamErrorIsTheLast' /\ GivesUpOnlyOnVerdict'
    BY <1>14 DEF RealErrorKept, OnErrorOnce, UpstreamErrorIsTheLast, GivesUpOnlyOnVerdict, ErrorReply
  <1> QED
    BY <1>9, <1>10, <1>11, <1>12, <1>13, <1>14, <1>15 DEF IInv

LEMMA WriteErrorKeeps == IInv /\ WriteError => IInv'
  <1> SUFFICES ASSUME IInv, WriteError PROVE IInv'
    OBVIOUS
  <1>1. /\ pc = "answer" /\ pc' = "done" /\ ctx' = [ctx EXCEPT !.channel = ErrorChannel]
        /\ onErrors' = IF ErrorChannel # 0 THEN onErrors + 1 ELSE onErrors
        /\ UNCHANGED <<pos, probe, env, err, resp, result, held, calls, tries>>
    BY DEF WriteError
  <1>2. /\ FromUpstream => reply' = "upstreamError"
        /\ ~FromUpstream /\ result.lastErr.kind = "open" => reply' = "unavailable"
        /\ ~FromUpstream /\ result.lastErr.kind # "open" => reply' = "error"
    BY DEF WriteError
  <1>3. /\ ErrorChannel = IF ctx.channel = 0 /\ ~FromUpstream THEN result.skipped ELSE ctx.channel
        /\ FromUpstream => ctx.channel # 0 /\ ctx.body /\ ErrorChannel = ctx.channel
    BY DEF IInv, ChannelOfContext, ErrorChannel, FromUpstream
  <1>4. ErrorChannel # 0 <=> \E c \in Channels : calls[c] # <<>>
    <2>1. ctx.channel # 0 => ctx.channel \in Channels /\ calls[ctx.channel] # <<>>
      BY <1>1 DEF IInv, TypeOK, ChannelOfContext, Tried, Channels
    <2>2. result.skipped # 0 => result.skipped \in Channels /\ calls[result.skipped] # <<>>
      BY DEF IInv, TypeOK, ChannelOfContext, Channels
    <2>3. \A c \in Channels : calls[c] # <<>> => ctx.channel # 0 \/ result.skipped # 0
      BY DEF IInv, AskedInOrder
    <2> QED
      BY <1>3, <2>1, <2>2, <2>3
  <1>5. ctx' \in [channel : 0..NumChannels, status : Statuses \cup {0}, body : BOOLEAN]
          /\ ctx'.channel = ErrorChannel /\ ctx'.status = ctx.status /\ ctx'.body = ctx.body
    <2>1. ctx \in [channel : 0..NumChannels, status : Statuses \cup {0}, body : BOOLEAN]
            /\ ErrorChannel \in 0..NumChannels
      BY <1>3 DEF IInv, TypeOK
    <2> QED
      BY <1>1, <2>1
  <1>6. onErrors = 0
    BY <1>1 DEF IInv, QuietUntilTheEnd
  <1>7. TypeOK'
    BY <1>1, <1>2, <1>5, <1>6 DEF IInv, TypeOK, env
  <1>8. AttemptsPaired' /\ SlotWithResponse' /\ SentByAttempt'
    BY <1>1 DEF IInv, AttemptsPaired, SlotWithResponse, Lease, SentByAttempt, AtChannel
  <1>9. ChannelOfContext'
    BY <1>1, <1>3, <1>5 DEF IInv, ChannelOfContext, AtChannel
  <1>10. AskedInOrder'
    BY <1>1, <1>3, <1>5 DEF IInv, AskedInOrder, Tried
  <1>11. BodyIsTheLast' /\ CausesHaveReasons' /\ LeftForAReason' /\ QuietUntilTheEnd'
    BY <1>1 DEF IInv, BodyIsTheLast, CausesHaveReasons, HasReason, ContextDone, BudgetError, env,
                LeftForAReason, QuietUntilTheEnd
  <1>12. RealErrorKept'
    BY <1>1, <1>2 DEF IInv, BodyIsTheLast, AskedInOrder, RealErrorKept, Tried
  <1>13. OnErrorOnce'
    <2>1. reply' \in {"upstreamError", "unavailable", "error"}
      BY <1>2
    <2>2. onErrors' = IF \E c \in Channels : calls[c] # <<>> THEN 1 ELSE 0
      BY <1>1, <1>4, <1>6
    <2> QED
      BY <1>1, <2>1, <2>2 DEF OnErrorOnce, ErrorReply
  <1>14. UpstreamErrorIsTheLast'
    BY <1>1, <1>2, <1>3, <1>5 DEF IInv, BodyIsTheLast, KeptWithBody, UpstreamErrorIsTheLast,
                FromUpstream
  <1>15. GivesUpOnlyOnVerdict'
    <2> SUFFICES ASSUME ~ContextDone, ~BudgetError, \E c \in Channels : calls[c] = <<>>,
                        ~OwnTimeout(result.lastErr)
                 PROVE  /\ ctx.status >= 400
                        /\ ctx.status \notin (IF HasRetryOnResponse THEN RetryStatuses
                                             ELSE {429} \cup 500..599)
      BY <1>1, <1>5 DEF GivesUpOnlyOnVerdict, ContextDone, BudgetError, env
    <2> QED
      BY <1>1 DEF IInv, LeftForAReason
  <1> QED
    BY <1>7, <1>8, <1>9, <1>10, <1>11, <1>12, <1>13, <1>14, <1>15 DEF IInv

LEMMA AroundKeeps == IInv /\ (BudgetShrinks \/ ClientLeaves) => IInv'
  <1> SUFFICES ASSUME IInv, BudgetShrinks \/ ClientLeaves PROVE IInv'
    OBVIOUS
  <1>1. /\ UNCHANGED <<pc, pos, probe, ctx, err, resp, result, held, onErrors, calls, tries, reply>>
        /\ pc # "done"
    BY DEF BudgetShrinks, ClientLeaves
  <1>2. /\ budget' \in {"ample", "short", "spent"} /\ client' \in {"here", "gone"}
        /\ BudgetError => BudgetError'
        /\ ContextDone => ContextDone'
    BY DEF IInv, TypeOK, BudgetShrinks, ClientLeaves, BudgetError, ContextDone
  <1>3. TypeOK'
    BY <1>1, <1>2 DEF IInv, TypeOK
  <1>4. AttemptsPaired' /\ SlotWithResponse' /\ SentByAttempt' /\ BodyIsTheLast'
    BY <1>1 DEF IInv, AttemptsPaired, SlotWithResponse, Lease, SentByAttempt, AtChannel,
                AttemptLimit, BodyIsTheLast
  <1>5. ChannelOfContext' /\ AskedInOrder'
    BY <1>1 DEF IInv, ChannelOfContext, AskedInOrder, AtChannel, Tried
  <1>6. CausesHaveReasons' /\ LeftForAReason'
    BY <1>1, <1>2 DEF IInv, CausesHaveReasons, HasReason, LeftForAReason
  <1>7. QuietUntilTheEnd' /\ reply' = "none"
    BY <1>1 DEF IInv, QuietUntilTheEnd
  <1>8. RealErrorKept' /\ OnErrorOnce' /\ UpstreamErrorIsTheLast' /\ GivesUpOnlyOnVerdict'
    BY <1>1, <1>7 DEF RealErrorKept, OnErrorOnce, UpstreamErrorIsTheLast, GivesUpOnlyOnVerdict, ErrorReply
  <1> QED
    BY <1>3, <1>4, <1>5, <1>6, <1>7, <1>8 DEF IInv

LEMMA IdleKeeps == IInv /\ UNCHANGED vars => IInv'
  BY DEF IInv, vars, TypeOK, AttemptsPaired, SlotWithResponse, Lease, SentByAttempt, AtChannel,
         AttemptLimit, ChannelOfContext, AskedInOrder, Tried, BodyIsTheLast, CausesHaveReasons,
         HasReason, OwnTimeout, ContextDone, BudgetError, QuietUntilTheEnd, LeftForAReason, RealErrorKept,
         OnErrorOnce, ErrorReply, UpstreamErrorIsTheLast, GivesUpOnlyOnVerdict

LEMMA StepInvariant == IInv /\ [Next]_vars => IInv'
  <1> SUFFICES ASSUME IInv, [Next]_vars PROVE IInv'
    OBVIOUS
  <1>1. CASE Proceed
    BY <1>1, LeaveLoopKeeps, SkipChannelKeeps, SelectChannelKeeps, GetKeysKeeps,
       CannotPrepareKeeps, StartAttemptKeeps, SendRequestKeeps, FailChannelKeeps, WriteErrorKeeps
       DEF Proceed
  <1>2. CASE Await
    BY <1>2, RunInternalHandlerKeeps, FailAttemptKeeps, RespondKeeps, RejectResponseKeeps,
       ReturnErrorResponseKeeps, AcceptResponseKeeps, WriteResponseKeeps DEF Await
  <1>3. CASE BudgetShrinks \/ ClientLeaves
    BY <1>3, AroundKeeps
  <1>4. CASE UNCHANGED vars
    BY <1>4, IdleKeeps
  <1> QED
    BY <1>1, <1>2, <1>3, <1>4 DEF Next

LEMMA Invariant == Spec => []IInv
  BY InitInvariant, StepInvariant, PTL DEF Spec

-----------------------------------------------------------------------------
(* The theorems.                                                           *)

\* The request's state keeps its types: positions within the channels, keys and
\* attempts there are, and no key slot given back that was not taken.
THEOREM PipelineTypeCorrect == Spec => []TypeOK
  <1>1. IInv => TypeOK
    BY DEF IInv
  <1> QED
    BY <1>1, Invariant, PTL

\* Without RetryOnResponse a request that is over holds no key slot, whatever
\* way it took (newKeyReleaseFunc, attachReleaseOnClose, tryChannels).  With it
\* slots are lost, which a run shows.
THEOREM SlotsAlwaysReturned ==
    ASSUME ~HasRetryOnResponse
    PROVE  Spec => []KeySlotsReturned
  <1>1. IInv => KeySlotsReturned
    BY DEF IInv, SlotWithResponse, Lease, KeySlotsReturned
  <1> QED
    BY <1>1, Invariant, PTL

\* Every attempt the observer hears the start of has exactly one end, on every
\* path out of the attempt loop (tryChannel).
THEOREM AttemptsAlwaysPaired == Spec => []AttemptsPaired
  <1>1. IInv => AttemptsPaired
    BY DEF IInv
  <1> QED
    BY <1>1, Invariant, PTL

\* A channel's real error is not masked by circuits found open after it
\* (tryChannels, writePipelineResponse).
THEOREM RealErrorsAlwaysKept == Spec => []RealErrorKept
  <1>1. IInv => RealErrorKept
    BY DEF IInv
  <1> QED
    BY <1>1, Invariant, PTL

\* An upstream's error response is passed on only as the last word of the last
\* channel tried, never as one left over from before it (tryChannels,
\* writePipelineResponse).
THEOREM ErrorsAreTheLast == Spec => []UpstreamErrorIsTheLast
  <1>1. IInv => UpstreamErrorIsTheLast
    BY DEF IInv
  <1> QED
    BY <1>1, Invariant, PTL

\* OnError hears of a failed request once, and never of another
\* (writePipelineResponse).
THEOREM FailuresReportedOnce == Spec => []OnErrorOnce
  <1>1. IInv => OnErrorOnce
    BY DEF IInv
  <1> QED
    BY <1>1, Invariant, PTL

\* While channels, a client and a budget are left, only an upstream's final
\* verdict ends the request, or one of the timeouts that IsContextDoneError takes
\* for its end: the http.Client's or its transport's, and an attempt timer's that
\* cuts an event stream before its first event (shouldContinueToNextChannel).
THEOREM ChannelsAreUsedUp == Spec => []GivesUpOnlyOnVerdict
  <1>1. IInv => GivesUpOnlyOnVerdict
    BY DEF IInv
  <1> QED
    BY <1>1, Invariant, PTL

\* A half-open probe sends at most one request with each key (tryChannels,
\* tryChannel).
THEOREM ProbesAreShort == Spec => []ProbeTriesKeyOnce
  <1>1. IInv => ProbeTriesKeyOnce
    BY DEF IInv, TypeOK, SentByAttempt, AtChannel, AttemptLimit, ProbeTriesKeyOnce
  <1> QED
    BY <1>1, Invariant, PTL

-----------------------------------------------------------------------------
(* What a request tells the breakers, for any number of channels, keys and *)
(* attempts: the words of each channel's turn, in order.  This is what     *)
(* makes ChannelBreaker's theorems, which are about requests of this form, *)
(* theorems about the pipeline.                                            *)

\* The failure a channel's breaker hears of, if it is told of one.
FailureWord(c) == IF c \in ExemptChannels THEN "exemptFailure" ELSE "failure"

\* The words of a turn that has begun, and of one that is about to end.
Begun(c, s) ==
    /\ s \in Seq(Words) /\ s # <<>>
    /\ s[1] \in {"admitted", "probe", "tracked"}
    /\ s[1] = "tracked" <=> c \in ExemptChannels
    /\ c \in PoolChannels => Len(s) = 1

Running(c, s) == Begun(c, s) /\ \A i \in 2..Len(s) : s[i] = FailureWord(c)

Stopped(c, s) ==
    /\ Begun(c, s)
    /\ \A i \in 2..Len(s) :
         s[i] = FailureWord(c) \/ (i = Len(s) /\ s[i] = "opened" /\ c \notin ExemptChannels)

\* The parts of the invariants that are about one channel's words.
Protocol(s) ==
    s # <<>> =>
        /\ s[1] \in Answers
        /\ \A i \in 2..Len(s) :
             /\ s[i] \in MayTell(s[1])
             /\ i < Len(s) =>
                  \/ s[i] \in {"failure", "exemptFailure"}
                  \/ s[i] = "opened" /\ s[i + 1] = "cancel" /\ i + 1 = Len(s)

JudgedOnce(c, s) == c \in PoolChannels => \A i \in 1..Len(s) : s[i] \in Verdict => i = 2

Resolved(s) == s[1] = "probe" => s[Len(s)] \in {"success", "failure", "opened", "cancel"}

\* The words of the turn the request is in.
TurnWords ==
    AtChannel =>
        /\ Stopped(pos.chan, calls[pos.chan])
        /\ pc # "failed" => Running(pos.chan, calls[pos.chan])
        /\ calls[pos.chan][1] = "probe" <=> probe

\* An accepted response is never held against the channel by its status.
AcceptedStatus == pc \in {"prepare", "writing"} => ctx.status < 400

WordsInv ==
    /\ TurnWords /\ AcceptedStatus
    /\ CallsFollowProtocol /\ ProbeResolved
    /\ \A c \in Channels : JudgedOnce(c, calls[c])

-----------------------------------------------------------------------------
(* Sequences of words.                                                     *)

LEMMA OneWord ==
    ASSUME NEW s \in Seq(Words), s # <<>>, NEW word \in Words
    PROVE  /\ s \o <<word>> \in Seq(Words) /\ s \o <<word>> # <<>>
           /\ Len(s \o <<word>>) = Len(s) + 1
           /\ (s \o <<word>>)[Len(s) + 1] = word
           /\ \A i \in 1..Len(s) : (s \o <<word>>)[i] = s[i]
  <1>1. <<word>> \in Seq(Words) /\ Len(<<word>>) = 1 /\ <<word>>[1] = word
    OBVIOUS
  <1> QED
    BY <1>1

LEMMA NoWord ==
    ASSUME NEW s \in Seq(Words)
    PROVE  s \o <<>> = s
  OBVIOUS

LEMMA WordsOf ==
    /\ "failure" \in Words /\ "exemptFailure" \in Words /\ "opened" \in Words
    /\ "cancel" \in Words /\ "success" \in Words /\ "exemptSuccess" \in Words
  BY DEF Words, Verdict

LEMMA RunningIsStopped ==
    ASSUME NEW c, NEW s, Running(c, s)
    PROVE  Stopped(c, s)
  BY DEF Running, Stopped

LEMMA StoppedKeepsProtocol ==
    ASSUME NEW c, NEW s, Stopped(c, s)
    PROVE  Protocol(s) /\ JudgedOnce(c, s)
  <1>1. s \in Seq(Words) /\ s # <<>> /\ Len(s) \in Nat /\ Len(s) >= 1
    BY DEF Stopped, Begun
  <1>2. s[1] \in Answers /\ s[1] \notin Verdict
    BY DEF Stopped, Begun, Answers, Verdict
  <1>3. ASSUME NEW i \in 2..Len(s)
        PROVE  /\ s[i] \in MayTell(s[1])
               /\ i < Len(s) => s[i] \in {"failure", "exemptFailure"}
    <2>1. CASE c \in ExemptChannels
      BY <1>1, <2>1 DEF Stopped, Begun, FailureWord, MayTell
    <2>2. CASE c \notin ExemptChannels
      BY <1>1, <2>2 DEF Stopped, Begun, FailureWord, MayTell
    <2> QED
      BY <2>1, <2>2
  <1>4. JudgedOnce(c, s)
    BY <1>1, <1>2 DEF JudgedOnce, Stopped, Begun
  <1> QED
    BY <1>2, <1>3, <1>4 DEF Protocol

\* What the verdicts are to a channel's breaker.
LEMMA VerdictsByChannel ==
    ASSUME NEW c, NEW e, NEW status, NEW told \in Verdicts(c, e, status)
    PROVE  \/ told = <<>>
           \/ told = <<FailureWord(c)>>
           \/ told = <<"opened">> /\ c \notin ExemptChannels
  BY DEF Verdicts, FailureWord, IsCircuitBreakerWhitelisted

\* A failed attempt adds at most one word to a turn.
LEMMA AttemptAddsWord ==
    ASSUME NEW c, NEW s, Running(c, s), NEW e, NEW status,
           NEW told \in AttemptVerdicts(c, e, status)
    PROVE  /\ Stopped(c, s \o told)
           /\ told # <<"opened">> => Running(c, s \o told)
           /\ (s \o told)[1] = s[1]
  <1>1. s \in Seq(Words) /\ s # <<>> /\ Len(s) \in Nat /\ Len(s) >= 1
    BY DEF Running, Begun
  <1>2. CASE told = <<>>
    BY <1>1, <1>2, NoWord, RunningIsStopped
  <1>3. CASE told # <<>>
    <2>1. c \notin PoolChannels /\ told \in Verdicts(c, e, status)
      BY <1>3 DEF AttemptVerdicts
    <2>2. PICK word \in Words :
            /\ told = <<word>>
            /\ word = FailureWord(c) \/ (word = "opened" /\ c \notin ExemptChannels)
      BY <1>3, <2>1, VerdictsByChannel, WordsOf DEF FailureWord
    <2> DEFINE t == s \o <<word>>
    <2>3. /\ t \in Seq(Words) /\ t # <<>> /\ Len(t) = Len(s) + 1
          /\ t[Len(s) + 1] = word /\ \A i \in 1..Len(s) : t[i] = s[i]
      BY <1>1, OneWord
    <2> HIDE DEF t
    <2>4. t[1] = s[1] /\ Begun(c, t)
      BY <1>1, <2>1, <2>3 DEF Running, Begun
    <2>5. \A i \in 2..Len(t) : i # Len(t) => t[i] = FailureWord(c)
      <3> SUFFICES ASSUME NEW i \in 2..Len(t), i # Len(t) PROVE t[i] = FailureWord(c)
        OBVIOUS
      <3>1. i \in 2..Len(s) /\ i \in 1..Len(s)
        BY <1>1, <2>3
      <3> QED
        BY <2>3, <3>1 DEF Running
    <2>6. t[Len(t)] = word
      BY <2>3
    <2>7. Stopped(c, t)
      BY <2>2, <2>4, <2>5, <2>6 DEF Stopped
    <2>8. word # "opened" => Running(c, t)
      BY <2>2, <2>4, <2>5, <2>6 DEF Running
    <2>9. told # <<"opened">> => word # "opened"
      BY <2>2
    <2> QED
      BY <2>2, <2>4, <2>7, <2>8, <2>9 DEF t
  <1> QED
    BY <1>2, <1>3

\* What is told when the turn is over: a pool's verdict, and the end of a probe.
LEMMA EndAddsWords ==
    ASSUME NEW c, NEW s, Stopped(c, s), NEW e, NEW status,
           NEW told \in ChannelVerdicts(c, e, status), s[1] = "probe" <=> probe
    PROVE  LET t == s \o (told \o ProbeEnd)
           IN  Protocol(t) /\ JudgedOnce(c, t) /\ Resolved(t)
  <1>1. s \in Seq(Words) /\ s # <<>> /\ Len(s) \in Nat /\ Len(s) >= 1
    BY DEF Stopped, Begun
  <1>2. told = <<>> \/ \E word \in Words : told = <<word>>
    BY VerdictWords, WordsOf DEF ChannelVerdicts
  <1>3. told \in Seq(Words) /\ <<"cancel">> \in Seq(Words)
    <2>1. <<>> \in Seq(Words) /\ (\A word \in Words : <<word>> \in Seq(Words)) /\ "cancel" \in Words
      BY WordsOf
    <2> QED
      BY <1>2, <2>1
  <1> DEFINE u == s \o told
  <1>4. u \in Seq(Words) /\ u # <<>> /\ Len(u) \in Nat /\ Len(u) >= 1 /\ u[1] = s[1]
    BY <1>1, <1>3
  \* A pool's failure is the only word of its turn.
  <1>5. /\ \A i \in 2..Len(u) :
             u[i] = FailureWord(c) \/ (i = Len(u) /\ u[i] = "opened" /\ c \notin ExemptChannels)
        /\ c \in PoolChannels => Len(u) <= 2
    <2>1. CASE told = <<>>
      BY <1>1, <2>1, NoWord DEF Stopped, Begun
    <2>2. CASE told # <<>>
      <3>1. c \in PoolChannels /\ told \in Verdicts(c, e, status) /\ Len(s) = 1
        BY <2>2 DEF ChannelVerdicts, Stopped, Begun
      <3>2. PICK word \in Words :
              /\ told = <<word>>
              /\ word = FailureWord(c) \/ (word = "opened" /\ c \notin ExemptChannels)
        BY <2>2, <3>1, VerdictsByChannel, WordsOf DEF FailureWord
      <3>3. Len(u) = 2 /\ u[2] = word
        <4>1. u = s \o <<word>>
          BY <3>2
        <4>2. Len(s \o <<word>>) = Len(s) + 1 /\ (s \o <<word>>)[Len(s) + 1] = word
          BY <1>1, OneWord
        <4> QED
          BY <3>1, <4>1, <4>2
      <3>4. \A i \in 2..2 : i = 2
        OBVIOUS
      <3> QED
        BY <3>2, <3>3, <3>4
    <2> QED
      BY <2>1, <2>2
  <1>6. /\ u[1] \in {"admitted", "probe", "tracked"}
        /\ u[1] = "tracked" <=> c \in ExemptChannels
    BY <1>4 DEF Stopped, Begun
  <1> HIDE DEF u
  <1>7. u[1] \in Answers /\ u[1] \notin Verdict
    BY <1>6 DEF Answers, Verdict
  <1>8. \A i \in 2..Len(u) :
          /\ u[i] \in MayTell(u[1])
          /\ i < Len(u) => u[i] \in {"failure", "exemptFailure"}
          /\ u[i] \in {"failure", "exemptFailure", "opened"}
    <2> SUFFICES ASSUME NEW i \in 2..Len(u)
                 PROVE  /\ u[i] \in MayTell(u[1])
                        /\ i < Len(u) => u[i] \in {"failure", "exemptFailure"}
                        /\ u[i] \in {"failure", "exemptFailure", "opened"}
      OBVIOUS
    <2>1. CASE c \in ExemptChannels
      BY <1>4, <1>5, <1>6, <2>1 DEF FailureWord, MayTell
    <2>2. CASE c \notin ExemptChannels
      BY <1>4, <1>5, <1>6, <2>2 DEF FailureWord, MayTell
    <2> QED
      BY <2>1, <2>2
  <1>9. CASE ~probe
    <2>1. s \o (told \o ProbeEnd) = u
      BY <1>1, <1>3, <1>9 DEF ProbeEnd, u
    <2>2. Protocol(u)
      BY <1>7, <1>8 DEF Protocol
    <2>4. Resolved(u)
      BY <1>4, <1>9 DEF Resolved
    <2>3. JudgedOnce(c, u)
      BY <1>4, <1>5, <1>7 DEF JudgedOnce
    <2> QED
      BY <2>1, <2>2, <2>3, <2>4
  <1>10. CASE probe
    <2> DEFINE t == u \o <<"cancel">>
    <2>1. s \o (told \o ProbeEnd) = t
      BY <1>1, <1>3, <1>10 DEF ProbeEnd, u
    <2>2. /\ t \in Seq(Words) /\ t # <<>> /\ Len(t) = Len(u) + 1
          /\ t[Len(u) + 1] = "cancel" /\ \A i \in 1..Len(u) : t[i] = u[i]
      BY <1>4, OneWord, WordsOf
    <2> HIDE DEF t
    <2>3. t[1] = "probe"
      BY <1>4, <1>10, <2>2
    <2>4. ASSUME NEW i \in 2..Len(t)
          PROVE  /\ t[i] \in MayTell(t[1])
                 /\ i < Len(t) => \/ t[i] \in {"failure", "exemptFailure"}
                                  \/ t[i] = "opened" /\ t[i + 1] = "cancel" /\ i + 1 = Len(t)
      <3>1. CASE i = Len(t)
        BY <1>4, <2>2, <2>3, <3>1 DEF MayTell
      <3>2. CASE i # Len(t)
        <4>1. i \in 2..Len(u) /\ t[i] = u[i] /\ u[1] = t[1]
          BY <1>4, <2>2, <3>2
        <4>2. t[i] \in MayTell(t[1]) /\ t[i] \in {"failure", "exemptFailure", "opened"}
          BY <1>8, <4>1
        <4>3. i < Len(u) => t[i] \in {"failure", "exemptFailure"}
          BY <1>8, <4>1
        <4>4. i = Len(u) => t[i + 1] = "cancel" /\ i + 1 = Len(t)
          BY <2>2
        <4> QED
          BY <1>4, <4>1, <4>2, <4>3, <4>4
      <3> QED
        BY <3>1, <3>2
    <2>5. Protocol(t) /\ Resolved(t)
      BY <1>4, <2>2, <2>3, <2>4 DEF Protocol, Resolved, Answers
    <2>6. JudgedOnce(c, t)
      <3> SUFFICES ASSUME c \in PoolChannels, NEW i \in 1..Len(t), t[i] \in Verdict PROVE i = 2
        BY DEF JudgedOnce
      <3>1. i # Len(u) + 1
        BY <2>2 DEF Verdict
      <3>2. i # 1
        BY <2>3 DEF Verdict
      <3> QED
        BY <1>4, <1>5, <2>2, <3>1, <3>2
    <2> QED
      BY <2>1, <2>5, <2>6
  <1> QED
    BY <1>9, <1>10

\* What is told when a response was forwarded.
LEMMA VerdictAddsWord ==
    ASSUME NEW c, NEW s, Running(c, s), NEW word \in Words,
           word \in IF c \in ExemptChannels THEN {"exemptSuccess", "exemptFailure"}
                    ELSE {"success", "failure", "opened"}
    PROVE  LET t == s \o <<word>>
           IN  Protocol(t) /\ JudgedOnce(c, t) /\ Resolved(t)
  <1>1. s \in Seq(Words) /\ s # <<>> /\ Len(s) \in Nat /\ Len(s) >= 1
    BY DEF Running, Begun
  <1> DEFINE t == s \o <<word>>
  <1>2. /\ t \in Seq(Words) /\ t # <<>> /\ Len(t) = Len(s) + 1
        /\ t[Len(s) + 1] = word /\ \A i \in 1..Len(s) : t[i] = s[i]
    BY <1>1, OneWord
  <1> HIDE DEF t
  <1>3. t[1] = s[1] /\ t[1] \in Answers /\ t[1] \notin Verdict
    BY <1>1, <1>2 DEF Running, Begun, Answers, Verdict
  <1>4. ASSUME NEW i \in 2..Len(t)
        PROVE  t[i] \in MayTell(t[1]) /\ (i < Len(t) => t[i] \in {"failure", "exemptFailure"})
    <2>1. CASE i = Len(t)
      BY <1>1, <1>2, <1>3, <2>1 DEF Running, Begun, MayTell
    <2>2. CASE i # Len(t)
      <3>1. i \in 2..Len(s) /\ t[i] = s[i]
        BY <1>1, <1>2, <2>2
      <3>2. t[i] = FailureWord(c)
        BY <3>1 DEF Running
      <3> QED
        BY <1>3, <3>2 DEF Running, Begun, MayTell, FailureWord
    <2> QED
      BY <2>1, <2>2
  <1>5. Protocol(t)
    BY <1>3, <1>4 DEF Protocol
  <1>6. JudgedOnce(c, t)
    <2> SUFFICES ASSUME c \in PoolChannels, NEW i \in 1..Len(t), t[i] \in Verdict PROVE i = 2
      BY DEF JudgedOnce
    <2>1. Len(s) = 1
      BY DEF Running, Begun
    <2>2. i # 1
      BY <1>3
    <2> QED
      BY <1>2, <2>1, <2>2
  <1>7. Resolved(t)
    BY <1>1, <1>2, <1>3 DEF Resolved, Running, Begun
  <1> QED
    BY <1>5, <1>6, <1>7 DEF t

-----------------------------------------------------------------------------
(* The steps.                                                              *)

LEMMA ProtocolOfAll == CallsFollowProtocol <=> \A c \in Channels : Protocol(calls[c])
  BY DEF CallsFollowProtocol, Protocol

LEMMA WordsInit == Init => WordsInv
  <1> SUFFICES ASSUME Init PROVE WordsInv
    OBVIOUS
  <1> USE DEF Init
  <1>1. TurnWords /\ AcceptedStatus
    BY DEF TurnWords, AtChannel, AcceptedStatus
  <1>2. CallsFollowProtocol /\ ProbeResolved
    BY DEF CallsFollowProtocol, ProbeResolved
  <1>3. \A c \in Channels : JudgedOnce(c, calls[c])
    BY DEF JudgedOnce
  <1> QED
    BY <1>1, <1>2, <1>3 DEF WordsInv

\* A step within a channel's turn.
LEMMA TurnKeepsWords ==
    ASSUME IInv, WordsInv, AtChannel, AtChannel', UNCHANGED <<probe, reply>>,
           pos'.chan = pos.chan, AcceptedStatus',
           NEW s, Stopped(pos.chan, s), s[1] = calls[pos.chan][1],
           pc' # "failed" => Running(pos.chan, s),
           calls'[pos.chan] = s, \A d \in Channels : d # pos.chan => calls'[d] = calls[d]
    PROVE  WordsInv'
  <1>1. pos.chan \in Channels /\ reply = "none" /\ pc' \notin {"answer", "done"}
    BY DEF IInv, ChannelOfContext, QuietUntilTheEnd, AtChannel
  <1>2. TurnWords'
    BY DEF WordsInv, TurnWords
  <1>3. Protocol(s) /\ JudgedOnce(pos.chan, s)
    BY StoppedKeepsProtocol
  <1>4. \A c \in Channels : Protocol(calls[c])'
    BY <1>3, ProtocolOfAll DEF WordsInv
  <1>5. CallsFollowProtocol'
    BY <1>4 DEF CallsFollowProtocol, Protocol
  <1>6. \A c \in Channels : JudgedOnce(c, calls'[c])
    BY <1>3 DEF WordsInv
  <1>7. ProbeResolved'
    <2> SUFFICES ASSUME NEW c \in Channels, calls'[c] # <<>> /\ calls'[c][1] = "probe", pos.chan > c
                 PROVE  calls'[c][Len(calls'[c])] \in {"success", "failure", "opened", "cancel"}
      BY <1>1 DEF ProbeResolved
    <2>1. calls'[c] = calls[c]
      BY <1>1 DEF Channels
    <2> QED
      BY <1>1, <2>1 DEF WordsInv, ProbeResolved
  <1> QED
    BY <1>2, <1>5, <1>6, <1>7 DEF WordsInv

LEMMA SilentTurnKeepsWords ==
    ASSUME IInv, WordsInv, AtChannel, pc # "failed", AtChannel', UNCHANGED <<probe, reply, calls>>,
           pos'.chan = pos.chan, AcceptedStatus'
    PROVE  WordsInv'
  <1>1. Running(pos.chan, calls[pos.chan])
    BY DEF WordsInv, TurnWords
  <1>2. Stopped(pos.chan, calls[pos.chan])
    BY <1>1, RunningIsStopped
  <1>3. calls'[pos.chan] = calls[pos.chan] /\ \A d \in Channels : d # pos.chan => calls'[d] = calls[d]
    OBVIOUS
  <1> QED
    BY <1>1, <1>2, <1>3, TurnKeepsWords

LEMMA TellingTurnKeepsWords ==
    ASSUME IInv, WordsInv, AtChannel, pc # "failed", AtChannel', UNCHANGED <<probe, reply>>,
           pos'.chan = pos.chan, AcceptedStatus',
           NEW e, NEW status, NEW told \in AttemptVerdicts(pos.chan, e, status),
           Tell(pos.chan, told), pc' # "failed" => told # <<"opened">>
    PROVE  WordsInv'
  <1>1. Running(pos.chan, calls[pos.chan])
    BY DEF WordsInv, TurnWords
  <1>2. pos.chan \in Channels /\ calls \in [Channels -> Seq(Words)]
    BY DEF IInv, TypeOK, Words, ChannelOfContext
  <1>3. told \in Seq(Words)
    BY AttemptVerdictWords
  <1> DEFINE s == calls[pos.chan] \o told
  <1>4. calls'[pos.chan] = s /\ \A d \in Channels : d # pos.chan => calls'[d] = calls[d]
    BY <1>2, <1>3, TellTyped
  <1>5. /\ Stopped(pos.chan, calls[pos.chan] \o told)
        /\ told # <<"opened">> => Running(pos.chan, calls[pos.chan] \o told)
        /\ (calls[pos.chan] \o told)[1] = calls[pos.chan][1]
    <2>1. told \in AttemptVerdicts(pos.chan, e, status)
      OBVIOUS
    <2>2. Stopped(pos.chan, calls[pos.chan] \o told)
      BY <1>1, <2>1, AttemptAddsWord
    <2>3. told # <<"opened">> => Running(pos.chan, calls[pos.chan] \o told)
      BY <1>1, <2>1, AttemptAddsWord
    <2>4. (calls[pos.chan] \o told)[1] = calls[pos.chan][1]
      <3>1. calls[pos.chan] \in Seq(Words) /\ calls[pos.chan] # <<>>
        BY <1>1 DEF Running, Begun
      <3> QED
        BY <1>3, <3>1
    <2> QED
      BY <2>2, <2>3, <2>4
  <1>6. Stopped(pos.chan, s) /\ (told # <<"opened">> => Running(pos.chan, s)) /\ s[1] = calls[pos.chan][1]
    BY <1>5
  <1> HIDE DEF s
  <1> QED
    BY <1>4, <1>6, TurnKeepsWords

LEMMA ProceedKeepsWords ==
    ASSUME IInv, WordsInv, pc \notin {"channel", "failed", "answer"}, Proceed
    PROVE  WordsInv'
  <1> USE DEF AtChannel
  <1>1. CASE GetKeys
    <2>1. /\ pc = "prepare" /\ pc' = "attempt" /\ pos'.chan = pos.chan
          /\ UNCHANGED <<probe, reply, calls>>
      BY <1>1 DEF GetKeys, IInv, TypeOK
    <2>2. AcceptedStatus'
      BY <2>1 DEF AcceptedStatus
    <2> QED
      BY <2>1, <2>2, SilentTurnKeepsWords
  <1>2. CASE CannotPrepare
    <2>1. PICK e \in PrepareErrors :
            \E told \in AttemptVerdicts(pos.chan, e, ctx.status) : Tell(pos.chan, told)
      BY <1>2 DEF CannotPrepare
    <2>2. PICK told \in AttemptVerdicts(pos.chan, e, ctx.status) : Tell(pos.chan, told)
      BY <2>1
    <2>3. pc = "prepare" /\ pc' = "failed" /\ pos' = pos /\ UNCHANGED <<probe, reply>>
      BY <1>2 DEF CannotPrepare, ReturnError
    <2>4. AcceptedStatus'
      BY <2>3 DEF AcceptedStatus
    <2> QED
      BY <2>2, <2>3, <2>4, TellingTurnKeepsWords
  <1>3. CASE StartAttempt
    <2>1. /\ pc = "attempt" /\ pc' \in {"failed", "starting"} /\ pos' = pos
          /\ UNCHANGED <<probe, reply, calls>>
      BY <1>3 DEF StartAttempt, ReturnError
    <2>2. AcceptedStatus'
      BY <2>1 DEF AcceptedStatus
    <2> QED
      BY <2>1, <2>2, SilentTurnKeepsWords
  <1>4. CASE SendRequest
    <2>1. /\ pc = "starting" /\ pc' \in {"failed", "waiting"} /\ pos' = pos
          /\ UNCHANGED <<probe, reply, calls>>
      BY <1>4 DEF SendRequest, ReturnError
    <2>2. AcceptedStatus'
      BY <2>1 DEF AcceptedStatus
    <2> QED
      BY <2>1, <2>2, SilentTurnKeepsWords
  <1> QED
    BY <1>1, <1>2, <1>3, <1>4 DEF Proceed, LeaveLoop, SkipChannel, SelectChannel, FailChannel, WriteError

LEMMA AwaitKeepsWords ==
    ASSUME IInv, WordsInv, Await, pc # "writing"
    PROVE  WordsInv'
  <1> USE DEF AtChannel
  <1>1. CASE RunInternalHandler
    <2>1. pc = "prepare" /\ UNCHANGED <<probe, ctx, reply>>
      BY <1>1 DEF RunInternalHandler
    <2>2. AcceptedStatus'
      BY <2>1 DEF WordsInv, AcceptedStatus
    <2>3. CASE pc' \in {"writing", "failed"} /\ pos' = pos /\ calls' = calls
      BY <2>1, <2>2, <2>3, SilentTurnKeepsWords
    <2>4. ASSUME NEW e, ReturnError(e, 0),
                 NEW told \in AttemptVerdicts(pos.chan, e, ctx.status), Tell(pos.chan, told)
          PROVE  WordsInv'
      <3>1. pc' = "failed" /\ pos' = pos
        BY <2>4 DEF ReturnError
      <3> QED
        BY <2>1, <2>2, <2>4, <3>1, TellingTurnKeepsWords
    <2> QED
      BY <1>1, <2>3, <2>4 DEF RunInternalHandler, ReturnError
  <1>2. CASE FailAttempt
    <2>1. pc = "waiting" /\ UNCHANGED <<probe, ctx, reply>>
      BY <1>2 DEF FailAttempt
    <2>2. PICK e \in AttemptErrors : \E told \in AttemptVerdicts(pos.chan, e, ctx.status) :
            /\ Tell(pos.chan, told)
            /\ \/ EndsTurn(e, told) /\ ReturnError(e, 1)
               \/ ~EndsTurn(e, told) /\ (NextAttempt \/ NextKey(e))
      BY <1>2 DEF FailAttempt
    <2>3. PICK told \in AttemptVerdicts(pos.chan, e, ctx.status) :
            /\ Tell(pos.chan, told)
            /\ \/ EndsTurn(e, told) /\ ReturnError(e, 1)
               \/ ~EndsTurn(e, told) /\ (NextAttempt \/ NextKey(e))
      BY <2>2
    <2>4. pc' \in {"attempt", "failed"} /\ pos'.chan = pos.chan
      BY <2>3 DEF ReturnError, NextAttempt, NextKey, IInv, TypeOK
    <2>5. pc' # "failed" => told # <<"opened">>
      BY <2>3 DEF ReturnError, EndsTurn
    <2>6. AcceptedStatus'
      BY <2>4 DEF AcceptedStatus
    <2> QED
      BY <2>1, <2>3, <2>4, <2>5, <2>6, TellingTurnKeepsWords
  <1>3. CASE Respond
    <2>1. pc = "waiting" /\ pc' = "judging" /\ pos' = pos /\ UNCHANGED <<probe, reply, calls>>
      BY <1>3 DEF Respond
    <2>2. AcceptedStatus'
      BY <2>1 DEF AcceptedStatus
    <2> QED
      BY <2>1, <2>2, SilentTurnKeepsWords
  <1>4. CASE RejectResponse
    <2>1. pc = "judging" /\ UNCHANGED <<probe, reply>>
      BY <1>4 DEF RejectResponse
    <2>2. PICK e \in Rejections(resp) : \E told \in AttemptVerdicts(pos.chan, e, resp.status) :
            /\ Tell(pos.chan, told)
            /\ \/ told = <<"opened">> /\ ReturnError(e, 1)
               \/ told # <<"opened">> /\ (NextAttempt \/ NextKey(e))
      BY <1>4 DEF RejectResponse
    <2>3. PICK told \in AttemptVerdicts(pos.chan, e, resp.status) :
            /\ Tell(pos.chan, told)
            /\ \/ told = <<"opened">> /\ ReturnError(e, 1)
               \/ told # <<"opened">> /\ (NextAttempt \/ NextKey(e))
      BY <2>2
    <2>4. pc' \in {"attempt", "failed"} /\ pos'.chan = pos.chan
      BY <2>3 DEF ReturnError, NextAttempt, NextKey, IInv, TypeOK
    <2>5. pc' # "failed" => told # <<"opened">>
      BY <2>3 DEF ReturnError
    <2>6. AcceptedStatus'
      BY <2>4 DEF AcceptedStatus
    <2> QED
      BY <2>1, <2>3, <2>4, <2>5, <2>6, TellingTurnKeepsWords
  <1>5. CASE ReturnErrorResponse
    <2>1. pc = "judging" /\ pc' = "failed" /\ pos' = pos /\ UNCHANGED <<probe, reply>>
      BY <1>5 DEF ReturnErrorResponse, ReturnError
    <2>2. PICK told \in AttemptVerdicts(pos.chan, Failure("status"), resp.status) :
            Tell(pos.chan, told)
      BY <1>5 DEF ReturnErrorResponse
    <2>3. AcceptedStatus'
      BY <2>1 DEF AcceptedStatus
    <2> QED
      BY <2>1, <2>2, <2>3, TellingTurnKeepsWords
  <1>6. CASE AcceptResponse
    <2>1. /\ pc = "judging" /\ pc' = "writing" /\ pos' = pos /\ UNCHANGED <<probe, reply, calls>>
          /\ resp.status < 400 /\ ctx' = [ctx EXCEPT !.status = resp.status]
      BY <1>6 DEF AcceptResponse
    <2>2. ctx \in [channel : 0..NumChannels, status : Statuses \cup {0}, body : BOOLEAN]
      BY DEF IInv, TypeOK
    <2>3. AcceptedStatus'
      BY <2>1, <2>2 DEF AcceptedStatus
    <2> QED
      BY <2>1, <2>3, SilentTurnKeepsWords
  <1> QED
    BY <1>1, <1>2, <1>3, <1>4, <1>5, <1>6 DEF Await, WriteResponse

\* A step between two turns, or out of the last one, leaves every channel with
\* words of the protocol, and those it has gone past with the end of their probe.
LEMMA BetweenTurnsKeepsWords ==
    ASSUME ~AtChannel', \A c \in Channels : Protocol(calls'[c]) /\ JudgedOnce(c, calls'[c]),
           ProbeResolved'
    PROVE  WordsInv'
  <1>1. TurnWords' /\ AcceptedStatus'
    BY DEF TurnWords, AcceptedStatus, AtChannel
  <1>2. CallsFollowProtocol'
    BY DEF CallsFollowProtocol, Protocol
  <1> QED
    BY <1>1, <1>2 DEF WordsInv

LEMMA ProtocolNow ==
    ASSUME WordsInv
    PROVE  \A c \in Channels : Protocol(calls[c]) /\ JudgedOnce(c, calls[c])
  BY ProtocolOfAll DEF WordsInv

\* A channel gone past has its probe resolved.
LEMMA ResolvedBefore ==
    ASSUME WordsInv, reply # "cut", NEW c \in Channels, calls[c] # <<>>,
           pos.chan > c \/ pc \in {"answer", "done"}
    PROVE  Resolved(calls[c])
  BY DEF WordsInv, ProbeResolved, Resolved

\* The words of a channel that was just asked.
LEMMA AskKeepsProtocol ==
    ASSUME NEW c, NEW word \in Answers
    PROVE  Protocol(<<word>>) /\ JudgedOnce(c, <<word>>)
  <1>1. Len(<<word>>) = 1 /\ <<word>>[1] = word /\ word \notin Verdict
    BY DEF Answers, Verdict
  <1> QED
    BY <1>1 DEF Protocol, JudgedOnce

LEMMA SkipKeepsWords ==
    ASSUME IInv, WordsInv, SkipChannel
    PROVE  WordsInv'
  <1>1. /\ pc = "channel" /\ pos.chan <= NumChannels /\ Tell(pos.chan, <<"denied">>)
        /\ pos' = [pos EXCEPT !.chan = @ + 1] /\ UNCHANGED <<pc, reply>>
    BY DEF SkipChannel
  <1>2. "denied" \in Words /\ "denied" \in Answers
    BY DEF Words, Answers
  <1>3. /\ pos.chan \in Channels
        /\ calls'[pos.chan] = <<"denied">>
        /\ \A d \in Channels : d # pos.chan => calls'[d] = calls[d]
    BY <1>1, <1>2, AskTyped
  <1>4. pos'.chan = pos.chan + 1
    BY <1>1 DEF IInv, TypeOK
  <1>5. \A c \in Channels : Protocol(calls'[c]) /\ JudgedOnce(c, calls'[c])
    BY <1>2, <1>3, AskKeepsProtocol, ProtocolNow
  <1>6. ProbeResolved'
    <2> SUFFICES ASSUME NEW c \in Channels, calls'[c] # <<>> /\ calls'[c][1] = "probe", pos'.chan > c
                 PROVE  calls'[c][Len(calls'[c])] \in {"success", "failure", "opened", "cancel"}
      BY <1>1 DEF ProbeResolved
    <2>1. c # pos.chan
      BY <1>3
    <2>2. c < pos.chan /\ calls'[c] = calls[c] /\ reply = "none"
      BY <1>1, <1>3, <1>4, <2>1 DEF Channels, IInv, QuietUntilTheEnd
    <2> QED
      BY <2>2, ResolvedBefore DEF Resolved
  <1>7. ~AtChannel'
    BY <1>1 DEF AtChannel
  <1> QED
    BY <1>5, <1>6, <1>7, BetweenTurnsKeepsWords

LEMMA SelectKeepsWords ==
    ASSUME IInv, WordsInv, SelectChannel
    PROVE  WordsInv'
  <1>1. /\ pc = "channel" /\ pos.chan <= NumChannels /\ pc' = "prepare"
        /\ ctx'.status = 0 /\ UNCHANGED <<pos, reply>>
    BY DEF SelectChannel
  <1>2. PICK word \in {"admitted", "probe", "tracked"} :
          /\ Tell(pos.chan, <<word>>)
          /\ probe' = (word = "probe")
          /\ word = "tracked" <=> pos.chan \in ExemptChannels
    BY DEF SelectChannel, IsCircuitBreakerWhitelisted
  <1>3. word \in Words /\ word \in Answers
    BY DEF Words, Answers
  <1>4. /\ pos.chan \in Channels
        /\ calls'[pos.chan] = <<word>>
        /\ \A d \in Channels : d # pos.chan => calls'[d] = calls[d]
    BY <1>1, <1>2, <1>3, AskTyped
  <1>5. <<word>> \in Seq(Words) /\ Len(<<word>>) = 1 /\ <<word>>[1] = word /\ <<word>> # <<>>
    BY <1>3
  <1>6. Running(pos.chan, <<word>>)
    BY <1>2, <1>5 DEF Running, Begun
  <1>7. Stopped(pos.chan, <<word>>)
    BY <1>6, RunningIsStopped
  <1>8. TurnWords'
    BY <1>1, <1>2, <1>4, <1>5, <1>6, <1>7 DEF TurnWords
  <1>9. AcceptedStatus'
    BY <1>1 DEF AcceptedStatus
  <1>10. \A c \in Channels : Protocol(calls'[c]) /\ JudgedOnce(c, calls'[c])
    BY <1>3, <1>4, AskKeepsProtocol, ProtocolNow
  <1>11. CallsFollowProtocol'
    BY <1>10 DEF CallsFollowProtocol, Protocol
  <1>12. ProbeResolved'
    <2> SUFFICES ASSUME NEW c \in Channels, calls'[c] # <<>> /\ calls'[c][1] = "probe", pos.chan > c
                 PROVE  calls'[c][Len(calls'[c])] \in {"success", "failure", "opened", "cancel"}
      BY <1>1 DEF ProbeResolved
    <2>1. calls'[c] = calls[c] /\ reply = "none"
      BY <1>1, <1>4 DEF Channels, IInv, QuietUntilTheEnd
    <2> QED
      BY <2>1, ResolvedBefore DEF Resolved
  <1> QED
    BY <1>8, <1>9, <1>10, <1>11, <1>12 DEF WordsInv

LEMMA LeaveKeepsWords ==
    ASSUME IInv, WordsInv, LeaveLoop
    PROVE  WordsInv'
  <1>1. pc = "channel" /\ pc' = "answer" /\ UNCHANGED <<pos, calls, reply>>
    BY DEF LeaveLoop
  <1>2. ProbeResolved'
    <2> SUFFICES ASSUME NEW c \in Channels, calls[c] # <<>> /\ calls[c][1] = "probe"
                 PROVE  calls[c][Len(calls[c])] \in {"success", "failure", "opened", "cancel"}
      BY <1>1 DEF ProbeResolved
    <2>1. pos.chan \in Nat /\ c \in Nat
      BY DEF IInv, TypeOK, Channels
    <2>2. c < pos.chan /\ reply = "none"
      BY <1>1, <2>1 DEF IInv, AskedInOrder, QuietUntilTheEnd
    <2> QED
      BY <2>1, <2>2, ResolvedBefore DEF Resolved
  <1>3. \A c \in Channels : Protocol(calls'[c]) /\ JudgedOnce(c, calls'[c])
    BY <1>1, ProtocolNow
  <1> QED
    BY <1>1, <1>2, <1>3, BetweenTurnsKeepsWords DEF AtChannel

\* The end of a turn: the channel it was gets its last words.
LEMMA EndOfTurnKeepsWords ==
    ASSUME IInv, WordsInv, AtChannel, ~AtChannel',
           NEW s, Protocol(s), JudgedOnce(pos.chan, s), Resolved(s) \/ reply' = "cut",
           calls'[pos.chan] = s, \A d \in Channels : d # pos.chan => calls'[d] = calls[d],
           pos'.chan = pos.chan \/ (pos'.chan = pos.chan + 1 /\ reply' # "cut")
    PROVE  WordsInv'
  <1>1. /\ pos.chan \in Channels /\ pos.chan \in Nat /\ reply = "none"
        /\ \A c \in Channels : c \in Nat
    BY DEF AtChannel, IInv, ChannelOfContext, QuietUntilTheEnd, Channels
  <1>2. \A c \in Channels : Protocol(calls'[c]) /\ JudgedOnce(c, calls'[c])
    BY ProtocolNow
  <1>3. ProbeResolved'
    <2> SUFFICES ASSUME NEW c \in Channels, calls'[c] # <<>> /\ calls'[c][1] = "probe",
                        ~(reply' = "cut" /\ c = pos'.chan)
                 PROVE  calls'[c][Len(calls'[c])] \in {"success", "failure", "opened", "cancel"}
      BY DEF ProbeResolved
    <2>1. CASE c = pos.chan
      BY <2>1 DEF Resolved
    <2>2. CASE c # pos.chan
      <3>1. calls'[c] = calls[c] /\ c < pos.chan
        BY <1>1, <2>2 DEF IInv, AskedInOrder
      <3> QED
        BY <1>1, <3>1, ResolvedBefore DEF Resolved
    <2> QED
      BY <2>1, <2>2
  <1> QED
    BY <1>2, <1>3, BetweenTurnsKeepsWords

LEMMA FailChannelKeepsWords ==
    ASSUME IInv, WordsInv, FailChannel
    PROVE  WordsInv'
  <1> DEFINE status == IF resp = NoResponse THEN ctx.status ELSE resp.status
  <1>1. pc = "failed" /\ pc' \in {"channel", "answer"} /\ UNCHANGED reply /\ AtChannel /\ ~AtChannel'
    BY DEF FailChannel, AtChannel
  <1>2. PICK told \in ChannelVerdicts(pos.chan, err, status) : Tell(pos.chan, told \o ProbeEnd)
    BY DEF FailChannel
  <1> HIDE DEF status
  <1>3. pos.chan \in Channels /\ calls \in [Channels -> Seq(Words)] /\ reply = "none"
    BY <1>1 DEF IInv, TypeOK, Words, ChannelOfContext, QuietUntilTheEnd
  <1>4. told \o ProbeEnd \in Seq(Words)
    BY ChannelVerdictWords
  <1>5. /\ calls'[pos.chan] = calls[pos.chan] \o (told \o ProbeEnd)
        /\ \A d \in Channels : d # pos.chan => calls'[d] = calls[d]
    BY <1>2, <1>3, <1>4, TellTyped
  <1>6. Stopped(pos.chan, calls[pos.chan]) /\ (calls[pos.chan][1] = "probe" <=> probe)
    BY <1>1 DEF WordsInv, TurnWords
  <1> DEFINE s == calls[pos.chan] \o (told \o ProbeEnd)
  <1>7. Protocol(s) /\ JudgedOnce(pos.chan, s) /\ Resolved(s)
    BY <1>6, EndAddsWords
  <1>8. calls'[pos.chan] = s
    BY <1>5
  <1>9. pos'.chan = pos.chan \/ pos'.chan = pos.chan + 1
    BY DEF FailChannel, IInv, TypeOK
  <1> HIDE DEF s
  <1> QED
    BY <1>1, <1>3, <1>5, <1>7, <1>8, <1>9, EndOfTurnKeepsWords

LEMMA WriteResponseKeepsWords ==
    ASSUME IInv, WordsInv, WriteResponse
    PROVE  WordsInv'
  <1>1. pc = "writing" /\ pc' = "done" /\ pos' = pos /\ AtChannel /\ ~AtChannel'
    BY DEF WriteResponse, AtChannel
  <1>2. pos.chan \in Channels /\ calls \in [Channels -> Seq(Words)]
    BY <1>1 DEF IInv, TypeOK, Words, ChannelOfContext
  <1>3. Running(pos.chan, calls[pos.chan]) /\ ctx.status < 400
    BY <1>1 DEF WordsInv, TurnWords, AcceptedStatus
  <1>4. PICK how \in Streamings :
          /\ reply' = how
          /\ \E told \in CASE how = "complete" ->
                               {<<IF IsCircuitBreakerWhitelisted(pos.chan) THEN "exemptSuccess" ELSE "success">>}
                           [] how = "broken" -> Verdicts(pos.chan, Failure("network"), ctx.status)
                           [] how = "cut" -> {<<>>} :
               Tell(pos.chan, told)
    BY DEF WriteResponse
  \* A word for the response that was forwarded, or was broken off.
  <1>5. ASSUME NEW word \in Words, Tell(pos.chan, <<word>>),
               word \in IF pos.chan \in ExemptChannels THEN {"exemptSuccess", "exemptFailure"}
                        ELSE {"success", "failure", "opened"}
        PROVE  WordsInv'
    <2>1. <<word>> \in Seq(Words)
      OBVIOUS
    <2>2. /\ calls'[pos.chan] = calls[pos.chan] \o <<word>>
          /\ \A d \in Channels : d # pos.chan => calls'[d] = calls[d]
      BY <1>2, <1>5, <2>1, TellTyped
    <2> DEFINE s == calls[pos.chan] \o <<word>>
    <2>3. Protocol(s) /\ JudgedOnce(pos.chan, s) /\ Resolved(s)
      BY <1>3, <1>5, VerdictAddsWord
    <2>4. calls'[pos.chan] = s
      BY <2>2
    <2> HIDE DEF s
    <2> QED
      BY <1>1, <2>2, <2>3, <2>4, EndOfTurnKeepsWords
  <1>6. CASE how = "complete"
    BY <1>4, <1>5, <1>6, WordsOf DEF IsCircuitBreakerWhitelisted
  <1>7. CASE how = "broken"
    <2>1. ShouldCount(Failure("network"), ctx.status) /\ ~IsContextDoneError(Failure("network"))
      BY <1>3 DEF ShouldCount, IsRetryableError, IsContextDoneError, IsPoolExhaustedError, Failure
    <2>2. Verdicts(pos.chan, Failure("network"), ctx.status) =
            IF pos.chan \in ExemptChannels THEN {<<"exemptFailure">>} ELSE {<<"failure">>, <<"opened">>}
      BY <2>1 DEF Verdicts, IsCircuitBreakerWhitelisted
    <2>3. PICK told \in Verdicts(pos.chan, Failure("network"), ctx.status) : Tell(pos.chan, told)
      BY <1>4, <1>7
    <2> QED
      BY <1>5, <2>2, <2>3, WordsOf
  <1>8. CASE how = "cut"
    <2>1. Tell(pos.chan, <<>>) /\ <<>> \in Seq(Words) /\ reply' = "cut"
      BY <1>4, <1>8
    <2>2. /\ calls'[pos.chan] = calls[pos.chan]
          /\ \A d \in Channels : d # pos.chan => calls'[d] = calls[d]
      <3>1. /\ calls'[pos.chan] = calls[pos.chan] \o <<>>
            /\ \A d \in Channels : d # pos.chan => calls'[d] = calls[d]
        BY <1>2, <2>1, TellTyped
      <3>2. calls[pos.chan] \in Seq(Words)
        BY <1>2
      <3> QED
        BY <3>1, <3>2, NoWord
    <2>3. Protocol(calls[pos.chan]) /\ JudgedOnce(pos.chan, calls[pos.chan])
      BY <1>2, ProtocolNow
    <2> QED
      BY <1>1, <2>1, <2>2, <2>3, EndOfTurnKeepsWords
  <1> QED
    BY <1>4, <1>6, <1>7, <1>8 DEF Streamings

LEMMA WriteErrorKeepsWords ==
    ASSUME IInv, WordsInv, WriteError
    PROVE  WordsInv'
  <1>1. pc = "answer" /\ pc' = "done" /\ UNCHANGED <<pos, calls>>
    BY DEF WriteError
  <1>2. ProbeResolved'
    <2>1. reply = "none"
      BY <1>1 DEF IInv, QuietUntilTheEnd
    <2> QED
      BY <1>1, <2>1 DEF WordsInv, ProbeResolved
  <1>3. \A c \in Channels : Protocol(calls'[c]) /\ JudgedOnce(c, calls'[c])
    BY <1>1, ProtocolNow
  <1> QED
    BY <1>1, <1>2, <1>3, BetweenTurnsKeepsWords DEF AtChannel

LEMMA WordsStep == IInv /\ WordsInv /\ [Next]_vars => WordsInv'
  <1> SUFFICES ASSUME IInv, WordsInv, [Next]_vars PROVE WordsInv'
    OBVIOUS
  <1>1. CASE Proceed
    <2>1. CASE pc \notin {"channel", "failed", "answer"}
      BY <1>1, <2>1, ProceedKeepsWords
    <2>2. CASE pc \in {"channel", "failed", "answer"}
      <3>1. LeaveLoop \/ SkipChannel \/ SelectChannel \/ FailChannel \/ WriteError
        BY <1>1, <2>2 DEF Proceed, GetKeys, CannotPrepare, StartAttempt, SendRequest
      <3> QED
        BY <3>1, LeaveKeepsWords, SkipKeepsWords, SelectKeepsWords, FailChannelKeepsWords,
           WriteErrorKeepsWords
    <2> QED
      BY <2>1, <2>2
  <1>2. CASE Await
    <2>1. CASE pc # "writing"
      BY <1>2, <2>1, AwaitKeepsWords
    <2>2. CASE pc = "writing"
      <3>1. WriteResponse
        BY <1>2, <2>2 DEF Await, RunInternalHandler, FailAttempt, Respond, RejectResponse,
                          ReturnErrorResponse, AcceptResponse
      <3> QED
        BY <3>1, WriteResponseKeepsWords
    <2> QED
      BY <2>1, <2>2
  <1>3. CASE UNCHANGED <<pc, pos, probe, ctx, calls, reply>>
    BY <1>3 DEF WordsInv, TurnWords, AtChannel, AcceptedStatus, CallsFollowProtocol, ProbeResolved
  <1> QED
    BY <1>1, <1>2, <1>3 DEF Next, BudgetShrinks, ClientLeaves, vars

LEMMA WordsInvariant == Spec => []WordsInv
  BY WordsInit, WordsStep, Invariant, PTL DEF Spec

-----------------------------------------------------------------------------
(* The theorems.                                                           *)

\* What a request tells each breaker, and in which order, is what the breaker's
\* model takes requests to do: verdicts only after a yes, one success at most
\* and last, nothing after the circuit opened but a probe's end
\* (tryChannels, tryChannel, recordCircuitFailure, recordChannelSuccess).
THEOREM CallsAlwaysFollowProtocol == Spec => []CallsFollowProtocol
  <1>1. WordsInv => CallsFollowProtocol
    BY DEF WordsInv
  <1> QED
    BY <1>1, WordsInvariant, PTL

\* A channel that was probed hears how it went or gets the half-open slot back,
\* on every way out but a body cut by the request's own context (tryChannels'
\* CancelProbe).
THEOREM ProbesAlwaysResolved == Spec => []ProbeResolved
  <1>1. WordsInv => ProbeResolved
    BY DEF WordsInv
  <1> QED
    BY <1>1, WordsInvariant, PTL

\* A pool's breaker hears one verdict of a request, however many keys it has
\* (tryChannel's isPoolChannel, tryChannels).
THEOREM PoolsJudgedOnce == Spec => []PoolJudgedOnce
  <1>1. IInv /\ WordsInv => PoolJudgedOnce
    <2> SUFFICES ASSUME IInv, WordsInv, NEW c \in PoolChannels
                 PROVE  Cardinality({i \in DOMAIN calls[c] : calls[c][i] \in Verdict}) <= 1
      BY DEF PoolJudgedOnce
    <2> DEFINE verdicts == {i \in DOMAIN calls[c] : calls[c][i] \in Verdict}
    <2>1. c \in Channels
      BY ConfigAssumption
    <2>2. JudgedOnce(c, calls[c])
      BY <2>1 DEF WordsInv
    <2>3. calls[c] \in Seq(Words)
      BY <2>1 DEF IInv, TypeOK, Words
    <2>4. verdicts = {} \/ verdicts = {2}
      <3>1. DOMAIN calls[c] = 1..Len(calls[c])
        BY <2>3
      <3> QED
        BY <2>2, <3>1 DEF JudgedOnce
    <2>5. Cardinality({}) = 0 /\ Cardinality({2}) = 1
      BY FS_EmptySet, FS_Singleton
    <2> QED
      BY <2>4, <2>5
  <1> QED
    BY <1>1, Invariant, WordsInvariant, PTL
=============================================================================
