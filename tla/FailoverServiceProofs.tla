------------------------ MODULE FailoverServiceProofs ------------------------
(***************************************************************************)
(* What FailoverService keeps true, for any number of channels, keys,      *)
(* attempts and requests, and any configuration of the breakers.           *)
(***************************************************************************)
EXTENDS FailoverService, FailoverPipelineProofs, CircuitStateProofs

\* The channel a step of the pipeline is about, and the words it adds to calls.
Here == IF pos.chan \in Channels THEN pos.chan ELSE NumChannels
Added(c) == SubSeq(calls'[c], Len(calls[c]) + 1, Len(calls'[c]))

-----------------------------------------------------------------------------
(* What a step of the pipeline tells the breaker of its channel.           *)

LEMMA HereIsChannel == Here \in Channels
  BY CountsAssumption DEF Here, Channels

LEMMA AddedNothing ==
    ASSUME calls \in [Channels -> Seq(Words)], NEW c \in Channels, calls'[c] = calls[c]
    PROVE  Added(c) = <<>>
  BY DEF Added

LEMMA AddedTold ==
    ASSUME calls \in [Channels -> Seq(Words)], NEW c \in Channels, NEW told \in Seq(Words),
           Tell(c, told)
    PROVE  Added(c) = told
  <1>1. calls[c] \in Seq(Words) /\ calls'[c] = calls[c] \o told
    BY TellTyped
  <1>2. Len(calls[c]) \in Nat /\ Len(told) \in Nat /\ Len(calls'[c]) = Len(calls[c]) + Len(told)
    BY <1>1
  <1>3. Added(c) \in Seq(Words) /\ Len(Added(c)) = Len(told)
    BY <1>1, <1>2 DEF Added
  <1>4. \A i \in 1..Len(told) : Added(c)[i] = told[i]
    BY <1>1, <1>2 DEF Added
  <1> QED
    BY <1>3, <1>4, SeqEqual

\* The request passes a channel, or is let in.
Asks(c, words) ==
    /\ pc = "channel" /\ pos.chan = c /\ calls[c] = <<>>
    /\ \/ /\ words = <<"denied">> /\ c \notin ExemptChannels
          /\ pc' = "channel" /\ pos'.chan = c + 1 /\ probe' = probe
       \/ /\ words \in {<<"admitted">>, <<"probe">>, <<"tracked">>}
          /\ words = <<"tracked">> <=> c \in ExemptChannels
          /\ probe' = (words = <<"probe">>)
          /\ pc' = "prepare" /\ pos' = pos

\* The turn ends with the request's context or its budget.
EndsForReason == IsContextDoneError(err') /\ (ContextDone \/ BudgetError)

\* It is at the channel and stays there; one that was let down tells so at once
\* or, in a pool, later.
TakesTurn(c, words) ==
    /\ AtChannel /\ pc \notin {"failed", "writing"} /\ AtChannel' /\ pos.chan = c /\ pos'.chan = c
    /\ UNCHANGED <<probe, reply>>
    /\ words # <<>> =>
         /\ words \in {<<FailureWord(c)>>, <<"opened">>}
         /\ words = <<"opened">> => pc' = "failed" /\ c \notin ExemptChannels
         /\ c \notin PoolChannels
         /\ LetDown /\ (pc' = "failed" => ~IsContextDoneError(err'))
    /\ pc' = "failed" => LetDown \/ EndsForReason

\* It leaves the channel after errors.
Leaves(c, words) ==
    /\ pc = "failed" /\ pc' \in {"channel", "answer"} /\ pos.chan = c
    /\ \E told \in {<<>>, <<FailureWord(c)>>, <<"opened">>} :
         /\ words = told \o ProbeEnd
         /\ told # <<>> => c \in PoolChannels /\ ~IsContextDoneError(err)
         /\ told = <<"opened">> => c \notin ExemptChannels
    /\ UNCHANGED <<probe, reply>>

\* It forwards the channel's response.
Forwards(c, words) ==
    /\ pc = "writing" /\ pc' = "done" /\ pos.chan = c /\ pos' = pos /\ probe' = probe
    /\ \/ words = <<>> /\ reply' = "cut"
       \/ /\ words = <<IF c \in ExemptChannels THEN "exemptSuccess" ELSE "success">>
          /\ reply' = "complete"
       \/ /\ words \in {<<FailureWord(c)>>, <<"opened">>} /\ reply' = "broken"
          /\ words = <<"opened">> => c \notin ExemptChannels

\* It does something that is no channel's business.
KeepsSilent(words) ==
    /\ words = <<>> /\ probe' = probe /\ pos' = pos
    /\ \/ pc' = pc /\ reply' = reply
       \/ pc = "channel" /\ pc' = "answer" /\ (pos.chan > NumChannels \/ BudgetError)
       \/ pc = "answer" /\ pc' = "done"

StepTells(c, words) ==
    Asks(c, words) \/ TakesTurn(c, words) \/ Leaves(c, words) \/ Forwards(c, words) \/ KeepsSilent(words)

LEMMA AskTells ==
    ASSUME IInv, SkipChannel \/ SelectChannel
    PROVE  Asks(Here, Added(Here))
  <1>1. pc = "channel" /\ pos.chan <= NumChannels /\ pos.chan \in Channels
    BY DEF SkipChannel, SelectChannel, IInv, TypeOK, Channels
  <1>2. Here = pos.chan /\ calls[pos.chan] = <<>> /\ calls \in [Channels -> Seq(Words)]
    BY <1>1 DEF Here, IInv, TypeOK, AskedInOrder, Words
  <1>3. PICK word \in {"denied", "admitted", "probe", "tracked"} :
          /\ Tell(pos.chan, <<word>>)
          /\ \/ /\ word = "denied" /\ pos.chan \notin ExemptChannels
                /\ pc' = pc /\ pos' = [pos EXCEPT !.chan = @ + 1] /\ probe' = probe
             \/ /\ word # "denied" /\ (word = "tracked" <=> pos.chan \in ExemptChannels)
                /\ probe' = (word = "probe") /\ pc' = "prepare" /\ pos' = pos
    BY DEF SkipChannel, SelectChannel, IsCircuitBreakerWhitelisted
  <1>4. <<word>> \in Seq(Words)
    BY DEF Words, Answers
  <1>5. Added(pos.chan) = <<word>>
    BY <1>1, <1>2, <1>3, <1>4, AddedTold
  <1>6. pos \in [chan : 1..(NumChannels + 1), key : 0..NumKeys, attempt : 0..MaxAttempts]
    BY DEF IInv, TypeOK
  <1> QED
    BY <1>1, <1>2, <1>3, <1>5, <1>6 DEF Asks

LEMMA AtChannelHere ==
    ASSUME IInv, AtChannel
    PROVE  Here = pos.chan /\ pos.chan \in Channels /\ calls \in [Channels -> Seq(Words)]
  BY DEF IInv, TypeOK, ChannelOfContext, Here, Words

\* A failed attempt, or a turn that cannot begin.
LEMMA FailureTells ==
    ASSUME IInv, AtChannel, pc \notin {"failed", "writing"}, AtChannel', pos'.chan = pos.chan,
           UNCHANGED <<probe, reply>>,
           NEW e, NEW status, NEW told \in AttemptVerdicts(pos.chan, e, status),
           Tell(pos.chan, told), told = <<"opened">> => pc' = "failed",
           LetDown, pc' = "failed" => err' = e
    PROVE  TakesTurn(Here, Added(Here))
  <1>1. Here = pos.chan /\ pos.chan \in Channels /\ calls \in [Channels -> Seq(Words)]
    BY AtChannelHere
  <1>2. Added(pos.chan) = told
    BY <1>1, AttemptVerdictWords, AddedTold
  <1>3. told # <<>> => /\ told \in {<<FailureWord(pos.chan)>>, <<"opened">>}
                       /\ told = <<"opened">> => pos.chan \notin ExemptChannels
                       /\ pos.chan \notin PoolChannels /\ ~IsContextDoneError(e)
    BY DEF AttemptVerdicts, Verdicts, FailureWord, IsCircuitBreakerWhitelisted
  <1> QED
    BY <1>1, <1>2, <1>3 DEF TakesTurn

LEMMA SilenceTells ==
    ASSUME IInv, AtChannel, pc \notin {"failed", "writing"}, AtChannel', pos'.chan = pos.chan,
           UNCHANGED <<probe, reply, calls>>,
           pc' = "failed" => LetDown \/ EndsForReason
    PROVE  TakesTurn(Here, Added(Here))
  BY AtChannelHere, AddedNothing DEF TakesTurn

LEMMA TurnTells ==
    ASSUME IInv, \/ GetKeys \/ CannotPrepare \/ StartAttempt \/ SendRequest
                 \/ RunInternalHandler \/ FailAttempt \/ Respond
                 \/ RejectResponse \/ ReturnErrorResponse \/ AcceptResponse
    PROVE  TakesTurn(Here, Added(Here))
  <1> USE DEF AtChannel
  <1>0. pos \in [chan : 1..(NumChannels + 1), key : 0..NumKeys, attempt : 0..MaxAttempts]
    BY DEF IInv, TypeOK
  <1>1. CASE GetKeys \/ StartAttempt \/ SendRequest \/ Respond \/ AcceptResponse
    <2>1. /\ AtChannel /\ pc \notin {"failed", "writing"} /\ AtChannel' /\ pos'.chan = pos.chan
          /\ UNCHANGED <<probe, reply, calls>>
          /\ pc' = "failed" => /\ \E cause \in {"canceled", "deadline"} :
                                    err' = [kind |-> "context", cause |-> cause]
                               /\ client = "gone" \/ BudgetError
      BY <1>0, <1>1 DEF GetKeys, StartAttempt, SendRequest, Respond, AcceptResponse, ReturnError
    <2>2. pc' = "failed" => EndsForReason
      BY <2>1 DEF EndsForReason, IsContextDoneError, ContextDone
    <2> QED
      BY <2>1, <2>2, SilenceTells
  <1>2. CASE CannotPrepare
    <2>1. PICK e \in PrepareErrors :
            ReturnError(e, 0) /\ \E told \in AttemptVerdicts(pos.chan, e, ctx.status) : Tell(pos.chan, told)
      BY <1>2 DEF CannotPrepare
    <2>2. PICK told \in AttemptVerdicts(pos.chan, e, ctx.status) : Tell(pos.chan, told)
      BY <2>1
    <2>3. /\ pc = "prepare" /\ pc' = "failed" /\ err' = e /\ pos' = pos
          /\ UNCHANGED <<probe, reply>>
      BY <1>2, <2>1 DEF CannotPrepare, ReturnError
    <2>4. LetDown
      BY <2>3 DEF LetDown
    <2> QED
      BY <2>2, <2>3, <2>4, FailureTells
  <1>3. CASE RunInternalHandler
    <2>1. pc = "prepare" /\ UNCHANGED <<probe, reply>>
      BY <1>3 DEF RunInternalHandler
    <2>2. CASE pc' \in {"writing", "failed"} /\ pos' = pos /\ calls' = calls
      <3>1. pc' = "failed" => LetDown
        BY <2>1 DEF LetDown
      <3> QED
        BY <2>1, <2>2, <3>1, SilenceTells
    <2>3. ASSUME NEW e, ReturnError(e, 0),
                 NEW told \in AttemptVerdicts(pos.chan, e, ctx.status), Tell(pos.chan, told)
          PROVE  TakesTurn(Here, Added(Here))
      <3>1. pc' = "failed" /\ err' = e /\ pos' = pos
        BY <2>3 DEF ReturnError
      <3>2. LetDown
        BY <2>1, <3>1 DEF LetDown
      <3> QED
        BY <2>1, <2>3, <3>1, <3>2, FailureTells
    <2> QED
      BY <1>3, <2>2, <2>3 DEF RunInternalHandler, ReturnError
  <1>4. CASE FailAttempt
    <2>1. PICK e \in AttemptErrors : \E told \in AttemptVerdicts(pos.chan, e, ctx.status) :
            /\ Tell(pos.chan, told)
            /\ \/ EndsTurn(e, told) /\ ReturnError(e, 1)
               \/ ~EndsTurn(e, told) /\ (NextAttempt \/ NextKey(e))
      BY <1>4 DEF FailAttempt
    <2>2. PICK told \in AttemptVerdicts(pos.chan, e, ctx.status) :
            /\ Tell(pos.chan, told)
            /\ \/ EndsTurn(e, told) /\ ReturnError(e, 1)
               \/ ~EndsTurn(e, told) /\ (NextAttempt \/ NextKey(e))
      BY <2>1
    <2>3. /\ pc = "waiting" /\ pc' \in {"attempt", "failed"} /\ pos'.chan = pos.chan
          /\ UNCHANGED <<probe, reply>>
          /\ pc' = "failed" => err' = e
          /\ told = <<"opened">> => pc' = "failed"
      BY <1>0, <1>4, <2>2 DEF FailAttempt, ReturnError, NextAttempt, NextKey, EndsTurn
    <2>4. LetDown
      BY <2>3 DEF LetDown
    <2> QED
      BY <2>2, <2>3, <2>4, FailureTells
  <1>5. CASE RejectResponse
    <2>1. PICK e \in Rejections(resp) : \E told \in AttemptVerdicts(pos.chan, e, resp.status) :
            /\ Tell(pos.chan, told)
            /\ \/ told = <<"opened">> /\ ReturnError(e, 1)
               \/ told # <<"opened">> /\ (NextAttempt \/ NextKey(e))
      BY <1>5 DEF RejectResponse
    <2>2. PICK told \in AttemptVerdicts(pos.chan, e, resp.status) :
            /\ Tell(pos.chan, told)
            /\ \/ told = <<"opened">> /\ ReturnError(e, 1)
               \/ told # <<"opened">> /\ (NextAttempt \/ NextKey(e))
      BY <2>1
    <2>3. /\ pc = "judging" /\ pc' \in {"attempt", "failed"} /\ pos'.chan = pos.chan
          /\ UNCHANGED <<probe, reply>>
          /\ pc' = "failed" => err' = e
          /\ told = <<"opened">> => pc' = "failed"
      BY <1>0, <1>5, <2>2 DEF RejectResponse, ReturnError, NextAttempt, NextKey
    <2>4. LetDown
      BY <2>3 DEF LetDown
    <2> QED
      BY <2>2, <2>3, <2>4, FailureTells
  <1>6. CASE ReturnErrorResponse
    <2>1. PICK told \in AttemptVerdicts(pos.chan, Failure("status"), resp.status) :
            Tell(pos.chan, told)
      BY <1>6 DEF ReturnErrorResponse
    <2>2. /\ pc = "judging" /\ pc' = "failed" /\ pos' = pos /\ err' = Failure("status")
          /\ UNCHANGED <<probe, reply>>
      BY <1>6 DEF ReturnErrorResponse, ReturnError
    <2>3. LetDown
      BY <2>2 DEF LetDown
    <2> QED
      BY <2>1, <2>2, <2>3, FailureTells
  <1> QED
    BY <1>1, <1>2, <1>3, <1>4, <1>5, <1>6

LEMMA LeaveTells ==
    ASSUME IInv, FailChannel
    PROVE  Leaves(Here, Added(Here))
  <1> DEFINE status == IF resp = NoResponse THEN ctx.status ELSE resp.status
  <1>1. pc = "failed" /\ pc' \in {"channel", "answer"} /\ UNCHANGED <<probe, reply>> /\ AtChannel
    BY DEF FailChannel, AtChannel
  <1>2. PICK told \in ChannelVerdicts(pos.chan, err, status) : Tell(pos.chan, told \o ProbeEnd)
    BY DEF FailChannel
  <1> HIDE DEF status
  <1>3. Here = pos.chan /\ pos.chan \in Channels /\ calls \in [Channels -> Seq(Words)]
    BY <1>1, AtChannelHere
  <1>4. Added(pos.chan) = told \o ProbeEnd
    BY <1>2, <1>3, ChannelVerdictWords, AddedTold
  <1>5. /\ told \in {<<>>, <<FailureWord(pos.chan)>>, <<"opened">>}
        /\ told = <<"opened">> => pos.chan \notin ExemptChannels
        /\ told # <<>> => pos.chan \in PoolChannels /\ ~IsContextDoneError(err)
    BY DEF ChannelVerdicts, Verdicts, FailureWord, IsCircuitBreakerWhitelisted
  <1> QED
    BY <1>1, <1>3, <1>4, <1>5 DEF Leaves

LEMMA ForwardTells ==
    ASSUME IInv, WordsInv, WriteResponse
    PROVE  Forwards(Here, Added(Here))
  <1>1. pc = "writing" /\ pc' = "done" /\ UNCHANGED <<pos, probe>> /\ AtChannel
    BY DEF WriteResponse, AtChannel
  <1>2. Here = pos.chan /\ pos.chan \in Channels /\ calls \in [Channels -> Seq(Words)]
    BY <1>1, AtChannelHere
  <1>3. ctx.status < 400
    BY <1>1 DEF WordsInv, AcceptedStatus
  <1>4. PICK how \in Streamings :
          /\ reply' = how
          /\ \E told \in CASE how = "complete" ->
                               {<<IF IsCircuitBreakerWhitelisted(pos.chan) THEN "exemptSuccess" ELSE "success">>}
                           [] how = "broken" -> Verdicts(pos.chan, Failure("network"), ctx.status)
                           [] how = "cut" -> {<<>>} :
               Tell(pos.chan, told)
    BY DEF WriteResponse
  <1>5. ASSUME NEW word \in Words, Tell(pos.chan, <<word>>)
        PROVE  Added(pos.chan) = <<word>>
    <2>1. <<word>> \in Seq(Words)
      OBVIOUS
    <2> QED
      BY <1>2, <1>5, <2>1, AddedTold
  <1>6. CASE how = "complete"
    BY <1>1, <1>2, <1>4, <1>5, <1>6, WordsOf DEF IsCircuitBreakerWhitelisted, Forwards
  <1>7. CASE how = "broken"
    <2>1. ShouldCount(Failure("network"), ctx.status) /\ ~IsContextDoneError(Failure("network"))
      BY <1>3 DEF ShouldCount, IsRetryableError, IsContextDoneError, IsPoolExhaustedError, Failure
    <2>2. Verdicts(pos.chan, Failure("network"), ctx.status) =
            IF pos.chan \in ExemptChannels THEN {<<"exemptFailure">>} ELSE {<<"failure">>, <<"opened">>}
      BY <2>1 DEF Verdicts, IsCircuitBreakerWhitelisted
    <2>3. PICK told \in Verdicts(pos.chan, Failure("network"), ctx.status) : Tell(pos.chan, told)
      BY <1>4, <1>7
    <2> QED
      BY <1>1, <1>2, <1>4, <1>5, <1>7, <2>2, <2>3, WordsOf DEF Forwards, FailureWord
  <1>8. CASE how = "cut"
    <2>1. Tell(pos.chan, <<>>) /\ <<>> \in Seq(Words)
      BY <1>4, <1>8
    <2>2. Added(pos.chan) = <<>>
      BY <1>2, <2>1, AddedTold
    <2> QED
      BY <1>1, <1>2, <1>4, <1>8, <2>2 DEF Forwards
  <1> QED
    BY <1>4, <1>6, <1>7, <1>8 DEF Streamings

LEMMA NextTells ==
    ASSUME IInv, WordsInv, Next
    PROVE  StepTells(Here, Added(Here))
  <1>1. calls \in [Channels -> Seq(Words)]
    BY DEF IInv, TypeOK, Words
  <1>2. CASE UNCHANGED calls
    <2>1. Added(Here) = <<>>
      BY <1>1, <1>2, HereIsChannel, AddedNothing
    <2>2. CASE LeaveLoop \/ WriteError \/ BudgetShrinks \/ ClientLeaves
      BY <2>1, <2>2 DEF LeaveLoop, WriteError, BudgetShrinks, ClientLeaves, KeepsSilent, StepTells
    <2> QED
      BY <2>2, AskTells, TurnTells, LeaveTells, ForwardTells DEF StepTells, Next, Proceed, Await
  <1>3. CASE ~UNCHANGED calls
    BY <1>3, AskTells, TurnTells, LeaveTells, ForwardTells
       DEF StepTells, Next, Proceed, Await, LeaveLoop, WriteError, BudgetShrinks, ClientLeaves
  <1> QED
    BY <1>2, <1>3

-----------------------------------------------------------------------------
(* The breakers' states are sound whatever the requests tell them, and the *)
(* requests keep the pipeline's invariants one after another.              *)

ServiceTyped ==
    /\ clock \in Nat \ {0}
    /\ DOMAIN circuit = Channels
    /\ \A c \in Channels : circuit[c] # NoEntry => SoundState(circuit[c], clock)
    /\ store \in {"up", "down", "back"}
    /\ health \in [Channels -> {"healthy", "flaky", "sick"}]
    /\ \A c \in Channels : health[c] # "healthy" <=> c \in Troubled
    /\ others \in [Channels -> {"none", "admitted", "probe"}]
    /\ suffered \in [Channels -> Nat]

RequestInv == IInv /\ WordsInv

LEMMA InitServes == ServiceInit => ServiceTyped /\ RequestInv
  <1> SUFFICES ASSUME ServiceInit PROVE ServiceTyped /\ RequestInv
    OBVIOUS
  <1>1. ServiceTyped
    BY DEF ServiceInit, ServiceTyped
  <1>2. RequestInv
    BY InitInvariant, WordsInit DEF ServiceInit, RequestInv
  <1> QED
    BY <1>1, <1>2

LEMMA PipelineStepKeeps ==
    ASSUME RequestInv, [Next]_vars
    PROVE  RequestInv'
  BY StepInvariant, WordsStep DEF RequestInv

\* What a request starts as is what the first one started as.
LEMMA NewRequestKeeps ==
    ASSUME NewRequest
    PROVE  RequestInv'
  <1>1. /\ pc' = "channel"
        /\ pos' = [chan |-> 1, key |-> 0, attempt |-> 0]
        /\ probe' = FALSE
        /\ budget' = "ample" /\ client' = "here"
        /\ ctx' = [channel |-> 0, status |-> 0, body |-> FALSE]
        /\ err' = NoError /\ resp' = NoResponse
        /\ result' = [lastErr |-> NoError, from |-> 0, skipped |-> 0]
        /\ held' = 0 /\ onErrors' = 0
        /\ calls' = [c \in Channels |-> <<>>]
        /\ tries' = [key |-> 0, open |-> 0]
        /\ reply' = "none"
    BY DEF NewRequest
  <1>2. Init'
    BY <1>1 DEF Init
  <1>3. IInv'
    BY <1>2, InitInvariant, PTL
  <1>4. WordsInv'
    BY <1>2, WordsInit, PTL
  <1> QED
    BY <1>3, <1>4 DEF RequestInv

LEMMA StateSound ==
    ASSUME ServiceTyped, NEW c \in Channels
    PROVE  SoundState(State(c), clock)
  <1>1. clock \in Nat
    BY DEF ServiceTyped
  <1> DEFINE s == IF circuit[c] = NoEntry THEN NewChannelCircuitState ELSE circuit[c]
  <1>2. SoundState(s, clock)
    BY <1>1, NewStateSound DEF ServiceTyped
  <1> HIDE DEF s
  <1>3. SoundState(Trimmed(s, clock), clock)
    BY <1>1, <1>2, TrimmedSound
  <1> QED
    BY <1>3 DEF State, s

LEMMA EventTyped ==
    ASSUME ServiceTyped, NEW succeeded \in BOOLEAN
    PROVE  Event(succeeded) \in ChannelCircuitEvent
  BY DEF ServiceTyped, Event, ChannelCircuitEvent

LEMMA AfterSound ==
    ASSUME ServiceTyped, NEW c \in Channels, NEW word \in Words, After(c, word) # NoEntry
    PROVE  SoundState(After(c, word), clock)
  <1> DEFINE s == State(c)
  <1>1. SoundState(s, clock) /\ clock \in Nat /\ clock \in 1..clock
    BY StateSound DEF ServiceTyped
  <1>2. Event(TRUE) \in ChannelCircuitEvent /\ Event(FALSE) \in ChannelCircuitEvent
    BY EventTyped
  <1> HIDE DEF s
  <1>3. CASE word \in {"denied", "admitted", "probe"}
    <2>1. After(c, word) = AfterAllow(s, clock)
      BY <1>3 DEF After, s
    <2> QED
      BY <1>1, <2>1, AfterAllowSound
  <1>4. CASE word \in {"failure", "opened"}
    <2>1. After(c, word) = AfterFailure(s, Event(FALSE), clock)
      BY <1>4 DEF After, s
    <2> QED
      BY <1>1, <1>2, <2>1, AfterFailureSound
  <1>5. CASE word = "success"
    <2>1. ~s.halfOpen /\ After(c, word) = AfterSuccess(s, Event(TRUE), clock)
      BY <1>5 DEF After, s
    <2> QED
      BY <1>1, <1>2, <2>1, AfterSuccessSound
  <1>6. CASE word = "cancel"
    <2>1. After(c, word) = CancelledProbe(s)
      BY <1>6 DEF After, s
    <2> QED
      BY <1>1, <2>1, CancelledProbeSound
  <1>7. CASE word = "tracked"
    <2>1. After(c, word) = [s EXCEPT !.whitelisted = TRUE]
      BY <1>7 DEF After, s
    <2> QED
      BY <1>1, <2>1, TrackedSound
  <1>8. CASE word \in {"exemptSuccess", "exemptFailure"}
    <2>1. \E succeeded \in BOOLEAN : After(c, word) = AfterWhitelisted(s, Event(succeeded), clock)
      BY <1>8 DEF After, s
    <2> QED
      BY <1>1, <1>2, <2>1, AfterWhitelistedSound
  <1> QED
    BY <1>3, <1>4, <1>5, <1>6, <1>7, <1>8 DEF Words, Answers, Verdict

\* Hearing a word changes one channel's state, and leaves it sound.
LEMMA HearKeepsSound ==
    ASSUME ServiceTyped, NEW c \in Channels, NEW word \in Words, Hear(c, word)
    PROVE  /\ DOMAIN circuit' = Channels
           /\ \A d \in Channels : d # c => circuit'[d] = circuit[d]
           /\ circuit'[c] = IF store = "down" THEN circuit[c] ELSE After(c, word)
           /\ \A d \in Channels : circuit'[d] # NoEntry => SoundState(circuit'[d], clock)
  BY AfterSound DEF Hear, ServiceTyped

\* The breaker of a channel takes in the first of the words; a second one is
\* the end of a probe that has been judged already.
LEMMA HearAllHearsFirst ==
    ASSUME NEW c \in Channels, NEW words, StepTells(c, words), HearAll(c, words)
    PROVE  \/ words = <<>> /\ UNCHANGED circuit
           \/ words # <<>> /\ words[1] \in Words /\ Hear(c, words[1])
  <1>1. \/ words = <<>>
        \/ \E first \in Words : words = <<first>> \/ words = <<first, "cancel">>
    <2>1. CASE Asks(c, words) \/ TakesTurn(c, words) \/ Forwards(c, words) \/ KeepsSilent(words)
      BY <2>1 DEF Asks, TakesTurn, Forwards, KeepsSilent, FailureWord, Words, Answers, Verdict
    <2>2. CASE Leaves(c, words)
      <3>1. PICK told \in {<<>>, <<FailureWord(c)>>, <<"opened">>} : words = told \o ProbeEnd
        BY <2>2 DEF Leaves
      <3>2. ProbeEnd \in {<<>>, <<"cancel">>}
        BY DEF ProbeEnd
      <3>3. FailureWord(c) \in Words /\ "opened" \in Words /\ "cancel" \in Words
        BY WordsOf DEF FailureWord
      <3>4. told = <<>> \/ \E first \in Words : told = <<first>>
        BY <3>1, <3>3
      <3>5. /\ <<>> \o <<>> = <<>> /\ <<>> \o <<"cancel">> = <<"cancel">>
            /\ \A first \in Words : /\ <<first>> \o <<>> = <<first>>
                                     /\ <<first>> \o <<"cancel">> = <<first, "cancel">>
        <4>1. <<>> \o <<>> = <<>> /\ <<>> \o <<"cancel">> = <<"cancel">>
          OBVIOUS
        <4>2. ASSUME NEW first \in Words
              PROVE  /\ <<first>> \o <<>> = <<first>>
                     /\ <<first>> \o <<"cancel">> = <<first, "cancel">>
          <5>1. "cancel" \in Words
            BY WordsOf
          <5> DEFINE s == <<first>>
                     t == s \o <<"cancel">>
                     u == <<first, "cancel">>
          <5>2. /\ s \in Seq(Words) /\ s # <<>> /\ Len(s) = 1 /\ s[1] = first
                /\ u \in Seq(Words) /\ Len(u) = 2 /\ u[1] = first /\ u[2] = "cancel"
            BY <5>1
          <5>3. /\ t \in Seq(Words) /\ Len(t) = Len(s) + 1
                /\ t[Len(s) + 1] = "cancel" /\ \A i \in 1..Len(s) : t[i] = s[i]
            <6> HIDE DEF s
            <6> QED
              BY <5>1, <5>2, OneWord
          <5>4. s \o <<>> = s
            BY <5>2, NoWord
          <5> HIDE DEF s, t, u
          <5>5. t = u
            BY <5>2, <5>3, SeqEqual
          <5> QED
            BY <5>4, <5>5 DEF s, t, u
        <4> QED
          BY <4>1, <4>2
      <3> QED
        BY <3>1, <3>2, <3>3, <3>4, <3>5
    <2> QED
      BY <2>1, <2>2 DEF StepTells
  <1>2. CASE words = <<>>
    <2>1. Len(words) = 0
      BY <1>2
    <2> QED
      BY <1>2, <2>1 DEF HearAll
  <1>3. ASSUME NEW first \in Words, words = <<first>> \/ words = <<first, "cancel">>
        PROVE  words # <<>> /\ words[1] = first /\ Hear(c, first)
    <2>1. words # <<>> /\ words[1] = first /\ (Len(words) = 1 \/ Len(words) = 2)
      BY <1>3
    <2>2. CASE Len(words) = 1
      BY <2>1, <2>2 DEF HearAll
    <2>3. CASE Len(words) = 2
      BY <2>1, <2>3 DEF HearAll
    <2> QED
      BY <2>1, <2>2, <2>3
  <1> QED
    BY <1>1, <1>2, <1>3

\* A step of the pipeline with its breakers listening.
LEMMA ServeHears ==
    ASSUME ServiceTyped, RequestInv, Serve
    PROVE  /\ Here \in Channels /\ StepTells(Here, Added(Here)) /\ RequestInv'
           /\ \/ Added(Here) = <<>> /\ UNCHANGED circuit
              \/ /\ Added(Here) # <<>> /\ Added(Here)[1] \in Words
                 /\ Hear(Here, Added(Here)[1])
  <1>1. Here \in Channels
    BY HereIsChannel
  <1>2. Next /\ HearAll(Here, Added(Here))
    BY DEF Serve, Here, Added
  <1>3. StepTells(Here, Added(Here))
    BY <1>2, NextTells DEF RequestInv
  <1>4. RequestInv'
    BY <1>2, PipelineStepKeeps
  <1> QED
    BY <1>1, <1>2, <1>3, <1>4, HearAllHearsFirst

LEMMA OthersTalk ==
    /\ \A c \in Channels : Answer(c) \in {"denied", "admitted", "probe"}
    /\ {"denied", "admitted", "probe", "failure", "opened", "success", "cancel"} \subseteq Words
  BY DEF Answer, Words, Answers, Verdict

LEMMA TypedStep ==
    ASSUME ServiceTyped, RequestInv, ServiceNext
    PROVE  ServiceTyped' /\ RequestInv'
  <1> USE ServiceAssumption
  <1>1. CASE Serve
    <2>1. /\ DOMAIN circuit' = Channels
          /\ \A d \in Channels : circuit'[d] # NoEntry => SoundState(circuit'[d], clock)
          /\ RequestInv'
      BY <1>1, ServeHears, HearKeepsSound DEF ServiceTyped
    <2>2. UNCHANGED <<clock, store, health, others>>
      BY <1>1 DEF Serve
    <2>3. suffered' = suffered \/ suffered' = [suffered EXCEPT ![Here] = @ + 1]
      BY <1>1 DEF Serve, Here
    <2>4. suffered' \in [Channels -> Nat]
      BY <2>3 DEF ServiceTyped
    <2> QED
      BY <2>1, <2>2, <2>4 DEF ServiceTyped
  <1>2. CASE NewRequest
    BY <1>2, NewRequestKeeps DEF NewRequest, around, ServiceTyped
  <1>3. ASSUME NEW c \in Troubled, OtherEnters(c) \/ OtherReports(c) \/ OtherVanishes(c)
        PROVE  ServiceTyped' /\ RequestInv'
    <2>1. UNCHANGED <<vars, clock, store, health, suffered>> /\ c \in Channels
      BY <1>3 DEF OtherEnters, OtherReports, OtherVanishes
    <2>2. RequestInv'
      BY <2>1, PipelineStepKeeps
    <2>3. others' \in [Channels -> {"none", "admitted", "probe"}]
      BY <1>3, OthersTalk DEF OtherEnters, OtherReports, OtherVanishes, ServiceTyped
    <2>4. UNCHANGED circuit \/ \E word \in Words : Hear(c, word)
      BY <1>3, <2>1, OthersTalk DEF OtherEnters, OtherReports, OtherVanishes
    <2>5. /\ DOMAIN circuit' = Channels
          /\ \A d \in Channels : circuit'[d] # NoEntry => SoundState(circuit'[d], clock)
      BY <2>1, <2>4, HearKeepsSound DEF ServiceTyped
    <2> QED
      BY <2>1, <2>2, <2>3, <2>5 DEF ServiceTyped
  <1>4. CASE Tick
    <2>1. RequestInv'
      BY <1>4, PipelineStepKeeps DEF Tick
    <2>2. clock \in Nat /\ clock' \in Nat \ {0} /\ clock <= clock'
      BY <1>4 DEF Tick, ServiceTyped
    <2>3. \A c \in Channels : circuit'[c] # NoEntry => SoundState(circuit'[c], clock')
      BY <1>4, <2>2, SoundLater DEF Tick, ServiceTyped
    <2> QED
      BY <1>4, <2>1, <2>2, <2>3 DEF Tick, ServiceTyped
  <1>5. CASE Outage \/ Repair
    <2>1. RequestInv'
      BY <1>5, PipelineStepKeeps DEF Outage, Repair
    <2> QED
      BY <1>5, <2>1 DEF Outage, Repair, ServiceTyped
  <1> QED
    BY <1>1, <1>2, <1>3, <1>4, <1>5 DEF ServiceNext

\* The breakers' states and the requests are what their own modules take them
\* to be.
LEMMA TypedService == ServiceSpec => [](ServiceTyped /\ RequestInv)
  <1>1. ServiceTyped /\ RequestInv /\ UNCHANGED serviceVars => (ServiceTyped /\ RequestInv)'
    <2> SUFFICES ASSUME ServiceTyped, RequestInv, UNCHANGED serviceVars
                 PROVE  ServiceTyped' /\ RequestInv'
      OBVIOUS
    <2>1. RequestInv'
      BY PipelineStepKeeps DEF serviceVars
    <2> QED
      BY <2>1 DEF serviceVars, around, ServiceTyped
  <1>2. ServiceTyped /\ RequestInv /\ ServiceNext => (ServiceTyped /\ RequestInv)'
    BY TypedStep
  <1> QED
    BY <1>1, <1>2, InitServes, PTL DEF ServiceSpec

-----------------------------------------------------------------------------
(* Half-open slots.                                                        *)

\* A channel whose half-open slot is taken for now.
SlotTaken(c) == circuit[c] # NoEntry /\ IsProbing(circuit[c], clock)

\* Only what a breaker answers leaves a probe out: every verdict, and the end of
\* a probe, takes the slot back.
LEMMA VerdictsEndProbes ==
    ASSUME ServiceTyped, NEW c \in Channels, NEW word \in Words,
           word \notin {"denied", "admitted", "probe", "tracked"}, After(c, word) # NoEntry
    PROVE  ~After(c, word).halfOpen
  <1> DEFINE s == State(c)
  <1>1. s \in ChannelCircuitState
    BY StateSound DEF SoundState
  <1> HIDE DEF s
  <1>2. CASE word \in {"failure", "opened"}
    <2>1. After(c, word) = AfterFailure(s, Event(FALSE), clock)
      BY <1>2 DEF After, s
    <2> QED
      BY <1>1, <2>1 DEF AfterFailure, WithEvent, Opened, ShouldOpen, ChannelCircuitState
  <1>3. CASE word = "success"
    <2>1. ~s.halfOpen /\ After(c, word) = AfterSuccess(s, Event(TRUE), clock)
      BY <1>3 DEF After, s
    <2> QED
      BY <1>1, <2>1 DEF AfterSuccess, WithEvent, Opened, ShouldOpen, ChannelCircuitState
  <1>4. CASE word = "cancel"
    BY <1>1, <1>4 DEF After, s, CancelledProbe, ChannelCircuitState
  <1>5. CASE word \in {"exemptSuccess", "exemptFailure"}
    <2>1. \E succeeded \in BOOLEAN : After(c, word) = AfterWhitelisted(s, Event(succeeded), clock)
      BY <1>5 DEF After, s
    <2> QED
      BY <1>1, <2>1 DEF AfterWhitelisted, WithEvent, Cleared, ChannelCircuitState
  <1> QED
    BY <1>2, <1>3, <1>4, <1>5 DEF Words, Answers, Verdict

\* An answer takes the slot only as the probe it is.
LEMMA AnswersTakeSlots ==
    ASSUME ServiceTyped, store # "down", NEW c \in Channels,
           NEW word \in {"denied", "admitted", "probe", "tracked"}, Fits(c, word),
           After(c, word) # NoEntry, IsProbing(After(c, word), clock)
    PROVE  word = "probe" \/ SlotTaken(c)
  <1> DEFINE s == State(c)
  <1>1. s \in ChannelCircuitState /\ clock \in Nat
    BY StateSound DEF SoundState, ServiceTyped
  <1>2. IsProbing(s, clock) => SlotTaken(c)
    <2>1. CASE circuit[c] = NoEntry
      BY <2>1 DEF State, Trimmed, NewChannelCircuitState, IsProbing
    <2>2. CASE circuit[c] # NoEntry
      <3>1. circuit[c] \in ChannelCircuitState
        BY <2>2 DEF ServiceTyped, SoundState
      <3> QED
        BY <2>2, <3>1 DEF State, Trimmed, IsProbing, SlotTaken, ChannelCircuitState
    <2> QED
      BY <2>1, <2>2
  <1> HIDE DEF s
  <1>3. CASE word = "tracked"
    <2>1. After(c, word) = [s EXCEPT !.whitelisted = TRUE]
      BY <1>3 DEF After, s
    <2> QED
      BY <1>1, <1>2, <2>1 DEF IsProbing, ChannelCircuitState
  <1>4. CASE word \in {"denied", "admitted", "probe"}
    <2>1. ~IsIdle(s, clock) /\ After(c, word) = AfterAllow(s, clock)
      BY <1>4 DEF After, s
    <2>2. word = Answer(c)
      BY <1>4 DEF Fits
    <2>3. GetsProbe(s, clock) => word = "probe"
      BY <2>1, <2>2 DEF Answer, s, MustSkip, GetsProbe
    <2> QED
      BY <1>2, <2>1, <2>3 DEF AfterAllow
  <1> QED
    BY <1>3, <1>4

\* When a word was heard and the slot is taken, it was taken before or is now.
LEMMA HeardSlot ==
    ASSUME ServiceTyped, NEW c \in Channels, NEW word \in Words, Hear(c, word),
           circuit'[c] # NoEntry, IsProbing(circuit'[c], clock)
    PROVE  \/ store = "down" /\ word # "probe" /\ SlotTaken(c)
           \/ /\ store # "down" /\ word \in {"denied", "admitted", "probe", "tracked"}
              /\ word = "probe" \/ SlotTaken(c)
  <1>1. Fits(c, word) /\ circuit'[c] = IF store = "down" THEN circuit[c] ELSE After(c, word)
    BY HearKeepsSound DEF Hear
  <1>2. CASE store = "down"
    <2>1. word # "probe"
      BY <1>1, <1>2 DEF Fits, Answer
    <2> QED
      BY <1>1, <1>2, <2>1 DEF SlotTaken
  <1>3. CASE store # "down"
    <2>1. word \in {"denied", "admitted", "probe", "tracked"}
      BY <1>1, <1>3, VerdictsEndProbes DEF IsProbing
    <2> QED
      BY <1>1, <1>3, <2>1, AnswersTakeSlots
  <1> QED
    BY <1>2, <1>3

LEMMA ProbingByPlace ==
    ASSUME IInv, NEW c
    PROVE  Probing(c) <=> others[c] = "probe" \/ (probe /\ pos.chan = c /\ AtChannel)
  BY DEF Probing, AtChannel, IInv, TypeOK

\* Only a request that asks is answered, and a probe never leaves in silence.
LEMMA AskersAsk ==
    ASSUME NEW c, NEW words, StepTells(c, words), words # <<>>,
           words[1] \in {"denied", "admitted", "probe", "tracked"}
    PROVE  Asks(c, words)
  <1>1. /\ <<FailureWord(c)>>[1] \notin {"denied", "admitted", "probe", "tracked"}
        /\ <<"opened">>[1] = "opened" /\ <<"cancel">>[1] = "cancel"
        /\ <<"success">>[1] = "success" /\ <<"exemptSuccess">>[1] = "exemptSuccess"
    BY DEF FailureWord
  <1>2. ~TakesTurn(c, words) /\ ~Forwards(c, words) /\ ~KeepsSilent(words)
    BY <1>1 DEF TakesTurn, Forwards, KeepsSilent
  <1>3. ASSUME Leaves(c, words) PROVE FALSE
    <2>1. PICK told \in {<<>>, <<FailureWord(c)>>, <<"opened">>} : words = told \o ProbeEnd
      BY <1>3 DEF Leaves
    <2>2. ProbeEnd \in Seq(Words) /\ ProbeEnd \in {<<>>, <<"cancel">>}
      BY WordsOf DEF ProbeEnd
    <2>3. CASE told = <<>>
      <3>1. words = ProbeEnd
        BY <2>1, <2>2, <2>3
      <3> QED
        BY <1>1, <2>2, <3>1
    <2>4. ASSUME NEW word \in {FailureWord(c), "opened"}, told = <<word>> PROVE FALSE
      <3>1. word \in Words /\ word \notin {"denied", "admitted", "probe", "tracked"}
        BY WordsOf DEF FailureWord
      <3>2. <<word>> \in Seq(Words) /\ Len(<<word>>) = 1 /\ <<word>>[1] = word
        BY <3>1
      <3>3. (<<word>> \o ProbeEnd)[1] = word
        BY <2>2, <3>2
      <3> QED
        BY <2>1, <2>4, <3>1, <3>3
    <2> QED
      BY <2>1, <2>3, <2>4
  <1> QED
    BY <1>2, <1>3 DEF StepTells

LEMMA ProbesSayTheirEnd ==
    ASSUME NEW c, NEW words, Leaves(c, words), probe
    PROVE  words # <<>>
  <1>1. PICK told \in {<<>>, <<FailureWord(c)>>, <<"opened">>} : words = told \o <<"cancel">>
    BY DEF Leaves, ProbeEnd
  <1>2. told \in Seq(Words) /\ "cancel" \in Words
    <2>1. FailureWord(c) \in Words /\ "opened" \in Words /\ "cancel" \in Words
      BY WordsOf DEF FailureWord
    <2>2. <<>> \in Seq(Words) /\ \A word \in Words : <<word>> \in Seq(Words)
      OBVIOUS
    <2> QED
      BY <1>1, <2>1, <2>2
  <1>3. Len(told \o <<"cancel">>) = Len(told) + 1 /\ Len(told) \in Nat
    BY <1>2
  <1> QED
    BY <1>1, <1>3

\* The end of a request's turn with a probe that gives the slot back to nobody.
LostProbe ==
    /\ probe /\ pc \in {"failed", "writing"}
    /\ pc' \notin {"failed", "writing"}
    /\ store = "down" \/ reply' = "cut"

\* A request's probe is under way until its turn ends, and the turn ends with a
\* word or with the slot lost.
LEMMA ProbeGoesOn ==
    ASSUME NEW c, NEW words, StepTells(c, words), ~Asks(c, words),
           probe, pos.chan = c, AtChannel, ~LostProbe, words = <<>> \/ store = "down"
    PROVE  probe' /\ pos'.chan = c /\ AtChannel'
  <1>1. ASSUME Leaves(c, words) PROVE FALSE
    <2>1. words # <<>>
      BY <1>1, ProbesSayTheirEnd
    <2> QED
      BY <1>1, <2>1 DEF Leaves, LostProbe
  <1>2. ASSUME Forwards(c, words) PROVE FALSE
    <2>1. reply' = "cut" \/ words # <<>>
      BY <1>2 DEF Forwards
    <2> QED
      BY <1>2, <2>1 DEF Forwards, LostProbe
  <1>3. CASE TakesTurn(c, words)
    BY <1>3 DEF TakesTurn
  <1>4. CASE KeepsSilent(words)
    BY <1>4 DEF KeepsSilent, AtChannel
  <1> QED
    BY <1>1, <1>2, <1>3, <1>4 DEF StepTells

\* What a step of the request does to the slots.
LEMMA ServeKeepsSlots ==
    ASSUME ServiceTyped, RequestInv, HalfOpenSlotAccounted, Serve
    PROVE  HalfOpenSlotAccounted'
  <1>1. PICK c \in Channels : c = Here
    BY ServeHears
  <1>2. PICK words : words = Added(c)
    OBVIOUS
  <1>3. /\ StepTells(c, words) /\ IInv /\ IInv'
        /\ \/ words = <<>> /\ UNCHANGED circuit
           \/ words # <<>> /\ words[1] \in Words /\ Hear(c, words[1])
    BY <1>1, <1>2, ServeHears DEF RequestInv
  <1>4. UNCHANGED <<clock, store, others>> /\ left' = AfterWord(c, words, LostProbe)
    BY <1>1, <1>2 DEF Serve, Here, Added, LostProbe
  <1>5. /\ \A d \in Channels : d # c => circuit'[d] = circuit[d]
        /\ \A d \in Channels : d # c => (d \in left' <=> d \in left)
    BY <1>3, <1>4, HearKeepsSound DEF AfterWord
  <1>6. ASSUME NEW d
        PROVE  /\ Probing(d) <=> others[d] = "probe" \/ (probe /\ pos.chan = d /\ AtChannel)
               /\ Probing(d)' <=> others[d] = "probe" \/ (probe' /\ pos'.chan = d /\ AtChannel')
    <2>1. Probing(d)' <=> others'[d] = "probe" \/ (probe' /\ pos'.chan = d /\ AtChannel')
      BY <1>3 DEF Probing, AtChannel, IInv, TypeOK
    <2> QED
      BY <1>3, <1>4, <2>1, ProbingByPlace
  <1>7. ASSUME NEW d \in Channels, d # c, d \notin left', SlotTaken(d)'
        PROVE  Probing(d)'
    <2>1. Probing(d)
      BY <1>4, <1>5, <1>7 DEF HalfOpenSlotAccounted, SlotTaken
    <2>2. AtChannel => pos.chan # d
      BY <1>1, <1>3, <1>7, AtChannelHere
    <2> QED
      BY <1>6, <2>1, <2>2
  <1>8. ASSUME c \notin left', SlotTaken(c)'
        PROVE  Probing(c)'
    <2>1. circuit'[c] # NoEntry /\ IsProbing(circuit'[c], clock)
      BY <1>4, <1>8 DEF SlotTaken
    \* The slot was given to the request just now.
    <2>2. CASE words # <<>> /\ words[1] = "probe"
      <3>1. Asks(c, words)
        BY <1>3, <2>2, AskersAsk
      <3>2. words = <<"probe">>
        <4>1. <<"denied">>[1] = "denied" /\ <<"admitted">>[1] = "admitted" /\ <<"tracked">>[1] = "tracked"
          OBVIOUS
        <4> QED
          BY <2>2, <3>1, <4>1 DEF Asks
      <3>3. probe' /\ pos'.chan = c /\ AtChannel'
        BY <3>1, <3>2 DEF Asks, AtChannel
      <3> QED
        BY <1>6, <3>3
    \* It was taken before, and is not lost.
    <2>3. CASE ~(words # <<>> /\ words[1] = "probe")
      <3>1. words # <<"probe">>
        <4>1. <<"probe">> # <<>> /\ <<"probe">>[1] = "probe"
          OBVIOUS
        <4> QED
          BY <2>3, <4>1
      <3>2. /\ SlotTaken(c)
            /\ \/ words = <<>> \/ store = "down"
               \/ words # <<>> /\ words[1] \in {"denied", "admitted", "tracked"}
        <4>1. CASE words = <<>>
          BY <1>3, <2>1, <4>1 DEF SlotTaken
        <4>2. CASE words # <<>>
          BY <1>3, <2>1, <2>3, <4>2, HeardSlot
        <4> QED
          BY <4>1, <4>2
      <3>3. c \notin left /\ ~LostProbe
        BY <1>4, <1>8, <3>1, <3>2 DEF AfterWord, SlotTaken
      <3>4. Probing(c)
        BY <3>2, <3>3 DEF HalfOpenSlotAccounted, SlotTaken
      <3>5. Asks(c, words) => ~AtChannel
        BY DEF Asks, AtChannel
      <3>6. CASE Asks(c, words)
        BY <1>6, <3>4, <3>5, <3>6
      <3>7. CASE ~Asks(c, words)
        <4>1. words = <<>> \/ store = "down"
          BY <1>3, <3>2, <3>7, AskersAsk
        <4> QED
          BY <1>3, <1>6, <3>3, <3>4, <3>7, <4>1, ProbeGoesOn
      <3> QED
        BY <3>6, <3>7
    <2> QED
      BY <2>2, <2>3
  <1>9. ASSUME NEW d \in Channels, d \notin left', SlotTaken(d)'
        PROVE  Probing(d)'
    BY <1>7, <1>8, <1>9
  <1> QED
    BY <1>9 DEF HalfOpenSlotAccounted, SlotTaken

\* What the other requests do to them.
LEMMA OthersKeepSlots ==
    ASSUME ServiceTyped, RequestInv, HalfOpenSlotAccounted, NEW c \in Channels,
           OtherEnters(c) \/ OtherReports(c) \/ OtherVanishes(c)
    PROVE  HalfOpenSlotAccounted'
  <1>1. UNCHANGED <<pc, pos, probe, clock, store>>
    BY DEF OtherEnters, OtherReports, OtherVanishes, vars
  <1>2. \E word : others' = [others EXCEPT ![c] = word]
    BY DEF OtherEnters, OtherReports, OtherVanishes
  <1>3. /\ \A d \in Channels : d # c => circuit'[d] = circuit[d] /\ others'[d] = others[d]
        /\ \A d \in Channels : d # c => (d \in left' <=> d \in left)
    BY <1>2, OthersTalk, HearKeepsSound
       DEF OtherEnters, OtherReports, OtherVanishes, AfterWord, ServiceTyped
  <1>4. ASSUME NEW d \in Channels, d # c, d \notin left', SlotTaken(d)'
        PROVE  Probing(d)'
    BY <1>1, <1>3, <1>4 DEF HalfOpenSlotAccounted, SlotTaken, Probing
  <1>5. ASSUME c \notin left', SlotTaken(c)'
        PROVE  Probing(c)'
    <2>1. circuit'[c] # NoEntry /\ IsProbing(circuit'[c], clock)
      BY <1>1, <1>5 DEF SlotTaken
    <2>2. CASE OtherEnters(c)
      <3>1. /\ Answer(c) \in Words /\ Hear(c, Answer(c)) /\ others' = [others EXCEPT ![c] = Answer(c)]
            /\ left' = AfterWord(c, <<Answer(c)>>, FALSE) /\ others[c] = "none"
        BY <2>2, OthersTalk DEF OtherEnters
      <3>2. CASE Answer(c) = "probe"
        BY <3>1, <3>2 DEF Probing, ServiceTyped
      <3>3. CASE Answer(c) # "probe"
        <4>1. SlotTaken(c)
          BY <2>1, <3>1, <3>3, HeardSlot
        <4>2. <<Answer(c)>> # <<"probe">>
          <5>1. <<Answer(c)>>[1] = Answer(c) /\ <<"probe">>[1] = "probe"
            OBVIOUS
          <5> QED
            BY <3>3, <5>1
        <4>3. c \notin left
          BY <1>5, <3>1, <4>2 DEF AfterWord
        <4>4. probe /\ pos.chan = c /\ pc \notin {"channel", "answer", "done"}
          BY <3>1, <4>1, <4>3 DEF HalfOpenSlotAccounted, SlotTaken, Probing
        <4> QED
          BY <1>1, <4>4 DEF Probing
      <3> QED
        BY <3>2, <3>3
    <2>3. CASE OtherReports(c)
      <3>1. PICK word \in {"failure", "opened", "success", "cancel"} :
              Hear(c, word) /\ left' = AfterWord(c, <<word>>, others[c] = "probe" /\ store = "down")
        BY <2>3 DEF OtherReports
      <3>2. word \in Words
        BY <3>1, OthersTalk
      <3>3. SlotTaken(c) /\ store = "down"
        BY <2>1, <3>1, <3>2, HeardSlot
      <3>4. <<word>> # <<"probe">>
        <4>1. <<word>>[1] = word /\ <<"probe">>[1] = "probe"
          OBVIOUS
        <4> QED
          BY <3>1, <4>1
      <3>5. c \notin left /\ others[c] # "probe"
        BY <1>5, <3>1, <3>3, <3>4 DEF AfterWord, SlotTaken
      <3>6. probe /\ pos.chan = c /\ pc \notin {"channel", "answer", "done"}
        BY <3>3, <3>5 DEF HalfOpenSlotAccounted, SlotTaken, Probing
      <3> QED
        BY <1>1, <3>6 DEF Probing
    <2>4. CASE OtherVanishes(c)
      <3>1. UNCHANGED circuit /\ left' = AfterWord(c, <<>>, others[c] = "probe")
        BY <2>4 DEF OtherVanishes
      <3>2. SlotTaken(c) /\ <<>> # <<"probe">>
        BY <2>1, <3>1 DEF SlotTaken
      <3>3. c \notin left /\ others[c] # "probe"
        BY <1>5, <3>1, <3>2 DEF AfterWord, SlotTaken
      <3>4. probe /\ pos.chan = c /\ pc \notin {"channel", "answer", "done"}
        BY <3>2, <3>3 DEF HalfOpenSlotAccounted, SlotTaken, Probing
      <3> QED
        BY <1>1, <3>4 DEF Probing
    <2> QED
      BY <2>2, <2>3, <2>4
  <1>6. ASSUME NEW d \in Channels, d \notin left', SlotTaken(d)'
        PROVE  Probing(d)'
    BY <1>4, <1>5, <1>6
  <1> QED
    BY <1>6 DEF HalfOpenSlotAccounted, SlotTaken

LEMMA SlotsStep ==
    ASSUME ServiceTyped, RequestInv, HalfOpenSlotAccounted, [ServiceNext]_serviceVars
    PROVE  HalfOpenSlotAccounted'
  <1>1. CASE Serve
    BY <1>1, ServeKeepsSlots
  <1>2. CASE NewRequest
    <2>1. /\ UNCHANGED <<clock, circuit, others, left>> /\ pc = "done" /\ pc' = "channel"
      BY <1>2 DEF NewRequest, around
    <2> QED
      BY <2>1 DEF HalfOpenSlotAccounted, Probing
  <1>3. ASSUME NEW c \in Troubled, OtherEnters(c) \/ OtherReports(c) \/ OtherVanishes(c)
        PROVE  HalfOpenSlotAccounted'
    <2>1. c \in Channels
      BY ServiceAssumption
    <2> QED
      BY <1>3, <2>1, OthersKeepSlots
  <1>4. CASE Tick
    <2>1. /\ UNCHANGED <<pc, pos, probe, circuit, others, left>>
          /\ clock' = clock + 1 /\ clock \in Nat
      BY <1>4 DEF Tick, ServiceTyped, vars
    <2>2. \A c \in Channels : circuit[c] # NoEntry /\ IsProbing(circuit[c], clock') => IsProbing(circuit[c], clock)
      BY <2>1 DEF IsProbing, ServiceTyped, SoundState, ChannelCircuitState
    <2> QED
      BY <2>1, <2>2 DEF HalfOpenSlotAccounted, Probing
  <1>5. CASE Outage \/ Repair \/ UNCHANGED serviceVars
    <2>1. UNCHANGED <<pc, pos, probe, clock, circuit, others, left>>
      BY <1>5 DEF Outage, Repair, serviceVars, around, vars
    <2> QED
      BY <2>1 DEF HalfOpenSlotAccounted, Probing
  <1> QED
    BY <1>1, <1>2, <1>3, <1>4, <1>5 DEF ServiceNext

\* A half-open slot is never taken by nobody: while it blocks the channel, the
\* probe it was given to is on its way, however the retries, keys and errors of
\* its request go and whatever other requests report; lost are only the slots of
\* bodies that were cut and of reports that found no store (Allow, CancelProbe,
\* RecordFailure and RecordSuccess under tryChannels).
THEOREM SlotsAlwaysAccounted == ServiceSpec => []HalfOpenSlotAccounted
  <1>1. ServiceInit => HalfOpenSlotAccounted
    BY DEF ServiceInit, HalfOpenSlotAccounted
  <1>2. /\ ServiceTyped /\ RequestInv /\ HalfOpenSlotAccounted /\ [ServiceNext]_serviceVars
        => HalfOpenSlotAccounted'
    BY SlotsStep
  <1> QED
    BY <1>1, <1>2, TypedService, PTL DEF ServiceSpec

-----------------------------------------------------------------------------
(* The healthy channel.                                                    *)

\* Nothing was ever held against the channel.
GoodEvent == [at : Nat, success : {TRUE}, slow : {FALSE}]

Blameless(s) == s.events \in Seq(GoodEvent) /\ s.openUntil = NoTime /\ ~s.halfOpen

LEMMA GoodEventsAreEvents ==
    /\ GoodEvent \in SUBSET ChannelCircuitEvent
    /\ \A events \in Seq(GoodEvent) : events \in Seq(ChannelCircuitEvent)
  <1>1. GoodEvent \in SUBSET ChannelCircuitEvent
    BY DEF GoodEvent, ChannelCircuitEvent
  <1> QED
    BY <1>1, SeqMonotonic

LEMMA BlamelessStaysClosed ==
    ASSUME NEW s, s.events \in Seq(GoodEvent), ~s.halfOpen
    PROVE  ~ShouldOpen(s)
  <1>1. s.events \in Seq(ChannelCircuitEvent)
    BY GoodEventsAreEvents
  <1>2. \A i \in 1..Len(s.events) : s.events[i].success /\ ~s.events[i].slow
    <2>1. \A i \in 1..Len(s.events) : s.events[i] \in GoodEvent
      BY ElementOfSeq
    <2> QED
      BY <2>1 DEF GoodEvent
  <1>3. FailureCount(s.events) = 0 /\ SlowCount(s.events) = 0
    BY <1>1, <1>2, NothingCounted
  <1>4. ASSUME NEW n \in Nat, n >= MinSamples
        PROVE  ~(0 * ErrorDen >= ErrorNum * n) /\ (SlowNum > 0 => ~(0 * SlowDen >= SlowNum * n))
    BY <1>4, SamplesAssumption, RatesAssumption
  <1>5. Len(s.events) \in Nat
    BY <1>1
  <1> QED
    BY <1>3, <1>4, <1>5 DEF ShouldOpen

HealthyBlameless ==
    \A c \in Channels : health[c] = "healthy" /\ circuit[c] # NoEntry => Blameless(circuit[c])

LEMMA BlamelessNow ==
    ASSUME ServiceTyped, HealthyBlameless, NEW c \in Channels, health[c] = "healthy"
    PROVE  Blameless(State(c)) /\ State(c) \in ChannelCircuitState /\ clock \in Nat
  <1> DEFINE s == IF circuit[c] = NoEntry THEN NewChannelCircuitState ELSE circuit[c]
  <1>1. clock \in Nat
    BY DEF ServiceTyped
  <1>2. SoundState(s, clock)
    BY <1>1, NewStateSound DEF ServiceTyped
  <1>3. Blameless(s)
    BY DEF HealthyBlameless, Blameless, NewChannelCircuitState
  <1> HIDE DEF s
  <1>4. TrimEvents(s.events, clock) \in Seq(GoodEvent)
    BY <1>1, <1>3, TrimEventsIn DEF Blameless, GoodEvent, ChannelCircuitEvent
  <1>5. Blameless(Trimmed(s, clock))
    BY <1>2, <1>3, <1>4 DEF Blameless, Trimmed, SoundState, ChannelCircuitState
  <1>6. State(c) = Trimmed(s, clock)
    BY DEF State, s
  <1> QED
    BY <1>1, <1>5, <1>6, StateSound DEF SoundState

LEMMA HealthyLetsIn ==
    ASSUME ServiceTyped, HealthyBlameless, NEW c \in Channels, health[c] = "healthy"
    PROVE  Answer(c) = "admitted"
  <1>1. Blameless(State(c)) /\ clock \in Nat
    BY BlamelessNow
  <1> QED
    BY <1>1 DEF Answer, MustSkip, GetsProbe, IsOpen, Blameless, NoTime

\* Successes and answers keep it so.
LEMMA BlamelessAfter ==
    ASSUME ServiceTyped, HealthyBlameless, NEW c \in Channels, health[c] = "healthy",
           NEW word \in Words \ {"failure", "opened", "exemptFailure"}, After(c, word) # NoEntry
    PROVE  Blameless(After(c, word))
  <1> DEFINE s == State(c)
             w == WithEvent(s, Event(TRUE), clock)
  <1>1. Blameless(s) /\ s \in ChannelCircuitState /\ clock \in Nat
    BY BlamelessNow
  <1>2. Event(TRUE) \in GoodEvent
    BY <1>1 DEF Event, GoodEvent
  <1> HIDE DEF s
  <1>3. w \in ChannelCircuitState /\ w.events \in Seq(GoodEvent) /\ w.openUntil = NoTime /\ ~w.halfOpen
    <2>1. GoodEvent \in SUBSET ChannelCircuitEvent
      BY GoodEventsAreEvents
    <2>2. AppendEvent(s.events, Event(TRUE), clock) \in Seq(GoodEvent)
      BY <1>1, <1>2, <2>1, AppendEventIn DEF Blameless
    <2>3. AppendEvent(s.events, Event(TRUE), clock) \in Seq(ChannelCircuitEvent)
      BY <2>2, GoodEventsAreEvents
    <2> QED
      BY <1>1, <2>2, <2>3 DEF WithEvent, Blameless, ChannelCircuitState
  <1> HIDE DEF w
  <1>4. CASE word \in {"denied", "admitted", "probe"}
    BY <1>1, <1>4 DEF After, s, AfterAllow, GetsProbe, Blameless
  <1>5. CASE word = "success"
    <2> DEFINE t == [w EXCEPT !.whitelisted = FALSE,
                              !.openUntil = IF IsOpen(s, clock) THEN NoTime ELSE @]
    <2>1. t.events = w.events /\ t.openUntil = NoTime /\ t.halfOpen = w.halfOpen
      BY <1>3 DEF ChannelCircuitState
    <2> HIDE DEF t
    <2>2. ~ShouldOpen(t)
      BY <1>3, <2>1, BlamelessStaysClosed
    <2>3. After(c, word) = AfterSuccess(s, Event(TRUE), clock)
      BY <1>5 DEF After, s
    <2>4. AfterSuccess(s, Event(TRUE), clock) = t
      BY <2>2 DEF AfterSuccess, t, w
    <2> QED
      BY <1>3, <2>1, <2>3, <2>4 DEF Blameless
  <1>6. CASE word = "cancel"
    BY <1>1, <1>6 DEF After, s, CancelledProbe, Blameless
  <1>7. CASE word = "tracked"
    <2>1. After(c, word) = [s EXCEPT !.whitelisted = TRUE]
      BY <1>7 DEF After, s
    <2> QED
      BY <1>1, <2>1 DEF Blameless, ChannelCircuitState
  <1>8. CASE word = "exemptSuccess"
    <2>1. After(c, word) = [Cleared(w) EXCEPT !.whitelisted = TRUE]
      BY <1>8 DEF After, s, w, AfterWhitelisted
    <2> QED
      BY <1>3, <2>1 DEF Cleared, Blameless, ChannelCircuitState
  <1> QED
    BY <1>4, <1>5, <1>6, <1>7, <1>8 DEF Words, Answers, Verdict

\* The last error is a timeout of another channel's that passes for the end.
TimedOutElsewhere == OwnTimeout(result.lastErr) /\ result.from \in Troubled

\* Without a budget, an error at the healthy channel is the client's leaving, and
\* a request whose client stays goes past the others only, or ends at one of them
\* that timed out.
HealthyTurn ==
    /\ budget = "ample"
    /\ pc = "failed" /\ health[pos.chan] = "healthy" => IsContextDoneError(err) /\ client = "gone"
    /\ client = "here" /\ (\E c \in Channels : health[c] = "healthy") =>
         /\ pc \notin {"answer", "done"} => \A c \in Channels : health[c] = "healthy" => pos.chan <= c
         /\ pc = "answer" => TimedOutElsewhere
         /\ pc = "done" => ~ErrorReply \/ TimedOutElsewhere

\* Every error status is one the next channel is tried upon.
ErrorsArePassedOver ==
    \A status \in Statuses :
        status >= 400 => IF HasRetryOnResponse THEN status \in RetryStatuses
                         ELSE status = 429 \/ status >= 500

LEMMA DoneContextsTimedOut ==
    ASSUME IInv, budget = "ample", client = "here", IsContextDoneError(err)
    PROVE  OwnTimeout(err)
  BY DEF IInv, CausesHaveReasons, HasReason, ContextDone, BudgetError

\* A healthy channel is told of no failure.
LEMMA HealthyHearsNoFailure ==
    ASSUME HealthyTurn, NEW c \in Channels, health[c] = "healthy", NEW words, StepTells(c, words),
           AsHealthy(c), words # <<>>
    PROVE  words[1] \notin {"failure", "opened", "exemptFailure"}
  <1>1. LetDown => pc' = "failed" /\ IsContextDoneError(err')
    BY DEF AsHealthy
  <1>2. CASE Asks(c, words)
    <2>1. /\ <<"denied">>[1] = "denied" /\ <<"admitted">>[1] = "admitted"
          /\ <<"probe">>[1] = "probe" /\ <<"tracked">>[1] = "tracked"
      OBVIOUS
    <2> QED
      BY <1>2, <2>1 DEF Asks
  <1>3. ~TakesTurn(c, words)
    BY <1>1 DEF TakesTurn
  <1>4. CASE Leaves(c, words)
    <2>1. words = <<>> \o ProbeEnd
      BY <1>4 DEF Leaves, HealthyTurn
    <2>2. words = <<"cancel">>
      BY <2>1 DEF ProbeEnd
    <2> QED
      BY <2>2
  <1>5. CASE Forwards(c, words)
    <2>1. reply' # "broken"
      BY <1>1, <1>5 DEF Forwards, LetDown
    <2>2. <<"success">>[1] = "success" /\ <<"exemptSuccess">>[1] = "exemptSuccess"
      OBVIOUS
    <2> QED
      BY <1>5, <2>1, <2>2 DEF Forwards
  <1>6. ~KeepsSilent(words)
    BY DEF KeepsSilent
  <1> QED
    BY <1>2, <1>3, <1>4, <1>5, <1>6 DEF StepTells

\* How a step of the request whose client stays goes on.
LEMMA BudgetStaysAmple ==
    ASSUME ~HasBudget, budget = "ample", Next
    PROVE  budget' = "ample" /\ (client' = client \/ client' = "gone")
  BY DEF Next, Proceed, Await, BudgetShrinks, ClientLeaves, LeaveLoop, SkipChannel,
         SelectChannel, GetKeys, CannotPrepare, StartAttempt, SendRequest, FailChannel, WriteError,
         RunInternalHandler, FailAttempt, Respond, RejectResponse, ReturnErrorResponse,
         AcceptResponse, WriteResponse, env

LEMMA FailedChannelIsPassed ==
    ASSUME ~HasBudget, ErrorsArePassedOver, IInv, budget = "ample", client = "here", FailChannel
    PROVE  \/ pc' = "channel" /\ pos'.chan = pos.chan + 1
           \/ pc' = "answer" /\ OwnTimeout(result'.lastErr) /\ result'.from = pos.chan
  <1> DEFINE status == IF resp = NoResponse THEN ctx.status ELSE resp.status
  <1>1. status \in Statuses \cup {0}
    BY DEF IInv, TypeOK
  <1>2. /\ pos \in [chan : 1..(NumChannels + 1), key : 0..NumKeys, attempt : 0..MaxAttempts]
        /\ IF ShouldContinue(err, status) THEN pc' = "channel" /\ pos' = [pos EXCEPT !.chan = @ + 1]
           ELSE pc' = "answer" /\ UNCHANGED pos
        /\ result' = [result EXCEPT !.lastErr = err, !.from = pos.chan]
        /\ result \in [lastErr : Errors, from : 0..NumChannels, skipped : 0..NumChannels]
    BY DEF FailChannel, IInv, TypeOK
  <1> HIDE DEF status
  <1>3. CASE IsContextDoneError(err)
    <2>1. ~ShouldContinue(err, status)
      BY <1>3 DEF ShouldContinue
    <2>2. result'.lastErr = err /\ result'.from = pos.chan
      BY <1>2
    <2> QED
      BY <1>2, <1>3, <2>1, <2>2, DoneContextsTimedOut
  <1>4. CASE ~IsContextDoneError(err)
    <2>1. ShouldContinue(err, status)
      BY <1>1, <1>4, StatusesAreCodes DEF ShouldContinue, ErrorsArePassedOver, IsRetryableError
    <2> QED
      BY <1>2, <2>1
  <1> QED
    BY <1>3, <1>4

LEMMA ServeKeepsHealthy ==
    ASSUME ~HasBudget, ErrorsArePassedOver, ServiceTyped, RequestInv, HealthyBlameless, HealthyTurn,
           Serve
    PROVE  HealthyBlameless' /\ HealthyTurn'
  <1>1. PICK c \in Channels : c = Here
    BY ServeHears
  <1>2. PICK words : words = Added(c)
    OBVIOUS
  <1>3. /\ StepTells(c, words) /\ IInv /\ IInv'
        /\ \/ words = <<>> /\ UNCHANGED circuit
           \/ words # <<>> /\ words[1] \in Words /\ Hear(c, words[1])
    BY <1>1, <1>2, ServeHears DEF RequestInv
  <1>4. pc # "done" /\ Next /\ AsHealthy(c) /\ UNCHANGED <<clock, store, health>>
    BY <1>1 DEF Serve, Here
  <1>5. HealthyBlameless'
    <2> SUFFICES ASSUME NEW d \in Channels, health[d] = "healthy", circuit'[d] # NoEntry
                 PROVE  Blameless(circuit'[d])
      BY <1>4 DEF HealthyBlameless
    <2>1. CASE circuit'[d] = circuit[d]
      BY <2>1 DEF HealthyBlameless
    <2>2. CASE circuit'[d] # circuit[d]
      <3>1. words # <<>> /\ words[1] \in Words /\ Hear(c, words[1])
        BY <1>3, <2>2
      <3>2. d = c /\ circuit'[c] = After(c, words[1])
        BY <2>2, <3>1, HearKeepsSound
      <3>3. words[1] \notin {"failure", "opened", "exemptFailure"}
        BY <1>3, <1>4, <3>1, <3>2, HealthyHearsNoFailure
      <3> QED
        BY <3>1, <3>2, <3>3, BlamelessAfter
    <2> QED
      BY <2>1, <2>2
  <1>6. budget = "ample" /\ budget' = "ample" /\ (client' = client \/ client' = "gone")
    BY <1>4, BudgetStaysAmple DEF HealthyTurn
  <1>7. (pc = "failed" /\ health[pos.chan] = "healthy" =>
           IsContextDoneError(err) /\ client = "gone")'
    <2> SUFFICES ASSUME pc' = "failed", health[pos'.chan] = "healthy"
                 PROVE  IsContextDoneError(err') /\ client' = "gone"
      BY <1>4
    <2>1. CASE TakesTurn(c, words)
      <3>1. IsContextDoneError(err') /\ (ContextDone \/ BudgetError)
        BY <1>4, <2>1 DEF TakesTurn, AsHealthy, EndsForReason
      <3> QED
        BY <1>6, <3>1 DEF ContextDone, BudgetError
    <2>2. CASE KeepsSilent(words)
      <3>1. pc = "failed" /\ pos' = pos
        BY <2>2 DEF KeepsSilent
      <3>2. FailChannel \/ err' = err
        BY <1>4, <3>1 DEF Next, Proceed, Await, BudgetShrinks, ClientLeaves, LeaveLoop, SkipChannel,
             SelectChannel, GetKeys, CannotPrepare, StartAttempt, SendRequest, WriteError,
             RunInternalHandler, FailAttempt, Respond, RejectResponse, ReturnErrorResponse,
             AcceptResponse, WriteResponse
      <3>3. ~FailChannel
        BY DEF FailChannel
      <3> QED
        BY <1>4, <1>6, <3>1, <3>2, <3>3 DEF HealthyTurn
    <2> QED
      BY <1>3, <2>1, <2>2 DEF StepTells, Asks, Leaves, Forwards
  <1>8. ASSUME client' = "here", NEW h \in Channels, health[h] = "healthy"
        PROVE  /\ pc' \notin {"answer", "done"} => \A d \in Channels : health[d] = "healthy" => pos'.chan <= d
               /\ pc' = "answer" => TimedOutElsewhere'
               /\ pc' = "done" => ~ErrorReply' \/ TimedOutElsewhere'
    <2>1. /\ client = "here"
          /\ pc # "done" /\ (pc = "answer" => TimedOutElsewhere) /\ pos.chan \in Nat
          /\ \A d \in Channels : d \in Nat
          /\ pc # "answer" => \A d \in Channels : health[d] = "healthy" => pos.chan <= d
      BY <1>3, <1>4, <1>6, <1>8 DEF HealthyTurn, IInv, TypeOK, Channels
    <2>2. CASE Asks(c, words)
      <3>1. words = <<"denied">> => health[c] # "healthy"
        <4>1. <<"denied">> # <<>> /\ <<"denied">>[1] = "denied"
          OBVIOUS
        <4>2. words = <<"denied">> => Fits(c, "denied")
          BY <1>3, <4>1 DEF Hear
        <4> QED
          BY <4>2, HealthyLetsIn DEF Fits
      <3> QED
        BY <2>1, <2>2, <3>1 DEF Asks
    <2>3. CASE TakesTurn(c, words)
      BY <2>1, <2>3 DEF TakesTurn, AtChannel
    <2>4. CASE Leaves(c, words)
      <3>1. FailChannel
        BY <1>4, <2>4 DEF Leaves, Next, Proceed, Await, BudgetShrinks, ClientLeaves, LeaveLoop, SkipChannel,
             SelectChannel, GetKeys, CannotPrepare, StartAttempt, SendRequest, WriteError,
             RunInternalHandler, FailAttempt, Respond, RejectResponse, ReturnErrorResponse,
             AcceptResponse, WriteResponse
      <3>2. \/ pc' = "channel" /\ pos'.chan = pos.chan + 1
            \/ pc' = "answer" /\ OwnTimeout(result'.lastErr) /\ result'.from = pos.chan
        BY <1>3, <1>6, <2>1, <3>1, FailedChannelIsPassed
      <3>3. health[pos.chan] # "healthy" /\ pos.chan \in Channels
        BY <1>1, <2>1, <2>4, AtChannelHere, <1>3 DEF HealthyTurn, Leaves, AtChannel
      <3>4. pos.chan \in Troubled
        BY <3>3 DEF ServiceTyped
      <3> QED
        BY <2>1, <2>4, <3>2, <3>3, <3>4 DEF TimedOutElsewhere, Leaves, AtChannel, OwnTimeout
    <2>5. CASE Forwards(c, words)
      BY <2>5 DEF Forwards, ErrorReply
    <2>6. CASE KeepsSilent(words)
      <3>1. ~BudgetError /\ (pc # "answer" => ~(pos.chan > NumChannels))
        BY <1>6, <1>8, <2>1, CountsAssumption DEF Channels, BudgetError
      <3>2. pc = "answer" => result' = result
        BY <1>4 DEF Next, Proceed, Await, BudgetShrinks, ClientLeaves, LeaveLoop, SkipChannel,
             SelectChannel, GetKeys, CannotPrepare, StartAttempt, SendRequest, FailChannel, WriteError,
             RunInternalHandler, FailAttempt, Respond, RejectResponse, ReturnErrorResponse,
             AcceptResponse, WriteResponse
      <3> QED
        BY <2>1, <2>6, <3>1, <3>2 DEF KeepsSilent, TimedOutElsewhere, OwnTimeout
    <2> QED
      BY <1>3, <2>2, <2>3, <2>4, <2>5, <2>6 DEF StepTells
  <1>9. HealthyTurn'
    BY <1>4, <1>6, <1>7, <1>8 DEF HealthyTurn
  <1> QED
    BY <1>5, <1>9

LEMMA HealthyStep ==
    ASSUME ~HasBudget, ErrorsArePassedOver, ServiceTyped, RequestInv, HealthyBlameless, HealthyTurn,
           [ServiceNext]_serviceVars
    PROVE  HealthyBlameless' /\ HealthyTurn'
  <1>1. CASE Serve
    BY <1>1, ServeKeepsHealthy
  <1>2. CASE NewRequest
    <2>1. /\ UNCHANGED <<circuit, health>> /\ budget' = "ample" /\ pc' = "channel"
          /\ pos' = [chan |-> 1, key |-> 0, attempt |-> 0]
      BY <1>2 DEF NewRequest, around
    <2>2. \A c \in Channels : 1 <= c
      BY DEF Channels
    <2> QED
      BY <2>1, <2>2 DEF HealthyBlameless, HealthyTurn
  <1>3. ASSUME NEW c \in Troubled, OtherEnters(c) \/ OtherReports(c) \/ OtherVanishes(c)
        PROVE  HealthyBlameless' /\ HealthyTurn'
    <2>1. UNCHANGED <<vars, health>> /\ c \in Channels /\ health[c] # "healthy"
      BY <1>3, ServiceAssumption DEF OtherEnters, OtherReports, OtherVanishes, ServiceTyped
    <2>2. \A d \in Channels : d # c => circuit'[d] = circuit[d]
      BY <1>3, <2>1, OthersTalk, HearKeepsSound DEF OtherEnters, OtherReports, OtherVanishes
    <2> QED
      BY <2>1, <2>2 DEF HealthyBlameless, HealthyTurn, TimedOutElsewhere, OwnTimeout, vars, ErrorReply
  <1>4. CASE UNCHANGED <<vars, circuit, health>>
    BY <1>4 DEF HealthyBlameless, HealthyTurn, TimedOutElsewhere, OwnTimeout, vars, ErrorReply
  <1> QED
    BY <1>1, <1>2, <1>3, <1>4 DEF ServiceNext, Tick, Outage, Repair, serviceVars, around

\* One healthy channel in the list is enough: a client that waits gets an answer
\* that is no error, whatever the channels before it do, the circuits they leave,
\* the requests around it and the state of the breakers' store.  The assumptions
\* leave out the failover budget and error statuses that count as an answer; what
\* remains is the exception the property names, a timeout of an unhealthy channel
\* taken for the request's end (tryChannels, shouldContinueToNextChannel, Allow).
THEOREM HealthyChannelAlwaysServes ==
    ASSUME ~HasBudget, ErrorsArePassedOver
    PROVE  ServiceSpec => []HealthyChannelServes
  <1>1. ServiceInit => HealthyBlameless /\ HealthyTurn
    <2> SUFFICES ASSUME ServiceInit PROVE HealthyBlameless /\ HealthyTurn
      OBVIOUS
    <2>1. /\ budget = "ample" /\ pc = "channel" /\ pos = [chan |-> 1, key |-> 0, attempt |-> 0]
          /\ circuit = [c \in Channels |-> NoEntry]
      BY DEF ServiceInit, Init
    <2>2. \A c \in Channels : 1 <= c
      BY DEF Channels
    <2> QED
      BY <2>1, <2>2 DEF HealthyBlameless, HealthyTurn
  <1>2. /\ ServiceTyped /\ RequestInv /\ HealthyBlameless /\ HealthyTurn
        /\ [ServiceNext]_serviceVars
        => HealthyBlameless' /\ HealthyTurn'
    BY HealthyStep
  <1>3. HealthyTurn => HealthyChannelServes
    BY DEF HealthyTurn, TimedOutElsewhere, HealthyChannelServes
  <1> QED
    BY <1>1, <1>2, <1>3, TypedService, PTL DEF ServiceSpec

-----------------------------------------------------------------------------
(* The sick channels.                                                      *)

\* The stretches of time in which a sick channel may cost MinSamples failures:
\* none is longer than a circuit stays open, nor than an event counts.
Period == IF Cooldown <= FailureWindow THEN Cooldown ELSE FailureWindow + 1
StartOf(k) == k * Period + 1
AllowedBefore(k) == MinSamples * k

LEMMA Periods ==
    /\ Period \in Nat \ {0} /\ Period <= Cooldown /\ Period <= FailureWindow + 1
    /\ \A k \in Nat : /\ StartOf(k) \in Nat /\ StartOf(k + 1) = StartOf(k) + Period
                       /\ AllowedBefore(k) \in Nat
                       /\ AllowedBefore(k + 1) = AllowedBefore(k) + MinSamples
    /\ StartOf(0) = 1
  <1>1. Period \in Nat \ {0} /\ Period <= Cooldown /\ Period <= FailureWindow + 1
    BY DurationsAssumption DEF Period
  <1>2. ASSUME NEW p \in Nat, NEW m \in Nat, NEW k \in Nat
        PROVE  /\ k * p + 1 \in Nat /\ (k + 1) * p + 1 = (k * p + 1) + p
               /\ m * k \in Nat /\ m * (k + 1) = m * k + m /\ 0 * p + 1 = 1
    OBVIOUS
  <1> QED
    BY <1>1, <1>2, SamplesAssumption DEF StartOf, AllowedBefore

\* The last n events of a state happened since then.
LastSince(s, since, n) ==
    /\ n \in 0..Len(s.events)
    /\ \A i \in (Len(s.events) - n + 1)..Len(s.events) : s.events[i].at >= since

\* The request may still take a failure of the channel that its breaker hears of.
MayFail(c) == AtChannel /\ pos.chan = c /\ (pc # "failed" \/ c \in PoolChannels)

\* In the k-th stretch the requests took n failures of the channel, each of them
\* counts, and once they are as many as MinSamples the circuit is open, and the
\* request that took the last one will not take another.
Spared(c, k, n) ==
    /\ n \in 0..MinSamples
    /\ suffered[c] <= AllowedBefore(k) + n
    /\ n > 0 =>
         /\ store = "up" /\ c \notin ExemptChannels /\ health[c] = "sick"
         /\ circuit[c] # NoEntry /\ LastSince(circuit[c], StartOf(k), n)
    /\ n = MinSamples =>
         /\ circuit[c].openUntil >= StartOf(k) + Cooldown
         /\ ~MayFail(c)

SparedAll(k) ==
    /\ StartOf(k) <= clock /\ clock < StartOf(k) + Period
    /\ \A c \in Channels : \E n \in 0..MinSamples : Spared(c, k, n)

\* A sick channel has nothing but failures to show, and no response to forward.
BadEvent == [at : Nat, success : {FALSE}, slow : BOOLEAN]

OnlyFailures ==
    \A c \in Channels \ ExemptChannels :
        health[c] = "sick" /\ circuit[c] # NoEntry => circuit[c].events \in Seq(BadEvent)

SickNeverServes == pc = "writing" => health[pos.chan] # "sick"

SickInv == OnlyFailures /\ SickNeverServes /\ \E k \in Nat : SparedAll(k)

\* The window holds as many events as are asked for, and failures alone reach
\* the rate.
RatesReachable == MinSamples <= MaxWindowSamples /\ ErrorNum <= ErrorDen

LEMMA BadEventsAreEvents ==
    /\ BadEvent \in SUBSET ChannelCircuitEvent
    /\ \A events \in Seq(BadEvent) : events \in Seq(ChannelCircuitEvent)
  <1>1. BadEvent \in SUBSET ChannelCircuitEvent
    BY DEF BadEvent, ChannelCircuitEvent
  <1> QED
    BY <1>1, SeqMonotonic

LEMMA EnoughFailuresOpen ==
    ASSUME RatesReachable, NEW s, s.events \in Seq(BadEvent), Len(s.events) >= MinSamples
    PROVE  ShouldOpen(s)
  <1>1. s.events \in Seq(ChannelCircuitEvent) /\ Len(s.events) \in Nat
    BY BadEventsAreEvents
  <1>2. \A i \in 1..Len(s.events) : ~s.events[i].success
    <2>1. \A i \in 1..Len(s.events) : s.events[i] \in BadEvent
      BY ElementOfSeq
    <2> QED
      BY <2>1 DEF BadEvent
  <1>3. FailureCount(s.events) = Len(s.events)
    BY <1>1, <1>2, AllFailuresCounted
  <1>4. ASSUME NEW n \in Nat PROVE n * ErrorDen >= ErrorNum * n
    <2>1. ErrorDen - ErrorNum \in Nat /\ ErrorNum \in Nat /\ ErrorDen \in Nat
      BY RatesAssumption DEF RatesReachable
    <2>2. n * (ErrorDen - ErrorNum) >= 0
      BY <2>1
    <2>3. n * (ErrorDen - ErrorNum) = n * ErrorDen - ErrorNum * n
      BY <2>1
    <2>4. n * ErrorDen \in Nat /\ ErrorNum * n \in Nat
      BY <2>1
    <2> QED
      BY <2>2, <2>3, <2>4
  <1> QED
    BY <1>1, <1>3, <1>4 DEF ShouldOpen

\* The state a breaker reads still has the events of the stretch.
LEMMA StateKeepsTail ==
    ASSUME ServiceTyped, NEW c \in Channels, NEW since \in Nat, since >= clock - FailureWindow,
           NEW n \in Nat, n > 0 => circuit[c] # NoEntry /\ LastSince(circuit[c], since, n)
    PROVE  /\ LastSince(State(c), since, n)
           /\ circuit[c] # NoEntry => State(c).openUntil = circuit[c].openUntil
  <1>1. clock \in Nat
    BY DEF ServiceTyped
  <1>2. CASE circuit[c] # NoEntry
    <2>1. circuit[c] \in ChannelCircuitState /\ State(c) = Trimmed(circuit[c], clock)
      BY <1>2 DEF ServiceTyped, SoundState, State
    <2>2. LastSince(circuit[c], since, n)
      BY <2>1, <1>2 DEF LastSince, ChannelCircuitState
    <2>3. circuit[c].events \in Seq(ChannelCircuitEvent)
      BY <2>1 DEF ChannelCircuitState
    <2>4. /\ State(c).events = TrimEvents(circuit[c].events, clock)
          /\ State(c).openUntil = circuit[c].openUntil
      BY <2>1 DEF Trimmed, ChannelCircuitState
    <2>5. PICK events \in Seq(ChannelCircuitEvent) : events = circuit[c].events
      BY <2>3
    <2>6. /\ n \in 0..Len(events) /\ since \in Int
          /\ \A i \in (Len(events) - n + 1)..Len(events) : events[i].at >= since
      BY <2>2, <2>5 DEF LastSince
    <2>7. LET out == TrimEvents(events, clock)
          IN  n \in 0..Len(out) /\ \A i \in (Len(out) - n + 1)..Len(out) : out[i].at >= since
      BY <1>1, <2>6, TrimEventsKeepsTail
    <2> QED
      BY <2>4, <2>5, <2>7 DEF LastSince
  <1>3. CASE circuit[c] = NoEntry
    <2>1. n = 0 /\ State(c) \in ChannelCircuitState
      BY <1>3, StateSound DEF SoundState
    <2>2. Len(State(c).events) \in Nat
      BY <2>1 DEF ChannelCircuitState
    <2> QED
      BY <1>3, <2>1, <2>2 DEF LastSince
  <1> QED
    BY <1>2, <1>3

\* An answer and the end of a probe leave the events and the opening alone.
LEMMA AnswersKeepTail ==
    ASSUME ServiceTyped, NEW c \in Channels, NEW since \in Nat, since >= clock - FailureWindow,
           NEW n \in Nat \ {0}, circuit[c] # NoEntry, LastSince(circuit[c], since, n),
           NEW word \in {"denied", "admitted", "probe", "cancel"}
    PROVE  /\ After(c, word) # NoEntry /\ LastSince(After(c, word), since, n)
           /\ After(c, word).openUntil = circuit[c].openUntil
  <1> DEFINE s == State(c)
  <1>1. LastSince(s, since, n) /\ s.openUntil = circuit[c].openUntil /\ s \in ChannelCircuitState
    BY StateKeepsTail, StateSound DEF SoundState
  <1>2. s.events # <<>>
    <2>1. Len(s.events) >= 1
      BY <1>1 DEF LastSince, ChannelCircuitState
    <2> QED
      BY <2>1
  <1> HIDE DEF s
  <1>3. After(c, word) = AfterAllow(s, clock) \/ After(c, word) = CancelledProbe(s)
    BY <1>2 DEF After, s, IsIdle
  <1>4. /\ After(c, word).events = s.events /\ After(c, word).openUntil = s.openUntil
        /\ After(c, word) \in ChannelCircuitState
    <2>1. clock + ProbeTimeout \in Nat
      BY DurationsAssumption DEF ServiceTyped
    <2>2. /\ AfterAllow(s, clock).events = s.events /\ AfterAllow(s, clock).openUntil = s.openUntil
          /\ AfterAllow(s, clock) \in ChannelCircuitState
      BY <1>1, <2>1 DEF AfterAllow, ChannelCircuitState
    <2>3. /\ CancelledProbe(s).events = s.events /\ CancelledProbe(s).openUntil = s.openUntil
          /\ CancelledProbe(s) \in ChannelCircuitState
      BY <1>1 DEF CancelledProbe, ChannelCircuitState, NoTime
    <2> QED
      BY <1>3, <2>2, <2>3
  <1> QED
    BY <1>1, <1>4, NoStateAssumption DEF LastSince

LEMMA StateOnlyFails ==
    ASSUME ServiceTyped, NEW c \in Channels,
           circuit[c] # NoEntry => circuit[c].events \in Seq(BadEvent)
    PROVE  State(c).events \in Seq(BadEvent)
  <1>1. clock \in Nat
    BY DEF ServiceTyped
  <1>2. CASE circuit[c] = NoEntry
    <2>1. State(c).events = TrimEvents(<<>>, clock) /\ <<>> \in Seq(BadEvent)
      BY <1>2 DEF State, Trimmed, NewChannelCircuitState
    <2> QED
      BY <1>1, <2>1, TrimEventsIn, BadEventsAreEvents
  <1>3. CASE circuit[c] # NoEntry
    <2>1. State(c).events = TrimEvents(circuit[c].events, clock)
      BY <1>3 DEF State, Trimmed, ServiceTyped, SoundState, ChannelCircuitState
    <2> QED
      BY <1>1, <1>3, <2>1, TrimEventsIn, BadEventsAreEvents
  <1> QED
    BY <1>2, <1>3

\* A failure adds an event, and opens the circuit if there are enough of them.
LEMMA FailureKeepsTail ==
    ASSUME RatesReachable, ServiceTyped, NEW c \in Channels,
           circuit[c] # NoEntry => circuit[c].events \in Seq(BadEvent),
           NEW since \in Nat, since >= clock - FailureWindow, since <= clock,
           NEW n \in Nat, n > 0 => circuit[c] # NoEntry /\ LastSince(circuit[c], since, n),
           NEW m \in 0..(n + 1), m <= MinSamples, NEW word \in {"failure", "opened"}
    PROVE  /\ After(c, word) # NoEntry /\ LastSince(After(c, word), since, m)
           /\ After(c, word).events \in Seq(BadEvent)
           /\ \/ After(c, word).openUntil >= since + Cooldown
              \/ After(c, word).openUntil = State(c).openUntil /\ m < MinSamples
           /\ m = MinSamples /\ store # "down" => FailureAnswer(c) = "opened"
  <1> DEFINE s == State(c)
             e == Event(FALSE)
             w == WithEvent(s, e, clock)
             t == [w EXCEPT !.whitelisted = FALSE]
  <1>1. /\ LastSince(s, since, n) /\ SoundState(s, clock) /\ s \in ChannelCircuitState
        /\ clock \in Nat /\ clock \in 1..clock
    BY StateKeepsTail, StateSound DEF SoundState, ServiceTyped
  <1>2. e \in BadEvent /\ e.at >= since
    BY <1>1 DEF Event, BadEvent
  <1>3. s.events \in Seq(BadEvent)
    BY StateOnlyFails
  <1>4. After(c, word) = AfterFailure(s, e, clock)
    BY DEF After
  <1>5. FailureAnswer(c) = IF store # "down" /\ ShouldOpen(w) THEN "opened" ELSE "failure"
    BY DEF FailureAnswer
  <1> HIDE DEF s, e
  <1>6. e \in ChannelCircuitEvent
    BY <1>2, BadEventsAreEvents
  <1>7. /\ w.events = AppendEvent(s.events, e, clock) /\ w.openUntil = s.openUntil
        /\ w.halfOpen = s.halfOpen
    BY <1>1 DEF WithEvent, ChannelCircuitState
  <1>8. SoundState(w, clock)
    BY <1>1, <1>6, WithEventSound
  <1>9. w.events \in Seq(BadEvent)
    BY <1>1, <1>2, <1>3, <1>7, BadEventsAreEvents, AppendEventIn
  <1>10. LastSince(w, since, m)
    <2>1. s.events \in Seq(ChannelCircuitEvent) /\ n \in 0..Len(s.events)
      BY <1>1 DEF ChannelCircuitState, LastSince
    <2>2. m <= MaxWindowSamples
      BY SamplesAssumption DEF RatesReachable
    <2>3. PICK events \in Seq(ChannelCircuitEvent) : events = s.events
      BY <2>1
    <2>4. /\ n \in 0..Len(events) /\ since \in Int /\ since >= clock - FailureWindow
          /\ \A i \in (Len(events) - n + 1)..Len(events) : events[i].at >= since
      BY <1>1, <2>1, <2>3 DEF LastSince
    <2>5. LET out == AppendEvent(events, e, clock)
          IN  m \in 0..Len(out) /\ \A i \in (Len(out) - m + 1)..Len(out) : out[i].at >= since
      BY <1>1, <1>2, <1>6, <2>2, <2>4, AppendEventKeepsTail
    <2> QED
      BY <1>7, <2>3, <2>5 DEF LastSince
  <1> HIDE DEF w
  <1>11. /\ t.events = w.events /\ t.openUntil = w.openUntil /\ t.halfOpen = w.halfOpen
         /\ t.currentCooldown = w.currentCooldown /\ t.consecutiveOpenCnt = w.consecutiveOpenCnt
         /\ t \in ChannelCircuitState /\ BoundedState(t, clock)
    BY <1>8 DEF SoundState, ChannelCircuitState, BoundedState
  <1>12. After(c, word) = IF ShouldOpen(t) THEN Opened(t, clock) ELSE t
    BY <1>4 DEF AfterFailure, t, w
  <1>13. ShouldOpen(t) <=> ShouldOpen(w)
    BY <1>11 DEF ShouldOpen
  <1> HIDE DEF t
  <1>14. m = MinSamples => ShouldOpen(w)
    <2>1. m = MinSamples => Len(w.events) >= MinSamples
      BY <1>10 DEF LastSince
    <2> QED
      BY <1>9, <2>1, EnoughFailuresOpen
  <1>15. CASE ShouldOpen(t)
    <2>1. NextCooldown(t) \in Cooldown..MaxCooldown
      BY <1>1, <1>11, NextCooldownBounds
    <2>2. /\ Opened(t, clock).events = t.events
          /\ Opened(t, clock).openUntil = clock + NextCooldown(t)
      BY <1>11 DEF Opened, ChannelCircuitState
    <2>3. SoundState(Opened(t, clock), clock)
      <3>1. Len(t.events) <= MaxWindowSamples
        BY <1>8, <1>11 DEF SoundState
      <3> QED
        BY <1>1, <1>11, <3>1, OpenedSound
    <2>4. Opened(t, clock).openUntil >= since + Cooldown
      BY <1>1, <2>1, <2>2, DurationsAssumption
    <2> QED
      BY <1>5, <1>9, <1>10, <1>11, <1>12, <1>13, <1>15, <2>2, <2>3, <2>4, NoStateAssumption
         DEF LastSince, SoundState
  <1>16. CASE ~ShouldOpen(t)
    <2>1. m < MinSamples
      BY <1>13, <1>14, <1>16, SamplesAssumption
    <2> QED
      BY <1>7, <1>9, <1>10, <1>11, <1>12, <1>16, <2>1, NoStateAssumption DEF LastSince, s
  <1> QED
    BY <1>15, <1>16

\* What a sick channel that is not exempt can hear.
SickWords == {"denied", "admitted", "probe", "failure", "opened", "cancel"}

LEMMA SickHears ==
    ASSUME NEW c \in Channels, NEW words, StepTells(c, words), words # <<>>
    PROVE  /\ words[1] \in {"failure", "opened"} => c \notin ExemptChannels
           /\ c \notin ExemptChannels /\ ~(pc = "writing" /\ pos.chan = c) => words[1] \in SickWords
  <1>1. CASE Asks(c, words) \/ TakesTurn(c, words) \/ Forwards(c, words) \/ KeepsSilent(words)
    BY <1>1 DEF Asks, TakesTurn, Forwards, KeepsSilent, FailureWord, SickWords
  <1>2. CASE Leaves(c, words)
    <2>1. PICK told \in {<<>>, <<FailureWord(c)>>, <<"opened">>} :
            words = told \o ProbeEnd /\ (told = <<"opened">> => c \notin ExemptChannels)
      BY <1>2 DEF Leaves
    <2>2. ProbeEnd \in {<<>>, <<"cancel">>}
      BY DEF ProbeEnd
    <2>3. told = <<>> => words[1] = "cancel"
      BY <2>1, <2>2
    <2>4. ASSUME NEW first \in STRING, told = <<first>> PROVE words[1] = first
      BY <2>1, <2>2, <2>4
    <2> QED
      BY <2>1, <2>3, <2>4 DEF FailureWord, SickWords
  <1> QED
    BY <1>1, <1>2 DEF StepTells

LEMMA OnlyFailuresAfter ==
    ASSUME RatesReachable, ServiceTyped, NEW c \in Channels,
           circuit[c] # NoEntry => circuit[c].events \in Seq(BadEvent),
           NEW word \in SickWords, After(c, word) # NoEntry
    PROVE  After(c, word).events \in Seq(BadEvent)
  <1>1. State(c).events \in Seq(BadEvent) /\ State(c) \in ChannelCircuitState
    BY StateOnlyFails, StateSound DEF SoundState
  <1>2. CASE word \in {"failure", "opened"}
    <2>1. clock \in Nat /\ FailureWindow \in Nat /\ MinSamples \in Nat \ {0}
      BY DurationsAssumption, SamplesAssumption DEF ServiceTyped
    <2> QED
      BY <1>2, <2>1, FailureKeepsTail
  <1>3. CASE word \in {"denied", "admitted", "probe", "cancel"}
    <2>1. After(c, word) = AfterAllow(State(c), clock) \/ After(c, word) = CancelledProbe(State(c))
      BY <1>3 DEF After
    <2>2. /\ AfterAllow(State(c), clock).events = State(c).events
          /\ CancelledProbe(State(c)).events = State(c).events
      BY <1>1 DEF AfterAllow, CancelledProbe, ChannelCircuitState
    <2> QED
      BY <1>1, <2>1, <2>2
  <1> QED
    BY <1>2, <1>3 DEF SickWords

\* All of a stretch lies within the window and the cooldown.
LEMMA StretchesAreShort ==
    ASSUME ServiceTyped, NEW k \in Nat, clock < StartOf(k) + Period
    PROVE  StartOf(k) \in Nat /\ StartOf(k) >= clock - FailureWindow /\ clock < StartOf(k) + Cooldown
  <1>1. /\ clock \in Nat /\ StartOf(k) \in Nat /\ Period \in Nat /\ FailureWindow \in Nat
        /\ Cooldown \in Nat /\ Period <= Cooldown /\ Period <= FailureWindow + 1
    BY Periods, DurationsAssumption DEF ServiceTyped
  <1> QED
    BY <1>1

\* A channel that cost as much as it may lets nobody in.
LEMMA SparedIsOpen ==
    ASSUME ServiceTyped, NEW c \in Channels, NEW k \in Nat, clock < StartOf(k) + Period,
           circuit[c] # NoEntry, circuit[c].openUntil >= StartOf(k) + Cooldown, store # "down"
    PROVE  Answer(c) = "denied"
  <1>1. State(c).openUntil = circuit[c].openUntil /\ circuit[c].openUntil \in Nat
    BY DEF ServiceTyped, SoundState, State, Trimmed, ChannelCircuitState
  <1>2. clock \in Nat /\ StartOf(k) \in Nat /\ Cooldown \in Nat /\ clock < StartOf(k) + Cooldown
    BY StretchesAreShort, DurationsAssumption DEF ServiceTyped
  <1>3. IsOpen(State(c), clock)
    BY <1>1, <1>2 DEF IsOpen
  <1> QED
    BY <1>3 DEF Answer, IsIdle, MustSkip


LEMMA FailuresAtTurns ==
    ASSUME NEW c \in Channels, NEW words, StepTells(c, words), words # <<>>,
           words[1] \in {"failure", "opened"}
    PROVE  MayFail(c) /\ (words[1] = "opened" => ~MayFail(c)')
  <1>1. CASE TakesTurn(c, words)
    <2>1. words = <<FailureWord(c)>> \/ words = <<"opened">>
      BY <1>1 DEF TakesTurn
    <2>2. words[1] = "opened" => words = <<"opened">>
      BY <2>1 DEF FailureWord
    <2> QED
      BY <1>1, <2>2 DEF TakesTurn, MayFail
  <1>2. CASE Leaves(c, words)
    <2>1. AtChannel /\ pos.chan = c /\ ~AtChannel'
      BY <1>2 DEF Leaves, AtChannel
    <2>2. PICK told \in {<<>>, <<FailureWord(c)>>, <<"opened">>} :
            words = told \o ProbeEnd /\ (told # <<>> => c \in PoolChannels)
      BY <1>2 DEF Leaves
    <2>3. told # <<>>
      BY <2>2 DEF ProbeEnd
    <2> QED
      BY <2>1, <2>2, <2>3 DEF MayFail
  <1>3. CASE Forwards(c, words)
    BY <1>3 DEF Forwards, MayFail, AtChannel
  <1> QED
    BY <1>1, <1>2, <1>3 DEF StepTells, Asks, KeepsSilent

LEMMA TurnsBeginAsked ==
    ASSUME IInv, NEW c \in Channels, NEW words, StepTells(c, words), MayFail(c)', ~MayFail(c)
    PROVE  words # <<>> /\ words[1] \in {"admitted", "probe", "tracked"}
  <1>1. CASE Asks(c, words)
    BY <1>1 DEF Asks, MayFail, AtChannel
  <1>2. CASE TakesTurn(c, words)
    BY <1>2 DEF TakesTurn, MayFail
  <1>3. CASE Leaves(c, words) \/ Forwards(c, words)
    BY <1>3 DEF Leaves, Forwards, MayFail, AtChannel
  <1>4. CASE KeepsSilent(words)
    BY <1>4 DEF KeepsSilent, MayFail, AtChannel
  <1> QED
    BY <1>1, <1>2, <1>3, <1>4 DEF StepTells

\* One more failure of a sick channel is one more event, and the last one that
\* is allowed opens the circuit and ends the request's turn.
LEMMA FailureIsSpared ==
    ASSUME RatesReachable, ServiceTyped, OnlyFailures, NEW c \in Channels, NEW words,
           StepTells(c, words), words # <<>>, words[1] \in {"failure", "opened"}, Hear(c, words[1]),
           UNCHANGED <<clock, store, health>>, suffered' = [suffered EXCEPT ![c] = @ + 1],
           store = "up", health[c] = "sick",
           NEW k \in Nat, StartOf(k) <= clock, clock < StartOf(k) + Period,
           NEW n \in 0..MinSamples, Spared(c, k, n)
    PROVE  n + 1 \in 0..MinSamples /\ Spared(c, k, n + 1)'
  <1>1. PICK word \in {"failure", "opened"} : word = words[1]
    OBVIOUS
  <1>2. c \notin ExemptChannels /\ MayFail(c)
    BY SickHears, FailuresAtTurns
  <1>3. n \in Nat /\ n + 1 \in 0..MinSamples
    BY <1>2, SamplesAssumption DEF Spared
  <1>4. circuit' = [circuit EXCEPT ![c] = After(c, word)]
    BY <1>1 DEF Hear
  <1>5. circuit'[c] = After(c, word)
    BY <1>4 DEF ServiceTyped
  <1>6. StartOf(k) >= clock - FailureWindow /\ StartOf(k) \in Nat
    BY StretchesAreShort
  <1>7. circuit[c] # NoEntry => circuit[c].events \in Seq(BadEvent)
    BY <1>2 DEF OnlyFailures
  <1>8. /\ After(c, word) # NoEntry /\ LastSince(After(c, word), StartOf(k), n + 1)
        /\ \/ After(c, word).openUntil >= StartOf(k) + Cooldown
           \/ n + 1 < MinSamples
        /\ n + 1 = MinSamples => FailureAnswer(c) = "opened"
    <2>1. n > 0 => circuit[c] # NoEntry /\ LastSince(circuit[c], StartOf(k), n)
      BY DEF Spared
    <2>2. n + 1 \in 0..(n + 1) /\ n + 1 <= MinSamples
      BY <1>3
    <2> QED
      BY <1>3, <1>6, <1>7, <2>1, <2>2, FailureKeepsTail
  <1>9. n + 1 = MinSamples => ~MayFail(c)'
    <2>1. word = FailureAnswer(c)
      BY <1>1 DEF Hear, Fits
    <2> QED
      BY <1>1, <1>8, <2>1, FailuresAtTurns
  <1>10. suffered'[c] <= AllowedBefore(k) + (n + 1)
    <2>1. suffered'[c] = suffered[c] + 1 /\ suffered[c] \in Nat /\ AllowedBefore(k) \in Nat
      BY Periods DEF ServiceTyped
    <2> QED
      BY <1>3, <2>1 DEF Spared
  <1> QED
    BY <1>2, <1>3, <1>5, <1>8, <1>9, <1>10, SamplesAssumption DEF Spared

LEMMA ServeSparesHere ==
    ASSUME RatesReachable, ServiceTyped, RequestInv, OnlyFailures, SickNeverServes, Serve,
           NEW c \in Channels, c = Here,
           NEW k \in Nat, StartOf(k) <= clock, clock < StartOf(k) + Period,
           NEW n \in 0..MinSamples, Spared(c, k, n)
    PROVE  \E m \in 0..MinSamples : Spared(c, k, m)'
  <1>1. PICK words : words = Added(c)
    OBVIOUS
  <1>2. /\ StepTells(c, words) /\ IInv
        /\ \/ words = <<>> /\ UNCHANGED circuit
           \/ words # <<>> /\ words[1] \in Words /\ Hear(c, words[1])
    BY <1>1, ServeHears DEF RequestInv
  <1>3. /\ UNCHANGED <<clock, store, health>>
        /\ suffered' = IF /\ health[c] = "sick" /\ store = "up"
                          /\ words # <<>> /\ words[1] \in {"failure", "opened"}
                       THEN [suffered EXCEPT ![c] = @ + 1] ELSE suffered
    BY <1>1 DEF Serve, Here, Added
  <1>4. CASE suffered' # suffered
    BY <1>2, <1>3, <1>4, FailureIsSpared
  <1>5. CASE suffered' = suffered /\ n = 0
    BY <1>3, <1>5, SamplesAssumption DEF Spared
  <1>6. CASE suffered' = suffered /\ n # 0
    <2>1. /\ store = "up" /\ c \notin ExemptChannels /\ health[c] = "sick"
          /\ circuit[c] # NoEntry /\ LastSince(circuit[c], StartOf(k), n) /\ n \in Nat \ {0}
      BY <1>6, SamplesAssumption DEF Spared
    <2>2. words # <<>> => words[1] \in {"denied", "admitted", "probe", "cancel"}
      <3>1. SUFFICES ASSUME words # <<>> PROVE words[1] \in {"denied", "admitted", "probe", "cancel"}
        OBVIOUS
      <3>2. words[1] \in SickWords
        BY <1>2, <2>1, <3>1, SickHears DEF SickNeverServes
      <3>3. words[1] \notin {"failure", "opened"}
        <4>1. suffered[c] \in Nat /\ [suffered EXCEPT ![c] = @ + 1][c] = suffered[c] + 1
          BY DEF ServiceTyped
        <4> QED
          BY <1>3, <1>6, <2>1, <3>1, <4>1
      <3> QED
        BY <3>2, <3>3 DEF SickWords
    <2>3. /\ circuit'[c] # NoEntry /\ LastSince(circuit'[c], StartOf(k), n)
          /\ circuit'[c].openUntil = circuit[c].openUntil
      <3>1. CASE words = <<>>
        BY <1>2, <2>1, <3>1
      <3>2. CASE words # <<>>
        <4>1. circuit'[c] = After(c, words[1])
          BY <1>2, <2>1, <3>2, HearKeepsSound
        <4>2. StartOf(k) >= clock - FailureWindow /\ StartOf(k) \in Nat
          BY StretchesAreShort
        <4> QED
          BY <2>1, <2>2, <3>2, <4>1, <4>2, AnswersKeepTail
      <3> QED
        BY <3>1, <3>2
    <2>4. n = MinSamples => ~MayFail(c)'
      <3> SUFFICES ASSUME n = MinSamples, MayFail(c)' PROVE FALSE
        OBVIOUS
      <3>1. words # <<>> /\ words[1] \in {"admitted", "probe", "tracked"}
        BY <1>2, TurnsBeginAsked DEF Spared
      <3>2. words[1] = Answer(c)
        BY <1>2, <2>2, <3>1 DEF Hear, Fits
      <3>3. Answer(c) = "denied"
        BY <2>1, SparedIsOpen DEF Spared
      <3> QED
        BY <3>1, <3>2, <3>3
    <2> QED
      BY <1>3, <1>6, <2>1, <2>3, <2>4 DEF Spared
  <1> QED
    BY <1>4, <1>5, <1>6

LEMMA ServeSparesElsewhere ==
    ASSUME ServiceTyped, RequestInv, Serve, NEW d \in Channels, d # Here,
           NEW k \in Nat, NEW n \in 0..MinSamples, Spared(d, k, n)
    PROVE  Spared(d, k, n)'
  <1>1. PICK c \in Channels : c = Here
    BY ServeHears
  <1>2. PICK words : words = Added(c)
    OBVIOUS
  <1>3. /\ StepTells(c, words) /\ IInv
        /\ \/ words = <<>> /\ UNCHANGED circuit
           \/ words # <<>> /\ words[1] \in Words /\ Hear(c, words[1])
    BY <1>1, <1>2, ServeHears DEF RequestInv
  <1>4. /\ UNCHANGED <<store, health>>
        /\ suffered' = suffered \/ suffered' = [suffered EXCEPT ![c] = @ + 1]
    BY <1>1 DEF Serve, Here
  <1>5. suffered'[d] = suffered[d] /\ circuit'[d] = circuit[d]
    BY <1>1, <1>3, <1>4, HearKeepsSound DEF ServiceTyped
  <1>6. MayFail(d)' => MayFail(d)
    <2>1. CASE KeepsSilent(words)
      BY <2>1 DEF KeepsSilent, MayFail, AtChannel
    <2>2. CASE ~KeepsSilent(words)
      BY <1>1, <1>3, <2>2 DEF StepTells, Asks, TakesTurn, Leaves, Forwards, MayFail, AtChannel
    <2> QED
      BY <2>1, <2>2
  <1> QED
    BY <1>4, <1>5, <1>6 DEF Spared

\* What the requests around it say of a channel is what it takes to spare it.
LEMMA OthersSpare ==
    ASSUME RatesReachable, ServiceTyped, OnlyFailures, NEW c \in Troubled,
           OtherEnters(c) \/ OtherReports(c) \/ OtherVanishes(c),
           NEW d \in Channels, NEW k \in Nat, StartOf(k) <= clock, clock < StartOf(k) + Period,
           NEW n \in 0..MinSamples, Spared(d, k, n)
    PROVE  Spared(d, k, n)'
  <1>1. c \in Channels /\ UNCHANGED <<vars, clock, store, health, suffered>>
    BY ServiceAssumption DEF OtherEnters, OtherReports, OtherVanishes
  <1>2. MayFail(d)' => MayFail(d)
    BY <1>1 DEF MayFail, AtChannel, vars
  <1>3. CASE circuit'[d] = circuit[d] \/ n = 0
    BY <1>1, <1>2, <1>3, SamplesAssumption DEF Spared
  <1>4. CASE circuit'[d] # circuit[d] /\ n # 0
    <2>1. /\ store = "up" /\ health[d] = "sick" /\ d \notin ExemptChannels
          /\ circuit[d] # NoEntry /\ LastSince(circuit[d], StartOf(k), n) /\ n \in Nat \ {0}
      BY <1>4, SamplesAssumption DEF Spared
    <2>2. PICK word \in {"denied", "admitted", "probe", "cancel", "failure", "opened", "success"} :
            /\ Hear(c, word)
            /\ health[c] = "sick" => word # "success"
      BY <1>1, <1>4, OthersTalk DEF OtherEnters, OtherReports, OtherVanishes
    <2>3. word \in Words
      BY <2>2, OthersTalk
    <2>4. d = c /\ circuit'[c] = After(c, word)
      BY <1>1, <1>4, <2>1, <2>2, <2>3, HearKeepsSound
    <2>5. StartOf(k) >= clock - FailureWindow /\ StartOf(k) \in Nat /\ clock < StartOf(k) + Cooldown
      BY StretchesAreShort
    <2>6. CASE word \in {"denied", "admitted", "probe", "cancel"}
      <3>1. /\ circuit'[d] # NoEntry /\ LastSince(circuit'[d], StartOf(k), n)
            /\ circuit'[d].openUntil = circuit[d].openUntil
        BY <2>1, <2>4, <2>5, <2>6, AnswersKeepTail
      <3> QED
        BY <1>1, <1>2, <2>1, <3>1 DEF Spared
    <2>7. CASE word \in {"failure", "opened"}
      <3>1. circuit[c].events \in Seq(BadEvent)
        BY <2>1, <2>4 DEF OnlyFailures
      <3>2. n \in 0..(n + 1) /\ n <= MinSamples
        BY <2>1, SamplesAssumption
      <3>3. /\ circuit'[d] # NoEntry /\ LastSince(circuit'[d], StartOf(k), n)
            /\ \/ circuit'[d].openUntil >= StartOf(k) + Cooldown
               \/ n < MinSamples
        BY <2>1, <2>4, <2>5, <2>7, <3>1, <3>2, FailureKeepsTail
      <3> QED
        BY <1>1, <1>2, <2>1, <3>3, SamplesAssumption DEF Spared
    <2> QED
      BY <2>1, <2>2, <2>4, <2>6, <2>7
  <1> QED
    BY <1>3, <1>4

\* A sick channel gets no response as far as forwarding, nor an event that is
\* no failure.
LEMMA SickStep ==
    ASSUME RatesReachable, ServiceTyped, RequestInv, OnlyFailures, SickNeverServes,
           [ServiceNext]_serviceVars
    PROVE  OnlyFailures' /\ SickNeverServes'
  <1>1. CASE Serve
    <2>1. PICK c \in Channels : c = Here
      BY <1>1, ServeHears
    <2>2. PICK words : words = Added(c)
      OBVIOUS
    <2>3. /\ StepTells(c, words) /\ IInv
          /\ \/ words = <<>> /\ UNCHANGED circuit
             \/ words # <<>> /\ words[1] \in Words /\ Hear(c, words[1])
      BY <1>1, <2>1, <2>2, ServeHears DEF RequestInv
    <2>4. AsHealthy(c) /\ UNCHANGED <<clock, store, health>>
      BY <1>1, <2>1 DEF Serve, Here
    <2>5. SickNeverServes'
      <3> SUFFICES ASSUME pc' = "writing" PROVE health[pos'.chan] # "sick"
        BY <2>4 DEF SickNeverServes
      <3>1. CASE TakesTurn(c, words)
        BY <2>4, <3>1 DEF TakesTurn, AsHealthy
      <3>2. CASE KeepsSilent(words)
        BY <3>2 DEF KeepsSilent, SickNeverServes
      <3> QED
        BY <2>3, <3>1, <3>2 DEF StepTells, Asks, Leaves, Forwards
    <2>6. OnlyFailures'
      <3> SUFFICES ASSUME NEW d \in Channels, d \notin ExemptChannels, health[d] = "sick",
                          circuit'[d] # NoEntry, circuit'[d] # circuit[d]
                   PROVE  circuit'[d].events \in Seq(BadEvent)
        BY <2>4 DEF OnlyFailures
      <3>1. words # <<>> /\ words[1] \in Words /\ Hear(c, words[1])
        BY <2>3
      <3>2. d = c /\ circuit'[c] = After(c, words[1])
        BY <3>1, HearKeepsSound
      <3>3. words[1] \in SickWords
        BY <2>3, <3>1, <3>2, SickHears DEF SickNeverServes
      <3>4. circuit[c] # NoEntry => circuit[c].events \in Seq(BadEvent)
        BY <3>2 DEF OnlyFailures
      <3> QED
        BY <3>2, <3>3, <3>4, OnlyFailuresAfter
    <2> QED
      BY <2>5, <2>6
  <1>2. CASE NewRequest
    BY <1>2 DEF NewRequest, around, OnlyFailures, SickNeverServes
  <1>3. ASSUME NEW c \in Troubled, OtherEnters(c) \/ OtherReports(c) \/ OtherVanishes(c)
        PROVE  OnlyFailures' /\ SickNeverServes'
    <2>1. c \in Channels /\ UNCHANGED <<vars, clock, store, health, suffered>>
      BY <1>3, ServiceAssumption DEF OtherEnters, OtherReports, OtherVanishes
    <2>2. OnlyFailures'
      <3> SUFFICES ASSUME NEW d \in Channels, d \notin ExemptChannels, health[d] = "sick",
                          circuit'[d] # NoEntry, circuit'[d] # circuit[d]
                   PROVE  circuit'[d].events \in Seq(BadEvent)
        BY <2>1 DEF OnlyFailures
      <3>1. PICK word \in {"denied", "admitted", "probe", "cancel", "failure", "opened", "success"} :
              /\ Hear(c, word)
              /\ health[c] = "sick" => word # "success"
        BY <1>3, <2>1, OthersTalk DEF OtherEnters, OtherReports, OtherVanishes
      <3>2. word \in Words
        BY <3>1, OthersTalk
      <3>3. d = c /\ circuit'[c] = After(c, word)
        BY <2>1, <3>1, <3>2, HearKeepsSound
      <3>4. word \in SickWords
        BY <3>1, <3>3 DEF SickWords
      <3>5. circuit[c] # NoEntry => circuit[c].events \in Seq(BadEvent)
        BY <3>3 DEF OnlyFailures
      <3> QED
        BY <3>3, <3>4, <3>5, OnlyFailuresAfter
    <2> QED
      BY <2>1, <2>2 DEF SickNeverServes, vars
  <1>4. CASE UNCHANGED <<vars, circuit, health>>
    BY <1>4 DEF OnlyFailures, SickNeverServes, vars
  <1> QED
    BY <1>1, <1>2, <1>3, <1>4 DEF ServiceNext, Tick, Outage, Repair, serviceVars, around

\* The stretch goes on, or the next one begins with nothing suffered in it.
LEMMA SparedStep ==
    ASSUME RatesReachable, ServiceTyped, RequestInv, OnlyFailures, SickNeverServes,
           [ServiceNext]_serviceVars, NEW k \in Nat, SparedAll(k)
    PROVE  SparedAll(k)' \/ SparedAll(k + 1)'
  <1>1. CASE Serve
    <2>1. UNCHANGED clock
      BY <1>1 DEF Serve
    <2>2. ASSUME NEW d \in Channels PROVE \E m \in 0..MinSamples : Spared(d, k, m)'
      <3>1. PICK n \in 0..MinSamples : Spared(d, k, n)
        BY DEF SparedAll
      <3> QED
        BY <1>1, <3>1, ServeSparesHere, ServeSparesElsewhere DEF SparedAll
    <2> QED
      BY <2>1, <2>2 DEF SparedAll
  <1>2. ASSUME UNCHANGED <<circuit, store, health, suffered, clock>>,
               \A d \in Channels : MayFail(d)' => MayFail(d)
        PROVE  SparedAll(k)'
    BY <1>2 DEF SparedAll, Spared
  <1>3. CASE NewRequest
    BY <1>2, <1>3 DEF NewRequest, around, MayFail, AtChannel
  <1>4. ASSUME NEW c \in Troubled, OtherEnters(c) \/ OtherReports(c) \/ OtherVanishes(c)
        PROVE  SparedAll(k)'
    <2>1. UNCHANGED clock
      BY <1>4 DEF OtherEnters, OtherReports, OtherVanishes
    <2>2. ASSUME NEW d \in Channels PROVE \E m \in 0..MinSamples : Spared(d, k, m)'
      <3>1. PICK n \in 0..MinSamples : Spared(d, k, n)
        BY DEF SparedAll
      <3>2. Spared(d, k, n)'
        BY <1>4, <3>1, OthersSpare DEF SparedAll
      <3> QED
        BY <3>2
    <2> QED
      BY <2>1, <2>2 DEF SparedAll
  <1>5. CASE Tick
    <2>1. /\ UNCHANGED <<circuit, store, health, suffered>> /\ clock' = clock + 1
          /\ \A d \in Channels : MayFail(d)' => MayFail(d)
      BY <1>5 DEF Tick, vars, MayFail, AtChannel
    <2>2. CASE clock' < StartOf(k) + Period
      <3>1. StartOf(k) <= clock' /\ clock \in Nat
        BY <2>1, Periods DEF SparedAll, ServiceTyped
      <3> QED
        BY <2>1, <2>2, <3>1 DEF SparedAll, Spared
    <2>3. CASE ~(clock' < StartOf(k) + Period)
      <3>1. /\ clock \in Nat /\ StartOf(k) \in Nat /\ StartOf(k) <= clock
            /\ clock < StartOf(k) + Period /\ Period \in Nat \ {0}
            /\ k + 1 \in Nat /\ StartOf(k + 1) = StartOf(k) + Period
            /\ AllowedBefore(k) \in Nat
            /\ AllowedBefore(k + 1) = AllowedBefore(k) + MinSamples
        BY Periods DEF SparedAll, ServiceTyped
      <3>2. StartOf(k + 1) <= clock' /\ clock' < StartOf(k + 1) + Period
        BY <2>1, <2>3, <3>1
      <3>3. ASSUME NEW d \in Channels PROVE Spared(d, k + 1, 0)'
        <4>1. PICK n \in 0..MinSamples : suffered[d] <= AllowedBefore(k) + n
          BY DEF SparedAll, Spared
        <4>2. suffered[d] \in Nat /\ MinSamples \in Nat \ {0}
          BY SamplesAssumption DEF ServiceTyped
        <4>3. suffered'[d] <= AllowedBefore(k + 1) + 0
          BY <2>1, <3>1, <4>1, <4>2
        <4> QED
          BY <4>2, <4>3 DEF Spared
      <3>4. 0 \in 0..MinSamples
        BY SamplesAssumption
      <3> QED
        BY <3>2, <3>3, <3>4 DEF SparedAll
    <2> QED
      BY <2>2, <2>3
  <1>6. CASE Outage
    <2>1. /\ UNCHANGED clock /\ suffered' = [d \in Channels |-> 0]
      BY <1>6 DEF Outage
    <2>2. 0 \in 0..MinSamples /\ MinSamples # 0 /\ AllowedBefore(k) \in Nat
      BY Periods, SamplesAssumption
    <2>3. ASSUME NEW d \in Channels PROVE Spared(d, k, 0)'
      <3>1. suffered'[d] <= AllowedBefore(k) + 0
        BY <2>1, <2>2
      <3> QED
        BY <2>2, <3>1 DEF Spared
    <2> QED
      BY <2>1, <2>2, <2>3 DEF SparedAll
  <1>7. CASE Repair
    <2>1. /\ UNCHANGED <<circuit, health, suffered, clock>> /\ store = "down"
          /\ \A d \in Channels : MayFail(d)' => MayFail(d)
      BY <1>7 DEF Repair, vars, MayFail, AtChannel
    <2> QED
      BY <2>1, SamplesAssumption DEF SparedAll, Spared
  <1>8. CASE UNCHANGED serviceVars
    BY <1>2, <1>8 DEF serviceVars, vars, around, MayFail, AtChannel
  <1> QED
    BY <1>1, <1>3, <1>4, <1>5, <1>6, <1>7, <1>8 DEF ServiceNext

LEMMA SparedInTime ==
    ASSUME ServiceTyped, NEW k \in Nat, SparedAll(k)
    PROVE  SickChannelSpared
  <1>1. ASSUME NEW p \in Nat \ {0}, NEW t \in Nat, k * p <= t, t < k * p + p
        PROVE  t \div p = k
    BY <1>1
  <1>2. clock - 1 \in Nat /\ Period \in Nat \ {0} /\ k * Period \in Nat
    BY Periods DEF ServiceTyped
  <1>3. k * Period <= clock - 1 /\ clock - 1 < k * Period + Period
    <2>1. k * Period + 1 <= clock /\ clock < (k * Period + 1) + Period
      BY DEF SparedAll, StartOf
    <2>2. PICK start \in Nat : start = k * Period
      BY <1>2
    <2>3. clock \in Nat /\ Period \in Nat
      BY <1>2 DEF ServiceTyped
    <2> QED
      BY <2>1, <2>2, <2>3
  <1>4. (clock - 1) \div Period = k
    BY <1>1, <1>2, <1>3
  <1>5. ASSUME NEW m \in Nat PROVE m * (1 + k) = m * k + m /\ m * k \in Nat
    OBVIOUS
  <1>6. ASSUME NEW c \in Channels PROVE suffered[c] <= MinSamples * (1 + k)
    <2>1. PICK n \in 0..MinSamples : suffered[c] <= MinSamples * k + n
      BY DEF SparedAll, Spared, AllowedBefore
    <2>2. MinSamples * (1 + k) = MinSamples * k + MinSamples /\ MinSamples * k \in Nat
      BY <1>5, SamplesAssumption
    <2>3. suffered[c] \in Nat /\ MinSamples \in Nat
      BY SamplesAssumption DEF ServiceTyped
    <2> QED
      BY <2>1, <2>2, <2>3
  <1> QED
    BY <1>4, <1>6 DEF SickChannelSpared, Period

\* What a sick channel may cost.  While the store is there its failures hit
\* requests at most MinSamples times in every cooldown, or in every window if
\* that is shorter, however many requests, keys and attempts there are, and
\* whatever the requests around them tell its breaker (RecordFailure, Allow,
\* tryChannels).  The configuration has to let failures alone open a circuit.
THEOREM SickChannelsSpared ==
    ASSUME RatesReachable
    PROVE  ServiceSpec => []SickChannelSpared
  <1>1. ServiceInit => SickInv
    <2> SUFFICES ASSUME ServiceInit PROVE SickInv
      OBVIOUS
    <2>1. /\ pc = "channel" /\ circuit = [c \in Channels |-> NoEntry] /\ clock = 1
          /\ suffered = [c \in Channels |-> 0]
      BY DEF ServiceInit, Init
    <2>2. /\ StartOf(0) = 1 /\ Period \in Nat \ {0} /\ AllowedBefore(0) \in Nat
          /\ 0 \in 0..MinSamples /\ MinSamples # 0 /\ 0 \in Nat
      BY Periods, SamplesAssumption
    <2>3. ASSUME NEW c \in Channels PROVE Spared(c, 0, 0)
      <3>1. suffered[c] <= AllowedBefore(0) + 0
        BY <2>1, <2>2
      <3> QED
        BY <2>2, <3>1 DEF Spared
    <2>4. SparedAll(0)
      BY <2>1, <2>2, <2>3 DEF SparedAll
    <2> QED
      BY <2>1, <2>2, <2>4 DEF SickInv, OnlyFailures, SickNeverServes
  <1>2. /\ ServiceTyped /\ RequestInv /\ SickInv
        /\ [ServiceNext]_serviceVars
        => SickInv'
    <2> SUFFICES ASSUME ServiceTyped, RequestInv, SickInv, [ServiceNext]_serviceVars PROVE SickInv'
      OBVIOUS
    <2>1. PICK k \in Nat : SparedAll(k)
      BY DEF SickInv
    <2>2. SparedAll(k)' \/ SparedAll(k + 1)'
      BY <2>1, SparedStep DEF SickInv
    <2>3. \E j \in Nat : SparedAll(j)'
      BY <2>2
    <2>4. OnlyFailures' /\ SickNeverServes'
      BY SickStep DEF SickInv
    <2> QED
      BY <2>3, <2>4 DEF SickInv
  <1>3. ServiceTyped /\ SickInv => SickChannelSpared
    BY SparedInTime DEF SickInv
  <1> QED
    BY <1>1, <1>2, <1>3, TypedService, PTL DEF ServiceSpec
==============================================================================
