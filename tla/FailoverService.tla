--------------------------- MODULE FailoverService ---------------------------
(***************************************************************************)
(* The pipeline composed with its breakers: requests one after another go  *)
(* through the channels as in FailoverPipeline, and what the breakers      *)
(* answer them is no longer anything but what CircuitState makes of all    *)
(* they were told before.  Meanwhile another request may be using each     *)
(* channel, time passes, and the store behind the breakers may fail.       *)
(*                                                                         *)
(* A step of the service is a step of the pipeline together with what the  *)
(* words it adds to calls do to the channel's circuit.  The lag of clocks, *)
(* the entries' expiry and the panics of hooks are ChannelBreaker's.       *)
(***************************************************************************)
EXTENDS FailoverPipeline, CircuitState

CONSTANTS
    MaxClock,   \* bound: the clock stops here
    Troubled    \* channels that may be sick or flaky; the others are healthy

ASSUME ServiceAssumption == MaxClock \in Nat /\ Troubled \subseteq Channels
ASSUME NoStateAssumption == NoEntry \notin ChannelCircuitState

VARIABLES
    clock,    \* the time
    circuit,  \* for each channel the state its breaker keeps
    store,    \* the breakers' store: up, down for a while, or back again
    health,   \* what each channel's upstream does to its requests
    others,   \* for each channel the other request that uses it, and as what
    left,     \* channels whose half-open slot lost its probe without a word
    suffered  \* failures requests had to take from each sick channel while
              \* the store was up

around == <<clock, circuit, store, health, others, left, suffered>>

serviceVars == <<vars, around>>

-----------------------------------------------------------------------------
(* What the breaker of a channel hears and answers.                        *)

State(c) == Trimmed(IF circuit[c] = NoEntry THEN NewChannelCircuitState ELSE circuit[c], clock)

Event(succeeded) == [at |-> clock, success |-> succeeded, slow |-> FALSE]

\* Mutant: with the store down nobody is let in.
AnswerFailsClosed(c) ==
    IF store = "down" THEN "denied"
    ELSE IF IsIdle(State(c), clock) THEN "admitted"
    ELSE IF MustSkip(State(c), clock) THEN "denied"
    ELSE IF GetsProbe(State(c), clock) THEN "probe" ELSE "admitted"

\* What Allow answers.  Without its store it lets everybody in.
Answer(c) ==
    IF store = "down" \/ IsIdle(State(c), clock) THEN "admitted"
    ELSE IF MustSkip(State(c), clock) THEN "denied"
    ELSE IF GetsProbe(State(c), clock) THEN "probe" ELSE "admitted"

\* What RecordFailure answers.  Without its store it opens nothing.
FailureAnswer(c) ==
    IF store # "down" /\ ShouldOpen(WithEvent(State(c), Event(FALSE), clock))
    THEN "opened" ELSE "failure"

\* The words a breaker can be heard to say.
Fits(c, word) ==
    CASE word \in {"denied", "admitted", "probe"} -> word = Answer(c)
      [] word \in {"failure", "opened"}           -> word = FailureAnswer(c)
      [] OTHER                                    -> TRUE

\* What a call leaves of the channel's circuit.
After(c, word) ==
    CASE word \in {"denied", "admitted", "probe"} ->
           IF IsIdle(State(c), clock) THEN NoEntry ELSE AfterAllow(State(c), clock)
      [] word \in {"failure", "opened"} -> AfterFailure(State(c), Event(FALSE), clock)
      [] word = "success" ->
           IF State(c).halfOpen THEN NoEntry ELSE AfterSuccess(State(c), Event(TRUE), clock)
      [] word = "cancel" -> CancelledProbe(State(c))
      [] word = "tracked" -> [State(c) EXCEPT !.whitelisted = TRUE]
      [] word = "exemptSuccess" -> AfterWhitelisted(State(c), Event(TRUE), clock)
      [] word = "exemptFailure" -> AfterWhitelisted(State(c), Event(FALSE), clock)

Hear(c, word) ==
    /\ Fits(c, word)
    /\ circuit' = IF store = "down" THEN circuit ELSE [circuit EXCEPT ![c] = After(c, word)]

\* A failure that opened the circuit has left no half-open slot to give back.
HearAll(c, words) ==
    CASE Len(words) = 0 -> UNCHANGED circuit
      [] Len(words) = 1 -> Hear(c, words[1])
      [] Len(words) = 2 -> words[2] = "cancel" /\ Hear(c, words[1])

-----------------------------------------------------------------------------
(* Where the probes are.                                                   *)

Probing(c) ==
    \/ others[c] = "probe"
    \/ probe /\ pos.chan = c /\ pc \notin {"channel", "answer", "done"}

\* The word c's breaker says now tells where its half-open slot is: with a new
\* probe, or lost with one that ended where nobody listened.
AfterWord(c, words, lost) ==
    IF words = <<"probe">> THEN left \ {c}
    ELSE IF lost /\ circuit[c] # NoEntry THEN left \cup {c}
    ELSE left

-----------------------------------------------------------------------------
(* The pipeline's steps, its breakers listening.                           *)

ServiceInit ==
    /\ Init
    /\ clock = 1
    /\ circuit = [c \in Channels |-> NoEntry]
    /\ store = "up"
    /\ health \in {h \in [Channels -> {"healthy", "flaky", "sick"}] :
                     \A c \in Channels : h[c] # "healthy" <=> c \in Troubled}
    /\ others = [c \in Channels |-> "none"]
    /\ left = {}
    /\ suffered = [c \in Channels |-> 0]

\* The channel lets the request down in this step.
LetDown ==
    \/ resp' # NoResponse /\ resp'.status >= 400
    \/ pc \in {"waiting", "judging"} /\ pc' \in {"attempt", "failed"}
    \/ pc = "prepare" /\ pc' = "failed"
    \/ reply' = "broken"

\* A healthy channel lets nobody down whose context lasts; a sick one serves
\* nobody.
AsHealthy(c) ==
    /\ health[c] = "healthy" /\ LetDown =>
         pc' = "failed" /\ IsContextDoneError(err') /\ (ContextDone \/ BudgetError)
    /\ health[c] = "sick" => pc' # "writing"

Serve ==
    LET c     == IF pos.chan \in Channels THEN pos.chan ELSE NumChannels
        words == SubSeq(calls'[c], Len(calls[c]) + 1, Len(calls'[c]))
    IN  /\ pc # "done"
        /\ Next
        /\ AsHealthy(c)
        /\ HearAll(c, words)
        /\ left' = AfterWord(c, words,
                             /\ probe /\ pc \in {"failed", "writing"}
                             /\ pc' \notin {"failed", "writing"}
                             /\ store = "down" \/ reply' = "cut")
        /\ suffered' = IF /\ health[c] = "sick" /\ store = "up"
                          /\ words # <<>> /\ words[1] \in {"failure", "opened"}
                       THEN [suffered EXCEPT ![c] = @ + 1] ELSE suffered
        /\ UNCHANGED <<clock, store, health, others>>

\* The next request starts as FailoverPipeline's Init has it.
NewRequest ==
    /\ pc = "done"
    /\ pc' = "channel"
    /\ pos' = [chan |-> 1, key |-> 0, attempt |-> 0]
    /\ probe' = FALSE
    /\ budget' = "ample" /\ client' = "here"
    /\ ctx' = [channel |-> 0, status |-> 0, body |-> FALSE]
    /\ err' = NoError /\ resp' = NoResponse
    /\ result' = [lastErr |-> NoError, from |-> 0, skipped |-> 0]
    /\ held' = 0 /\ onErrors' = 0
    /\ calls' = [c \in Channels |-> <<>>]
    /\ tries' = [key |-> 0, open |-> 0]
    /\ reply' = "none"
    /\ UNCHANGED around

-----------------------------------------------------------------------------
(* Around the request.                                                     *)

OtherEnters(c) ==
    /\ others[c] = "none"
    /\ Answer(c) # "denied"
    /\ Hear(c, Answer(c))
    /\ others' = [others EXCEPT ![c] = Answer(c)]
    /\ left' = AfterWord(c, <<Answer(c)>>, FALSE)
    /\ UNCHANGED <<vars, clock, store, health, suffered>>

OtherReports(c) ==
    /\ others[c] # "none"
    /\ \E word \in (IF health[c] = "healthy" THEN {} ELSE {"failure", "opened"})
                     \cup (IF health[c] = "sick" THEN {} ELSE {"success"})
                     \cup (IF others[c] = "probe" THEN {"cancel"} ELSE {}) :
         /\ Hear(c, word)
         /\ left' = AfterWord(c, <<word>>, others[c] = "probe" /\ store = "down")
    /\ others' = [others EXCEPT ![c] = "none"]
    /\ UNCHANGED <<vars, clock, store, health, suffered>>

\* The other request's client hangs up while its response is forwarded.
OtherVanishes(c) ==
    /\ others[c] # "none"
    /\ others' = [others EXCEPT ![c] = "none"]
    /\ left' = AfterWord(c, <<>>, others[c] = "probe")
    /\ UNCHANGED <<vars, clock, circuit, store, health, suffered>>

\* Time passes where the request waits, and between requests; what it does to
\* calls already under way is ChannelBreaker's.
Tick ==
    /\ clock < MaxClock
    /\ pc \in {"waiting", "writing", "done"}
    /\ clock' = clock + 1
    /\ UNCHANGED <<vars, circuit, store, health, others, left, suffered>>

\* Redis is out of reach for a while: once in a run.
Outage ==
    /\ store = "up"
    /\ store' = "down"
    /\ suffered' = [c \in Channels |-> 0]
    /\ UNCHANGED <<vars, clock, circuit, health, others, left>>

Repair ==
    /\ store = "down"
    /\ store' = "back"
    /\ UNCHANGED <<vars, clock, circuit, health, others, left, suffered>>

ServiceNext ==
    \/ Serve \/ NewRequest
    \/ \E c \in Troubled : OtherEnters(c) \/ OtherReports(c) \/ OtherVanishes(c)
    \/ Tick \/ Outage \/ Repair

ServiceSpec == ServiceInit /\ [][ServiceNext]_serviceVars

-----------------------------------------------------------------------------
(* What the whole keeps true.                                              *)

\* With one healthy channel in the list a client that stays gets no error: the
\* sick ones are passed over whatever they answer, whatever their circuits and
\* the other requests do, also while the breakers have lost their store.  The
\* one way in which a sick channel does deny it the healthy one is a timeout
\* that passes for the request's end: the http.Client's, its transport's (the
\* default one's when nobody takes its dial), or a late attempt timer's.
HealthyChannelServes ==
    pc = "done" /\ client = "here" /\ (\E c \in Channels : health[c] = "healthy")
        => \/ ~ErrorReply
           \/ OwnTimeout(result.lastErr) /\ result.from \in Troubled

\* A half-open slot that is not overdue is with a probe that is still on its
\* way, through all attempts, errors and verdicts of the pipeline.  It is lost
\* only with a probe whose body was cut or whose report found no store.
HalfOpenSlotAccounted ==
    \A c \in Channels \ left :
        circuit[c] # NoEntry /\ IsProbing(circuit[c], clock) => Probing(c)

\* What a sick channel may cost: while the store is there, its failures hit
\* requests at most MinSamples times in every Cooldown, or in every window if
\* that is shorter, however many requests, keys and attempts there are.
SickChannelSpared ==
    \A c \in Channels :
            LET period == IF Cooldown <= FailureWindow THEN Cooldown ELSE FailureWindow + 1
            IN  suffered[c] <= MinSamples * (1 + (clock - 1) \div period)
=============================================================================
