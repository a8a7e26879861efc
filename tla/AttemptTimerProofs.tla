------------------------- MODULE AttemptTimerProofs -------------------------
(***************************************************************************)
(* The races of the attempt timeout (src/timeout.go), for any number of    *)
(* attempts.                                                               *)
(***************************************************************************)
EXTENDS AttemptTimer, TLAPS

\* The attempt is on its way or its outcome is being decided.
Open == handler \in {"sending", "stopping", "looking", "deciding"}

\* An attempt is made only while one is left.
AttemptsLeft ==
    /\ handler = "idle" => attempt < MaxAttempts
    /\ handler \notin {"idle", "over"} => attempt \in Attempts

\* Attempts to come have no timer yet, and nothing has happened to them.
FutureUntouched ==
    \A a \in Attempts : a > attempt =>
        timer[a] = "none" /\ ~canceled[a] /\ outcome[a] = "none"

\* The flag is up before the callback cancels anything, and until the outcome
\* is decided nobody else does.
CallbackInOrder ==
    /\ \A a \in Attempts : timer[a] \in {"halfway", "spent"} => timedOut[a]
    /\ Open /\ canceled[attempt] => timer[attempt] = "spent"

\* Why client.Do returned early.
ReasonKept ==
    handler \in {"stopping", "looking", "deciding"} =>
        /\ got = "canceled" => canceled[attempt]
        /\ got = "left" => client = "gone"

\* Once the context has been looked at, what was found still has its reason, and
\* what cancels it afterwards is the timer or comes with the client's leaving.
DoneKept ==
    /\ handler = "deciding" /\ doneErr => ContextDone(attempt)
    /\ handler = "reading" =>
         /\ doneErr => stopped \/ client = "gone"
         /\ canceled[attempt] => timer[attempt] = "spent" \/ client = "gone"

\* A timer that was stopped in time stays stopped and has cancelled nothing.
StoppedIsStopped ==
    stopped /\ handler \in {"looking", "deciding", "reading"} =>
        timer[attempt] = "stopped" /\ ~canceled[attempt]

\* The timer is stopped once, after client.Do returned; then the context is
\* looked at, and then the attempt ends.
NotStoppedYet ==
    /\ handler \in {"sending", "stopping"} => ~stopped
    /\ handler \in {"sending", "stopping", "looking"} => ~doneErr
    /\ handler \notin {"idle", "over"} => outcome[attempt] = "none"

IInv ==
    /\ TypeOK /\ AttemptsLeft /\ FutureUntouched
    /\ CallbackInOrder /\ ReasonKept /\ DoneKept /\ StoppedIsStopped /\ NotStoppedYet
    /\ TimeoutIsNotACancel /\ StoppedTimerStaysOut /\ ContextsReleased

USE MaxAttemptsAssumption, RetryAssumption

LEMMA InitInvariant == Init => IInv
  <1> SUFFICES ASSUME Init PROVE IInv
    OBVIOUS
  <1>1. TypeOK
    <2>1. timer \in [Attempts -> {"none", "armed", "stopped", "expired", "halfway", "spent"}]
      BY DEF Init
    <2>2. timedOut \in [Attempts -> BOOLEAN] /\ canceled \in [Attempts -> BOOLEAN]
      BY DEF Init
    <2>3. outcome \in [Attempts -> Outcomes]
      BY DEF Init, Outcomes
    <2>4. attempt \in 0..MaxAttempts
      BY DEF Init
    <2> QED
      BY <2>1, <2>2, <2>3, <2>4 DEF Init, TypeOK
  <1>2. AttemptsLeft
    BY DEF Init, AttemptsLeft
  <1>3. FutureUntouched /\ CallbackInOrder /\ ReasonKept /\ DoneKept /\ StoppedIsStopped /\ NotStoppedYet
    BY DEF Init, FutureUntouched, CallbackInOrder, Open, ReasonKept, DoneKept, ContextDone, StoppedIsStopped, NotStoppedYet
  <1>4. TimeoutIsNotACancel /\ StoppedTimerStaysOut /\ ContextsReleased
    BY DEF Init, TimeoutIsNotACancel, StoppedTimerStaysOut, ContextsReleased
  <1> QED
    BY <1>1, <1>2, <1>3, <1>4 DEF IInv

-----------------------------------------------------------------------------
(* The handler's steps.                                                    *)

LEMMA StartKeeps == IInv /\ StartAttempt => IInv'
  <1> SUFFICES ASSUME IInv, StartAttempt PROVE IInv'
    OBVIOUS
  <1> USE DEF IInv, TypeOK, Attempts, Outcomes
  <1>1. CASE client = "gone" /\ handler' = "over" /\ UNCHANGED <<attempt, timer>>
    BY <1>1 DEF StartAttempt, AttemptsLeft, FutureUntouched, CallbackInOrder, Open, ReasonKept, DoneKept, ContextDone,
                StoppedIsStopped, NotStoppedYet, TimeoutIsNotACancel, StoppedTimerStaysOut,
                ContextsReleased
  <1>2. CASE /\ handler' = "sending" /\ attempt' = attempt + 1
             /\ timer' = [timer EXCEPT ![attempt + 1] = "armed"]
    <2>1. attempt' \in Attempts /\ ~canceled[attempt'] /\ outcome[attempt'] = "none"
      BY <1>2 DEF StartAttempt, AttemptsLeft, FutureUntouched
    <2>2. TypeOK'
      <3>1. timer' \in [Attempts -> {"none", "armed", "stopped", "expired", "halfway", "spent"}]
        BY <1>2
      <3>2. attempt' \in 0..MaxAttempts
        BY <2>1
      <3> QED
        BY <1>2, <3>1, <3>2 DEF StartAttempt
    <2>3. AttemptsLeft' /\ ReasonKept' /\ DoneKept' /\ StoppedIsStopped' /\ NotStoppedYet'
      BY <1>2, <2>1 DEF StartAttempt, AttemptsLeft, ReasonKept, DoneKept, ContextDone, StoppedIsStopped, NotStoppedYet
    <2>4. FutureUntouched'
      BY <1>2, <2>1 DEF StartAttempt, FutureUntouched
    <2>5. CallbackInOrder'
      BY <1>2, <2>1 DEF StartAttempt, CallbackInOrder, Open
    <2>6. TimeoutIsNotACancel' /\ StoppedTimerStaysOut' /\ ContextsReleased'
      BY <1>2, <2>1 DEF StartAttempt, TimeoutIsNotACancel, StoppedTimerStaysOut, ContextsReleased
    <2> QED
      BY <2>2, <2>3, <2>4, <2>5, <2>6
  <1> QED
    BY <1>1, <1>2 DEF StartAttempt

LEMMA WaitKeeps == IInv /\ (Respond \/ GiveUpWaiting) => IInv'
  BY DEF IInv, TypeOK, Attempts, Outcomes, Respond, GiveUpWaiting, ContextDone, AttemptsLeft,
         FutureUntouched, CallbackInOrder, Open, ReasonKept, DoneKept, ContextDone, StoppedIsStopped, NotStoppedYet,
         TimeoutIsNotACancel, StoppedTimerStaysOut, ContextsReleased

LEMMA StopKeeps == IInv /\ StopTimer => IInv'
  <1> SUFFICES ASSUME IInv, StopTimer PROVE IInv'
    OBVIOUS
  <1> USE DEF IInv, TypeOK, Attempts, Outcomes, StopTimer
  <1>1. attempt \in Attempts
    BY DEF AttemptsLeft
  <1>2. TypeOK' /\ AttemptsLeft' /\ ReasonKept' /\ DoneKept' /\ NotStoppedYet'
    BY <1>1 DEF AttemptsLeft, ReasonKept, DoneKept, ContextDone, NotStoppedYet
  <1>3. FutureUntouched'
    BY <1>1 DEF FutureUntouched
  <1>4. CallbackInOrder'
    BY <1>1 DEF CallbackInOrder, Open
  <1>5. StoppedIsStopped'
    BY <1>1 DEF StoppedIsStopped, CallbackInOrder, Open
  <1>6. TimeoutIsNotACancel' /\ ContextsReleased'
    BY DEF TimeoutIsNotACancel, ContextsReleased
  <1>7. StoppedTimerStaysOut'
    BY <1>1 DEF StoppedTimerStaysOut, ContextsReleased, CallbackInOrder, Open
  <1> QED
    BY <1>2, <1>3, <1>4, <1>5, <1>6, <1>7

LEMMA LookKeeps == IInv /\ LookAtContext => IInv'
  BY DEF IInv, TypeOK, Attempts, Outcomes, LookAtContext, ContextDone, AttemptsLeft,
         FutureUntouched, CallbackInOrder, Open, ReasonKept, DoneKept, ContextDone, StoppedIsStopped, NotStoppedYet,
         TimeoutIsNotACancel, StoppedTimerStaysOut, ContextsReleased

LEMMA DecideKeeps == IInv /\ Decide => IInv'
  <1> SUFFICES ASSUME IInv, Decide PROVE IInv'
    OBVIOUS
  <1> USE DEF IInv, TypeOK, Attempts, Outcomes
  <1>1. attempt \in Attempts /\ handler = "deciding"
    BY DEF AttemptsLeft, Decide
  <1>2. CASE /\ handler' = "reading" /\ UNCHANGED outcome
             /\ \/ UNCHANGED canceled /\ (~doneErr \/ stopped)
                \/ Release(attempt) /\ ~stopped /\ client = "gone"
    <2>1. TypeOK' /\ AttemptsLeft' /\ ReasonKept' /\ DoneKept' /\ NotStoppedYet'
      BY <1>1, <1>2 DEF Decide, Release, AttemptsLeft, ReasonKept, DoneKept, ContextDone,
                           NotStoppedYet, CallbackInOrder, Open
    <2>2. FutureUntouched' /\ CallbackInOrder'
      BY <1>1, <1>2 DEF Decide, Release, FutureUntouched, CallbackInOrder, Open
    <2>3. StoppedIsStopped'
      BY <1>1, <1>2 DEF Decide, StoppedIsStopped
    <2>4. TimeoutIsNotACancel' /\ StoppedTimerStaysOut' /\ ContextsReleased'
      BY <1>1, <1>2 DEF Decide, Release, TimeoutIsNotACancel, StoppedTimerStaysOut, ContextsReleased
    <2> QED
      BY <2>1, <2>2, <2>3, <2>4
  <1>3. ASSUME NEW how \in {"timeout", "network", "canceled"}, Release(attempt), End(attempt, how),
               how = "canceled" => client = "gone"
        PROVE  IInv'
    <2>1. handler' \in {"idle", "over"} /\ (handler' = "idle" => attempt < MaxAttempts)
      BY <1>3 DEF End
    <2>2. TypeOK' /\ AttemptsLeft' /\ ReasonKept' /\ DoneKept' /\ NotStoppedYet' /\ StoppedIsStopped'
      BY <1>1, <1>3, <2>1 DEF Decide, Release, End, AttemptsLeft, ReasonKept, DoneKept, ContextDone, NotStoppedYet, StoppedIsStopped
    <2>3. FutureUntouched' /\ CallbackInOrder'
      BY <1>1, <1>3, <2>1 DEF Decide, Release, End, FutureUntouched, CallbackInOrder, Open
    <2>4. TimeoutIsNotACancel' /\ ContextsReleased'
      BY <1>1, <1>3 DEF Decide, Release, End, TimeoutIsNotACancel, ContextsReleased
    <2>5. StoppedTimerStaysOut'
      BY <1>1, <1>3 DEF Decide, End, StoppedTimerStaysOut
    <2> QED
      BY <2>2, <2>3, <2>4, <2>5
  <1>4. /\ got = "canceled" /\ ~timedOut[attempt] => FALSE
        /\ doneErr /\ ~timedOut[attempt] => client = "gone"
    BY <1>1 DEF ReasonKept, DoneKept, ContextDone, CallbackInOrder, Open
  <1>5. got = "left" => client = "gone"
    BY <1>1 DEF ReasonKept
  <1> QED
    BY <1>1, <1>2, <1>3, <1>4, <1>5 DEF Decide

LEMMA FinishKeeps == IInv /\ Finish => IInv'
  <1> SUFFICES ASSUME IInv, Finish PROVE IInv'
    OBVIOUS
  <1> USE DEF IInv, TypeOK, Attempts, Outcomes
  <1>1. attempt \in Attempts /\ handler = "reading"
    BY DEF AttemptsLeft, Finish
  <1>2. PICK how \in {"rejected", "copied", "unread", "complete", "cut"} :
          /\ End(attempt, how)
          /\ how \in {"unread", "cut"} => ContextDone(attempt)
          /\ IF how = "copied" THEN HasRetryOnResponse /\ UNCHANGED canceled ELSE Release(attempt)
    BY DEF Finish, CloseResponse, ReplaceResponse
  <1>3. handler' \in {"idle", "over"} /\ (handler' = "idle" => attempt < MaxAttempts)
    BY <1>2 DEF End
  <1>4. /\ canceled' \in [Attempts -> BOOLEAN] /\ outcome' \in [Attempts -> Outcomes]
        /\ \A a \in Attempts : a # attempt => canceled'[a] = canceled[a] /\ outcome'[a] = outcome[a]
        /\ outcome'[attempt] = how /\ (how # "copied" => canceled'[attempt])
        /\ canceled[attempt] => canceled'[attempt]
    BY <1>1, <1>2 DEF Release, End
  <1>5. TypeOK' /\ AttemptsLeft' /\ ReasonKept' /\ DoneKept' /\ NotStoppedYet' /\ StoppedIsStopped'
    BY <1>1, <1>3, <1>4 DEF Finish, AttemptsLeft, ReasonKept, DoneKept, NotStoppedYet, StoppedIsStopped
  <1>6. FutureUntouched' /\ CallbackInOrder'
    BY <1>1, <1>3, <1>4 DEF Finish, FutureUntouched, CallbackInOrder, Open
  <1>7. TimeoutIsNotACancel'
    BY <1>1, <1>2, <1>4 DEF Finish, ContextDone, DoneKept, TimeoutIsNotACancel
  <1>8. ContextsReleased'
    BY <1>2, <1>4 DEF ContextsReleased
  <1>9. StoppedTimerStaysOut'
    BY <1>1, <1>2, <1>4 DEF Finish, ContextDone, DoneKept, StoppedTimerStaysOut, StoppedIsStopped
  <1> QED
    BY <1>5, <1>6, <1>7, <1>8, <1>9

-----------------------------------------------------------------------------
(* The timers, and the client.                                             *)

LEMMA ExpireKeeps == \A a \in Attempts : IInv /\ Expire(a) => IInv'
  <1> SUFFICES ASSUME NEW a \in Attempts, IInv, Expire(a) PROVE IInv'
    OBVIOUS
  <1> USE DEF IInv, TypeOK, Expire
  <1>1. TypeOK' /\ AttemptsLeft' /\ ReasonKept' /\ DoneKept' /\ NotStoppedYet'
    BY DEF AttemptsLeft, ReasonKept, DoneKept, ContextDone, NotStoppedYet
  <1>2. FutureUntouched' /\ CallbackInOrder' /\ StoppedIsStopped'
    BY DEF FutureUntouched, CallbackInOrder, Open, StoppedIsStopped
  <1>3. TimeoutIsNotACancel' /\ StoppedTimerStaysOut' /\ ContextsReleased'
    BY DEF TimeoutIsNotACancel, StoppedTimerStaysOut, ContextsReleased
  <1> QED
    BY <1>1, <1>2, <1>3

LEMMA CallbackKeeps == \A a \in Attempts : IInv /\ RunCallback(a) => IInv'
  <1> SUFFICES ASSUME NEW a \in Attempts, IInv, RunCallback(a) PROVE IInv'
    OBVIOUS
  <1> USE DEF IInv, TypeOK
  <1>1. CASE /\ timer[a] = "expired" /\ timer' = [timer EXCEPT ![a] = "halfway"]
             /\ timedOut' = [timedOut EXCEPT ![a] = TRUE] /\ UNCHANGED canceled
    BY <1>1 DEF RunCallback, AttemptsLeft, FutureUntouched, CallbackInOrder, Open, ReasonKept, DoneKept, ContextDone,
              StoppedIsStopped, NotStoppedYet, TimeoutIsNotACancel, StoppedTimerStaysOut,
              ContextsReleased
  <1>2. CASE /\ timer[a] = "halfway" /\ timer' = [timer EXCEPT ![a] = "spent"]
             /\ canceled' = [canceled EXCEPT ![a] = TRUE] /\ UNCHANGED timedOut
    BY <1>2 DEF RunCallback, AttemptsLeft, FutureUntouched, CallbackInOrder, Open, ReasonKept, DoneKept, ContextDone,
              StoppedIsStopped, NotStoppedYet, TimeoutIsNotACancel, StoppedTimerStaysOut,
              ContextsReleased
  <1>3. timer[a] = "expired" => Callback[timer[a]] = "store"
    BY DEF Callback
  <1>4. timer[a] = "halfway" => Callback[timer[a]] = "cancel"
    BY DEF Callback
  <1>5. timer[a] \in {"expired", "halfway"}
    BY DEF RunCallback, Callback
  <1> QED
    BY <1>1, <1>2, <1>3, <1>4, <1>5 DEF RunCallback, Release

LEMMA ClientKeeps == IInv /\ ClientLeaves => IInv'
  BY DEF IInv, TypeOK, ClientLeaves, AttemptsLeft, FutureUntouched, CallbackInOrder, Open, ReasonKept, DoneKept, ContextDone,
         StoppedIsStopped, NotStoppedYet, TimeoutIsNotACancel, StoppedTimerStaysOut, ContextsReleased

LEMMA StutterKeeps == IInv /\ UNCHANGED vars => IInv'
  BY DEF IInv, TypeOK, vars, AttemptsLeft, FutureUntouched, CallbackInOrder, Open, ReasonKept, DoneKept, ContextDone,
         StoppedIsStopped, NotStoppedYet, TimeoutIsNotACancel, StoppedTimerStaysOut, ContextsReleased

LEMMA StepInvariant == IInv /\ [Next]_vars => IInv'
  BY StartKeeps, WaitKeeps, StopKeeps, LookKeeps, DecideKeeps, FinishKeeps, ExpireKeeps,
     CallbackKeeps, ClientKeeps, StutterKeeps DEF Next

LEMMA Invariance == Spec => []IInv
  BY InitInvariant, StepInvariant, PTL DEF Spec

-----------------------------------------------------------------------------
(* The results.                                                            *)

\* The timer's and the handler's state keeps its type; no attempt is made beyond
\* the last.
THEOREM TimerTypeCorrect == Spec => []TypeOK
  <1>1. IInv => TypeOK
    BY DEF IInv
  <1> QED
    BY <1>1, Invariance, PTL

\* However the callback, the handler and the client interleave, an attempt whose
\* timer ended its wait for the response is not reported as the client's cancel;
\* one that ends so with the client there lost a response it already had to its
\* own timer.
THEOREM TimeoutNeverACancel == Spec => []TimeoutIsNotACancel
  <1>1. IInv => TimeoutIsNotACancel
    BY DEF IInv
  <1> QED
    BY <1>1, Invariance, PTL

\* A response whose timer was stopped, or whose context was found done, is
\* interrupted by nobody but the client.
THEOREM StoppedTimerAlwaysStaysOut == Spec => []StoppedTimerStaysOut
  <1>1. IInv => StoppedTimerStaysOut
    BY DEF IInv
  <1> QED
    BY <1>1, Invariance, PTL

\* Every attempt that ended has had its context cancelled, but for those whose
\* response RetryOnResponse had replaced by a copy.
THEOREM ContextsAlwaysReleased == Spec => []ContextsReleased
  <1>1. IInv => ContextsReleased
    BY DEF IInv
  <1> QED
    BY <1>1, Invariance, PTL
=============================================================================
