-------------------------- MODULE RedisStoreProofs --------------------------
(***************************************************************************)
(* The Redis store keeps its lock's promise, for any number of updates and *)
(* any breaker (src/channel_breaker_redis.go).                             *)
(***************************************************************************)
EXTENDS RedisStore, TLAPS

USE OpsAssumption, NamesAssumption

\* What is stored is what the latest update wrote, unless it was forgotten,
\* and what an update is about to write is computed from one of the two.
CopiesCurrent ==
    /\ cell \in {latest, NoState}
    /\ overran = {} => \A w \in Workers :
         worker[w].phase = "writing" =>
           \E base \in {cell, latest} : worker[w].copy = Update[worker[w].op][base]

IInv == TypeOK /\ LockKept /\ CopiesCurrent

LEMMA UpdateTyped == \A op \in Ops, s \in Cells : Update[op][s] \in Cells
  OBVIOUS

LEMMA NoStateTyped == NoState \in Cells
  BY DEF Cells

\* No two updates have the lock while the promise holds.
LEMMA OneUpdating ==
    ASSUME LockKept, overran = {}, NEW v \in Updating, NEW w \in Updating
    PROVE  v = w
  BY DEF LockKept

LEMMA InitInvariant == Init => IInv
  <1> SUFFICES ASSUME Init PROVE IInv
    OBVIOUS
  <1>1. TypeOK
    <2>1. ASSUME NEW w \in Workers PROVE worker[w] \in WorkerState
      <3>1. worker[w] \in {[phase |-> "idle", op |-> op, late |-> FALSE, copy |-> NoState] :
                              op \in Ops}
        BY DEF Init
      <3>2. PICK op \in Ops :
              worker[w] = [phase |-> "idle", op |-> op, late |-> FALSE, copy |-> NoState]
        BY <3>1
      <3> QED
        BY <3>2, NoStateTyped DEF WorkerState, Phases
    <2>2. worker \in [Workers -> WorkerState]
      BY <2>1 DEF Init
    <2> QED
      BY <2>2 DEF Init, TypeOK, Cells
  <1>2. LockKept
    BY DEF Init, LockKept, Updating
  <1>3. CopiesCurrent
    BY DEF Init, CopiesCurrent
  <1> QED
    BY <1>1, <1>2, <1>3 DEF IInv

-----------------------------------------------------------------------------
(* Types.                                                                  *)

LEMMA LeaveTyped ==
    ASSUME TypeOK, NEW w \in Workers, Leave(w)
    PROVE  worker' \in [Workers -> WorkerState] /\ overran' \subseteq Workers \cup {Stranger}
  <1>1. worker' \in [Workers -> WorkerState]
    <2>1. worker \in [Workers -> WorkerState] /\ worker[w] \in WorkerState
      BY DEF TypeOK
    <2> DEFINE left == [worker[w] EXCEPT !.phase = "idle", !.late = FALSE, !.copy = NoState]
    <2>2. left \in WorkerState
      BY <2>1, NoStateTyped DEF WorkerState, Phases
    <2>3. worker' = [worker EXCEPT ![w] = left]
      BY <2>1 DEF Leave, WorkerState
    <2> HIDE DEF left
    <2> QED
      BY <2>1, <2>2, <2>3
  <1>2. overran' \subseteq Workers \cup {Stranger}
    BY DEF Leave, TypeOK
  <1> QED
    BY <1>1, <1>2

LEMMA StepTyped ==
    ASSUME TypeOK, [Next]_vars
    PROVE  TypeOK'
  <1> USE NoStateTyped DEF TypeOK, WorkerState, Phases
  <1>1. ASSUME NEW w \in Workers, Begin(w) PROVE TypeOK'
    BY <1>1 DEF Begin
  <1>2. ASSUME NEW w \in Workers, Proceed(w) PROVE TypeOK'
    <2>1. CASE TakeLock(w)
      BY <2>1 DEF TakeLock, Goto
    <2>2. CASE GiveUpLock(w)
      BY <2>2, LeaveTyped DEF GiveUpLock
    <2>3. CASE Read(w)
      BY <2>3, UpdateTyped DEF Read
    <2>4. CASE Write(w)
      BY <2>4 DEF Write, Goto
    <2>5. CASE ReleaseLock(w)
      <3>1. worker' \in [Workers -> WorkerState] /\ overran' \subseteq Workers \cup {Stranger}
        BY <2>5, LeaveTyped DEF ReleaseLock
      <3>2. UNCHANGED <<cell, reporter, latest>> /\ lock' \in {lock, Nobody}
        BY <2>5 DEF ReleaseLock
      <3> QED
        BY <3>1, <3>2
    <2> QED
      BY <1>2, <2>1, <2>2, <2>3, <2>4, <2>5 DEF Proceed
  <1>3. ASSUME NEW w \in Workers, Fail(w) PROVE TypeOK'
    <2>1. CASE FailLock(w)
      <3>1. worker' \in [Workers -> WorkerState] /\ overran' \subseteq Workers \cup {Stranger}
        BY <2>1, LeaveTyped DEF FailLock
      <3>2. UNCHANGED <<cell, reporter, latest>> /\ lock' \in {lock, Stranger}
        BY <2>1 DEF FailLock
      <3> QED
        BY <3>1, <3>2
    <2>2. CASE FailRead(w) \/ FailWrite(w)
      BY <2>2 DEF FailRead, FailWrite, Goto
    <2>3. CASE FailRelease(w) \/ Crash(w)
      BY <2>3, LeaveTyped DEF FailRelease, Crash, Abandon
    <2> QED
      BY <1>3, <2>1, <2>2, <2>3 DEF Fail
  <1>4. ASSUME NEW w \in Workers, WaitEnds(w) PROVE TypeOK'
    BY <1>4 DEF WaitEnds
  <1>5. CASE LockExpires \/ StateExpires
    BY <1>5 DEF LockExpires, StateExpires
  <1>6. CASE ResetChannelByKey \/ Snapshot \/ SnapshotPurge
    BY <1>6 DEF ResetChannelByKey, Snapshot, SnapshotPurge
  <1>7. CASE UNCHANGED vars
    BY <1>7 DEF vars
  <1> QED
    BY <1>1, <1>2, <1>3, <1>4, <1>5, <1>6, <1>7 DEF Next

-----------------------------------------------------------------------------
(* The lock.                                                               *)

\* An update that ends takes nobody's lock away.
LEMMA LeaveKeepsLock ==
    ASSUME TypeOK, LockKept, NEW w \in Workers, Leave(w),
           lock \notin {w, Nobody} => lock' = lock
    PROVE  LockKept'
  <1> SUFFICES ASSUME NEW v \in Updating', v \notin overran' PROVE lock' = v
    BY DEF LockKept
  <1>1. v \in Workers /\ v # w /\ v \in Updating
    BY DEF Leave, Updating, TypeOK, WorkerState
  <1>2. v \notin overran
    BY <1>1 DEF Leave
  <1>3. lock = v
    BY <1>1, <1>2 DEF LockKept
  <1> QED
    BY <1>1, <1>3

LEMMA StepKeepsLock ==
    ASSUME TypeOK, LockKept, [Next]_vars
    PROVE  LockKept'
  <1> USE DEF TypeOK, WorkerState
  <1>1. ASSUME NEW w \in Workers, Begin(w) PROVE LockKept'
    BY <1>1 DEF Begin, LockKept, Updating
  <1>2. ASSUME NEW w \in Workers, Proceed(w) PROVE LockKept'
    <2>1. CASE TakeLock(w)
      BY <2>1 DEF TakeLock, Goto, LockKept, Updating
    <2>2. CASE GiveUpLock(w)
      BY <2>2, LeaveKeepsLock DEF GiveUpLock
    <2>3. CASE Read(w)
      BY <2>3 DEF Read, LockKept, Updating
    <2>4. CASE Write(w)
      BY <2>4 DEF Write, Goto, LockKept, Updating
    <2>5. CASE ReleaseLock(w)
      BY <2>5, LeaveKeepsLock DEF ReleaseLock
    <2> QED
      BY <1>2, <2>1, <2>2, <2>3, <2>4, <2>5 DEF Proceed
  <1>3. ASSUME NEW w \in Workers, Fail(w) PROVE LockKept'
    <2>1. CASE FailLock(w)
      BY <2>1, LeaveKeepsLock DEF FailLock
    <2>2. CASE FailRead(w) \/ FailWrite(w)
      BY <2>2 DEF FailRead, FailWrite, Goto, LockKept, Updating
    <2>3. CASE FailRelease(w) \/ Crash(w)
      BY <2>3, LeaveKeepsLock DEF FailRelease, Crash, Abandon
    <2> QED
      BY <1>3, <2>1, <2>2, <2>3 DEF Fail
  <1>4. ASSUME NEW w \in Workers, WaitEnds(w) PROVE LockKept'
    BY <1>4 DEF WaitEnds, LockKept, Updating
  <1>5. CASE LockExpires
    BY <1>5 DEF LockExpires, LockKept, Updating
  <1>6. CASE StateExpires \/ ResetChannelByKey \/ Snapshot \/ SnapshotPurge
    BY <1>6 DEF StateExpires, ResetChannelByKey, Snapshot, SnapshotPurge, LockKept, Updating
  <1>7. CASE UNCHANGED vars
    BY <1>7 DEF vars, LockKept, Updating
  <1> QED
    BY <1>1, <1>2, <1>3, <1>4, <1>5, <1>6, <1>7 DEF Next

-----------------------------------------------------------------------------
(* The copies.                                                             *)

\* An update that ends, or one that fails, has no copy and changes no state.
LEMMA LeaveKeepsCopies ==
    ASSUME IInv, NEW w \in Workers, Leave(w), UNCHANGED <<cell, latest>>
    PROVE  CopiesCurrent'
  <1>1. cell' \in {latest', NoState}
    BY DEF IInv, CopiesCurrent
  <1>2. ASSUME overran' = {}, NEW v \in Workers, worker'[v].phase = "writing"
        PROVE  \E base \in {cell', latest'} : worker'[v].copy = Update[worker'[v].op][base]
    <2>1. v # w /\ worker'[v] = worker[v]
      BY <1>2 DEF Leave, IInv, TypeOK, WorkerState
    <2>2. overran = {}
      BY <1>2, <2>1 DEF Leave, Updating
    <2> QED
      BY <1>2, <2>1, <2>2 DEF IInv, CopiesCurrent
  <1> QED
    BY <1>1, <1>2 DEF CopiesCurrent

\* Forgetting leaves what an update was computed from among the two.
LEMMA ForgetKeepsCopies ==
    ASSUME IInv, cell' = NoState, UNCHANGED <<latest, worker, overran>>
    PROVE  CopiesCurrent'
  BY DEF IInv, CopiesCurrent

LEMMA WriteKeepsCopies ==
    ASSUME IInv, NEW w \in Workers, Write(w)
    PROVE  CopiesCurrent'
  <1>1. cell' = latest'
    BY DEF Write
  <1>2. ASSUME overran' = {}, NEW v \in Workers, worker'[v].phase = "writing"
        PROVE  FALSE
    <2>1. v # w /\ worker[v].phase = "writing" /\ overran = {}
      BY <1>2 DEF Write, Goto, IInv, TypeOK, WorkerState
    <2>2. v \in Updating /\ w \in Updating
      BY <2>1 DEF Updating, Write
    <2> QED
      BY <2>1, <2>2, OneUpdating DEF IInv
  <1> QED
    BY <1>1, <1>2 DEF CopiesCurrent

LEMMA StepKeepsCopies ==
    ASSUME IInv, [Next]_vars
    PROVE  CopiesCurrent'
  <1> USE DEF IInv, TypeOK, WorkerState
  <1>1. ASSUME NEW w \in Workers, Begin(w) PROVE CopiesCurrent'
    BY <1>1 DEF Begin, CopiesCurrent
  <1>2. ASSUME NEW w \in Workers, Proceed(w) PROVE CopiesCurrent'
    <2>1. CASE TakeLock(w)
      BY <2>1 DEF TakeLock, Goto, CopiesCurrent
    <2>2. CASE GiveUpLock(w)
      BY <2>2, LeaveKeepsCopies DEF GiveUpLock
    <2>3. CASE Read(w)
      BY <2>3 DEF Read, CopiesCurrent
    <2>4. CASE Write(w)
      BY <2>4, WriteKeepsCopies
    <2>5. CASE ReleaseLock(w)
      BY <2>5, LeaveKeepsCopies DEF ReleaseLock
    <2> QED
      BY <1>2, <2>1, <2>2, <2>3, <2>4, <2>5 DEF Proceed
  <1>3. ASSUME NEW w \in Workers, Fail(w) PROVE CopiesCurrent'
    <2>1. CASE FailRead(w) \/ FailWrite(w)
      BY <2>1 DEF FailRead, FailWrite, Goto, CopiesCurrent
    <2>2. CASE FailLock(w) \/ FailRelease(w) \/ Crash(w)
      BY <2>2, LeaveKeepsCopies DEF FailLock, FailRelease, Crash
    <2> QED
      BY <1>3, <2>1, <2>2 DEF Fail
  <1>4. ASSUME NEW w \in Workers, WaitEnds(w) PROVE CopiesCurrent'
    BY <1>4 DEF WaitEnds, CopiesCurrent
  <1>5. CASE LockExpires
    BY <1>5 DEF LockExpires, CopiesCurrent
  <1>6. CASE StateExpires \/ ResetChannelByKey \/ SnapshotPurge
    BY <1>6, ForgetKeepsCopies DEF StateExpires, ResetChannelByKey, SnapshotPurge
  <1>7. CASE Snapshot \/ UNCHANGED vars
    BY <1>7 DEF Snapshot, vars, CopiesCurrent
  <1> QED
    BY <1>1, <1>2, <1>3, <1>4, <1>5, <1>6, <1>7 DEF Next

LEMMA StepInvariant == IInv /\ [Next]_vars => IInv'
  BY StepTyped, StepKeepsLock, StepKeepsCopies DEF IInv

LEMMA Invariance == Spec => []IInv
  BY InitInvariant, StepInvariant, PTL DEF Spec

-----------------------------------------------------------------------------
(* The results.                                                            *)

\* The store's state keeps its type.
THEOREM RedisTypeCorrect == Spec => []TypeOK
  <1>1. IInv => TypeOK
    BY DEF IInv
  <1> QED
    BY <1>1, Invariance, PTL

\* While no update outlives its lock no two updates are under way: nobody frees
\* another's lock.
THEOREM LockAlwaysKept == Spec => []LockKept
  <1>1. IInv => LockKept
    BY DEF IInv
  <1> QED
    BY <1>1, Invariance, PTL

LEMMA StepMapped ==
    ASSUME IInv, [Next]_vars
    PROVE  [Store!StoreNext]_Store!storeVars
  <1> SUFFICES ASSUME overran = {}, overran' = {},
                      ~UNCHANGED <<cell, latest>>
               PROVE  Store!Apply \/ Store!Forget
    BY DEF Store!StoreNext, Store!storeVars, IInv, TypeOK
  <1>1. ASSUME NEW w \in Workers, Write(w) PROVE Store!Apply
    <2>1. PICK base \in {cell, latest} : worker[w].copy = Update[worker[w].op][base]
      BY <1>1 DEF Write, IInv, CopiesCurrent
    <2>2. worker[w].op \in Ops
      BY DEF IInv, TypeOK, WorkerState
    <2> QED
      BY <1>1, <2>1, <2>2 DEF Write, Store!Apply
  <1>2. CASE StateExpires \/ ResetChannelByKey \/ SnapshotPurge
    BY <1>2 DEF StateExpires, ResetChannelByKey, SnapshotPurge, Store!Forget
  <1>3. ASSUME NEW w \in Workers,
               Begin(w) \/ TakeLock(w) \/ GiveUpLock(w) \/ Read(w) \/ ReleaseLock(w)
               \/ Fail(w) \/ WaitEnds(w)
        PROVE  FALSE
    BY <1>3 DEF Begin, TakeLock, GiveUpLock, Read, ReleaseLock, Fail, FailLock, FailRead,
                FailWrite, FailRelease, Crash, WaitEnds
  <1>4. CASE LockExpires \/ Snapshot \/ UNCHANGED vars
    BY <1>4 DEF LockExpires, Snapshot, vars
  <1> QED
    BY <1>1, <1>2, <1>3, <1>4 DEF Next, Proceed

\* The store is what the breaker takes it for, as long as updates are shorter
\* than the lock's life: the resets that do without the lock, lost replies and
\* crashes break nothing.
THEOREM RedisIsACircuitStore == Spec => ImplementsCircuitStore
  <1>1. Init => Store!StoreInit
    BY DEF Init, Store!StoreInit
  <1> QED
    BY <1>1, StepMapped, Invariance, PTL DEF Spec, ImplementsCircuitStore, Store!StoreSpec
=============================================================================
