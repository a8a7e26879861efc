-------------------------- MODULE AlgorithmsProofs --------------------------
(***************************************************************************)
(* What the pure functions compute, for inputs of any size: any attempts,  *)
(* keys, events, latencies and names.  Each is a fold or a function of its *)
(* own earlier values, so the proofs go by induction along it: Counting is *)
(* the induction, FoldInSteps and Iterated unroll the computation.         *)
(***************************************************************************)
EXTENDS Algorithms, FiniteSetTheorems, WellFoundedInduction, SequenceTheorems, TLAPS

-----------------------------------------------------------------------------
(* Counting.  The induction theorems of the library take an operator; this *)
(* one takes a set.                                                        *)

\* Every set of numbers has a least one.
LEMMA LeastNumber ==
    ASSUME NEW S \in SUBSET Nat, S # {}
    PROVE  \E m \in S : \A n \in S : m <= n
  <1> DEFINE Below(m) == 0..(m - 1)
             T == {Below(m) : m \in S}
  <1>1. T \subseteq FiniteSubsetsOf(Nat) /\ T # {}
    <2>1. \A m \in S : Below(m) \in SUBSET Nat /\ IsFiniteSet(Below(m))
      BY FS_Interval
    <2> QED
      BY <2>1 DEF FiniteSubsetsOf
  <1>2. IsWellFoundedOn(StrictSubsetOrdering(Nat), FiniteSubsetsOf(Nat))
    BY FS_StrictSubsetOrderingWellFounded
  <1> HIDE DEF T
  <1>3. PICK t \in T : \A u \in T : ~(<<u, t>> \in StrictSubsetOrdering(Nat))
    BY <1>1, <1>2, WFMin
  <1>4. PICK m \in S : t = Below(m)
    BY <1>3 DEF T
  <1>5. ASSUME NEW n \in S, n < m PROVE FALSE
    <2>1. Below(n) \in T
      BY DEF T
    <2>2. Below(n) \subseteq Below(m) /\ Below(n) # Below(m)
      <3>1. n \in Below(m) /\ n \notin Below(n)
        BY <1>5
      <3>2. Below(n) \subseteq Below(m)
        BY <1>5
      <3> QED
        BY <3>1, <3>2
    <2>3. Below(n) \in SUBSET Nat /\ Below(m) \in SUBSET Nat
      OBVIOUS
    <2> HIDE DEF Below
    <2>4. <<Below(n), Below(m)>> \in StrictSubsetOrdering(Nat)
      BY <2>2, <2>3 DEF StrictSubsetOrdering
    <2> QED
      BY <1>3, <1>4, <2>1, <2>4
  <1> QED
    BY <1>5

\* A set that has zero and, with each number, the next has them all.
LEMMA Counting ==
    ASSUME NEW S \in SUBSET Nat, 0 \in S, \A n \in S : n + 1 \in S
    PROVE  S = Nat
  <1> SUFFICES ASSUME Nat \ S # {} PROVE FALSE
    OBVIOUS
  <1>1. PICK m \in Nat \ S : \A n \in Nat \ S : m <= n
    BY LeastNumber
  <1>2. m # 0 /\ m - 1 \in Nat /\ m - 1 \in S
    BY <1>1
  <1> QED
    BY <1>1, <1>2

-----------------------------------------------------------------------------
(* Positions in a sequence.                                                *)
\* What is computed step by step from a first value is a function, and its
\* values are in any set that the steps stay in.
Iterates(f, first, step, m) == \A i \in 1..m : f[i] = IF i = 1 THEN first ELSE step[f[i - 1]]

LEMMA Iterated ==
    ASSUME NEW X, NEW first \in X, NEW step \in [X -> X], NEW m \in Nat
    PROVE  \E f \in [1..m -> X] : Iterates(f, first, step, m)
  <1> DEFINE Has(k, f) == \A i \in 1..k : f[i] = IF i = 1 THEN first ELSE step[f[i - 1]]
             Good == {k \in Nat : \E f \in [1..k -> X] : Has(k, f)}
  <1>1. 0 \in Good
    <2>1. [i \in 1..0 |-> first] \in [1..0 -> X] /\ Has(0, [i \in 1..0 |-> first])
      OBVIOUS
    <2> QED
      BY <2>1
  <1>2. ASSUME NEW k \in Good PROVE k + 1 \in Good
    <2>1. k \in Nat /\ \E f \in [1..k -> X] : Has(k, f)
      OBVIOUS
    <2>2. PICK f \in [1..k -> X] : Has(k, f)
      BY <2>1
    <2>3. PICK next \in X : next = IF k = 0 THEN first ELSE step[f[k]]
      <3>1. k # 0 => f[k] \in X
        BY <2>1, <2>2
      <3> QED
        BY <3>1
    <2>4. PICK g : g = [i \in 1..(k + 1) |-> IF i <= k THEN f[i] ELSE next]
      OBVIOUS
    <2>5. g \in [1..(k + 1) -> X]
      <3>1. \A i \in 1..(k + 1) : i <= k => i \in 1..k
        BY <2>1
      <3> QED
        BY <2>2, <2>4, <3>1
    <2>6. ASSUME NEW i \in 1..(k + 1) PROVE g[i] = IF i = 1 THEN first ELSE step[g[i - 1]]
      <3>1. CASE i <= k
        <4>1. i \in 1..k /\ (i # 1 => i - 1 \in 1..k /\ i - 1 \in 1..(k + 1) /\ i - 1 <= k)
          BY <2>1, <3>1
        <4>2. g[i] = f[i] /\ (i # 1 => g[i - 1] = f[i - 1])
          BY <2>4, <3>1, <4>1
        <4>3. f[i] = IF i = 1 THEN first ELSE step[f[i - 1]]
          BY <2>2, <4>1
        <4> QED
          BY <4>2, <4>3
      <3>2. CASE ~(i <= k)
        <4>1. i = k + 1 /\ g[i] = next
          BY <2>1, <2>4, <3>2
        <4>2. k = 0 <=> i = 1
          BY <2>1, <4>1
        <4>3. k # 0 => i - 1 = k /\ i - 1 \in 1..(k + 1) /\ i - 1 <= k
          BY <2>1, <4>1
        <4>4. k # 0 => g[i - 1] = f[k]
          BY <2>4, <4>3
        <4> QED
          BY <2>3, <4>1, <4>2, <4>4
      <3> QED
        BY <3>1, <3>2
    <2> QED
      BY <2>1, <2>5, <2>6
  <1> HIDE DEF Has
  <1>3. Good = Nat
    BY <1>1, <1>2, Counting
  <1> QED
    BY <1>3 DEF Has, Iterates

\* Two functions computed the same way are the same.
StaysAlike(f, g, m) == \A i \in 2..m : f[i - 1] = g[i - 1] => f[i] = g[i]
Alike(f, g, m) == \A i \in 1..m : f[i] = g[i]

LEMMA StepByStep ==
    ASSUME NEW m \in Nat, NEW f, NEW g, f[1] = g[1], StaysAlike(f, g, m)
    PROVE  Alike(f, g, m)
  <1> DEFINE Same == {k \in Nat : k + 1 \in 1..m => f[k + 1] = g[k + 1]}
  <1>1. 0 \in Same
    OBVIOUS
  <1>2. ASSUME NEW k \in Same PROVE k + 1 \in Same
    <2> SUFFICES ASSUME k + 1 + 1 \in 1..m PROVE f[k + 1 + 1] = g[k + 1 + 1]
      OBVIOUS
    <2>1. PICK i \in 2..m : i = k + 1 + 1 /\ i - 1 = k + 1 /\ i - 1 \in 1..m
      OBVIOUS
    <2>2. f[i - 1] = g[i - 1]
      BY <2>1
    <2> QED
      BY <2>1, <2>2 DEF StaysAlike
  <1>3. Same = Nat
    <2>1. Same \in SUBSET Nat
      OBVIOUS
    <2> HIDE DEF Same
    <2> QED
      BY <1>1, <1>2, <2>1, Counting
  <1>4. \A i \in 1..m : i - 1 \in Nat /\ (i - 1) + 1 = i
    OBVIOUS
  <1> QED
    BY <1>3, <1>4 DEF Alike

\* Within one turn and the next, the remainder is what is over.
LEMMA RemainderIs ==
    ASSUME NEW n \in Nat \ {0}, NEW a \in 0..(2 * n - 1)
    PROVE  a % n = IF a < n THEN a ELSE a - n
  <1>1. PICK q \in Int, r \in 0..(n - 1) : q = a \div n /\ r = a % n /\ a = n * q + r
    OBVIOUS
  <1>2. q < 2
    <2>1. q >= 2 => n * q >= n * 2
      OBVIOUS
    <2> QED
      BY <1>1, <2>1
  <1>3. q >= 0
    <2>1. q <= -1 => n * q <= -n
      OBVIOUS
    <2> QED
      BY <1>1, <2>1
  <1>4. q = 0 \/ q = 1
    BY <1>2, <1>3
  <1> QED
    BY <1>1, <1>4

-----------------------------------------------------------------------------
(* The back-off.                                                           *)

\* What the loop may be at: a delay between base and cap, the cap once it has
\* returned.
Turns(base, max) ==
    {turn \in [delay : base..max, returned : BOOLEAN] : turn.returned => turn.delay = max}

\* Below half of the range nothing wraps: the double is longer, or the cap.
LEMMA DoubledGrows ==
    ASSUME NEW base \in Nat \ {0}, NEW max \in Nat, 2 * max <= MaxDuration,
           NEW turn \in Turns(base, max)
    PROVE  /\ Doubled(turn, max) \in Turns(base, max)
           /\ Doubled(turn, max).delay > turn.delay \/ Doubled(turn, max).delay = max
  <1>1. MaxDuration \in Nat \ {0}
    BY BoundsAssumption
  <1>2. PICK delay \in base..max, returned \in BOOLEAN :
          turn = [delay |-> delay, returned |-> returned] /\ (returned => delay = max)
    BY DEF Turns
  <1>3. delay \in 1..max
    OBVIOUS
  <1>4. Wrapped(2 * delay) = 2 * delay
    <2>1. PICK n \in Nat \ {0}, a \in Nat :
            n = 2 * (MaxDuration + 1) /\ a = 2 * delay + MaxDuration + 1 /\ a < n
      <3>1. 2 * (MaxDuration + 1) \in Nat \ {0}
        BY <1>1
      <3>2. 2 * delay + MaxDuration + 1 \in Nat
        BY <1>1, <1>3
      <3>3. 2 * delay + MaxDuration + 1 < 2 * (MaxDuration + 1)
        BY <1>1, <1>3
      <3> QED
        BY <3>1, <3>2, <3>3
    <2>2. a % n = a
      <3>1. a \in 0..(2 * n - 1)
        BY <2>1
      <3> QED
        BY <2>1, <3>1, RemainderIs
    <2> QED
      BY <1>1, <1>3, <2>1, <2>2 DEF Wrapped
  <1>5. turn.delay = delay /\ turn.returned = returned
    BY <1>2
  <1>6. CASE returned
    <2>1. Doubled(turn, max) = turn
      BY <1>5, <1>6 DEF Doubled
    <2> QED
      BY <1>2, <1>5, <1>6, <2>1
  <1>7. CASE ~returned /\ 2 * delay > max
    <2>1. PICK next : next = [delay |-> max, returned |-> TRUE]
      OBVIOUS
    <2>2. max > 0 /\ Wrapped(2 * turn.delay) > max
      BY <1>3, <1>4, <1>5, <1>7
    <2>3. Doubled(turn, max) = next
      BY <1>5, <1>7, <2>1, <2>2 DEF Doubled
    <2>4. next \in Turns(base, max) /\ next.delay = max
      BY <1>3, <2>1 DEF Turns
    <2> QED
      BY <2>3, <2>4
  <1>8. CASE ~returned /\ ~(2 * delay > max)
    <2>1. PICK next : next = [delay |-> 2 * delay, returned |-> returned]
      OBVIOUS
    <2>2. [turn EXCEPT !.delay = Wrapped(2 * @)] = next
      BY <1>2, <1>4, <2>1
    <2>3. ~(Wrapped(2 * turn.delay) > max)
      BY <1>4, <1>5, <1>8
    <2>4. Doubled(turn, max) = next
      BY <1>5, <1>8, <2>2, <2>3 DEF Doubled
    <2>5. next \in Turns(base, max) /\ next.delay > turn.delay
      BY <1>3, <1>5, <1>8, <2>1 DEF Turns
    <2> QED
      BY <2>4, <2>5
  <1> QED
    BY <1>6, <1>7, <1>8

LEMMA BackoffGrows ==
    ASSUME NEW base \in Nat \ {0}, NEW max \in Nat, base <= max, 2 * max <= MaxDuration,
           NEW i \in 1..MaxTries
    PROVE  LET delay == Backoff(base, max)
           IN  /\ delay[i] \in base..max
               /\ i > 1 => delay[i] > delay[i - 1] \/ delay[i] = max
  <1> DEFINE first == [delay |-> IF base <= 0 THEN 0 ELSE base, returned |-> base <= 0]
             Has(f) == f = [j \in 1..MaxTries |-> IF j = 1 THEN first ELSE Doubled(f[j - 1], max)]
             turn == CHOOSE f : Has(f)
  <1>1. Backoff(base, max) = [j \in 1..MaxTries |-> turn[j].delay]
    BY DEF Backoff
  <1>2. first \in Turns(base, max)
    <2>1. first = [delay |-> base, returned |-> FALSE]
      <3>1. ~(base <= 0)
        OBVIOUS
      <3>2. (base <= 0) = FALSE
        BY <3>1
      <3> QED
        BY <3>1, <3>2, Zenon
    <2>2. [delay |-> base, returned |-> FALSE] \in Turns(base, max)
      BY DEF Turns
    <2> HIDE DEF first
    <2> QED
      BY <2>1, <2>2
  <1> HIDE DEF first
  <1>3. PICK step \in [Turns(base, max) -> Turns(base, max)] :
          \A t \in Turns(base, max) : step[t] = Doubled(t, max)
    <2>1. \A t \in Turns(base, max) : Doubled(t, max) \in Turns(base, max)
      BY DoubledGrows
    <2>2. [t \in Turns(base, max) |-> Doubled(t, max)] \in [Turns(base, max) -> Turns(base, max)]
      BY <2>1
    <2> QED
      BY <2>2
  <1>4. PICK f \in [1..MaxTries -> Turns(base, max)] :
          \A j \in 1..MaxTries : f[j] = IF j = 1 THEN first ELSE step[f[j - 1]]
    <2>1. PICK X : X = Turns(base, max)
      OBVIOUS
    <2>2. PICK m \in Nat : m = MaxTries
      BY BoundsAssumption
    <2>3. first \in X /\ step \in [X -> X]
      BY <1>2, <2>1
    <2>4. \E g \in [1..m -> X] : Iterates(g, first, step, m)
      BY <2>3, Iterated
    <2> QED
      BY <2>1, <2>2, <2>4 DEF Iterates
  <1>5. \A j \in 1..MaxTries : f[j] = IF j = 1 THEN first ELSE Doubled(f[j - 1], max)
    <2> SUFFICES ASSUME NEW j \in 1..MaxTries
                 PROVE  f[j] = IF j = 1 THEN first ELSE Doubled(f[j - 1], max)
      OBVIOUS
    <2>1. j # 1 => j - 1 \in 1..MaxTries
      BY BoundsAssumption
    <2>2. CASE j = 1
      BY <1>4, <2>2
    <2>3. CASE j # 1
      <3>1. f[j - 1] \in Turns(base, max)
        BY <2>1, <2>3
      <3>2. f[j] = step[f[j - 1]]
        BY <1>4, <2>3
      <3> QED
        BY <1>3, <2>3, <3>1, <3>2, Zenon
    <2> QED
      BY <2>2, <2>3
  <1>6. Has(f)
    BY <1>5
  <1>7. Has(turn)
    <2> HIDE DEF Has
    <2> QED
      BY <1>6
  <1>8. \A j \in 1..MaxTries : turn[j] = IF j = 1 THEN first ELSE Doubled(turn[j - 1], max)
    <2> HIDE DEF turn
    <2> QED
      BY <1>7
  <1> HIDE DEF turn, Has
  <1>9. \A j \in 1..MaxTries : turn[j] = f[j]
    <2>1. PICK m \in Nat : m = MaxTries /\ 1 \in 1..m
      BY BoundsAssumption
    <2>2. turn[1] = f[1]
      BY <1>5, <1>8, <2>1
    <2>3. StaysAlike(turn, f, m)
      <3> SUFFICES ASSUME NEW j \in 2..m, turn[j - 1] = f[j - 1] PROVE turn[j] = f[j]
        BY DEF StaysAlike
      <3>1. j \in 1..MaxTries /\ j # 1
        BY <2>1
      <3> QED
        BY <1>5, <1>8, <3>1
    <2>4. Alike(turn, f, m)
      BY <2>2, <2>3, StepByStep
    <2> QED
      BY <2>1, <2>4 DEF Alike
  <1>10. \A j \in 1..MaxTries : turn[j] \in Turns(base, max)
    BY <1>4, <1>9
  <1>11. turn[i].delay \in base..max
    BY <1>10 DEF Turns
  <1>12. i > 1 => turn[i].delay > turn[i - 1].delay \/ turn[i].delay = max
    <2> SUFFICES ASSUME i > 1 PROVE turn[i].delay > turn[i - 1].delay \/ turn[i].delay = max
      OBVIOUS
    <2>1. i - 1 \in 1..MaxTries /\ i # 1
      BY BoundsAssumption
    <2>2. turn[i - 1] \in Turns(base, max) /\ turn[i] = Doubled(turn[i - 1], max)
      BY <1>8, <1>10, <2>1
    <2> QED
      BY <2>2, DoubledGrows
  <1>13. i > 1 => i - 1 \in 1..MaxTries
    BY BoundsAssumption
  <1> QED
    BY <1>1, <1>11, <1>12, <1>13

-----------------------------------------------------------------------------
(* The rotation of keys.                                                   *)

LEMMA RotationIs ==
    ASSUME NEW n \in Nat \ {0}, NEW current \in 0..(n - 1)
    PROVE  /\ Rotated(current, n) = IF current + 1 < n THEN current + 1 ELSE 0
           /\ Rotated(current, n) \in 0..(n - 1)
  <1>1. PICK a \in 0..(2 * n - 1) : a = current + 1
    OBVIOUS
  <1>2. a % n = IF a < n THEN a ELSE a - n
    BY RemainderIs
  <1> QED
    BY <1>1, <1>2 DEF Rotated

\* A list has every key once, and begins with the one whose turn it is.
LEMMA ListIsWhole ==
    ASSUME NEW n \in Nat \ {0}, NEW current \in 0..(n - 1)
    PROVE  /\ ToSet(KeysFrom(current, n)) = 0..(n - 1) /\ Len(KeysFrom(current, n)) = n
           /\ KeysFrom(current, n)[1] = current
  <1>1. \A i \in 1..n : (current + i - 1) % n =
                          IF current + i - 1 < n THEN current + i - 1 ELSE current + i - 1 - n
    <2> SUFFICES ASSUME NEW i \in 1..n
                 PROVE  (current + i - 1) % n =
                          IF current + i - 1 < n THEN current + i - 1 ELSE current + i - 1 - n
      OBVIOUS
    <2>1. PICK a \in 0..(2 * n - 1) : a = current + i - 1
      OBVIOUS
    <2>2. a % n = IF a < n THEN a ELSE a - n
      BY RemainderIs
    <2> QED
      BY <2>1, <2>2
  <1>2. KeysFrom(current, n) = [i \in 1..n |-> IF current + i - 1 < n THEN current + i - 1
                                               ELSE current + i - 1 - n]
    BY <1>1 DEF KeysFrom
  <1>3. DOMAIN KeysFrom(current, n) = 1..n /\ Len(KeysFrom(current, n)) = n
    BY <1>2
  <1>4. \A i \in 1..n : KeysFrom(current, n)[i] \in 0..(n - 1)
    BY <1>2
  <1>5. \A k \in 0..(n - 1) : \E i \in 1..n : KeysFrom(current, n)[i] = k
    <2>1. ASSUME NEW k \in 0..(n - 1) PROVE \E i \in 1..n : KeysFrom(current, n)[i] = k
      <3>1. CASE k >= current
        <4>1. k - current + 1 \in 1..n /\ current + (k - current + 1) - 1 = k
          BY <3>1
        <4>2. KeysFrom(current, n)[k - current + 1] = k
          BY <1>2, <4>1
        <4> QED
          BY <4>1, <4>2
      <3>2. CASE k < current
        <4>1. k + n - current + 1 \in 1..n /\ current + (k + n - current + 1) - 1 = k + n
          BY <3>2
        <4>2. KeysFrom(current, n)[k + n - current + 1] = k
          BY <1>2, <4>1
        <4> QED
          BY <4>1, <4>2
      <3> QED
        BY <3>1, <3>2
    <2> QED
      BY <2>1
  <1>6. ToSet(KeysFrom(current, n)) = 0..(n - 1)
    BY <1>3, <1>4, <1>5 DEF ToSet
  <1>7. KeysFrom(current, n)[1] = current
    BY <1>2
  <1> QED
    BY <1>3, <1>6, <1>7

\* The lists of successive calls begin one key further each time.
LEMMA ListsAre ==
    ASSUME NEW n \in Nat \ {0}, NEW calls \in Nat \ {0}
    PROVE  \E current \in [1..calls -> 0..(n - 1)] :
             /\ KeyLists(n, calls) = [c \in 1..calls |-> KeysFrom(current[c], n)]
             /\ \A c \in 1..calls : c # 1 => current[c] = Rotated(current[c - 1], n)
  <1> DEFINE Has(f) == f = [c \in 1..calls |-> IF c = 1 THEN 0 ELSE Rotated(f[c - 1], n)]
             current == CHOOSE f : Has(f)
  <1>1. KeyLists(n, calls) = [c \in 1..calls |-> KeysFrom(current[c], n)]
    BY DEF KeyLists
  <1>2. PICK X : X = 0..(n - 1)
    OBVIOUS
  <1>3. PICK step \in [X -> X] : \A k \in X : step[k] = Rotated(k, n)
    <2>1. \A k \in 0..(n - 1) : Rotated(k, n) \in 0..(n - 1)
      BY RotationIs
    <2>2. [k \in X |-> Rotated(k, n)] \in [X -> X]
      BY <1>2, <2>1
    <2> QED
      BY <2>2
  <1>4. PICK f \in [1..calls -> X] :
          \A c \in 1..calls : f[c] = IF c = 1 THEN 0 ELSE step[f[c - 1]]
    <2>1. 0 \in X /\ calls \in Nat
      BY <1>2
    <2>2. \E g \in [1..calls -> X] : Iterates(g, 0, step, calls)
      BY <2>1, Iterated
    <2> QED
      BY <2>2 DEF Iterates
  <1>5. \A c \in 1..calls : f[c] = IF c = 1 THEN 0 ELSE Rotated(f[c - 1], n)
    <2>1. \A c \in 1..calls : c # 1 => c - 1 \in 1..calls
      OBVIOUS
    <2> QED
      BY <1>3, <1>4, <2>1
  <1>6. Has(f)
    BY <1>5
  <1>7. Has(current)
    <2> HIDE DEF Has
    <2> QED
      BY <1>6
  <1>8. /\ \A c \in 1..calls : current[c] = IF c = 1 THEN 0 ELSE Rotated(current[c - 1], n)
        /\ DOMAIN current = 1..calls
    <2> HIDE DEF current
    <2> QED
      BY <1>7
  <1>9. current = [c \in DOMAIN current |-> current[c]]
    <2> HIDE DEF current
    <2> QED
      BY <1>7
  <1> HIDE DEF current, Has
  <1>10. \A c \in 1..calls : current[c] = f[c]
    <2>1. 1 \in 1..calls
      OBVIOUS
    <2>2. current[1] = f[1]
      BY <1>5, <1>8, <2>1
    <2>3. StaysAlike(current, f, calls)
      <3> SUFFICES ASSUME NEW c \in 2..calls, current[c - 1] = f[c - 1] PROVE current[c] = f[c]
        BY DEF StaysAlike
      <3>1. c \in 1..calls /\ c # 1
        OBVIOUS
      <3> QED
        BY <1>5, <1>8, <3>1
    <2>4. Alike(current, f, calls)
      <3>1. calls \in Nat
        OBVIOUS
      <3> QED
        BY <2>2, <2>3, <3>1, StepByStep
    <2> QED
      BY <2>4 DEF Alike
  <1>11. current \in [1..calls -> 0..(n - 1)]
    BY <1>2, <1>4, <1>8, <1>9, <1>10
  <1>12. \A c \in 1..calls : c # 1 => current[c] = Rotated(current[c - 1], n)
    BY <1>8
  <1> QED
    BY <1>1, <1>11, <1>12

\* Of n calls in a row each begins with another key.
LEMMA TurnsAreTaken ==
    ASSUME NEW n \in Nat \ {0}, NEW calls \in Nat \ {0},
           NEW current \in [1..calls -> 0..(n - 1)],
           \A c \in 1..calls : c # 1 => current[c] = Rotated(current[c - 1], n),
           NEW c \in 1..calls, c + n - 1 \in 1..calls
    PROVE  {current[d] : d \in c..(c + n - 1)} = 0..(n - 1)
  <1> DEFINE Turn(j) == current[c + j] = IF current[c] + j < n THEN current[c] + j ELSE current[c] + j - n
             Good == {j \in Nat : j < n => Turn(j)}
  <1>1. current[c] \in 0..(n - 1)
    OBVIOUS
  <1>2. 0 \in Good
    BY <1>1
  <1>3. ASSUME NEW j \in Good PROVE j + 1 \in Good
    <2> SUFFICES ASSUME j + 1 < n PROVE Turn(j + 1)
      OBVIOUS
    <2>1. j \in Nat /\ Turn(j)
      OBVIOUS
    <2>2. PICK b \in 1..calls : b = c + (j + 1) /\ b # 1 /\ b - 1 = c + j /\ b - 1 \in 1..calls
      BY <2>1
    <2>3. current[b] = Rotated(current[b - 1], n) /\ current[b - 1] \in 0..(n - 1)
      BY <2>2
    <2>4. current[b] = IF current[b - 1] + 1 < n THEN current[b - 1] + 1 ELSE 0
      BY <2>3, RotationIs
    <2>5. current[b - 1] = IF current[c] + j < n THEN current[c] + j ELSE current[c] + j - n
      BY <2>1, <2>2
    <2>6. current[b] = IF current[c] + (j + 1) < n THEN current[c] + (j + 1) ELSE current[c] + (j + 1) - n
      <3>1. PICK now \in 0..(n - 1), before \in 0..(n - 1), after \in {current[b]} :
              now = current[c] /\ before = current[b - 1] /\ after = current[b]
        BY <1>1, <2>3
      <3>2. before = IF now + j < n THEN now + j ELSE now + j - n
        BY <2>5, <3>1
      <3>3. after = IF before + 1 < n THEN before + 1 ELSE 0
        BY <2>4, <3>1
      <3>4. after = IF now + (j + 1) < n THEN now + (j + 1) ELSE now + (j + 1) - n
        BY <2>1, <3>2, <3>3
      <3> QED
        BY <3>1, <3>4
    <2> QED
      BY <2>2, <2>6
  <1>4. Good = Nat
    <2>1. Good \in SUBSET Nat
      OBVIOUS
    <2> HIDE DEF Good
    <2> QED
      BY <1>2, <1>3, <2>1, Counting
  <1>5. \A d \in c..(c + n - 1) : current[d] \in 0..(n - 1)
    OBVIOUS
  <1>6. ASSUME NEW k \in 0..(n - 1) PROVE \E d \in c..(c + n - 1) : current[d] = k
    <2>1. PICK j \in 0..(n - 1) : k = IF current[c] + j < n THEN current[c] + j ELSE current[c] + j - n
      <3>1. CASE k >= current[c]
        <4>1. k - current[c] \in 0..(n - 1) /\ current[c] + (k - current[c]) = k
          BY <1>1, <3>1
        <4> QED
          BY <4>1
      <3>2. CASE k < current[c]
        <4>1. k + n - current[c] \in 0..(n - 1) /\ current[c] + (k + n - current[c]) = k + n
          BY <1>1, <3>2
        <4>2. ~(k + n < n) /\ k + n - n = k
          OBVIOUS
        <4> QED
          BY <4>1, <4>2
      <3> QED
        BY <1>1, <3>1, <3>2
    <2>2. Turn(j)
      <3>1. j \in Nat /\ j < n
        OBVIOUS
      <3>2. j \in Good
        BY <1>4, <3>1
      <3> QED
        BY <3>1, <3>2
    <2>3. c + j \in c..(c + n - 1)
      OBVIOUS
    <2> QED
      BY <2>1, <2>2, <2>3
  <1> QED
    BY <1>5, <1>6

-----------------------------------------------------------------------------
(* Folding a sequence from the left.                                       *)

Folds(f, first, step, n) ==
    \A t \in SUBSET (1..n) : f[t] = IF t = {} THEN first ELSE step[Max(t)][f[t \ {Max(t)}]]

\* What Max of a set of positions is.
LEMMA MaxIs ==
    ASSUME NEW t \in SUBSET Nat, NEW m \in t, \A i \in t : i <= m
    PROVE  Max(t) = m
  <1>1. Max(t) \in t /\ \A i \in t : Max(t) >= i
    BY DEF Max
  <1>2. PICK x \in t : x = Max(t)
    BY <1>1
  <1>3. x \in Nat /\ m \in Nat /\ x >= m /\ x <= m
    BY <1>1, <1>2
  <1>4. x = m
    BY <1>3
  <1> QED
    BY <1>2, <1>4

LEMMA MaxExists ==
    ASSUME NEW n \in Nat, NEW t \in SUBSET (1..n), t # {}
    PROVE  \E m \in t : \A i \in t : i <= m
  <1> DEFINE Left == {n - i : i \in t}
  <1>1. Left \in SUBSET Nat /\ Left # {}
    <2>1. \A i \in t : n - i \in Nat
      <3>1. \A i \in 1..n : n - i \in Nat
        OBVIOUS
      <3>2. \A i \in t : i \in 1..n
        OBVIOUS
      <3> QED
        BY <3>1, <3>2
    <2> QED
      BY <2>1
  <1>2. PICK l \in Left : \A k \in Left : l <= k
    <2> HIDE DEF Left
    <2> QED
      BY <1>1, LeastNumber
  <1>3. PICK m \in t : l = n - m
    OBVIOUS
  <1>4. \A i \in t : n - m <= n - i
    BY <1>2, <1>3
  <1>5. \A i \in t : i \in 1..n
    OBVIOUS
  <1>6. \A i \in t : i <= m
    BY <1>4, <1>5
  <1> QED
    BY <1>6

LEMMA MaxIsIn ==
    ASSUME NEW n \in Nat, NEW t \in SUBSET (1..n), t # {}
    PROVE  Max(t) \in 1..n
  <1>1. PICK m \in t : \A i \in t : i <= m
    BY MaxExists
  <1>2. t \in SUBSET Nat
    OBVIOUS
  <1>3. Max(t) = m
    BY <1>1, <1>2, MaxIs
  <1> QED
    BY <1>1, <1>3

LEMMA MaxOfRange ==
    ASSUME NEW n \in Nat, NEW i \in 1..n
    PROVE  1..i \in SUBSET (1..n) /\ 1..i # {} /\ Max(1..i) = i /\ (1..i) \ {i} = 1..(i - 1)
  <1>1. 1..i \in SUBSET Nat /\ i \in 1..i /\ \A j \in 1..i : j <= i
    OBVIOUS
  <1>2. Max(1..i) = i
    BY <1>1, MaxIs
  <1> QED
    BY <1>1, <1>2

\* The function a fold is computed with exists.
LEMMA FoldExists ==
    ASSUME NEW A, NEW first \in A, NEW n \in Nat, NEW step \in [1..n -> [A -> A]]
    PROVE  \E f \in [SUBSET (1..n) -> A] : Folds(f, first, step, n)
  <1> DEFINE Has(k) == \E f \in [SUBSET (1..k) -> A] : Folds(f, first, step, k)
             Good == {k \in Nat : k <= n => Has(k)}
  <1>1. 0 \in Good
    <2>1. PICK f : f = [t \in SUBSET (1..0) |-> first]
      OBVIOUS
    <2>2. f \in [SUBSET (1..0) -> A] /\ \A t \in SUBSET (1..0) : t = {} /\ f[t] = first
      BY <2>1
    <2>3. Folds(f, first, step, 0)
      BY <2>2 DEF Folds
    <2> QED
      BY <2>2, <2>3
  <1>2. ASSUME NEW k \in Good PROVE k + 1 \in Good
    <2> SUFFICES ASSUME k + 1 <= n PROVE Has(k + 1)
      <3> HIDE DEF Has
      <3> QED
        OBVIOUS
    <2>1. k \in Nat /\ Has(k)
      <3> HIDE DEF Has
      <3> QED
        OBVIOUS
    <2>2. PICK f \in [SUBSET (1..k) -> A] : Folds(f, first, step, k)
      BY <2>1
    <2>3. PICK m \in 1..n : m = k + 1 /\ step[m] \in [A -> A]
      BY <2>1
    <2>4. PICK g : g = [t \in SUBSET (1..m) |-> IF m \in t THEN step[m][f[t \ {m}]] ELSE f[t]]
      OBVIOUS
    <2>5. \A t \in SUBSET (1..m) : t \ {m} \in SUBSET (1..k) /\ (m \notin t => t \in SUBSET (1..k))
      <3>1. \A i \in 1..m : i # m => i \in 1..k
        BY <2>1, <2>3
      <3> QED
        BY <3>1
    <2>6. g \in [SUBSET (1..m) -> A]
      <3> SUFFICES ASSUME NEW t \in SUBSET (1..m)
                   PROVE  (IF m \in t THEN step[m][f[t \ {m}]] ELSE f[t]) \in A
        BY <2>4
      <3>1. f[t \ {m}] \in A /\ (m \notin t => f[t] \in A)
        BY <2>5
      <3> QED
        BY <2>3, <3>1
    <2>7. \A t \in SUBSET (1..k) : t \in SUBSET (1..m) /\ m \notin t /\ g[t] = f[t]
      <3>1. \A i \in 1..k : i \in 1..m /\ i # m
        BY <2>1, <2>3
      <3>2. \A t \in SUBSET (1..k) : t \in SUBSET (1..m) /\ m \notin t
        BY <3>1
      <3> QED
        BY <2>4, <3>2
    <2>8. ASSUME NEW t \in SUBSET (1..m)
          PROVE  g[t] = IF t = {} THEN first ELSE step[Max(t)][g[t \ {Max(t)}]]
      <3>1. CASE m \in t
        <4>1. Max(t) = m
          BY <2>1, <2>3, <3>1, MaxIs
        <4>2. g[t \ {m}] = f[t \ {m}]
          BY <2>5, <2>7
        <4> QED
          BY <2>4, <3>1, <4>1, <4>2
      <3>2. CASE m \notin t
        <4>1. t \in SUBSET (1..k) /\ g[t] = f[t]
          BY <2>5, <2>7, <3>2
        <4>2. t \ {Max(t)} \in SUBSET (1..k)
          BY <4>1
        <4>3. f[t] = IF t = {} THEN first ELSE step[Max(t)][f[t \ {Max(t)}]]
          BY <2>2, <4>1 DEF Folds
        <4> QED
          BY <2>7, <4>1, <4>2, <4>3
      <3> QED
        BY <3>1, <3>2
    <2>9. Folds(g, first, step, m)
      BY <2>8 DEF Folds
    <2> QED
      BY <2>3, <2>6, <2>9
  <1>3. Good = Nat
    <2>1. Good \in SUBSET Nat
      OBVIOUS
    <2> HIDE DEF Good
    <2> QED
      BY <1>1, <1>2, <2>1, Counting
  <1>4. n \in Good
    <2> HIDE DEF Good
    <2> QED
      BY <1>3
  <1>5. Has(n)
    <2> HIDE DEF Has
    <2> QED
      BY <1>4
  <1> QED
    BY <1>5

\* What every step keeps in a set stays there.
StaysIn(f, A, n) == \A i \in 1..n : f[i - 1] \in A => f[i] \in A
AllIn(f, A, n) == \A i \in 0..n : f[i] \in A

LEMMA StepsStayIn ==
    ASSUME NEW n \in Nat, NEW A, NEW f, f[0] \in A, StaysIn(f, A, n)
    PROVE  AllIn(f, A, n)
  <1> DEFINE Good == {k \in Nat : k <= n => f[k] \in A}
  <1>1. 0 \in Good
    OBVIOUS
  <1>2. ASSUME NEW k \in Good PROVE k + 1 \in Good
    <2> SUFFICES ASSUME k + 1 <= n PROVE f[k + 1] \in A
      OBVIOUS
    <2>1. PICK i \in 1..n : i = k + 1 /\ i - 1 = k
      OBVIOUS
    <2> QED
      BY <2>1 DEF StaysIn
  <1>3. Good = Nat
    <2>1. Good \in SUBSET Nat
      OBVIOUS
    <2> HIDE DEF Good
    <2> QED
      BY <1>1, <1>2, <2>1, Counting
  <1>4. \A i \in 0..n : i \in Good /\ i <= n
    <2>1. \A i \in 0..n : i \in Nat /\ i <= n
      OBVIOUS
    <2> HIDE DEF Good
    <2> QED
      BY <1>3, <2>1
  <1> QED
    BY <1>4 DEF AllIn

\* The values a fold goes through, when its steps are these functions.
FollowsSteps(fold, A, first, step, n) ==
    /\ fold[{}] = first
    /\ \A t \in SUBSET (1..n) : t # {} /\ fold[t \ {Max(t)}] \in A =>
         fold[t] = step[Max(t)][fold[t \ {Max(t)}]]

Passes(done, A, first, step, n) ==
    /\ done[0] = first
    /\ \A i \in 1..n : done[i] = step[i][done[i - 1]]
    /\ \A i \in 0..n : done[i] \in A

LEMMA FoldInSteps ==
    ASSUME NEW A, NEW first \in A, NEW n \in Nat, NEW step \in [1..n -> [A -> A]],
           NEW fold, FollowsSteps(fold, A, first, step, n)
    PROVE  \E done : Passes(done, A, first, step, n) /\ done[n] = fold[1..n]
  <1>1. PICK done : done = [i \in 0..n |-> fold[1..i]]
    OBVIOUS
  <1>2. done[0] = first /\ done[n] = fold[1..n]
    <2>1. 1..0 = {} /\ 0 \in 0..n /\ n \in 0..n
      OBVIOUS
    <2> QED
      BY <1>1, <2>1 DEF FollowsSteps
  <1>3. \A i \in 1..n : done[i - 1] \in A => done[i] = step[i][done[i - 1]]
    <2> SUFFICES ASSUME NEW i \in 1..n, done[i - 1] \in A PROVE done[i] = step[i][done[i - 1]]
      OBVIOUS
    <2>1. i \in 0..n /\ i - 1 \in 0..n
      OBVIOUS
    <2>2. 1..i \in SUBSET (1..n) /\ 1..i # {} /\ Max(1..i) = i /\ (1..i) \ {i} = 1..(i - 1)
      BY MaxOfRange
    <2>3. done[i] = fold[1..i] /\ done[i - 1] = fold[1..(i - 1)]
      BY <1>1, <2>1
    <2>4. PICK t \in SUBSET (1..n) : t = 1..i /\ t # {} /\ Max(t) = i /\ t \ {Max(t)} = 1..(i - 1)
      BY <2>2
    <2>5. fold[t \ {Max(t)}] \in A
      BY <2>3, <2>4
    <2>6. fold[t] = step[Max(t)][fold[t \ {Max(t)}]]
      BY <2>4, <2>5 DEF FollowsSteps
    <2> QED
      BY <2>3, <2>4, <2>6
  <1>4. AllIn(done, A, n)
    <2>1. StaysIn(done, A, n)
      <3> SUFFICES ASSUME NEW i \in 1..n, done[i - 1] \in A PROVE done[i] \in A
        BY DEF StaysIn
      <3>1. step[i] \in [A -> A]
        OBVIOUS
      <3> QED
        BY <1>3, <3>1
    <2> QED
      BY <1>2, <2>1, StepsStayIn
  <1>5. \A i \in 1..n : i - 1 \in 0..n
    OBVIOUS
  <1> QED
    BY <1>2, <1>3, <1>4, <1>5 DEF Passes, AllIn

-----------------------------------------------------------------------------
(* The names of the stores' entries.                                       *)

Signs == Letters \cup {"2F", "25", "state", "NUL"}

Escape(letter) == CASE letter = "/" -> <<"%", "2F">>
                    [] letter = "%" -> <<"%", "25">>
                    [] OTHER        -> <<letter>>

LEMMA EscapeIs ==
    ASSUME NEW letter \in Letters
    PROVE  /\ Escape(letter) \in Seq(Signs)
           /\ letter = "/" => Escape(letter) = <<"%", "2F">>
           /\ letter = "%" => Escape(letter) = <<"%", "25">>
           /\ letter \notin {"/", "%"} => Escape(letter) = <<letter>>
  <1>1. CASE letter = "/"
    <2>1. Escape(letter) = <<"%", "2F">>
      BY <1>1 DEF Escape
    <2> QED
      BY <1>1, <2>1 DEF Signs, Letters
  <1>2. CASE letter = "%"
    <2>1. Escape(letter) = <<"%", "25">>
      BY <1>2 DEF Escape
    <2>2. "%" \in Signs /\ "25" \in Signs
      BY DEF Signs, Letters
    <2>3. <<"%", "25">> \in Seq(Signs)
      BY <2>2
    <2>4. letter # "/" /\ ~(letter \notin {"/", "%"})
      BY <1>2
    <2> QED
      BY <1>2, <2>1, <2>3, <2>4
  <1>3. CASE letter \notin {"/", "%"}
    <2>1. Escape(letter) = <<letter>>
      BY <1>3 DEF Escape
    <2>2. letter \in Signs
      BY DEF Signs
    <2> QED
      BY <1>3, <2>1, <2>2
  <1> QED
    BY <1>1, <1>2, <1>3

LEMMA NamesAreSequences ==
    ASSUME NEW name \in Names
    PROVE  name \in Seq(Letters) /\ DOMAIN name = 1..Len(name) /\ Len(name) \in Nat
  <1>1. PICK m \in 0..MaxNameLength : name \in [1..m -> Letters]
    BY DEF Names, SeqOf
  <1>2. m \in Nat
    BY BoundsAssumption
  <1> QED
    BY <1>1, <1>2

\* A name is escaped letter by letter.
Escapes(done, name) ==
    /\ done[0] = <<>>
    /\ \A i \in 1..Len(name) : done[i] = done[i - 1] \o Escape(name[i])
    /\ \A i \in 0..Len(name) : done[i] \in Seq(Signs)
    /\ done[Len(name)] = Escaped(name)

LEMMA EscapedInSteps ==
    ASSUME NEW name \in Names
    PROVE  \E done : Escapes(done, name)
  <1> DEFINE n == Len(name)
             A == Seq(Signs)
             Has(f) == f = [t \in SUBSET (1..n) |->
                              IF t = {} THEN <<>> ELSE WithEscaped(f[t \ {Max(t)}], name[Max(t)])]
             fold == CHOOSE f : Has(f)
  <1>1. name \in Seq(Letters) /\ DOMAIN name = 1..n /\ n \in Nat
    BY NamesAreSequences
  <1>2. \A i \in 1..n : name[i] \in Letters
    BY <1>1
  <1>3. Escaped(name) = fold[1..n]
    BY <1>1 DEF Escaped, FoldLeft, MapThenFoldSet
  <1>4. ASSUME NEW d \in A, NEW i \in 1..n
        PROVE  WithEscaped(d, name[i]) = d \o Escape(name[i]) /\ WithEscaped(d, name[i]) \in A
    <2>1. Escape(name[i]) \in A
      BY <1>2, EscapeIs
    <2>2. WithEscaped(d, name[i]) = d \o Escape(name[i])
      BY DEF WithEscaped, Escape
    <2> QED
      BY <2>1, <2>2
  <1>5. PICK step \in [1..n -> [A -> A]] : \A i \in 1..n : \A d \in A : step[i][d] = WithEscaped(d, name[i])
    <2>1. PICK step : step = [i \in 1..n |-> [d \in A |-> WithEscaped(d, name[i])]]
      OBVIOUS
    <2> HIDE DEF n, A
    <2>2. \A i \in 1..n : [d \in A |-> WithEscaped(d, name[i])] \in [A -> A]
      BY <1>4
    <2>3. step \in [1..n -> [A -> A]]
      BY <2>1, <2>2
    <2> QED
      BY <2>1, <2>3
  <1>6. PICK f \in [SUBSET (1..n) -> A] : Folds(f, <<>>, step, n)
    <2>1. <<>> \in A
      OBVIOUS
    <2> HIDE DEF A, n
    <2> QED
      BY <1>1, <2>1, FoldExists
  <1> HIDE DEF A, n
  <1>7. Has(f)
    <2>1. ASSUME NEW t \in SUBSET (1..n)
          PROVE  f[t] = IF t = {} THEN <<>> ELSE WithEscaped(f[t \ {Max(t)}], name[Max(t)])
      <3>1. CASE t = {}
        BY <1>6, <3>1 DEF Folds
      <3>2. CASE t # {}
        <4>1. Max(t) \in 1..n
          BY <1>1, <3>2, MaxIsIn
        <4>2. f[t \ {Max(t)}] \in A
          BY <1>6
        <4> QED
          BY <1>5, <1>6, <3>2, <4>1, <4>2 DEF Folds
      <3> QED
        BY <3>1, <3>2
    <2> QED
      BY <1>6, <2>1
  <1>8. Has(fold)
    <2> HIDE DEF Has
    <2> QED
      BY <1>7
  <1>9. \A t \in SUBSET (1..n) :
          fold[t] = IF t = {} THEN <<>> ELSE WithEscaped(fold[t \ {Max(t)}], name[Max(t)])
    <2> HIDE DEF fold
    <2> QED
      BY <1>8
  <1> HIDE DEF fold, Has
  <1>10. <<>> \in A
    BY DEF A
  <1>11. \A t \in SUBSET (1..n) : t # {} => Max(t) \in 1..n
    BY <1>1, MaxIsIn
  <1>12. FollowsSteps(fold, A, <<>>, step, n)
    <2>1. fold[{}] = <<>>
      <3>1. {} \in SUBSET (1..n)
        OBVIOUS
      <3> QED
        BY <1>9, <3>1
    <2> QED
      BY <1>5, <1>9, <1>11, <2>1 DEF FollowsSteps
  <1>13. PICK done : Passes(done, A, <<>>, step, n) /\ done[n] = fold[1..n]
    BY <1>1, <1>10, <1>12, FoldInSteps
  <1>14. \A i \in 1..n : i - 1 \in 0..n
    BY <1>1
  <1>15. \A i \in 1..n : done[i] = done[i - 1] \o Escape(name[i])
    <2> SUFFICES ASSUME NEW i \in 1..n PROVE done[i] = done[i - 1] \o Escape(name[i])
      OBVIOUS
    <2>1. done[i - 1] \in A /\ done[i] = step[i][done[i - 1]]
      BY <1>13, <1>14 DEF Passes
    <2> QED
      BY <1>4, <1>5, <2>1
  <1> QED
    BY <1>3, <1>13, <1>15 DEF Escapes, Passes, A, n

\* Two sequences, one after the other.
LEMMA JoinIs ==
    ASSUME NEW S, NEW s \in Seq(S), NEW t \in Seq(S)
    PROVE  /\ s \o t \in Seq(S) /\ Len(s \o t) = Len(s) + Len(t)
           /\ Len(s) \in Nat /\ Len(t) \in Nat
           /\ \A i \in 1..Len(s) : (s \o t)[i] = s[i]
           /\ \A i \in 1..Len(t) : (s \o t)[Len(s) + i] = t[i]
           /\ \A i \in 1..Len(s) : s[i] \in S
           /\ \A i \in 1..Len(t) : t[i] \in S
  OBVIOUS

\* Of two texts, each up to its first separator, one cannot begin the other.
LEMMA SameUpToSeparator ==
    ASSUME NEW S, NEW sep \in S, NEW head \in Seq(S), NEW s \in Seq(S), NEW t \in Seq(S),
           NEW rest \in Seq(S), sep \notin ToSet(s), sep \notin ToSet(t),
           IsPrefix(head \o t \o <<sep>>, head \o s \o <<sep>> \o rest)
    PROVE  s = t
  <1>1. PICK h \in Nat, n \in Nat, m \in Nat : h = Len(head) /\ n = Len(s) /\ m = Len(t)
    OBVIOUS
  <1>2. PICK p, q, one, a, b, c :
          /\ one = <<sep>> /\ a = head \o t /\ p = a \o one
          /\ b = head \o s /\ c = b \o one /\ q = c \o rest
    OBVIOUS
  <1>3. one \in Seq(S) /\ Len(one) = 1 /\ one[1] = sep /\ 1 \in 1..1
    BY <1>2
  <1>4. /\ p \in Seq(S) /\ Len(p) = h + m + 1 /\ p[h + m + 1] = sep
        /\ \A i \in 1..m : p[h + i] = t[i]
    <2>1. a \in Seq(S) /\ Len(a) = h + m /\ \A i \in 1..m : a[h + i] = t[i]
      BY <1>1, <1>2, JoinIs
    <2>2. /\ p \in Seq(S) /\ Len(p) = Len(a) + Len(one)
          /\ \A i \in 1..Len(one) : p[Len(a) + i] = one[i]
          /\ \A i \in 1..Len(a) : p[i] = a[i]
      <3>1. p = a \o one /\ a \in Seq(S) /\ one \in Seq(S)
        BY <1>2, <1>3, <2>1
      <3> QED
        BY <3>1, JoinIs
    <2>3. \A i \in 1..m : h + i \in 1..(h + m)
      OBVIOUS
    <2> QED
      BY <1>3, <2>1, <2>2, <2>3
  <1>5. /\ q \in Seq(S) /\ Len(q) >= h + n + 1 /\ q[h + n + 1] = sep
        /\ \A i \in 1..n : q[h + i] = s[i]
    <2>1. b \in Seq(S) /\ Len(b) = h + n /\ \A i \in 1..n : b[h + i] = s[i]
      BY <1>1, <1>2, JoinIs
    <2>2. /\ c \in Seq(S) /\ Len(c) = Len(b) + Len(one)
          /\ \A i \in 1..Len(one) : c[Len(b) + i] = one[i]
          /\ \A i \in 1..Len(b) : c[i] = b[i]
      <3>1. c = b \o one /\ b \in Seq(S) /\ one \in Seq(S)
        BY <1>2, <1>3, <2>1
      <3> QED
        BY <3>1, JoinIs
    <2>3. /\ q \in Seq(S) /\ Len(q) = Len(c) + Len(rest) /\ Len(rest) \in Nat
          /\ \A i \in 1..Len(c) : q[i] = c[i]
      BY <1>2, <2>2, JoinIs
    <2>4. \A i \in 1..n : h + i \in 1..(h + n) /\ h + i \in 1..(h + n + 1)
      OBVIOUS
    <2>5. h + n + 1 \in 1..(h + n + 1)
      OBVIOUS
    <2> QED
      BY <1>3, <2>1, <2>2, <2>3, <2>4, <2>5
  <1>6. h + m + 1 <= Len(q) /\ \A i \in 1..(h + m + 1) : p[i] = q[i]
    <2>1. Len(p) <= Len(q) /\ SubSeq(p, 1, Len(p)) = SubSeq(q, 1, Len(p))
      BY <1>2 DEF IsPrefix
    <2>2. \A i \in 1..Len(p) : SubSeq(p, 1, Len(p))[i] = p[i] /\ SubSeq(q, 1, Len(p))[i] = q[i]
      BY <1>4, <1>5, <2>1
    <2> QED
      BY <1>4, <2>1, <2>2
  <1>7. \A i \in 1..n : s[i] # sep
    <2>1. DOMAIN s = 1..n
      BY <1>1
    <2> QED
      BY <2>1 DEF ToSet
  <1>8. \A i \in 1..m : t[i] # sep
    <2>1. DOMAIN t = 1..m
      BY <1>1
    <2> QED
      BY <2>1 DEF ToSet
  <1>9. ~(m < n)
    <2> SUFFICES ASSUME m < n PROVE FALSE
      OBVIOUS
    <2>1. m + 1 \in 1..n /\ h + m + 1 \in 1..(h + m + 1) /\ h + (m + 1) = h + m + 1
      OBVIOUS
    <2>2. q[h + m + 1] = s[m + 1]
      BY <1>5, <2>1
    <2> QED
      BY <1>4, <1>6, <1>7, <2>1, <2>2
  <1>10. ~(n < m)
    <2> SUFFICES ASSUME n < m PROVE FALSE
      OBVIOUS
    <2>1. n + 1 \in 1..m /\ h + n + 1 \in 1..(h + m + 1) /\ h + (n + 1) = h + n + 1
      OBVIOUS
    <2>2. p[h + n + 1] = t[n + 1]
      BY <1>4, <2>1
    <2> QED
      BY <1>5, <1>6, <1>8, <2>1, <2>2
  <1>11. n = m
    BY <1>9, <1>10
  <1>12. \A i \in 1..n : s[i] = t[i]
    <2>1. \A i \in 1..n : h + i \in 1..(h + m + 1)
      BY <1>11
    <2> QED
      BY <1>4, <1>5, <1>6, <1>11, <2>1
  <1> QED
    BY <1>1, <1>11, <1>12, SeqEqual

\* Escaping brings no colon.
LEMMA NoColonEscaped ==
    ASSUME NEW name \in Names, ":" \notin ToSet(name)
    PROVE  Escaped(name) \in Seq(Signs) /\ ":" \notin ToSet(Escaped(name))
  <1>1. PICK done : Escapes(done, name)
    BY EscapedInSteps
  <1>2. PICK n \in Nat : n = Len(name) /\ name \in Seq(Letters) /\ DOMAIN name = 1..n
    BY NamesAreSequences
  <1>3. PICK A : A = {s \in Seq(Signs) : \A i \in 1..Len(s) : s[i] # ":"}
    OBVIOUS
  <1>4. done[0] \in A
    <2>1. <<>> \in Seq(Signs) /\ Len(<<>>) = 0
      OBVIOUS
    <2> QED
      BY <1>1, <1>3, <2>1 DEF Escapes
  <1>5. StaysIn(done, A, n)
    <2> SUFFICES ASSUME NEW i \in 1..n, done[i - 1] \in A PROVE done[i] \in A
      BY DEF StaysIn
    <2>1. name[i] \in Letters /\ name[i] # ":"
      BY <1>2 DEF ToSet
    <2>2. PICK e \in Seq(Signs) : e = Escape(name[i]) /\ \A j \in 1..Len(e) : e[j] # ":"
      <3>1. Escape(name[i]) \in Seq(Signs)
        BY <2>1, EscapeIs
      <3>2. CASE name[i] = "/"
        <4>1. Escape(name[i]) = <<"%", "2F">>
          BY <2>1, <3>2, EscapeIs
        <4>2. Len(<<"%", "2F">>) = 2 /\ \A j \in 1..2 : <<"%", "2F">>[j] # ":"
          OBVIOUS
        <4> QED
          BY <3>1, <4>1, <4>2
      <3>3. CASE name[i] = "%"
        <4>1. Escape(name[i]) = <<"%", "25">>
          BY <2>1, <3>3, EscapeIs
        <4>2. Len(<<"%", "25">>) = 2 /\ \A j \in 1..2 : <<"%", "25">>[j] # ":"
          OBVIOUS
        <4> QED
          BY <3>1, <4>1, <4>2
      <3>4. CASE name[i] \notin {"/", "%"}
        <4>1. Escape(name[i]) = <<name[i]>>
          BY <2>1, <3>4, EscapeIs
        <4>2. Len(<<name[i]>>) = 1 /\ \A j \in 1..1 : <<name[i]>>[j] = name[i]
          OBVIOUS
        <4> QED
          BY <2>1, <3>1, <4>1, <4>2
      <3> QED
        BY <3>2, <3>3, <3>4
    <2>3. done[i] = done[i - 1] \o e
      BY <1>1, <1>2, <2>2 DEF Escapes
    <2>4. PICK s \in Seq(Signs) : s = done[i - 1] /\ \A j \in 1..Len(s) : s[j] # ":"
      BY <1>3
    <2>5. s \o e \in Seq(Signs) /\ \A j \in 1..Len(s \o e) : (s \o e)[j] # ":"
      <3>1. \A j \in 1..Len(s \o e) : j \in 1..Len(s) \/ \E k \in 1..Len(e) : j = Len(s) + k
        <4>1. Len(s \o e) = Len(s) + Len(e) /\ Len(s) \in Nat /\ Len(e) \in Nat
          OBVIOUS
        <4>2. \A j \in 1..Len(s \o e) : j \in 1..Len(s) \/ (j - Len(s) \in 1..Len(e) /\ j = Len(s) + (j - Len(s)))
          BY <4>1
        <4> QED
          BY <4>2
      <3>2. ASSUME NEW j \in 1..Len(s \o e) PROVE (s \o e)[j] # ":"
        <4>1. CASE j \in 1..Len(s)
          BY <2>4, <4>1, JoinIs
        <4>2. CASE j \notin 1..Len(s)
          <5>1. PICK k \in 1..Len(e) : j = Len(s) + k
            BY <3>1, <4>2
          <5> QED
            BY <2>2, <5>1, JoinIs
        <4> QED
          BY <4>1, <4>2
      <3> QED
        BY <3>2, JoinIs
    <2> QED
      BY <1>3, <2>3, <2>4, <2>5
  <1>6. done[n] \in A
    <2>1. n \in 0..n
      OBVIOUS
    <2> QED
      BY <1>4, <1>5, <2>1, StepsStayIn DEF AllIn
  <1>7. Escaped(name) \in A
    BY <1>1, <1>2, <1>6 DEF Escapes
  <1> QED
    BY <1>3, <1>7 DEF ToSet

\* What has been escaped is at the beginning of all that follows.
BeginsWith(t, s) == Len(s) <= Len(t) /\ \A j \in 1..Len(s) : t[j] = s[j]

LEMMA EscapedBegins ==
    ASSUME NEW name \in Names, NEW done, Escapes(done, name), NEW i \in 0..Len(name)
    PROVE  BeginsWith(Escaped(name), done[i])
  <1>1. PICK n \in Nat : n = Len(name) /\ name \in Seq(Letters)
    BY NamesAreSequences
  <1>2. PICK s \in Seq(Signs) : s = done[i]
    BY DEF Escapes
  <1> DEFINE Good == {k \in Nat : i + k <= n => BeginsWith(done[i + k], s)}
  <1>3. 0 \in Good
    BY <1>1, <1>2 DEF BeginsWith
  <1>4. ASSUME NEW k \in Good PROVE k + 1 \in Good
    <2> SUFFICES ASSUME i + (k + 1) <= n PROVE BeginsWith(done[i + (k + 1)], s)
      OBVIOUS
    <2>1. k \in Nat /\ i \in Nat
      BY <1>1
    <2>2. PICK l \in 1..n : l = i + (k + 1) /\ l - 1 = i + k /\ l - 1 \in 0..n
      BY <2>1
    <2>3. BeginsWith(done[l - 1], s)
      BY <2>1, <2>2
    <2>4. PICK d \in Seq(Signs) : d = done[l - 1]
      BY <1>1, <2>2 DEF Escapes
    <2>5. PICK e \in Seq(Signs) : e = Escape(name[l])
      BY <1>1, EscapeIs
    <2>6. done[l] = d \o e
      BY <1>1, <2>4, <2>5 DEF Escapes
    <2>7. /\ Len(d \o e) = Len(d) + Len(e) /\ Len(d) \in Nat /\ Len(e) \in Nat /\ Len(s) \in Nat
          /\ \A j \in 1..Len(d) : (d \o e)[j] = d[j]
      BY JoinIs
    <2>8. BeginsWith(d \o e, s)
      BY <2>3, <2>4, <2>7 DEF BeginsWith
    <2> QED
      BY <2>2, <2>6, <2>8
  <1>5. Good = Nat
    <2>1. Good \in SUBSET Nat
      OBVIOUS
    <2> HIDE DEF Good
    <2> QED
      BY <1>3, <1>4, <2>1, Counting
  <1>6. n - i \in Nat /\ i + (n - i) = n
    BY <1>1
  <1>7. n - i \in Good
    <2> HIDE DEF Good
    <2> QED
      BY <1>5, <1>6
  <1> QED
    BY <1>1, <1>2, <1>6, <1>7 DEF Escapes

\* The function Unescaped is computed with exists.
UnescapedFrom(plain, name, i) ==
    IF i > Len(name) THEN << >>
    ELSE IF name[i] = "%"
         THEN (IF name[i + 1] = "2F" THEN <<"/">> ELSE <<"%">>) \o plain[i + 2]
         ELSE <<name[i]>> \o plain[i + 1]

LEMMA PlainExists ==
    ASSUME NEW name \in Seq(Signs)
    PROVE  \E plain : plain = [i \in 1..(Len(name) + 2) |-> UnescapedFrom(plain, name, i)]
  <1>1. PICK n \in Nat : n = Len(name)
    OBVIOUS
  <1> DEFINE A == Seq(Signs)
             Has(k) == \E f \in [(n + 3 - k)..(n + 2) -> A] :
                         \A i \in (n + 3 - k)..(n + 2) : f[i] = UnescapedFrom(f, name, i)
             Good == {k \in Nat : k <= n + 2 => Has(k)}
  <1>2. 0 \in Good
    <2>1. (n + 3 - 0)..(n + 2) = {}
      OBVIOUS
    <2>2. PICK f : f = [i \in (n + 3 - 0)..(n + 2) |-> <<>>]
      OBVIOUS
    <2>3. f \in [(n + 3 - 0)..(n + 2) -> A] /\ \A i \in (n + 3 - 0)..(n + 2) : f[i] = UnescapedFrom(f, name, i)
      BY <2>1, <2>2
    <2>4. Has(0)
      BY <2>3
    <2> HIDE DEF Has
    <2> QED
      BY <2>4
  <1>3. ASSUME NEW k \in Good PROVE k + 1 \in Good
    <2> SUFFICES ASSUME k + 1 <= n + 2 PROVE Has(k + 1)
      <3> HIDE DEF Has
      <3> QED
        OBVIOUS
    <2>1. k \in Nat /\ Has(k)
      <3> HIDE DEF Has
      <3> QED
        OBVIOUS
    <2>2. PICK f \in [(n + 3 - k)..(n + 2) -> A] :
            \A i \in (n + 3 - k)..(n + 2) : f[i] = UnescapedFrom(f, name, i)
      BY <2>1
    <2>3. PICK l \in 1..(n + 2) : l = n + 3 - (k + 1)
      BY <2>1
    <2>4. \A i \in l..(n + 2) : i # l => i \in (n + 3 - k)..(n + 2)
      BY <2>1, <2>3
    <2>5. UnescapedFrom(f, name, l) \in A
      <3>1. CASE l > n
        BY <1>1, <3>1 DEF UnescapedFrom
      <3>2. CASE l <= n
        <4>1. l + 1 \in (n + 3 - k)..(n + 2) /\ l + 2 \in (n + 3 - k)..(n + 2) /\ l \in 1..n
          BY <2>1, <2>3, <3>2
        <4>2. f[l + 1] \in Seq(Signs) /\ f[l + 2] \in Seq(Signs)
          BY <4>1
        <4>3. name[l] \in Signs /\ "/" \in Signs /\ "%" \in Signs
          BY <1>1, <4>1 DEF Signs, Letters
        <4>4. <<"/">> \in Seq(Signs) /\ <<"%">> \in Seq(Signs) /\ <<name[l]>> \in Seq(Signs)
          BY <4>3
        <4>5. <<"/">> \o f[l + 2] \in Seq(Signs) /\ <<"%">> \o f[l + 2] \in Seq(Signs)
          BY <4>2, <4>4, JoinIs
        <4>6. <<name[l]>> \o f[l + 1] \in Seq(Signs)
          BY <4>2, <4>4, JoinIs
        <4> QED
          BY <1>1, <2>3, <3>2, <4>5, <4>6 DEF UnescapedFrom
      <3> QED
        BY <2>3, <3>1, <3>2
    <2>6. PICK g : g = [i \in l..(n + 2) |-> IF i = l THEN UnescapedFrom(f, name, l) ELSE f[i]]
      OBVIOUS
    <2>7. g \in [l..(n + 2) -> A]
      BY <2>2, <2>4, <2>5, <2>6
    <2>8. \A i \in (n + 3 - k)..(n + 2) : g[i] = f[i]
      <3>1. \A i \in (n + 3 - k)..(n + 2) : i \in l..(n + 2) /\ i # l
        BY <2>1, <2>3
      <3> QED
        BY <2>6, <3>1
    <2>9. ASSUME NEW i \in l..(n + 2) PROVE g[i] = UnescapedFrom(g, name, i)
      <3>1. CASE i > n
        <4>1. g[i] = UnescapedFrom(f, name, i)
          BY <2>2, <2>4, <2>6
        <4> QED
          BY <1>1, <3>1, <4>1 DEF UnescapedFrom
      <3>2. CASE i <= n
        <4>1. i + 1 \in (n + 3 - k)..(n + 2) /\ i + 2 \in (n + 3 - k)..(n + 2)
          BY <2>1, <2>3, <3>2
        <4>2. g[i + 1] = f[i + 1] /\ g[i + 2] = f[i + 2]
          BY <2>8, <4>1
        <4>3. g[i] = UnescapedFrom(f, name, i)
          BY <2>2, <2>4, <2>6
        <4> QED
          BY <4>2, <4>3 DEF UnescapedFrom
      <3> QED
        BY <2>3, <3>1, <3>2
    <2> QED
      BY <2>3, <2>7, <2>9
  <1>4. Good = Nat
    <2>1. Good \in SUBSET Nat
      OBVIOUS
    <2> HIDE DEF Good
    <2> QED
      BY <1>2, <1>3, <2>1, Counting
  <1>5. Has(n + 2)
    <2>1. n + 2 \in Good
      <3> HIDE DEF Good
      <3> QED
        BY <1>4
    <2> HIDE DEF Has
    <2> QED
      BY <2>1
  <1>6. n + 3 - (n + 2) = 1
    OBVIOUS
  <1>7. PICK f \in [1..(n + 2) -> A] : \A i \in 1..(n + 2) : f[i] = UnescapedFrom(f, name, i)
    BY <1>5, <1>6
  <1>8. f = [i \in 1..(n + 2) |-> UnescapedFrom(f, name, i)]
    BY <1>7
  <1> QED
    BY <1>1, <1>8

\* A name read back is the name.
LEMMA ReadBack ==
    ASSUME NEW name \in Names
    PROVE  Unescaped(Escaped(name)) = name
  <1>1. PICK n \in Nat : n = Len(name) /\ name \in Seq(Letters)
    BY NamesAreSequences
  <1>2. PICK done : Escapes(done, name)
    BY EscapedInSteps
  <1>3. PICK e \in Seq(Signs) : e = Escaped(name) /\ e = done[n]
    BY <1>1, <1>2 DEF Escapes
  <1>4. PICK m \in Nat : m = Len(e)
    OBVIOUS
  <1> DEFINE Has(f) == f = [i \in 1..(Len(e) + 2) |-> UnescapedFrom(f, e, i)]
             plain == CHOOSE f : Has(f)
  <1>5. Unescaped(e) = plain[1]
    BY DEF Unescaped, UnescapedFrom
  <1>6. Has(plain)
    <2>1. \E f : Has(f)
      BY PlainExists
    <2> HIDE DEF Has
    <2> QED
      BY <2>1
  <1>7. \A i \in 1..(m + 2) : plain[i] = UnescapedFrom(plain, e, i)
    <2> HIDE DEF plain
    <2> QED
      BY <1>4, <1>6
  <1> HIDE DEF plain, Has
  <1>8. \A i \in 0..n : done[i] \in Seq(Signs) /\ BeginsWith(e, done[i])
    BY <1>1, <1>2, <1>3, EscapedBegins DEF Escapes
  <1> DEFINE Rest(k) == plain[Len(done[n - k]) + 1] = SubSeq(name, n - k + 1, n)
             Good == {k \in Nat : k <= n => Rest(k)}
  <1>9. 0 \in Good
    <2>1. plain[m + 1] = <<>>
      <3>1. m + 1 \in 1..(m + 2) /\ m + 1 > m
        OBVIOUS
      <3> QED
        BY <1>4, <1>7, <3>1 DEF UnescapedFrom
    <2>2. SubSeq(name, n + 1, n) = <<>>
      BY SubSeqEmpty
    <2>3. n - 0 = n
      OBVIOUS
    <2> QED
      BY <1>3, <1>4, <2>1, <2>2, <2>3
  <1>10. ASSUME NEW k \in Good PROVE k + 1 \in Good
    <2> SUFFICES ASSUME k + 1 <= n PROVE Rest(k + 1)
      OBVIOUS
    <2>1. k \in Nat /\ Rest(k)
      OBVIOUS
    <2>2. PICK i \in 1..n : i = n - k /\ i - 1 = n - (k + 1) /\ i - 1 \in 0..n /\ i \in 0..n
      BY <2>1
    <2>3. plain[Len(done[i]) + 1] = SubSeq(name, i + 1, n)
      BY <2>1, <2>2
    <2>4. PICK d \in Seq(Signs), f \in Seq(Signs) : d = done[i - 1] /\ f = Escape(name[i])
      BY <1>1, <1>8, <2>2, EscapeIs
    <2>5. done[i] = d \o f
      BY <1>1, <1>2, <2>4 DEF Escapes
    <2>6. PICK p \in Nat : p = Len(d)
      OBVIOUS
    <2>7. /\ Len(done[i]) = p + Len(f) /\ Len(f) \in Nat /\ p + Len(f) <= m
          /\ \A j \in 1..Len(f) : e[p + j] = f[j]
      <3>1. /\ Len(d \o f) = p + Len(f) /\ Len(f) \in Nat
            /\ \A j \in 1..Len(f) : (d \o f)[p + j] = f[j]
        BY <2>6, JoinIs
      <3>2. Len(d \o f) <= m /\ \A j \in 1..Len(d \o f) : e[j] = (d \o f)[j]
        BY <1>4, <1>8, <2>2, <2>5 DEF BeginsWith
      <3>3. \A j \in 1..Len(f) : p + j \in 1..Len(d \o f)
        BY <3>1
      <3> QED
        BY <2>5, <3>1, <3>2, <3>3
    <2>8. name[i] \in Letters
      BY <1>1
    <2>9. plain[p + 1] = <<name[i]>> \o plain[p + Len(f) + 1]
      <3>1. CASE name[i] \in {"/", "%"}
        <4>1. Len(f) = 2 /\ f[1] = "%" /\ f[2] = (IF name[i] = "/" THEN "2F" ELSE "25")
          BY <2>4, <2>8, <3>1, EscapeIs
        <4>2. 1 \in 1..2 /\ 2 \in 1..2 /\ p + 1 + 1 = p + 2 /\ p + 1 + 2 = p + 2 + 1
          OBVIOUS
        <4>3. e[p + 1] = "%" /\ e[p + 1 + 1] = (IF name[i] = "/" THEN "2F" ELSE "25")
          BY <2>7, <4>1, <4>2
        <4>4. p + 1 \in 1..(m + 2) /\ ~(p + 1 > m)
          BY <2>7, <4>1
        <4>5. plain[p + 1] = (IF e[p + 1 + 1] = "2F" THEN <<"/">> ELSE <<"%">>) \o plain[p + 1 + 2]
          BY <1>4, <1>7, <4>3, <4>4 DEF UnescapedFrom
        <4>6. (IF e[p + 1 + 1] = "2F" THEN <<"/">> ELSE <<"%">>) = <<name[i]>>
          BY <3>1, <4>3
        <4> QED
          BY <4>1, <4>2, <4>5, <4>6
      <3>2. CASE name[i] \notin {"/", "%"}
        <4>1. Len(f) = 1 /\ f[1] = name[i]
          BY <2>4, <2>8, <3>2, EscapeIs
        <4>2. e[p + 1] = name[i] /\ e[p + 1] # "%"
          BY <2>7, <3>2, <4>1
        <4>3. p + 1 \in 1..(m + 2) /\ ~(p + 1 > m)
          BY <2>7, <4>1
        <4>4. plain[p + 1] = <<e[p + 1]>> \o plain[p + 1 + 1]
          BY <1>4, <1>7, <4>2, <4>3 DEF UnescapedFrom
        <4> QED
          BY <4>1, <4>2, <4>4
      <3> QED
        BY <3>1, <3>2
    <2>10. SubSeq(name, i, n) = <<name[i]>> \o SubSeq(name, i + 1, n)
      <3>1. i \in 1..Len(name) /\ n \in i..Len(name)
        BY <1>1
      <3> QED
        BY <1>1, <3>1, SubSeqRecursiveFirst
    <2>11. plain[p + 1] = SubSeq(name, i, n)
      BY <2>3, <2>7, <2>9, <2>10
    <2>12. n - (k + 1) + 1 = i
      BY <2>1, <2>2
    <2> QED
      BY <2>2, <2>4, <2>6, <2>11, <2>12
  <1>11. Good = Nat
    <2>1. Good \in SUBSET Nat
      OBVIOUS
    <2> HIDE DEF Good
    <2> QED
      BY <1>9, <1>10, <2>1, Counting
  <1>12. Rest(n)
    <2>1. n \in Good
      <3> HIDE DEF Good
      <3> QED
        BY <1>11
    <2> HIDE DEF Rest
    <2> QED
      BY <2>1
  <1>13. Len(done[n - n]) + 1 = 1 /\ n - n + 1 = 1
    <2>1. n - n = 0 /\ done[0] = <<>> /\ Len(<<>>) = 0
      BY <1>2 DEF Escapes
    <2> QED
      BY <2>1
  <1>14. plain[1] = SubSeq(name, 1, n)
    BY <1>12, <1>13
  <1> QED
    BY <1>1, <1>3, <1>5, <1>14, SubSeqFull

LEMMA EscapedTyped == \A name \in Names : Escaped(name) \in Seq(Signs)
  <1> SUFFICES ASSUME NEW name \in Names PROVE Escaped(name) \in Seq(Signs)
    OBVIOUS
  <1>1. PICK done : Escapes(done, name)
    BY EscapedInSteps
  <1>2. Len(name) \in 0..Len(name)
    BY NamesAreSequences
  <1> QED
    BY <1>1, <1>2 DEF Escapes

\* In memory a scope ends in a sign that no scope contains.
LEMMA MemoryScopesApart ==
    ASSUME NEW scope \in Names, NEW other \in Names, NEW key \in Names,
           IsPrefix(MemoryPrefix(other), MemoryKey(scope, key))
    PROVE  other = scope
  <1>1. /\ scope \in Seq(Signs) /\ other \in Seq(Signs) /\ key \in Seq(Signs)
        /\ "NUL" \in Signs /\ <<>> \in Seq(Signs)
    <2>1. Letters \subseteq Signs
      BY DEF Signs
    <2> QED
      BY <2>1, NamesAreSequences, SeqMonotonic, EmptySeq DEF Signs
  <1>2. "NUL" \notin ToSet(scope) /\ "NUL" \notin ToSet(other)
    <2>1. ASSUME NEW name \in Names PROVE "NUL" \notin ToSet(name)
      <3>1. \A i \in DOMAIN name : name[i] \in Letters
        BY NamesAreSequences, ElementOfSeq
      <3>2. "NUL" \notin Letters
        BY DEF Letters
      <3> QED
        BY <3>1, <3>2 DEF ToSet
    <2> QED
      BY <2>1
  <1>3. <<>> \o other = other /\ <<>> \o scope = scope
    BY <1>1, ConcatEmptySeq
  <1>4. IsPrefix(<<>> \o other \o <<"NUL">>, <<>> \o scope \o <<"NUL">> \o key)
    BY <1>3 DEF MemoryPrefix, MemoryKey, Nul
  <1> QED
    BY <1>1, <1>2, <1>4, SameUpToSeparator

\* In Redis it ends in a colon, which escaping does not bring into a scope.
LEMMA RedisScopesApart ==
    ASSUME NEW scope \in Names, NEW other \in Names, NEW key \in Names,
           ":" \notin ToSet(scope), ":" \notin ToSet(other),
           IsPrefix(StatePrefix(other), StateKey(scope, key))
    PROVE  other = scope
  <1>1. PICK s \in Seq(Signs), t \in Seq(Signs), rest \in Seq(Signs) :
          s = Escaped(scope) /\ t = Escaped(other) /\ rest = Escaped(key)
    BY EscapedTyped
  <1>2. ":" \notin ToSet(s) /\ ":" \notin ToSet(t)
    BY <1>1, NoColonEscaped
  <1>3. PICK head \in Seq(Signs) : head = <<"state", ":">>
    <2>1. "state" \in Signs /\ ":" \in Signs
      BY DEF Signs, Letters
    <2>2. <<"state", ":">> \in Seq(Signs)
      BY <2>1
    <2> QED
      BY <2>2
  <1>4. IsPrefix(head \o t \o <<":">>, head \o s \o <<":">> \o rest)
    BY <1>1, <1>3 DEF StatePrefix, StateKey
  <1>5. ":" \in Signs
    BY DEF Signs, Letters
  <1>6. s = t
    BY <1>2, <1>4, <1>5, SameUpToSeparator
  <1> QED
    BY <1>1, <1>6, ReadBack

\* What follows the prefix is the escaped key, and it is read back.
LEMMA KeysReadBack ==
    ASSUME NEW scope \in Names, NEW key \in Names
    PROVE  ChannelKeyFromStateKey(scope, StateKey(scope, key)) = key
  <1>1. PICK p, r : p = StatePrefix(scope) /\ r = Escaped(key)
    OBVIOUS
  <1>2. r \in Seq(Signs)
    BY <1>1, EscapedTyped
  <1>3. p \in Seq(Signs)
    <2>1. PICK head, one, s : head = <<"state", ":">> /\ one = <<":">> /\ s = Escaped(scope)
      OBVIOUS
    <2>2. head \in Seq(Signs) /\ one \in Seq(Signs)
      <3>1. "state" \in Signs /\ ":" \in Signs
        BY DEF Signs, Letters
      <3> QED
        BY <2>1, <3>1
    <2>3. s \in Seq(Signs)
      BY <2>1, EscapedTyped
    <2>4. head \o s \in Seq(Signs)
      BY <2>2, <2>3, ConcatProperties
    <2>5. (head \o s) \o one \in Seq(Signs)
      BY <2>2, <2>4, ConcatProperties
    <2> QED
      BY <1>1, <2>1, <2>5 DEF StatePrefix
  <1>4. SubSeq(p \o r, Len(p) + 1, Len(p \o r)) = r
    <2>1. PICK n \in Nat, m \in Nat : n = Len(p) /\ m = Len(r)
      BY <1>2, <1>3
    <2>2. PICK q : q = p \o r
      OBVIOUS
    <2>3. q \in Seq(Signs) /\ Len(q) = n + m /\ \A i \in 1..m : q[n + i] = r[i]
      BY <1>2, <1>3, <2>1, <2>2, JoinIs
    <2>4. PICK t : t = SubSeq(q, n + 1, n + m)
      OBVIOUS
    <2>5. /\ t \in Seq(Signs) /\ Len(t) = m
          /\ \A i \in 1..m : t[i] = q[n + i]
      <3>1. \A i \in (n + 1)..(n + m) : q[i] \in Signs
        BY <2>3, ElementOfSeq
      <3>2. /\ SubSeq(q, n + 1, n + m) \in Seq(Signs)
            /\ Len(SubSeq(q, n + 1, n + m)) = IF n + 1 <= n + m THEN n + m - (n + 1) + 1 ELSE 0
            /\ \A i \in 1..(n + m - (n + 1) + 1) : SubSeq(q, n + 1, n + m)[i] = q[n + 1 + i - 1]
        BY <3>1, SubSeqProperties
      <3>3. n + m - (n + 1) + 1 = m /\ \A i \in 1..m : n + 1 + i - 1 = n + i
        OBVIOUS
      <3>4. (IF n + 1 <= n + m THEN n + m - (n + 1) + 1 ELSE 0) = m
        OBVIOUS
      <3> QED
        BY <2>4, <3>2, <3>3, <3>4
    <2>6. t = r
      BY <1>2, <2>1, <2>3, <2>5, SeqEqual
    <2> QED
      BY <2>1, <2>2, <2>3, <2>4, <2>6
  <1>5. ChannelKeyFromStateKey(scope, StateKey(scope, key)) = Unescaped(r)
    BY <1>1, <1>4 DEF ChannelKeyFromStateKey, StateKey, After
  <1> QED
    BY <1>1, <1>5, ReadBack

-----------------------------------------------------------------------------
(* The statistics.                                                         *)

Modes == [requests : Nat, successes : Nat, failures : Nat, slow : Nat, total : Nat, max : Nat]
Summaries == [all : Modes, stream : Modes, other : Modes, last : Nat]

LEMMA WithEventTyped ==
    ASSUME NEW summary \in Modes, NEW event \in EventKinds
    PROVE  WithEvent(summary, event) \in Modes
  <1>1. event.latency \in Nat
    BY BoundsAssumption DEF EventKinds
  <1>2. \A b \in BOOLEAN : One(b) \in Nat
    BY DEF One
  <1>3. event.success \in BOOLEAN /\ event.slow \in BOOLEAN
    BY DEF EventKinds
  <1>4. One(event.success) \in Nat /\ One(~event.success) \in Nat /\ One(event.slow) \in Nat
    BY <1>2, <1>3
  <1>5. Larger(summary.max, event.latency) \in Nat
    BY <1>1 DEF Larger, Modes
  <1> QED
    BY <1>1, <1>4, <1>5 DEF WithEvent, Modes

LEMMA CountedTyped ==
    ASSUME NEW summary \in Summaries, NEW event \in EventKinds
    PROVE  Counted(summary, event) \in Summaries
  <1>1. event.latency \in Nat
    BY BoundsAssumption DEF EventKinds
  <1>2. summary.all \in Modes /\ summary.stream \in Modes /\ summary.other \in Modes
    BY DEF Summaries
  <1>3. /\ WithEvent(summary.all, event) \in Modes
        /\ WithEvent(summary.stream, event) \in Modes
        /\ WithEvent(summary.other, event) \in Modes
    BY <1>2, WithEventTyped
  <1> QED
    BY <1>1, <1>2, <1>3 DEF Counted, Summaries

LEMMA NoSummaryTyped == NoSummary \in Summaries
  BY DEF NoSummary, Summaries, ModeSummary, Modes

LEMMA EventsAreSequences ==
    ASSUME NEW events \in SeqOf(EventKinds, MaxEvents)
    PROVE  events \in Seq(EventKinds) /\ DOMAIN events = 1..Len(events) /\ Len(events) \in Nat
  <1>1. PICK m \in 0..MaxEvents : events \in [1..m -> EventKinds]
    BY DEF SeqOf
  <1>2. m \in Nat
    BY BoundsAssumption
  <1> QED
    BY <1>1, <1>2

\* The events are summed up one after the other.
SumsUp(done, events) ==
    /\ done[0] = NoSummary
    /\ \A i \in 1..Len(events) : done[i] = Counted(done[i - 1], events[i])
    /\ \A i \in 0..Len(events) : done[i] \in Summaries

LEMMA SummedInSteps ==
    ASSUME NEW events \in SeqOf(EventKinds, MaxEvents)
    PROVE  \E done : SumsUp(done, events) /\ done[Len(events)] = Summarize(events)
  <1> DEFINE n == Len(events)
             A == Summaries
             Has(f) == f = [t \in SUBSET (1..n) |->
                              IF t = {} THEN NoSummary ELSE Counted(f[t \ {Max(t)}], events[Max(t)])]
             fold == CHOOSE f : Has(f)
  <1>1. events \in Seq(EventKinds) /\ DOMAIN events = 1..n /\ n \in Nat
    BY EventsAreSequences
  <1>2. \A i \in 1..n : events[i] \in EventKinds
    BY <1>1
  <1>3. Summarize(events) = fold[1..n]
    BY <1>1 DEF Summarize, FoldLeft, MapThenFoldSet
  <1> HIDE DEF n
  <1>4. PICK step \in [1..n -> [A -> A]] : \A i \in 1..n : \A d \in A : step[i][d] = Counted(d, events[i])
    <2>1. PICK step : step = [i \in 1..n |-> [d \in A |-> Counted(d, events[i])]]
      OBVIOUS
    <2>2. \A i \in 1..n : [d \in A |-> Counted(d, events[i])] \in [A -> A]
      BY <1>2, CountedTyped
    <2>3. step \in [1..n -> [A -> A]]
      BY <2>1, <2>2
    <2> QED
      BY <2>1, <2>3
  <1>5. PICK f \in [SUBSET (1..n) -> A] : Folds(f, NoSummary, step, n)
    BY <1>1, NoSummaryTyped, FoldExists
  <1>6. \A t \in SUBSET (1..n) : t # {} => Max(t) \in 1..n
    BY <1>1, MaxIsIn
  <1>7. Has(f)
    <2>1. ASSUME NEW t \in SUBSET (1..n)
          PROVE  f[t] = IF t = {} THEN NoSummary ELSE Counted(f[t \ {Max(t)}], events[Max(t)])
      <3>1. CASE t = {}
        BY <1>5, <3>1 DEF Folds
      <3>2. CASE t # {}
        <4>1. f[t \ {Max(t)}] \in A
          BY <1>5
        <4> QED
          BY <1>4, <1>5, <1>6, <3>2, <4>1 DEF Folds
      <3> QED
        BY <3>1, <3>2
    <2> QED
      BY <1>5, <2>1
  <1>8. Has(fold)
    <2> HIDE DEF Has
    <2> QED
      BY <1>7
  <1>9. \A t \in SUBSET (1..n) :
          fold[t] = IF t = {} THEN NoSummary ELSE Counted(fold[t \ {Max(t)}], events[Max(t)])
    <2> HIDE DEF fold
    <2> QED
      BY <1>8
  <1> HIDE DEF fold, Has
  <1>10. FollowsSteps(fold, A, NoSummary, step, n)
    <2>1. fold[{}] = NoSummary
      <3>1. {} \in SUBSET (1..n)
        OBVIOUS
      <3> QED
        BY <1>9, <3>1
    <2> QED
      BY <1>4, <1>6, <1>9, <2>1 DEF FollowsSteps
  <1>11. PICK done : Passes(done, A, NoSummary, step, n) /\ done[n] = fold[1..n]
    BY <1>1, <1>10, NoSummaryTyped, FoldInSteps
  <1>12. \A i \in 1..n : i - 1 \in 0..n
    BY <1>1
  <1>13. SumsUp(done, events)
    BY <1>4, <1>11, <1>12 DEF Passes, SumsUp, n
  <1> QED
    BY <1>3, <1>11, <1>13 DEF n

\* The events of a mode among the first ones, and what a summary says of them.
OfMode(events, modes, i) == {j \in 1..i : events[j].stream \in modes}

SumsOf(summary, events, modes, i) ==
    LET those == OfMode(events, modes, i)
    IN  /\ summary.requests = Cardinality(those)
        /\ summary.successes = Cardinality({j \in those : events[j].success})
        /\ summary.failures = summary.requests - summary.successes
        /\ summary.slow = Cardinality({j \in those : events[j].slow})
        /\ \A j \in those : events[j].latency <= summary.max
        /\ summary.max \in {events[j].latency : j \in those} \cup {0}
        /\ summary.max <= summary.total /\ summary.total <= summary.max * summary.requests

\* One more latency keeps the total between the maximum and its multiple.
LEMMA TotalBounded ==
    ASSUME NEW total \in Nat, NEW max \in Nat, NEW requests \in Nat, NEW latency \in Nat, NEW larger \in Nat,
           total <= max * requests, max <= larger, latency <= larger
    PROVE  total + latency <= larger * (requests + 1)
  <1>1. max * requests <= larger * requests
    <2>1. PICK d \in Nat : larger = max + d
      <3>1. larger - max \in Nat /\ larger = max + (larger - max)
        OBVIOUS
      <3> QED
        BY <3>1
    <2>2. d * requests >= 0
      OBVIOUS
    <2>3. (max + d) * requests = max * requests + d * requests
      OBVIOUS
    <2>4. max * requests \in Int /\ d * requests \in Int
      OBVIOUS
    <2> QED
      BY <2>1, <2>2, <2>3, <2>4
  <1>2. larger * (requests + 1) = larger * requests + larger
    OBVIOUS
  <1>3. max * requests \in Int /\ larger * requests \in Int
    OBVIOUS
  <1> QED
    BY <1>1, <1>2, <1>3

\* One more event among those of the mode.
LEMMA OneMoreCounted ==
    ASSUME NEW n \in Nat, NEW T \in SUBSET (1..n), NEW i \in Nat, i = n + 1,
           NEW S, S = T \/ S = T \cup {i}
    PROVE  Cardinality(S) = Cardinality(T) + (IF i \in S THEN 1 ELSE 0) /\ Cardinality(T) \in Nat
  <1>1. IsFiniteSet(T) /\ Cardinality(T) \in Nat
    <2>1. IsFiniteSet(1..n)
      BY FS_Interval
    <2> QED
      BY <2>1, FS_Subset, FS_CardinalityType
  <1>2. i \notin T
    OBVIOUS
  <1>3. Cardinality(T \cup {i}) = Cardinality(T) + 1
    BY <1>1, <1>2, FS_AddElement
  <1> QED
    BY <1>1, <1>2, <1>3

\* A summary of the first events of a mode, with one more event of it, is one of them all.
LEMMA ModeGrows ==
    ASSUME NEW n \in Nat, NEW events, NEW i \in 1..n, \A j \in 1..i : events[j] \in EventKinds,
           NEW modes \in SUBSET BOOLEAN, NEW summary \in Modes,
           SumsOf(summary, events, modes, i - 1)
    PROVE  SumsOf(IF events[i].stream \in modes THEN WithEvent(summary, events[i]) ELSE summary,
                  events, modes, i)
  <1>1. PICK m \in Nat : m = i - 1 /\ i = m + 1
    OBVIOUS
  <1>2. PICK T \in SUBSET (1..m) : T = OfMode(events, modes, m)
    BY DEF OfMode
  <1>3. 1..i = (1..m) \cup {i}
    BY <1>1
  <1>4. CASE events[i].stream \notin modes
    <2>1. OfMode(events, modes, i) = T
      BY <1>2, <1>3, <1>4 DEF OfMode
    <2> QED
      BY <1>1, <1>2, <1>4, <2>1 DEF SumsOf
  <1>5. CASE events[i].stream \in modes
    <2>1. PICK S \in SUBSET (1..i) : S = OfMode(events, modes, i) /\ S = T \cup {i}
      BY <1>2, <1>3, <1>5 DEF OfMode
    <2>2. PICK new \in Modes : new = WithEvent(summary, events[i])
      BY WithEventTyped
    <2>3. PICK event \in EventKinds : event = events[i]
      OBVIOUS
    <2>4. /\ event.success \in BOOLEAN /\ event.slow \in BOOLEAN /\ event.latency \in Nat
      BY BoundsAssumption DEF EventKinds
    <2>5. /\ summary.requests = Cardinality(T)
          /\ summary.successes = Cardinality({j \in T : events[j].success})
          /\ summary.failures = summary.requests - summary.successes
          /\ summary.slow = Cardinality({j \in T : events[j].slow})
          /\ \A j \in T : events[j].latency <= summary.max
          /\ summary.max \in {events[j].latency : j \in T} \cup {0}
          /\ summary.max <= summary.total /\ summary.total <= summary.max * summary.requests
      BY <1>1, <1>2 DEF SumsOf
    <2>6. /\ summary.requests \in Nat /\ summary.successes \in Nat /\ summary.failures \in Nat
          /\ summary.slow \in Nat /\ summary.total \in Nat /\ summary.max \in Nat
      BY DEF Modes
    <2>7. /\ new.requests = summary.requests + 1
          /\ new.successes = summary.successes + One(event.success)
          /\ new.failures = summary.failures + One(~event.success)
          /\ new.slow = summary.slow + One(event.slow)
          /\ new.total = summary.total + event.latency
          /\ new.max = Larger(summary.max, event.latency)
      BY <2>2, <2>3 DEF WithEvent
    <2>8. new.requests = Cardinality(S)
      <3>1. Cardinality(S) = Cardinality(T) + 1
        BY <1>1, <2>1, OneMoreCounted
      <3> QED
        BY <2>5, <2>7, <3>1
    <2>9. new.successes = Cardinality({j \in S : events[j].success})
      <3>1. PICK U \in SUBSET (1..m), V \in SUBSET (1..i) :
              U = {j \in T : events[j].success} /\ V = {j \in S : events[j].success}
        OBVIOUS
      <3>2. (V = U \/ V = U \cup {i}) /\ (i \in V <=> event.success)
        <4>1. i \notin U
          BY <1>1
        <4> QED
          BY <2>1, <2>3, <3>1, <4>1
      <3>3. Cardinality(V) = Cardinality(U) + (IF i \in V THEN 1 ELSE 0)
        <4>1. V = U \/ V = U \cup {i}
          BY <3>2
        <4> QED
          BY <1>1, <4>1, OneMoreCounted
      <3> QED
        BY <2>5, <2>7, <3>1, <3>2, <3>3 DEF One
    <2>10. new.slow = Cardinality({j \in S : events[j].slow})
      <3>1. PICK U \in SUBSET (1..m), V \in SUBSET (1..i) :
              U = {j \in T : events[j].slow} /\ V = {j \in S : events[j].slow}
        OBVIOUS
      <3>2. (V = U \/ V = U \cup {i}) /\ (i \in V <=> event.slow)
        <4>1. i \notin U
          BY <1>1
        <4> QED
          BY <2>1, <2>3, <3>1, <4>1
      <3>3. Cardinality(V) = Cardinality(U) + (IF i \in V THEN 1 ELSE 0)
        <4>1. V = U \/ V = U \cup {i}
          BY <3>2
        <4> QED
          BY <1>1, <4>1, OneMoreCounted
      <3> QED
        BY <2>5, <2>7, <3>1, <3>2, <3>3 DEF One
    <2>11. new.failures = new.requests - new.successes
      <3>1. One(event.success) + One(~event.success) = 1 /\ One(event.success) \in Nat /\ One(~event.success) \in Nat
        <4>1. CASE event.success
          BY <4>1 DEF One
        <4>2. CASE ~event.success
          BY <4>2 DEF One
        <4> QED
          BY <4>1, <4>2
      <3> QED
        BY <2>5, <2>6, <2>7, <3>1
    <2>12. /\ new.max \in Nat /\ new.max >= summary.max /\ new.max >= event.latency
           /\ new.max = summary.max \/ new.max = event.latency
      BY <2>4, <2>6, <2>7 DEF Larger
    <2>13. \A j \in S : events[j].latency <= new.max
      <3>1. \A j \in T : events[j].latency \in Nat
        <4>1. \A j \in T : events[j] \in EventKinds
          BY <1>3
        <4>2. \A kind \in EventKinds : kind.latency \in Nat
          BY BoundsAssumption DEF EventKinds
        <4> QED
          BY <4>1, <4>2
      <3>2. \A j \in T : events[j].latency <= new.max
        BY <2>5, <2>6, <2>12, <3>1
      <3> QED
        BY <2>1, <2>3, <2>12, <3>2
    <2>14. new.max \in {events[j].latency : j \in S} \cup {0}
      BY <2>1, <2>3, <2>5, <2>12
    <2>15. new.max <= new.total
      BY <2>4, <2>5, <2>6, <2>7, <2>12
    <2>16. new.total <= new.max * new.requests
      <3>1. summary.total + event.latency <= new.max * (summary.requests + 1)
        BY <2>4, <2>5, <2>6, <2>12, TotalBounded
      <3> QED
        BY <2>7, <3>1
    <2>17. SumsOf(new, events, modes, i)
      BY <2>1, <2>8, <2>9, <2>10, <2>11, <2>13, <2>14, <2>15, <2>16 DEF SumsOf
    <2> QED
      BY <1>5, <2>2, <2>17
  <1> QED
    BY <1>4, <1>5

SumsOfAll(summary, events, i) ==
    /\ SumsOf(summary.all, events, BOOLEAN, i)
    /\ SumsOf(summary.stream, events, {TRUE}, i)
    /\ SumsOf(summary.other, events, {FALSE}, i)
    /\ \A counted \in DOMAIN ModeSummary \ {"max"} :
         summary.all[counted] = summary.stream[counted] + summary.other[counted]

LEMMA NothingSummed ==
    ASSUME NEW events
    PROVE  SumsOfAll(NoSummary, events, 0)
  <1>1. ASSUME NEW modes \in SUBSET BOOLEAN PROVE SumsOf(ModeSummary, events, modes, 0)
    <2>1. OfMode(events, modes, 0) = {}
      BY DEF OfMode
    <2>2. Cardinality({}) = 0
      BY FS_EmptySet
    <2>3. /\ ModeSummary.requests = 0 /\ ModeSummary.successes = 0 /\ ModeSummary.failures = 0
          /\ ModeSummary.slow = 0 /\ ModeSummary.total = 0 /\ ModeSummary.max = 0
      BY DEF ModeSummary
    <2>4. PICK those : those = OfMode(events, modes, 0) /\ those = {}
      BY <2>1
    <2>5. /\ Cardinality(those) = 0
          /\ Cardinality({j \in those : events[j].success}) = 0
          /\ Cardinality({j \in those : events[j].slow}) = 0
      <3>1. {j \in those : events[j].success} = {}
        BY <2>4
      <3>2. {j \in those : events[j].slow} = {}
        BY <2>4
      <3> QED
        BY <2>2, <2>4, <3>1, <3>2, Zenon
    <2>6. /\ ModeSummary.requests = Cardinality(those)
          /\ ModeSummary.successes = Cardinality({j \in those : events[j].success})
          /\ ModeSummary.failures = ModeSummary.requests - ModeSummary.successes
          /\ ModeSummary.slow = Cardinality({j \in those : events[j].slow})
      <3>1. ModeSummary.failures = ModeSummary.requests - ModeSummary.successes
        BY <2>3
      <3> QED
        BY <2>3, <2>5, <3>1, Zenon
    <2>7. /\ \A j \in those : events[j].latency <= ModeSummary.max
          /\ ModeSummary.max \in {events[j].latency : j \in those} \cup {0}
          /\ ModeSummary.max <= ModeSummary.total
          /\ ModeSummary.total <= ModeSummary.max * ModeSummary.requests
      BY <2>3, <2>4
    <2> QED
      BY <2>4, <2>6, <2>7 DEF SumsOf
  <1>2. NoSummary.all = ModeSummary /\ NoSummary.stream = ModeSummary /\ NoSummary.other = ModeSummary
    BY DEF NoSummary
  <1>3. \A counted \in DOMAIN ModeSummary : ModeSummary[counted] = 0
    BY DEF ModeSummary
  <1>4. /\ SumsOf(ModeSummary, events, BOOLEAN, 0)
        /\ SumsOf(ModeSummary, events, {TRUE}, 0)
        /\ SumsOf(ModeSummary, events, {FALSE}, 0)
    BY <1>1
  <1>5. \A counted \in DOMAIN ModeSummary \ {"max"} :
          NoSummary.all[counted] = NoSummary.stream[counted] + NoSummary.other[counted]
    BY <1>2, <1>3
  <1> QED
    BY <1>2, <1>4, <1>5 DEF SumsOfAll

LEMMA SummaryGrows ==
    ASSUME NEW n \in Nat, NEW events, NEW i \in 1..n, \A j \in 1..i : events[j] \in EventKinds,
           NEW summary \in Summaries, SumsOfAll(summary, events, i - 1)
    PROVE  SumsOfAll(Counted(summary, events[i]), events, i)
  <1>1. PICK event \in EventKinds : event = events[i]
    OBVIOUS
  <1>2. event.stream \in BOOLEAN
    BY DEF EventKinds
  <1>3. summary.all \in Modes /\ summary.stream \in Modes /\ summary.other \in Modes
    BY DEF Summaries
  <1>4. PICK new : new = Counted(summary, event)
    OBVIOUS
  <1>5. /\ new.all = WithEvent(summary.all, event)
        /\ new.stream = IF event.stream THEN WithEvent(summary.stream, event) ELSE summary.stream
        /\ new.other = IF event.stream THEN summary.other ELSE WithEvent(summary.other, event)
    BY <1>4 DEF Counted
  <1>6. SumsOf(new.all, events, BOOLEAN, i)
    <2>1. SumsOf(IF events[i].stream \in BOOLEAN THEN WithEvent(summary.all, events[i]) ELSE summary.all,
                 events, BOOLEAN, i)
      BY <1>3, ModeGrows DEF SumsOfAll
    <2> QED
      BY <1>1, <1>2, <1>5, <2>1
  <1>7. SumsOf(new.stream, events, {TRUE}, i)
    <2>1. SumsOf(IF events[i].stream \in {TRUE} THEN WithEvent(summary.stream, events[i]) ELSE summary.stream,
                 events, {TRUE}, i)
      BY <1>3, ModeGrows DEF SumsOfAll
    <2>2. events[i].stream \in {TRUE} <=> event.stream
      BY <1>1, <1>2
    <2> QED
      BY <1>1, <1>5, <2>1, <2>2
  <1>8. SumsOf(new.other, events, {FALSE}, i)
    <2>1. SumsOf(IF events[i].stream \in {FALSE} THEN WithEvent(summary.other, events[i]) ELSE summary.other,
                 events, {FALSE}, i)
      BY <1>3, ModeGrows DEF SumsOfAll
    <2>2. events[i].stream \in {FALSE} <=> ~event.stream
      BY <1>1, <1>2
    <2> QED
      BY <1>1, <1>5, <2>1, <2>2
  <1>9. ASSUME NEW counted \in DOMAIN ModeSummary \ {"max"}
        PROVE  new.all[counted] = new.stream[counted] + new.other[counted]
    <2>1. summary.all[counted] = summary.stream[counted] + summary.other[counted]
      BY DEF SumsOfAll
    <2>2. counted \in {"requests", "successes", "failures", "slow", "total"}
      BY DEF ModeSummary
    <2>3. summary.stream[counted] \in Nat /\ summary.other[counted] \in Nat
      BY <1>3, <2>2 DEF Modes
    <2>4. PICK d \in Nat : \A mode \in Modes : WithEvent(mode, event)[counted] = mode[counted] + d
      <3>1. /\ One(event.success) \in Nat /\ One(~event.success) \in Nat /\ One(event.slow) \in Nat
            /\ 1 \in Nat /\ event.latency \in Nat
        BY BoundsAssumption DEF One, EventKinds
      <3>2. \A mode \in Modes :
              /\ WithEvent(mode, event).requests = mode.requests + 1
              /\ WithEvent(mode, event).successes = mode.successes + One(event.success)
              /\ WithEvent(mode, event).failures = mode.failures + One(~event.success)
              /\ WithEvent(mode, event).slow = mode.slow + One(event.slow)
              /\ WithEvent(mode, event).total = mode.total + event.latency
        BY DEF WithEvent
      <3> QED
        BY <2>2, <3>1, <3>2
    <2>5. new.all[counted] = summary.all[counted] + d
      BY <1>3, <1>5, <2>4
    <2>6. CASE event.stream
      <3>1. new.stream[counted] = summary.stream[counted] + d /\ new.other[counted] = summary.other[counted]
        BY <1>3, <1>5, <2>4, <2>6
      <3> QED
        BY <2>1, <2>3, <2>5, <3>1
    <2>7. CASE ~event.stream
      <3>1. new.stream[counted] = summary.stream[counted] /\ new.other[counted] = summary.other[counted] + d
        BY <1>3, <1>5, <2>4, <2>7
      <3> QED
        BY <2>1, <2>3, <2>5, <3>1
    <2> QED
      BY <2>6, <2>7
  <1>10. SumsOfAll(new, events, i)
    BY <1>6, <1>7, <1>8, <1>9 DEF SumsOfAll
  <1> QED
    BY <1>1, <1>4, <1>10

LEMMA SummaryIsRight ==
    ASSUME NEW events \in SeqOf(EventKinds, MaxEvents)
    PROVE  SumsOfAll(Summarize(events), events, Len(events))
  <1>1. PICK n \in Nat : n = Len(events) /\ events \in Seq(EventKinds) /\ DOMAIN events = 1..n
    BY EventsAreSequences
  <1>2. PICK done : SumsUp(done, events) /\ done[n] = Summarize(events)
    BY <1>1, SummedInSteps
  <1> DEFINE Good == {k \in Nat : k <= n => SumsOfAll(done[k], events, k)}
  <1>3. 0 \in Good
    <2>1. SumsOfAll(done[0], events, 0)
      BY <1>2, NothingSummed DEF SumsUp
    <2> QED
      BY <2>1
  <1>4. ASSUME NEW k \in Good PROVE k + 1 \in Good
    <2> SUFFICES ASSUME k + 1 <= n PROVE SumsOfAll(done[k + 1], events, k + 1)
      OBVIOUS
    <2>1. k \in Nat /\ SumsOfAll(done[k], events, k)
      OBVIOUS
    <2>2. PICK i \in 1..n : i = k + 1 /\ i - 1 = k
      BY <2>1
    <2>3. done[i - 1] \in Summaries /\ done[i] = Counted(done[i - 1], events[i])
      BY <1>1, <1>2, <2>1, <2>2 DEF SumsUp
    <2>4. \A j \in 1..i : events[j] \in EventKinds
      BY <1>1
    <2>5. SumsOfAll(Counted(done[i - 1], events[i]), events, i)
      BY <2>1, <2>2, <2>3, <2>4, SummaryGrows
    <2> QED
      BY <2>2, <2>3, <2>5
  <1>5. Good = Nat
    <2>1. Good \in SUBSET Nat
      OBVIOUS
    <2> HIDE DEF Good
    <2> QED
      BY <1>3, <1>4, <2>1, Counting
  <1>6. SumsOfAll(done[n], events, n)
    <2>1. n \in Good
      <3> HIDE DEF Good
      <3> QED
        BY <1>5
    <2> QED
      BY <2>1
  <1> QED
    BY <1>1, <1>2, <1>6

-----------------------------------------------------------------------------
(* Sorting and the percentile.                                             *)

\* A set of positions that has all that are before its own is an interval.
LEMMA DownsetIs ==
    ASSUME NEW n \in Nat, NEW D \in SUBSET (1..n), \A j \in D : \A k \in 1..j : k \in D
    PROVE  Cardinality(D) \in 0..n /\ D = 1..Cardinality(D)
  <1>1. CASE D = {}
    <2>1. Cardinality(D) = 0
      BY <1>1, FS_EmptySet
    <2> QED
      BY <1>1, <2>1
  <1>2. CASE D # {}
    <2>1. PICK m \in D : \A j \in D : j <= m
      BY <1>2, MaxExists
    <2>2. m \in 1..n
      OBVIOUS
    <2>3. \A j \in D : j \in 1..m
      BY <2>1, <2>2
    <2>4. D = 1..m
      BY <2>1, <2>3
    <2>5. Cardinality(1..m) = m
      <3>1. 1 \in Int /\ m \in Int /\ ~(1 > m) /\ m - 1 + 1 = m
        BY <2>2
      <3> QED
        BY <3>1, FS_Interval
    <2> QED
      BY <2>2, <2>4, <2>5
  <1> QED
    BY <1>1, <1>2

Ascending(s) == \A j, k \in 1..Len(s) : j <= k => s[j] <= s[k]

\* A latency goes before the first one that is longer.
InsertedAfter(t, s, latency, b) ==
    /\ \A i \in 1..Len(s) : s[i] <= latency <=> i <= b
    /\ Len(t) = Len(s) + 1
    /\ \A i \in 1..(Len(s) + 1) :
         t[i] = IF i <= b THEN s[i] ELSE IF i = b + 1 THEN latency ELSE s[i - 1]

LEMMA InsertedIs ==
    ASSUME NEW s \in Seq(Nat), Ascending(s), NEW latency \in Nat
    PROVE  \E b \in 0..Len(s) : InsertedAfter(Inserted(s, latency), s, latency, b)
  <1>1. PICK n \in Nat : n = Len(s) /\ DOMAIN s = 1..n
    OBVIOUS
  <1>2. \A i \in 1..n : s[i] \in Nat
    BY <1>1
  <1>3. PICK D \in SUBSET (1..n) : D = {i \in DOMAIN s : s[i] <= latency}
    BY <1>1
  <1>4. \A j \in D : \A k \in 1..j : k \in D
    <2> SUFFICES ASSUME NEW j \in D, NEW k \in 1..j PROVE k \in D
      OBVIOUS
    <2>1. k \in 1..n /\ j \in 1..n /\ k <= j
      OBVIOUS
    <2>2. s[k] <= s[j] /\ s[j] <= latency /\ s[k] \in Nat /\ s[j] \in Nat
      BY <1>1, <1>2, <1>3, <2>1 DEF Ascending
    <2>3. s[k] <= latency
      BY <2>2
    <2> QED
      BY <1>1, <1>3, <2>1, <2>3
  <1>5. PICK b \in 0..n : b = Cardinality(D) /\ D = 1..b
    BY <1>4, DownsetIs
  <1>6. \A i \in 1..n : s[i] <= latency <=> i <= b
    <2>1. \A i \in 1..n : i \in D <=> i <= b
      <3>1. \A i \in 1..n : i \in 1..b <=> i <= b
        OBVIOUS
      <3> QED
        BY <1>5, <3>1
    <2> QED
      BY <1>1, <1>3, <2>1
  <1>7. PICK p, q, one, pq, t :
          /\ p = SubSeq(s, 1, b) /\ one = <<latency>> /\ q = SubSeq(s, b + 1, n)
          /\ pq = p \o one /\ t = pq \o q
    OBVIOUS
  <1>8. t = Inserted(s, latency)
    BY <1>1, <1>3, <1>5, <1>7 DEF Inserted
  <1>9. p \in Seq(Nat) /\ Len(p) = b /\ \A i \in 1..b : p[i] = s[i]
    <2>1. \A i \in 1..b : s[i] \in Nat
      BY <1>2
    <2>2. /\ SubSeq(s, 1, b) \in Seq(Nat) /\ Len(SubSeq(s, 1, b)) = IF 1 <= b THEN b - 1 + 1 ELSE 0
          /\ \A i \in 1..(b - 1 + 1) : SubSeq(s, 1, b)[i] = s[1 + i - 1]
      BY <2>1, SubSeqProperties
    <2>3. b - 1 + 1 = b /\ (IF 1 <= b THEN b - 1 + 1 ELSE 0) = b /\ \A i \in 1..b : 1 + i - 1 = i
      OBVIOUS
    <2> QED
      BY <1>7, <2>2, <2>3
  <1>10. q \in Seq(Nat) /\ Len(q) = n - b /\ \A i \in 1..(n - b) : q[i] = s[b + i]
    <2>1. \A i \in (b + 1)..n : s[i] \in Nat
      BY <1>2
    <2>2. /\ SubSeq(s, b + 1, n) \in Seq(Nat)
          /\ Len(SubSeq(s, b + 1, n)) = IF b + 1 <= n THEN n - (b + 1) + 1 ELSE 0
          /\ \A i \in 1..(n - (b + 1) + 1) : SubSeq(s, b + 1, n)[i] = s[b + 1 + i - 1]
      BY <2>1, SubSeqProperties
    <2>3. /\ n - (b + 1) + 1 = n - b /\ (IF b + 1 <= n THEN n - (b + 1) + 1 ELSE 0) = n - b
          /\ \A i \in 1..(n - b) : b + 1 + i - 1 = b + i
      OBVIOUS
    <2> QED
      BY <1>7, <2>2, <2>3
  <1>11. one \in Seq(Nat) /\ Len(one) = 1 /\ one[1] = latency /\ 1 \in 1..1
    BY <1>7
  <1>12. /\ pq \in Seq(Nat)
         /\ \A i \in 1..b : pq[i] = s[i]
         /\ pq[b + 1] = latency /\ Len(pq) = b + 1
    <2>1. pq = p \o one /\ p \in Seq(Nat) /\ one \in Seq(Nat)
      BY <1>7, <1>9, <1>11
    <2>2. /\ pq \in Seq(Nat) /\ Len(pq) = Len(p) + Len(one)
          /\ \A i \in 1..Len(p) : pq[i] = p[i]
          /\ \A i \in 1..Len(one) : pq[Len(p) + i] = one[i]
      BY <2>1, JoinIs
    <2> QED
      BY <1>9, <1>11, <2>2
  <1>13. /\ Len(t) = n + 1
         /\ \A i \in 1..(b + 1) : t[i] = pq[i]
         /\ \A i \in 1..(n - b) : t[b + 1 + i] = s[b + i]
    <2>1. t = pq \o q /\ pq \in Seq(Nat) /\ q \in Seq(Nat)
      BY <1>7, <1>10, <1>12
    <2>2. /\ Len(t) = Len(pq) + Len(q)
          /\ \A i \in 1..Len(pq) : t[i] = pq[i]
          /\ \A i \in 1..Len(q) : t[Len(pq) + i] = q[i]
      BY <2>1, JoinIs
    <2>3. Len(pq) = b + 1 /\ Len(q) = n - b /\ b + 1 + (n - b) = n + 1
      BY <1>10, <1>12
    <2>4. Len(t) = n + 1 /\ \A i \in 1..(b + 1) : t[i] = pq[i]
      BY <2>2, <2>3
    <2>5. \A i \in 1..(n - b) : t[b + 1 + i] = q[i] /\ q[i] = s[b + i]
      BY <1>10, <2>2, <2>3
    <2> QED
      BY <2>4, <2>5
  <1>14. ASSUME NEW i \in 1..(n + 1)
         PROVE  t[i] = IF i <= b THEN s[i] ELSE IF i = b + 1 THEN latency ELSE s[i - 1]
    <2>1. CASE i <= b
      <3>1. i \in 1..b /\ i \in 1..(b + 1)
        BY <2>1
      <3> QED
        BY <1>12, <1>13, <2>1, <3>1
    <2>2. CASE i = b + 1
      <3>1. i \in 1..(b + 1) /\ ~(i <= b)
        BY <2>2
      <3> QED
        BY <1>12, <1>13, <2>2, <3>1
    <2>3. CASE i > b + 1
      <3>1. PICK k \in 1..(n - b) : i = b + 1 + k /\ i - 1 = b + k
        <4>1. i - (b + 1) \in 1..(n - b) /\ i = b + 1 + (i - (b + 1)) /\ i - 1 = b + (i - (b + 1))
          BY <2>3
        <4> QED
          BY <4>1
      <3>2. ~(i <= b) /\ i # b + 1
        BY <2>3
      <3> QED
        BY <1>13, <3>1, <3>2
    <2> QED
      BY <2>1, <2>2, <2>3
  <1> QED
    BY <1>1, <1>6, <1>8, <1>13, <1>14 DEF InsertedAfter

\* The first latencies that a value is not below, and those it is above.
AtMost(latencies, i, v) == {j \in 1..i : latencies[j] <= v}
Below(latencies, i, v) == {j \in 1..i : latencies[j] < v}

\* The k-th of the sorted latencies is the least that k of them do not exceed.
Sorts(s, latencies, i) ==
    /\ s \in Seq(Nat) /\ Len(s) = i /\ Ascending(s)
    /\ \A k \in 1..i :
         /\ \E j \in 1..i : latencies[j] = s[k]
         /\ Cardinality(AtMost(latencies, i, s[k])) >= k
         /\ Cardinality(Below(latencies, i, s[k])) < k

LEMMA MoreAtMost ==
    ASSUME NEW i \in Nat, NEW latencies, \A j \in 1..(i + 1) : latencies[j] \in Nat, NEW v \in Nat
    PROVE  /\ Cardinality(AtMost(latencies, i, v)) \in Nat
           /\ Cardinality(Below(latencies, i, v)) \in 0..i
           /\ Cardinality(AtMost(latencies, i + 1, v)) =
                Cardinality(AtMost(latencies, i, v)) + (IF latencies[i + 1] <= v THEN 1 ELSE 0)
           /\ Cardinality(Below(latencies, i + 1, v)) =
                Cardinality(Below(latencies, i, v)) + (IF latencies[i + 1] < v THEN 1 ELSE 0)
  <1>1. 1..(i + 1) = (1..i) \cup {i + 1} /\ i + 1 \notin 1..i
    OBVIOUS
  <1>2. PICK A \in SUBSET (1..i), B \in SUBSET (1..i),
             A1 \in {AtMost(latencies, i + 1, v)}, B1 \in {Below(latencies, i + 1, v)} :
          /\ A = AtMost(latencies, i, v) /\ B = Below(latencies, i, v)
          /\ A1 = AtMost(latencies, i + 1, v) /\ B1 = Below(latencies, i + 1, v)
    BY DEF AtMost, Below
  <1>3. /\ A1 = IF latencies[i + 1] <= v THEN A \cup {i + 1} ELSE A
        /\ B1 = IF latencies[i + 1] < v THEN B \cup {i + 1} ELSE B
    BY <1>1, <1>2 DEF AtMost, Below
  <1>4. IsFiniteSet(1..i) /\ Cardinality(1..i) = i
    <2>1. IsFiniteSet(1..i) /\ Cardinality(1..i) = IF 1 > i THEN 0 ELSE i - 1 + 1
      BY FS_Interval
    <2> QED
      BY <2>1
  <1>5. /\ IsFiniteSet(A) /\ Cardinality(A) \in Nat
        /\ IsFiniteSet(B) /\ Cardinality(B) \in Nat /\ Cardinality(B) <= i
    BY <1>4, FS_Subset, FS_CardinalityType
  <1>6. /\ Cardinality(A \cup {i + 1}) = Cardinality(A) + 1
        /\ Cardinality(B \cup {i + 1}) = Cardinality(B) + 1
    BY <1>1, <1>5, FS_AddElement
  <1> QED
    BY <1>2, <1>3, <1>5, <1>6

LEMMA MonotonicCounts ==
    ASSUME NEW i \in Nat, NEW latencies, \A j \in 1..i : latencies[j] \in Nat, NEW v \in Nat, NEW w \in Nat,
           v <= w
    PROVE  /\ Cardinality(AtMost(latencies, i, v)) <= Cardinality(AtMost(latencies, i, w))
           /\ Cardinality(Below(latencies, i, v)) <= Cardinality(Below(latencies, i, w))
           /\ v < w => Cardinality(AtMost(latencies, i, v)) <= Cardinality(Below(latencies, i, w))
  <1>1. /\ AtMost(latencies, i, v) \in SUBSET AtMost(latencies, i, w)
        /\ Below(latencies, i, v) \in SUBSET Below(latencies, i, w)
        /\ v < w => AtMost(latencies, i, v) \in SUBSET Below(latencies, i, w)
    BY DEF AtMost, Below
  <1>2. /\ IsFiniteSet(1..i)
        /\ AtMost(latencies, i, w) \in SUBSET (1..i)
        /\ Below(latencies, i, w) \in SUBSET (1..i)
    BY FS_Interval DEF AtMost, Below
  <1>3. IsFiniteSet(AtMost(latencies, i, w)) /\ IsFiniteSet(Below(latencies, i, w))
    BY <1>2, FS_Subset
  <1> QED
    BY <1>1, <1>3, FS_Subset

LEMMA InsertedTyped ==
    ASSUME NEW s \in Seq(Nat), NEW latency \in Nat
    PROVE  Inserted(s, latency) \in Seq(Nat)
  <1>1. PICK n \in Nat : n = Len(s) /\ DOMAIN s = 1..n
    OBVIOUS
  <1>2. PICK D \in SUBSET (1..n) : D = {i \in DOMAIN s : s[i] <= latency}
    BY <1>1
  <1>3. \A i \in 1..n : s[i] \in Nat
    BY <1>1
  <1>4. PICK c \in 0..n : c = Cardinality(D)
    <2>1. IsFiniteSet(1..n) /\ Cardinality(1..n) = n
      <3>1. IsFiniteSet(1..n) /\ Cardinality(1..n) = IF 1 > n THEN 0 ELSE n - 1 + 1
        BY FS_Interval
      <3> QED
        BY <3>1
    <2>2. Cardinality(D) \in Nat /\ Cardinality(D) <= n
      BY <2>1, FS_Subset, FS_CardinalityType
    <2> QED
      BY <2>2
  <1>5. PICK p, q, one : p = SubSeq(s, 1, c) /\ one = <<latency>> /\ q = SubSeq(s, c + 1, n)
    OBVIOUS
  <1>6. p \in Seq(Nat) /\ q \in Seq(Nat) /\ one \in Seq(Nat)
    <2>1. \A k \in 1..c : s[k] \in Nat
      BY <1>3
    <2>2. \A k \in (c + 1)..n : s[k] \in Nat
      BY <1>3
    <2>3. SubSeq(s, 1, c) \in Seq(Nat)
      BY <2>1, SubSeqProperties
    <2>4. SubSeq(s, c + 1, n) \in Seq(Nat)
      BY <2>2, SubSeqProperties
    <2>5. <<latency>> \in Seq(Nat)
      OBVIOUS
    <2> QED
      BY <1>5, <2>3, <2>4, <2>5
  <1>7. p \o one \in Seq(Nat)
    BY <1>6, ConcatProperties
  <1>8. (p \o one) \o q \in Seq(Nat)
    BY <1>6, <1>7, ConcatProperties
  <1> QED
    BY <1>1, <1>4, <1>5, <1>8, <1>2 DEF Inserted

\* Inserting one more latency keeps the list sorted and of the same latencies.
LEMMA SortGrows ==
    ASSUME NEW i \in Nat, NEW latencies, \A j \in 1..(i + 1) : latencies[j] \in Nat,
           NEW s, Sorts(s, latencies, i)
    PROVE  Sorts(Inserted(s, latencies[i + 1]), latencies, i + 1)
  <1>1. PICK l \in Nat : l = latencies[i + 1]
    OBVIOUS
  <1>2. s \in Seq(Nat) /\ Len(s) = i /\ Ascending(s) /\ \A k \in 1..i : s[k] \in Nat
    BY DEF Sorts
  <1>3. PICK b \in 0..i : InsertedAfter(Inserted(s, l), s, l, b)
    <2>1. s \in Seq(Nat) /\ Ascending(s)
      BY <1>2
    <2>2. \E b \in 0..Len(s) : InsertedAfter(Inserted(s, l), s, l, b)
      BY <2>1, InsertedIs
    <2> QED
      BY <1>2, <2>2
  <1>4. PICK t : t = Inserted(s, l)
    OBVIOUS
  <1>5. /\ \A k \in 1..i : s[k] <= l <=> k <= b
        /\ Len(t) = i + 1
        /\ \A k \in 1..(i + 1) : t[k] = IF k <= b THEN s[k] ELSE IF k = b + 1 THEN l ELSE s[k - 1]
    BY <1>2, <1>3, <1>4 DEF InsertedAfter
  <1>6. \A k \in 1..(i + 1) : t[k] \in Nat
    <2>1. \A k \in 1..(i + 1) : (k <= b => k \in 1..i) /\ (~(k <= b) /\ k # b + 1 => k - 1 \in 1..i)
      OBVIOUS
    <2> QED
      BY <1>2, <1>5, <2>1
  <1>7. t \in Seq(Nat)
    BY <1>2, <1>4, InsertedTyped
  <1>8. Ascending(t)
    <2> SUFFICES ASSUME NEW j \in 1..(i + 1), NEW k \in 1..(i + 1), j <= k PROVE t[j] <= t[k]
      BY <1>5 DEF Ascending
    <2>1. \A x, y \in 1..i : x <= y => s[x] <= s[y]
      BY <1>2 DEF Ascending
    <2>2. CASE j <= b /\ k <= b
      <3>1. j \in 1..i /\ k \in 1..i
        BY <2>2
      <3> QED
        BY <1>5, <2>1, <2>2, <3>1
    <2>3. CASE j <= b /\ k = b + 1
      <3>1. j \in 1..i
        BY <2>3
      <3> QED
        BY <1>5, <2>3, <3>1
    <2>4. CASE j <= b /\ k > b + 1
      <3>1. j \in 1..i /\ k - 1 \in 1..i /\ j <= k - 1
        BY <2>4
      <3> QED
        BY <1>5, <2>1, <2>4, <3>1
    <2>5. CASE j = b + 1 /\ k = b + 1
      BY <1>6, <2>5
    <2>6. CASE j = b + 1 /\ k > b + 1
      <3>1. k - 1 \in 1..i /\ ~(k - 1 <= b)
        BY <2>6
      <3>2. s[k - 1] \in Nat /\ ~(s[k - 1] <= l)
        BY <1>2, <1>5, <3>1
      <3> QED
        BY <1>5, <2>6, <3>2
    <2>7. CASE j > b + 1 /\ k > b + 1
      <3>1. j - 1 \in 1..i /\ k - 1 \in 1..i /\ j - 1 <= k - 1
        BY <2>7
      <3> QED
        BY <1>5, <2>1, <2>7, <3>1
    <2> QED
      BY <2>2, <2>3, <2>4, <2>5, <2>6, <2>7
  <1> DEFINE A(v) == Cardinality(AtMost(latencies, i, v))
             B(v) == Cardinality(Below(latencies, i, v))
  <1>9. \A v \in Nat :
          /\ A(v) \in Nat /\ B(v) \in 0..i
          /\ Cardinality(AtMost(latencies, i + 1, v)) = A(v) + (IF l <= v THEN 1 ELSE 0)
          /\ Cardinality(Below(latencies, i + 1, v)) = B(v) + (IF l < v THEN 1 ELSE 0)
    <2> SUFFICES ASSUME NEW v \in Nat
                 PROVE  /\ A(v) \in Nat /\ B(v) \in 0..i
                        /\ Cardinality(AtMost(latencies, i + 1, v)) = A(v) + (IF l <= v THEN 1 ELSE 0)
                        /\ Cardinality(Below(latencies, i + 1, v)) = B(v) + (IF l < v THEN 1 ELSE 0)
      OBVIOUS
    <2>1. /\ Cardinality(AtMost(latencies, i, v)) \in Nat
          /\ Cardinality(Below(latencies, i, v)) \in 0..i
          /\ Cardinality(AtMost(latencies, i + 1, v)) =
               Cardinality(AtMost(latencies, i, v)) + (IF latencies[i + 1] <= v THEN 1 ELSE 0)
          /\ Cardinality(Below(latencies, i + 1, v)) =
               Cardinality(Below(latencies, i, v)) + (IF latencies[i + 1] < v THEN 1 ELSE 0)
      BY MoreAtMost
    <2> QED
      BY <1>1, <2>1
  <1>10. \A k \in 1..i : A(s[k]) >= k /\ B(s[k]) < k /\ \E j \in 1..i : latencies[j] = s[k]
    BY DEF Sorts
  <1>11. \A v, w \in Nat : v <= w => A(v) <= A(w) /\ B(v) <= B(w)
    <2>1. \A j \in 1..i : latencies[j] \in Nat
      OBVIOUS
    <2> QED
      BY <2>1, MonotonicCounts
  <1> HIDE DEF A, B
  <1>12. ASSUME NEW k \in 1..(i + 1)
         PROVE  /\ \E j \in 1..(i + 1) : latencies[j] = t[k]
                /\ Cardinality(AtMost(latencies, i + 1, t[k])) >= k
                /\ Cardinality(Below(latencies, i + 1, t[k])) < k
    <2>1. CASE k <= b
      <3>1. k \in 1..i /\ t[k] = s[k] /\ s[k] \in Nat /\ s[k] <= l
        BY <1>2, <1>5, <2>1
      <3>2. A(s[k]) >= k /\ B(s[k]) < k /\ A(s[k]) \in Nat /\ B(s[k]) \in Nat
        BY <1>9, <1>10, <3>1
      <3>3. ~(l < s[k])
        BY <3>1
      <3>4. Cardinality(AtMost(latencies, i + 1, t[k])) >= k
        BY <1>9, <3>1, <3>2
      <3>5. Cardinality(Below(latencies, i + 1, t[k])) < k
        BY <1>9, <3>1, <3>2, <3>3
      <3>6. \E j \in 1..(i + 1) : latencies[j] = t[k]
        BY <1>10, <3>1
      <3> QED
        BY <3>4, <3>5, <3>6
    <2>2. CASE k = b + 1
      <3>1. t[k] = l /\ l \in Nat
        BY <1>5, <2>2
      <3>2. A(l) >= b
        <4>1. CASE b = 0
          BY <1>9, <4>1
        <4>2. CASE b # 0
          <5>1. b \in 1..i /\ s[b] <= l /\ s[b] \in Nat
            BY <1>2, <1>5, <4>2
          <5>2. A(s[b]) >= b /\ A(s[b]) <= A(l) /\ A(s[b]) \in Nat /\ A(l) \in Nat
            BY <1>9, <1>10, <1>11, <5>1
          <5> QED
            BY <5>2
        <4> QED
          BY <4>1, <4>2
      <3>3. B(l) <= b
        <4>1. CASE b = i
          BY <1>9, <4>1
        <4>2. CASE b # i
          <5>1. b + 1 \in 1..i /\ ~(b + 1 <= b)
            BY <4>2
          <5>2. s[b + 1] \in Nat /\ l <= s[b + 1]
            BY <1>2, <1>5, <5>1
          <5>3. B(s[b + 1]) < b + 1 /\ B(l) <= B(s[b + 1]) /\ B(l) \in Nat /\ B(s[b + 1]) \in Nat
            BY <1>9, <1>10, <1>11, <5>1, <5>2
          <5> QED
            BY <5>3
        <4> QED
          BY <4>1, <4>2
      <3>4. Cardinality(AtMost(latencies, i + 1, l)) >= k
        <4>1. Cardinality(AtMost(latencies, i + 1, l)) = A(l) + 1 /\ A(l) \in Nat
          BY <1>9
        <4> QED
          BY <2>2, <3>2, <4>1
      <3>5. Cardinality(Below(latencies, i + 1, l)) < k
        <4>1. Cardinality(Below(latencies, i + 1, l)) = B(l) /\ B(l) \in Nat
          BY <1>9
        <4> QED
          BY <2>2, <3>3, <4>1
      <3>6. i + 1 \in 1..(i + 1) /\ latencies[i + 1] = t[k]
        BY <1>1, <3>1
      <3> QED
        BY <3>1, <3>4, <3>5, <3>6
    <2>3. CASE k > b + 1
      <3>1. k - 1 \in 1..i /\ ~(k - 1 <= b) /\ ~(k <= b) /\ k # b + 1
        BY <2>3
      <3>2. PICK m \in 1..i : m = k - 1
        BY <3>1
      <3>3. PICK v \in Nat : v = s[m] /\ v = t[k] /\ l < v
        <4>1. s[k - 1] \in Nat /\ t[k] = s[k - 1] /\ ~(s[k - 1] <= l)
          BY <1>2, <1>5, <3>1
        <4> QED
          BY <3>2, <4>1
      <3>4. A(v) >= k - 1 /\ B(v) < k - 1 /\ A(v) \in Nat /\ B(v) \in Nat
        <4>1. A(v) >= m /\ B(v) < m
          BY <1>10, <3>3
        <4> QED
          BY <1>9, <3>2, <4>1
      <3>5. Cardinality(AtMost(latencies, i + 1, v)) = A(v) + 1 /\ Cardinality(Below(latencies, i + 1, v)) = B(v) + 1
        BY <1>9, <3>3
      <3>6. Cardinality(AtMost(latencies, i + 1, v)) >= k /\ Cardinality(Below(latencies, i + 1, v)) < k
        BY <3>4, <3>5
      <3>7. \E j \in 1..(i + 1) : latencies[j] = t[k]
        <4>1. PICK j \in 1..i : latencies[j] = s[m]
          BY <1>10
        <4> QED
          BY <3>3, <4>1
      <3> QED
        BY <3>3, <3>6, <3>7
    <2> QED
      BY <2>1, <2>2, <2>3
  <1> QED
    BY <1>1, <1>4, <1>5, <1>7, <1>8, <1>12 DEF Sorts

InsertsAll(done, latencies, n) ==
    /\ done[0] = <<>>
    /\ \A i \in 1..n : done[i] = Inserted(done[i - 1], latencies[i])

LEMMA SortedInSteps ==
    ASSUME NEW n \in Nat, NEW latencies \in [1..n -> Nat]
    PROVE  \E done : InsertsAll(done, latencies, n) /\ done[n] = FoldLeft(Inserted, <<>>, latencies)
  <1> DEFINE A == Seq(Nat)
             Has(f) == f = [t \in SUBSET (1..n) |->
                              IF t = {} THEN <<>> ELSE Inserted(f[t \ {Max(t)}], latencies[Max(t)])]
             fold == CHOOSE f : Has(f)
  <1>1. <<>> \in A
    OBVIOUS
  <1>2. FoldLeft(Inserted, <<>>, latencies) = fold[1..n]
    <2>1. DOMAIN latencies = 1..n
      OBVIOUS
    <2> QED
      BY <2>1 DEF FoldLeft, MapThenFoldSet
  <1>3. PICK step \in [1..n -> [A -> A]] : \A i \in 1..n : \A d \in A : step[i][d] = Inserted(d, latencies[i])
    <2>1. PICK step : step = [i \in 1..n |-> [d \in A |-> Inserted(d, latencies[i])]]
      OBVIOUS
    <2>2. \A i \in 1..n : \A d \in A : Inserted(d, latencies[i]) \in A
      BY InsertedTyped
    <2>3. step \in [1..n -> [A -> A]]
      BY <2>1, <2>2
    <2> QED
      BY <2>1, <2>3
  <1> HIDE DEF A
  <1>4. PICK f \in [SUBSET (1..n) -> A] : Folds(f, <<>>, step, n)
    BY <1>1, FoldExists
  <1>5. \A t \in SUBSET (1..n) : t # {} => Max(t) \in 1..n
    BY MaxIsIn
  <1>6. Has(f)
    <2>1. ASSUME NEW t \in SUBSET (1..n)
          PROVE  f[t] = IF t = {} THEN <<>> ELSE Inserted(f[t \ {Max(t)}], latencies[Max(t)])
      <3>1. CASE t = {}
        BY <1>4, <3>1 DEF Folds
      <3>2. CASE t # {}
        <4>1. f[t \ {Max(t)}] \in A
          BY <1>4
        <4> QED
          BY <1>3, <1>4, <1>5, <3>2, <4>1 DEF Folds
      <3> QED
        BY <3>1, <3>2
    <2> QED
      BY <1>4, <2>1
  <1>7. Has(fold)
    <2> HIDE DEF Has
    <2> QED
      BY <1>6
  <1>8. \A t \in SUBSET (1..n) :
          fold[t] = IF t = {} THEN <<>> ELSE Inserted(fold[t \ {Max(t)}], latencies[Max(t)])
    <2> HIDE DEF fold
    <2> QED
      BY <1>7
  <1> HIDE DEF fold, Has
  <1>9. FollowsSteps(fold, A, <<>>, step, n)
    <2>1. fold[{}] = <<>>
      <3>1. {} \in SUBSET (1..n)
        OBVIOUS
      <3> QED
        BY <1>8, <3>1
    <2> QED
      BY <1>3, <1>5, <1>8, <2>1 DEF FollowsSteps
  <1>10. PICK done : Passes(done, A, <<>>, step, n) /\ done[n] = fold[1..n]
    BY <1>1, <1>9, FoldInSteps
  <1>11. \A i \in 1..n : i - 1 \in 0..n
    OBVIOUS
  <1>12. InsertsAll(done, latencies, n)
    BY <1>3, <1>10, <1>11 DEF Passes, InsertsAll
  <1> QED
    BY <1>2, <1>10, <1>12

LEMMA FoldSorts ==
    ASSUME NEW n \in Nat, NEW latencies \in [1..n -> Nat]
    PROVE  Sorts(FoldLeft(Inserted, <<>>, latencies), latencies, n)
  <1>1. PICK done : InsertsAll(done, latencies, n) /\ done[n] = FoldLeft(Inserted, <<>>, latencies)
    BY SortedInSteps
  <1> DEFINE Good == {k \in Nat : k <= n => Sorts(done[k], latencies, k)}
  <1>2. 0 \in Good
    <2>1. done[0] = <<>> /\ <<>> \in Seq(Nat) /\ Len(<<>>) = 0
      BY <1>1 DEF InsertsAll
    <2>2. Sorts(done[0], latencies, 0)
      BY <2>1 DEF Sorts, Ascending
    <2> QED
      BY <2>2
  <1>3. ASSUME NEW k \in Good PROVE k + 1 \in Good
    <2> SUFFICES ASSUME k + 1 <= n PROVE Sorts(done[k + 1], latencies, k + 1)
      OBVIOUS
    <2>1. k \in Nat /\ Sorts(done[k], latencies, k)
      OBVIOUS
    <2>2. done[k + 1] = Inserted(done[k], latencies[k + 1])
      <3>1. k + 1 \in 1..n /\ k + 1 - 1 = k
        BY <2>1
      <3> QED
        BY <1>1, <3>1 DEF InsertsAll
    <2>3. \A j \in 1..(k + 1) : latencies[j] \in Nat
      <3>1. \A j \in 1..(k + 1) : j \in 1..n
        BY <2>1
      <3> QED
        BY <3>1
    <2>4. Sorts(Inserted(done[k], latencies[k + 1]), latencies, k + 1)
      BY <2>1, <2>3, SortGrows
    <2> QED
      BY <2>2, <2>4
  <1>4. Good = Nat
    <2>1. Good \in SUBSET Nat
      OBVIOUS
    <2> HIDE DEF Good
    <2> QED
      BY <1>2, <1>3, <2>1, Counting
  <1>5. Sorts(done[n], latencies, n)
    <2>1. n \in Good
      <3> HIDE DEF Good
      <3> QED
        BY <1>4
    <2> QED
      BY <2>1
  <1> QED
    BY <1>1, <1>5

\* The percentile is the least latency that 95 in 100 do not exceed.
LEMMA PercentileIs ==
    ASSUME NEW n \in Nat \ {0}, NEW latencies \in [1..n -> Nat]
    PROVE  LET p95 == Percentile(latencies)
           IN  /\ \E j \in 1..n : latencies[j] = p95
               /\ 100 * Cardinality(AtMost(latencies, n, p95)) >= 95 * n
               /\ \A v \in Nat : v < p95 => ~(100 * Cardinality(AtMost(latencies, n, v)) >= 95 * n)
  <1>1. Len(latencies) = n /\ latencies # <<>>
    OBVIOUS
  <1>2. PICK k \in 1..n : k = PercentileIndex(n) /\ 100 * k >= 95 * n /\ 100 * (k - 1) < 95 * n
    <2>1. PICK q \in Int, r \in 0..99 : q = (95 * n + 99) \div 100 /\ 95 * n + 99 = 100 * q + r
      OBVIOUS
    <2>2. q \in 1..n /\ 100 * q >= 95 * n /\ 100 * (q - 1) < 95 * n
      BY <2>1
    <2> QED
      BY <2>1, <2>2 DEF PercentileIndex
  <1>3. PICK s : s = FoldLeft(Inserted, <<>>, latencies) /\ Sorts(s, latencies, n)
    BY FoldSorts
  <1>4. Percentile(latencies) = s[k]
    BY <1>1, <1>2, <1>3 DEF Percentile
  <1>5. PICK p95 \in Nat : p95 = s[k]
    BY <1>3 DEF Sorts
  <1>6. /\ \E j \in 1..n : latencies[j] = p95
        /\ Cardinality(AtMost(latencies, n, p95)) >= k
        /\ Cardinality(Below(latencies, n, p95)) < k
    BY <1>3, <1>5 DEF Sorts
  <1>7. \A v \in Nat : Cardinality(AtMost(latencies, n, v)) \in Nat /\ Cardinality(Below(latencies, n, v)) \in Nat
    <2>1. IsFiniteSet(1..n)
      BY FS_Interval
    <2>2. \A v \in Nat : AtMost(latencies, n, v) \in SUBSET (1..n) /\ Below(latencies, n, v) \in SUBSET (1..n)
      BY DEF AtMost, Below
    <2> QED
      BY <2>1, <2>2, FS_Subset, FS_CardinalityType
  <1>8. 100 * Cardinality(AtMost(latencies, n, p95)) >= 95 * n
    <2>1. PICK c \in Nat : c = Cardinality(AtMost(latencies, n, p95)) /\ c >= k
      BY <1>6, <1>7
    <2>2. 100 * c >= 95 * n
      BY <1>2, <2>1
    <2> QED
      BY <2>1, <2>2
  <1>9. ASSUME NEW v \in Nat, v < p95 PROVE ~(100 * Cardinality(AtMost(latencies, n, v)) >= 95 * n)
    <2>1. Cardinality(AtMost(latencies, n, v)) <= Cardinality(Below(latencies, n, p95))
      BY <1>9, MonotonicCounts
    <2>2. PICK a \in Nat, b \in Nat :
            /\ a = Cardinality(AtMost(latencies, n, v)) /\ b = Cardinality(Below(latencies, n, p95))
            /\ a <= b /\ b < k
      BY <1>6, <1>7, <2>1
    <2>3. ~(100 * a >= 95 * n)
      BY <1>2, <2>2
    <2> QED
      BY <2>2, <2>3
  <1> QED
    BY <1>4, <1>5, <1>6, <1>8, <1>9

-----------------------------------------------------------------------------
(* The theorems.  What is asked of a function is within the bounds.        *)

AskedWithin ==
    /\ question.of = "backoff" => question.base \in 0..MaxDuration /\ question.max \in 0..MaxDuration
    /\ question.of = "keys" => question.n \in 1..MaxKeys
    /\ question.of = "summary" => question.events \in SeqOf(EventKinds, MaxEvents)
    /\ question.of = "percentile" =>
         {question.low, question.middle, question.high} \subseteq 0..MaxLatencies
    /\ question.of = "names" =>
         question.scope \in Names /\ question.other \in Names /\ question.key \in Names

LEMMA AskedIsWithin == Spec => []AskedWithin
  <1>1. Init => AskedWithin
    BY DEF Init, AskedWithin
  <1>2. AskedWithin /\ [Ask]_question => AskedWithin'
    <2> SUFFICES ASSUME AskedWithin, [Ask]_question PROVE AskedWithin'
      OBVIOUS
    <2>1. CASE AskBackoff
      BY <2>1 DEF AskBackoff, AskedWithin
    <2>2. CASE AskKeys
      BY <2>2 DEF AskKeys, AskedWithin
    <2>3. CASE AskSummary
      BY <2>3 DEF AskSummary, AskedWithin
    <2>4. CASE AskPercentile
      BY <2>4 DEF AskPercentile, AskedWithin
    <2>5. CASE AskNames
      BY <2>5 DEF AskNames, AskedWithin
    <2>6. CASE UNCHANGED question
      BY <2>6 DEF AskedWithin
    <2> QED
      BY <2>1, <2>2, <2>3, <2>4, <2>5, <2>6 DEF Ask
  <1> QED
    BY <1>1, <1>2, PTL DEF Spec

LEMMA BackoffIsRight == AskedWithin => DelaysGrowToTheCap
  <1> SUFFICES ASSUME AskedWithin, question.of = "backoff",
                      0 < question.base, question.base <= question.max,
                      question.max <= MaxDuration \div 2,
                      NEW i \in 1..MaxTries
               PROVE  LET delay == Backoff(question.base, question.max)
                      IN  /\ delay[i] \in question.base..question.max
                          /\ i > 1 => delay[i] > delay[i - 1] \/ delay[i] = question.max
    BY DEF DelaysGrowToTheCap
  <1>1. PICK base \in Nat \ {0}, max \in Nat : base = question.base /\ max = question.max
    BY BoundsAssumption DEF AskedWithin
  <1>2. base <= max /\ 2 * max <= MaxDuration
    <2>1. PICK d \in Nat : d = MaxDuration
      BY BoundsAssumption
    <2>2. max <= d \div 2
      BY <1>1, <2>1
    <2>3. 2 * max <= d
      BY <2>2
    <2> QED
      BY <1>1, <2>1, <2>3
  <1> QED
    BY <1>1, <1>2, BackoffGrows

LEMMA RotationIsRight == AskedWithin => KeysTakeTurns
  <1> SUFFICES ASSUME AskedWithin, question.of = "keys" PROVE KeysTakeTurns
    BY DEF KeysTakeTurns
  <1>1. PICK n \in Nat \ {0} : n = question.n
    BY BoundsAssumption DEF AskedWithin
  <1>2. PICK calls \in Nat \ {0} : calls = 3 * n
    OBVIOUS
  <1>3. PICK current \in [1..calls -> 0..(n - 1)] :
          /\ KeyLists(n, calls) = [c \in 1..calls |-> KeysFrom(current[c], n)]
          /\ \A c \in 1..calls : c # 1 => current[c] = Rotated(current[c - 1], n)
    BY ListsAre
  <1>4. PICK lists : lists = KeyLists(n, calls)
    OBVIOUS
  <1>5. \A c \in 1..calls : lists[c] = KeysFrom(current[c], n) /\ current[c] \in 0..(n - 1)
    BY <1>3, <1>4
  <1>6. ASSUME NEW c \in 1..calls PROVE ToSet(lists[c]) = 0..(n - 1) /\ Len(lists[c]) = n
    <2>1. lists[c] = KeysFrom(current[c], n) /\ current[c] \in 0..(n - 1)
      BY <1>5
    <2> QED
      BY <2>1, ListIsWhole
  <1>7. \A c \in 1..calls : lists[c][1] = current[c]
    BY <1>5, ListIsWhole
  <1>8. ASSUME NEW c \in 1..(2 * n + 1)
        PROVE  Cardinality({lists[d][1] : d \in c..(c + n - 1)}) = n
    <2>1. c \in 1..calls /\ c + n - 1 \in 1..calls
      BY <1>2
    <2>2. {current[d] : d \in c..(c + n - 1)} = 0..(n - 1)
      BY <1>3, <2>1, TurnsAreTaken
    <2>3. \A d \in c..(c + n - 1) : lists[d][1] = current[d]
      BY <1>7, <2>1
    <2>4. {lists[d][1] : d \in c..(c + n - 1)} = 0..(n - 1)
      BY <2>2, <2>3
    <2>5. Cardinality(0..(n - 1)) = n
      <3>1. 0 \in Int /\ n - 1 \in Int /\ 0 <= n - 1 /\ n - 1 - 0 + 1 = n
        OBVIOUS
      <3> QED
        BY <3>1, FS_Interval
    <2> QED
      BY <2>4, <2>5
  <1>9. /\ \A c \in 1..(3 * n) : ToSet(KeyLists(n, 3 * n)[c]) = 0..(n - 1) /\ Len(KeyLists(n, 3 * n)[c]) = n
        /\ \A c \in 1..(2 * n + 1) : Cardinality({KeyLists(n, 3 * n)[d][1] : d \in c..(c + n - 1)}) = n
    BY <1>2, <1>4, <1>6, <1>8, Zenon
  <1> QED
    BY <1>1, <1>9, Zenon DEF KeysTakeTurns

LEMMA StatisticsAreRight == AskedWithin => StatisticsAddUp
  <1> SUFFICES ASSUME AskedWithin PROVE StatisticsAddUp
    OBVIOUS
  <1>1. ASSUME question.of = "summary"
        PROVE  LET summary == Summarize(question.events)
               IN  /\ IsSummaryOf(summary.all, question.events, BOOLEAN)
                   /\ IsSummaryOf(summary.stream, question.events, {TRUE})
                   /\ IsSummaryOf(summary.other, question.events, {FALSE})
                   /\ \A counted \in DOMAIN ModeSummary \ {"max"} :
                        summary.all[counted] = summary.stream[counted] + summary.other[counted]
    <2>1. PICK events \in SeqOf(EventKinds, MaxEvents) : events = question.events
      BY <1>1 DEF AskedWithin
    <2>2. PICK n \in Nat : n = Len(events) /\ DOMAIN events = 1..n
      BY EventsAreSequences
    <2>3. SumsOfAll(Summarize(events), events, n)
      BY <2>2, SummaryIsRight
    <2>4. \A summary, modes : SumsOf(summary, events, modes, n) => IsSummaryOf(summary, events, modes)
      BY <2>2 DEF SumsOf, IsSummaryOf, OfMode
    <2> QED
      BY <2>1, <2>3, <2>4 DEF SumsOfAll
  <1>2. ASSUME question.of = "percentile"
        PROVE  LET NotAbove(bound) == {i \in DOMAIN Latencies : Latencies[i] <= bound}
                   Covers(bound)   == 100 * Cardinality(NotAbove(bound)) >= 95 * Len(Latencies)
                   p95             == Percentile(Latencies)
               IN  \/ Latencies = << >> /\ p95 = 0
                   \/ /\ p95 \in ToSet(Latencies) /\ Covers(p95)
                      /\ \A shorter \in ToSet(Latencies) : shorter < p95 => ~Covers(shorter)
    <2>1. PICK n \in Nat : n = question.low + question.middle + question.high
      BY <1>2, BoundsAssumption DEF AskedWithin
    <2>2. PICK latencies \in [1..n -> Nat] : latencies = Latencies
      BY <2>1 DEF Latencies
    <2>3. DOMAIN latencies = 1..n /\ Len(latencies) = n
      OBVIOUS
    <2>4. \A bound : {i \in DOMAIN latencies : latencies[i] <= bound} = AtMost(latencies, n, bound)
      BY <2>3 DEF AtMost
    <2>5. CASE n = 0
      <3>1. latencies = <<>>
        BY <2>3, <2>5
      <3>2. Percentile(latencies) = 0
        BY <3>1 DEF Percentile
      <3> QED
        BY <2>2, <3>1, <3>2
    <2>6. CASE n # 0
      <3>1. PICK p95 : p95 = Percentile(latencies)
        OBVIOUS
      <3>2. /\ \E j \in 1..n : latencies[j] = p95
            /\ 100 * Cardinality(AtMost(latencies, n, p95)) >= 95 * n
            /\ \A v \in Nat : v < p95 => ~(100 * Cardinality(AtMost(latencies, n, v)) >= 95 * n)
        BY <2>6, <3>1, PercentileIs
      <3>3. \A x : x \in ToSet(latencies) <=> \E j \in 1..n : latencies[j] = x
        BY <2>3 DEF ToSet
      <3>4. \A x \in ToSet(latencies) : x \in Nat
        BY <3>3
      <3>5. 100 * Cardinality({i \in DOMAIN latencies : latencies[i] <= p95}) >= 95 * Len(latencies)
        BY <2>3, <2>4, <3>2, Zenon
      <3>6. ASSUME NEW v \in ToSet(latencies), v < p95
            PROVE  ~(100 * Cardinality({i \in DOMAIN latencies : latencies[i] <= v}) >= 95 * Len(latencies))
        <4>1. ~(100 * Cardinality(AtMost(latencies, n, v)) >= 95 * n)
          BY <3>2, <3>4, <3>6, Zenon
        <4> QED
          BY <2>3, <2>4, <4>1, Zenon
      <3>7. p95 \in ToSet(latencies)
        BY <3>2, <3>3, Zenon
      <3> QED
        BY <2>2, <3>1, <3>5, <3>6, <3>7, Zenon
    <2> QED
      BY <2>5, <2>6
  <1> QED
    BY <1>1, <1>2 DEF StatisticsAddUp

LEMMA NamesAreRight == AskedWithin => ScopesApart
  <1> SUFFICES ASSUME AskedWithin, question.of = "names" PROVE ScopesApart
    BY DEF ScopesApart
  <1>1. PICK scope \in Names, other \in Names, key \in Names :
          scope = question.scope /\ other = question.other /\ key = question.key
    BY DEF AskedWithin
  <1>2. IsPrefix(MemoryPrefix(other), MemoryKey(scope, key)) => other = scope
    BY MemoryScopesApart
  <1>3. ":" \notin ToSet(scope) \cup ToSet(other) =>
          (IsPrefix(StatePrefix(other), StateKey(scope, key)) => other = scope)
    BY RedisScopesApart
  <1>4. ChannelKeyFromStateKey(scope, StateKey(scope, key)) = key
    BY KeysReadBack
  <1> QED
    BY <1>1, <1>2, <1>3, <1>4 DEF ScopesApart

(* With a base that does not pass the cap, and a cap below half of what a   *)
(* duration holds, the back-off between attempts grows until it reaches the *)
(* cap and never passes it, is never negative, and never shrinks, for every *)
(* range of a duration and any number of attempts (src/utils.go:177-190).   *)
THEOREM DelaysAlwaysGrowToTheCap == Spec => []DelaysGrowToTheCap
  BY AskedIsWithin, BackoffIsRight, PTL

(* Of any n requests in a row, n being the number of a channel's keys, each *)
(* is offered every key once and no two the same key first, for any number  *)
(* of keys (src/channel.go:131-146).                                        *)
THEOREM KeysAlwaysTakeTurns == Spec => []KeysTakeTurns
  BY AskedIsWithin, RotationIsRight, PTL

(* The sums of a window are those of its events, over all and per mode, and *)
(* the percentile is the least latency that at least 95 in 100 do not pass, *)
(* for a window of any size and latencies of any length                     *)
(* (src/channel_breaker.go:1012-1098).                                      *)
THEOREM StatisticsAlwaysAddUp == Spec => []StatisticsAddUp
  BY AskedIsWithin, StatisticsAreRight, PTL

(* No entry of a scope is found under another scope's prefix, and a name    *)
(* read back is the channel's key, for scopes and keys of any length: in    *)
(* memory of every scope, in Redis of scopes without a colon                *)
(* (src/channel_breaker.go:933-939, src/channel_breaker_redis.go:246-261).  *)
THEOREM ScopesAlwaysApart == Spec => []ScopesApart
  BY AskedIsWithin, NamesAreRight, PTL

=============================================================================
