-------------------------- MODULE ForwardingProofs --------------------------
(***************************************************************************)
(* What the shared body and the event stream promise: for bodies of any    *)
(* size and any number of attempts, while the response is being forwarded  *)
(* too, and for a stream of any length and any values of its fields.       *)
(*                                                                         *)
(* The first half is about sequences: the k-th of a set of positions,      *)
(* reading a block line by line (FoldIsRaw), writing an event and reading  *)
(* it back (BodySays), the blocks of a text as lines come in               *)
(* (EventsSilent, EventsBlank), and what the client, by the format, and    *)
(* the program make of the same block (SameText, ClientSees).              *)
(***************************************************************************)
EXTENDS Forwarding, FiniteSetTheorems, WellFoundedInduction, SequenceTheorems, TLAPS

-----------------------------------------------------------------------------
(* Counting.  The induction theorems of the library take an operator; this *)
(* one takes a set.                                                        *)

LEMMA LeastNumber ==
    ASSUME NEW S \in SUBSET Nat, S # {}
    PROVE  \E m \in S : \A n \in S : m <= n
  <1> DEFINE Below(m) == 0..(m - 1)
             T == {Below(m) : m \in S}
  <1>1. T \subseteq FiniteSubsetsOf(Nat) /\ T # {}
    <2>1. \A m \in S : Below(m) \in SUBSET Nat /\ IsFiniteSet(Below(m))
      BY FS_Interval
    <2> QED
      BY <2>1 DEF FiniteSubsetsOf
  <1>2. IsWellFoundedOn(StrictSubsetOrdering(Nat), FiniteSubsetsOf(Nat))
    BY FS_StrictSubsetOrderingWellFounded
  <1> HIDE DEF T
  <1>3. PICK t \in T : \A u \in T : ~(<<u, t>> \in StrictSubsetOrdering(Nat))
    BY <1>1, <1>2, WFMin
  <1>4. PICK m \in S : t = Below(m)
    BY <1>3 DEF T
  <1>5. ASSUME NEW n \in S, n < m PROVE FALSE
    <2>1. Below(n) \in T
      BY DEF T
    <2>2. Below(n) \subseteq Below(m) /\ Below(n) # Below(m)
      <3>1. n \in Below(m) /\ n \notin Below(n)
        BY <1>5
      <3>2. Below(n) \subseteq Below(m)
        BY <1>5
      <3> QED
        BY <3>1, <3>2
    <2>3. Below(n) \in SUBSET Nat /\ Below(m) \in SUBSET Nat
      OBVIOUS
    <2> HIDE DEF Below
    <2>4. <<Below(n), Below(m)>> \in StrictSubsetOrdering(Nat)
      BY <2>2, <2>3 DEF StrictSubsetOrdering
    <2> QED
      BY <1>3, <1>4, <2>1, <2>4
  <1> QED
    BY <1>5

LEMMA Counting ==
    ASSUME NEW S \in SUBSET Nat, 0 \in S, \A n \in S : n + 1 \in S
    PROVE  S = Nat
  <1> SUFFICES ASSUME Nat \ S # {} PROVE FALSE
    OBVIOUS
  <1>1. PICK m \in Nat \ S : \A n \in Nat \ S : m <= n
    BY LeastNumber
  <1>2. m # 0 /\ m - 1 \in Nat /\ m - 1 \in S
    BY <1>1
  <1> QED
    BY <1>1, <1>2

-----------------------------------------------------------------------------
(* Positions in a sequence.                                                *)

Rank(S, i) == Cardinality({j \in S : j <= i})

LEMMA PositionsUpTo ==
    ASSUME NEW n \in Nat, NEW S \in SUBSET (1..n)
    PROVE  {j \in S : j <= n} = S
  <1>1. \A j \in S : j <= n
    OBVIOUS
  <1> QED
    BY <1>1

LEMMA PositionsBut ==
    ASSUME NEW m \in Nat, NEW S \in SUBSET (1..(m + 1))
    PROVE  S \ {m + 1} \in SUBSET (1..m)
  OBVIOUS

LEMMA PositionsAnd ==
    ASSUME NEW n \in Nat, NEW m \in Nat, n < m, NEW S \in SUBSET (1..n)
    PROVE  S \cup {m} \in SUBSET (1..m)
  OBVIOUS

LEMMA FinitePositions ==
    ASSUME NEW n \in Nat, NEW S \in SUBSET (1..n)
    PROVE  IsFiniteSet(S) /\ Cardinality(S) \in Nat
  <1>1. IsFiniteSet(1..n)
    BY FS_Interval
  <1>2. IsFiniteSet(S)
    BY <1>1, FS_Subset
  <1> QED
    BY <1>2, FS_CardinalityType

LEMMA RanksGrow ==
    ASSUME NEW n \in Nat, NEW S \in SUBSET (1..n), NEW h \in S, NEW i \in S, h < i
    PROVE  Rank(S, h) # Rank(S, i)
  <1> DEFINE U == {j \in S : j <= h}
             V == {j \in S : j <= i}
  <1>1. IsFiniteSet(V)
    BY FinitePositions
  <1>2. U \in SUBSET V /\ i \in V /\ i \notin U
    <2>1. (\A j \in S : j \in Nat) /\ h \in Nat /\ i \in Nat
      OBVIOUS
    <2>2. \A j \in S : j <= h => j <= i
      BY <2>1
    <2>3. i \in V /\ i \notin U
      BY <2>1
    <2> QED
      BY <2>2, <2>3
  <1> HIDE DEF U, V
  <1>3. Cardinality(U) # Cardinality(V)
    BY <1>1, <1>2, FS_Subset
  <1> QED
    BY <1>3 DEF U, V, Rank

LEMMA Listed ==
    ASSUME NEW X, NEW n \in Nat, NEW f, f = [i \in 1..n |-> f[i]], \A i \in 1..n : f[i] \in X
    PROVE  f \in Seq(X) /\ Len(f) = n
  <1>1. f \in [1..n -> X]
    OBVIOUS
  <1> QED
    BY <1>1

\* The k-th position is the one with k positions up to it.
LEMMA NthIs ==
    ASSUME NEW n \in Nat, NEW S \in SUBSET (1..n), NEW i \in S
    PROVE  Nth(S, Rank(S, i)) = i
  <1> DEFINE m == Nth(S, Rank(S, i))
  <1>1. m \in S /\ Rank(S, m) = Rank(S, i)
    BY DEF Nth, Rank
  <1> HIDE DEF m
  <1>2. ~(m < i) /\ ~(i < m)
    BY <1>1, RanksGrow
  <1>3. m \in Nat /\ i \in Nat
    BY <1>1
  <1>4. m = i
    BY <1>2, <1>3
  <1> QED
    BY <1>4 DEF m

LEMMA RankExists ==
    ASSUME NEW n \in Nat
    PROVE  \A S \in SUBSET (1..n) : \A k \in 1..Cardinality(S) : \E i \in S : Rank(S, i) = k
  <1> DEFINE Holds(m) == \A S \in SUBSET (1..m) : \A k \in 1..Cardinality(S) : \E i \in S : Rank(S, i) = k
             Good == {m \in Nat : Holds(m)}
  <1>1. 0 \in Good
    <2>1. ASSUME NEW S \in SUBSET (1..0) PROVE 1..Cardinality(S) = {}
      <3>1. S = {}
        OBVIOUS
      <3>2. Cardinality(S) = 0
        BY <3>1, FS_EmptySet
      <3> QED
        BY <3>2
    <2> QED
      BY <2>1
  <1>2. ASSUME NEW m \in Good PROVE m + 1 \in Good
    <2> SUFFICES ASSUME NEW S \in SUBSET (1..(m + 1)), NEW k \in 1..Cardinality(S)
                 PROVE  \E i \in S : Rank(S, i) = k
      OBVIOUS
    <2>1. CASE m + 1 \notin S
      <3>1. S \in SUBSET (1..m)
        BY <2>1
      <3> QED
        BY <3>1
    <2>2. CASE m + 1 \in S
      <3>1. PICK T \in SUBSET (1..m) : T = S \ {m + 1}
        BY PositionsBut
      <3>2. Cardinality(S) = Cardinality(T) + 1 /\ Cardinality(T) \in Nat
        <4>1. IsFiniteSet(T) /\ S = T \cup {m + 1} /\ m + 1 \notin T
          BY <2>2, <3>1, FinitePositions
        <4> QED
          BY <4>1, FS_AddElement, FS_CardinalityType
      <3>3. CASE k = Cardinality(S)
        <4>1. {j \in S : j <= m + 1} = S
          BY PositionsUpTo
        <4> QED
          BY <2>2, <3>3, <4>1 DEF Rank
      <3>4. CASE k # Cardinality(S)
        <4>1. k \in 1..Cardinality(T)
          BY <3>2, <3>4
        <4>2. PICK i \in T : Rank(T, i) = k
          BY <4>1
        <4>3. {j \in S : j <= i} = {j \in T : j <= i}
          BY <3>1, <4>2
        <4> QED
          BY <3>1, <4>2, <4>3 DEF Rank
      <3> QED
        BY <3>3, <3>4
    <2> QED
      BY <2>1, <2>2
  <1> HIDE DEF Holds
  <1>3. Good = Nat
    BY <1>1, <1>2, Counting
  <1> QED
    BY <1>3 DEF Holds

LEMMA NthIn ==
    ASSUME NEW n \in Nat, NEW S \in SUBSET (1..n), NEW k \in 1..Cardinality(S)
    PROVE  Nth(S, k) \in S /\ Rank(S, Nth(S, k)) = k
  <1>1. \E i \in S : Rank(S, i) = k
    BY RankExists
  <1> QED
    BY <1>1 DEF Nth, Rank

\* One position more behind the others.
LEMMA NthOfMore ==
    ASSUME NEW n \in Nat, NEW S \in SUBSET (1..n), NEW m \in Nat, n < m
    PROVE  /\ Cardinality(S) \in Nat /\ Cardinality(S \cup {m}) = Cardinality(S) + 1
           /\ \A k \in 1..Cardinality(S) : Nth(S \cup {m}, k) = Nth(S, k)
           /\ Nth(S \cup {m}, Cardinality(S) + 1) = m
  <1>1. PICK T \in SUBSET (1..m) : T = S \cup {m}
    BY PositionsAnd
  <1>2. Cardinality(S) \in Nat /\ Cardinality(T) = Cardinality(S) + 1
    <2>1. IsFiniteSet(S) /\ m \notin S
      BY FinitePositions
    <2> QED
      BY <1>1, <2>1, FS_AddElement, FS_CardinalityType
  <1>3. ASSUME NEW k \in 1..Cardinality(S) PROVE Nth(T, k) = Nth(S, k)
    <2>1. PICK i \in S : i = Nth(S, k) /\ Rank(S, i) = k
      BY NthIn
    <2>2. {j \in T : j <= i} = {j \in S : j <= i}
      BY <1>1
    <2>3. Rank(T, i) = k /\ i \in T
      BY <1>1, <2>1, <2>2 DEF Rank
    <2> QED
      BY <2>1, <2>3, NthIs
  <1>4. Nth(T, Cardinality(S) + 1) = m
    <2>1. {j \in T : j <= m} = T /\ m \in T
      BY <1>1, PositionsUpTo
    <2>2. Rank(T, m) = Cardinality({j \in T : j <= m})
      BY DEF Rank
    <2>3. Rank(T, m) = Cardinality(S) + 1
      BY <1>2, <2>1, <2>2
    <2>4. Nth(T, Rank(T, m)) = m
      BY <2>1, NthIs
    <2> QED
      BY <2>3, <2>4
  <1> QED
    BY <1>1, <1>2, <1>3, <1>4

\* Positions without a gap.
LEMMA NthOfRange ==
    ASSUME NEW a \in Nat, NEW m \in Nat
    PROVE  /\ Cardinality((a + 1)..(a + m)) = m
           /\ \A k \in 1..m : Nth((a + 1)..(a + m), k) = a + k
  <1>1. PICK S \in SUBSET (1..(a + m)) : S = (a + 1)..(a + m)
    OBVIOUS
  <1>2. Cardinality(S) = m
    BY <1>1, FS_Interval
  <1>3. ASSUME NEW k \in 1..m PROVE Nth(S, k) = a + k
    <2>1. {j \in S : j <= a + k} = (a + 1)..(a + k)
      BY <1>1
    <2>2. Cardinality((a + 1)..(a + k)) = k
      BY FS_Interval
    <2>3. Rank(S, a + k) = Cardinality({j \in S : j <= a + k})
      BY DEF Rank
    <2>4. Rank(S, a + k) = k
      BY <2>1, <2>2, <2>3
    <2>5. a + m \in Nat /\ a + k \in S
      BY <1>1
    <2>6. Nth(S, Rank(S, a + k)) = a + k
      BY <2>5, NthIs
    <2> QED
      BY <2>4, <2>6
  <1> QED
    BY <1>1, <1>2, <1>3

LEMMA PickedTyped ==
    ASSUME NEW X, NEW s \in Seq(X), NEW S \in SUBSET (1..Len(s))
    PROVE  Picked(s, S) \in Seq(X) /\ Len(Picked(s, S)) = Cardinality(S)
  <1>0. Len(s) \in Nat
    OBVIOUS
  <1>1. Len(s) \in Nat /\ Cardinality(S) \in Nat
    BY <1>0, FinitePositions
  <1>2. \A k \in 1..Cardinality(S) : Nth(S, k) \in 1..Len(s)
    BY <1>1, NthIn
  <1> QED
    BY <1>1, <1>2 DEF Picked

LEMMA PickedSame ==
    ASSUME NEW n \in Nat, NEW S \in SUBSET (1..n), NEW s, NEW t, \A i \in S : s[i] = t[i]
    PROVE  Picked(s, S) = Picked(t, S)
  <1>1. \A k \in 1..Cardinality(S) : s[Nth(S, k)] = t[Nth(S, k)]
    BY NthIn
  <1> QED
    BY <1>1 DEF Picked

LEMMA PickedMore ==
    ASSUME NEW X, NEW s \in Seq(X), NEW n \in Nat, NEW S \in SUBSET (1..n), NEW m \in (n + 1)..Len(s)
    PROVE  Picked(s, S \cup {m}) = Append(Picked(s, S), s[m])
  <1>1. Len(s) \in Nat /\ m \in Nat /\ n < m /\ s[m] \in X
    OBVIOUS
  <1>2. PICK c \in Nat : c = Cardinality(S)
    BY FinitePositions
  <1>3. PICK T \in SUBSET (1..Len(s)) : T = S \cup {m}
    <2>1. S \cup {m} \in SUBSET (1..m)
      BY <1>1, PositionsAnd
    <2>2. 1..m \subseteq 1..Len(s)
      BY <1>1
    <2> QED
      BY <2>1, <2>2
  <1>4. /\ Cardinality(T) = c + 1
        /\ \A k \in 1..c : Nth(T, k) = Nth(S, k)
        /\ Nth(T, c + 1) = m
    BY <1>1, <1>2, <1>3, NthOfMore
  <1>5. PICK old \in Seq(X) : old = Picked(s, S) /\ Len(old) = c
    <2>1. S \in SUBSET (1..Len(s))
      BY <1>1
    <2> QED
      BY <1>2, <2>1, PickedTyped
  <1>6. PICK new \in Seq(X) : new = Picked(s, T) /\ Len(new) = c + 1
    BY <1>4, PickedTyped
  <1>7. ASSUME NEW k \in 1..(c + 1) PROVE new[k] = Append(old, s[m])[k]
    <2>1. new[k] = s[Nth(T, k)]
      BY <1>4, <1>6 DEF Picked
    <2>2. CASE k = c + 1
      BY <1>1, <1>4, <1>5, <2>1, <2>2
    <2>3. CASE k \in 1..c
      <3>1. old[k] = s[Nth(S, k)]
        BY <1>2, <1>5, <2>3 DEF Picked
      <3> QED
        BY <1>1, <1>4, <1>5, <2>1, <2>3, <3>1
    <2>4. k = c + 1 \/ k \in 1..c
      OBVIOUS
    <2> QED
      BY <2>2, <2>3, <2>4
  <1>8. Append(old, s[m]) \in Seq(X) /\ Len(Append(old, s[m])) = c + 1
    BY <1>1, <1>5
  <1>9. new = Append(old, s[m])
    BY <1>6, <1>7, <1>8, SeqEqual
  <1> QED
    BY <1>3, <1>5, <1>6, <1>9

LEMMA PickedAll ==
    ASSUME NEW X, NEW s \in Seq(X)
    PROVE  Picked(s, 1..Len(s)) = s
  <1>1. DOMAIN s = 1..Len(s) /\ s = [k \in 1..Len(s) |-> s[k]]
    OBVIOUS
  <1>2. PICK n \in Nat : n = Len(s)
    OBVIOUS
  <1>3. 0 \in Nat /\ (0 + 1)..(0 + n) = 1..n
    OBVIOUS
  <1>4. /\ Cardinality((0 + 1)..(0 + n)) = n
        /\ \A k \in 1..n : Nth((0 + 1)..(0 + n), k) = 0 + k
    BY <1>3, NthOfRange
  <1>5. Cardinality(1..n) = n /\ \A k \in 1..n : Nth(1..n, k) = k
    BY <1>3, <1>4
  <1>6. Picked(s, 1..n) = [k \in 1..n |-> s[k]]
    BY <1>5 DEF Picked
  <1> QED
    BY <1>1, <1>2, <1>6

LEMMA LastPosition ==
    ASSUME NEW n \in Nat, NEW S \in SUBSET (1..n), S # {}
    PROVE  \E m \in S : \A j \in S : j <= m
  <1>1. IsFiniteSet(S) /\ Cardinality(S) \in Nat /\ Cardinality(S) # 0
    BY FinitePositions, FS_EmptySet
  <1>2. PICK k \in 1..Cardinality(S) : k = Cardinality(S)
    BY <1>1
  <1>3. PICK m \in S : Rank(S, m) = k
    BY RankExists
  <1>4. {j \in S : j <= m} \in SUBSET S
    OBVIOUS
  <1>5. {j \in S : j <= m} = S
    BY <1>1, <1>2, <1>3, <1>4, FS_Subset DEF Rank
  <1> QED
    BY <1>5

-----------------------------------------------------------------------------
(* What a block says.                                                      *)

FieldsOf(lines, field) == {i \in 1..Len(lines) : lines[i].field = field}

\* Values without space around them.
Trimmed == [text : Texts, padded : {FALSE}]

TrimmedData(lines) ==
    LET data == Picked(lines, FieldsOf(lines, "data"))
    IN  [i \in 1..Len(data) |-> TrimSpace(data[i].value)]

Raw(lines) ==
    [event |-> TrimSpace(LastValue(lines, "event")), id |-> TrimSpace(LastValue(lines, "id")),
     data |-> TrimmedData(lines)]

LEMMA TrimmedValues ==
    /\ Empty \in Trimmed /\ Empty \in Values /\ TrimSpace(Empty) = Empty
    /\ Trimmed \subseteq Values
    /\ \A value \in Values : TrimSpace(value) \in Trimmed
    /\ \A value \in Trimmed : TrimSpace(value) = value
  <1>1. PICK none \in Texts : none = ""
    BY TextsAssumption, Zenon
  <1>2. PICK empty \in Trimmed : empty = [text |-> none, padded |-> FALSE]
    BY DEF Trimmed
  <1>3. Empty = empty
    BY <1>1, <1>2, Zenon DEF Empty
  <1>4. \A value \in Values : TrimSpace(value) \in Trimmed
    BY DEF Trimmed, Values, TrimSpace
  <1>5. \A value \in Trimmed : TrimSpace(value) = value /\ value \in Values
    BY DEF Trimmed, Values, TrimSpace
  <1> QED
    BY <1>3, <1>4, <1>5

LEMMA LinesAre ==
    ASSUME NEW lines \in Seq(Lines)
    PROVE  /\ DOMAIN lines = 1..Len(lines) /\ Len(lines) \in Nat
           /\ \A i \in 1..Len(lines) : lines[i] \in Lines
  OBVIOUS

LEMMA LineTyped ==
    ASSUME NEW line \in Lines
    PROVE  /\ line.value \in Values /\ TrimSpace(line.value) \in Trimmed
           /\ line.field \in {"event", "data", "id", "comment", "blank"}
  <1>1. line.value \in Values /\ line.field \in {"event", "data", "id", "comment", "blank"}
    <2>1. CASE line \in [field : {"event", "data", "id"}, value : Values]
      BY <2>1
    <2>2. CASE line = Blank \/ line = [field |-> "comment", value |-> Empty]
      BY <2>2, TrimmedValues DEF Blank
    <2> QED
      BY <2>1, <2>2 DEF Lines
  <1> QED
    BY <1>1, TrimmedValues

LEMMA OneMoreLine ==
    ASSUME NEW lines \in Seq(Lines), NEW line \in Lines
    PROVE  /\ Append(lines, line) \in Seq(Lines) /\ Len(Append(lines, line)) = Len(lines) + 1
           /\ Append(lines, line)[Len(lines) + 1] = line
           /\ \A i \in 1..Len(lines) : Append(lines, line)[i] = lines[i]
  OBVIOUS

LEMMA FieldsOfMore ==
    ASSUME NEW lines \in Seq(Lines), NEW line \in Lines, NEW field
    PROVE  /\ FieldsOf(lines, field) \in SUBSET (1..Len(lines))
           /\ FieldsOf(Append(lines, line), field) =
                IF line.field = field THEN FieldsOf(lines, field) \cup {Len(lines) + 1}
                ELSE FieldsOf(lines, field)
  <1> DEFINE more == Append(lines, line)
  <1>1. /\ Len(lines) \in Nat /\ Len(more) = Len(lines) + 1 /\ more[Len(lines) + 1] = line
        /\ \A i \in 1..Len(lines) : more[i] = lines[i]
    BY OneMoreLine, LinesAre
  <1> HIDE DEF more
  <1>2. \A i \in 1..Len(more) : i \in 1..Len(lines) \/ i = Len(lines) + 1
    BY <1>1
  <1>3. FieldsOf(more, field) =
          IF line.field = field THEN FieldsOf(lines, field) \cup {Len(lines) + 1}
          ELSE FieldsOf(lines, field)
    BY <1>1, <1>2 DEF FieldsOf
  <1> QED
    BY <1>3 DEF more, FieldsOf

LEMMA LastValueIs ==
    ASSUME NEW lines \in Seq(Lines), NEW field
    PROVE  /\ FieldsOf(lines, field) = {} => LastValue(lines, field) = Empty
           /\ \A m \in FieldsOf(lines, field) :
                (\A j \in FieldsOf(lines, field) : j <= m) => LastValue(lines, field) = lines[m].value
  <1> DEFINE of == FieldsOf(lines, field)
  <1>1. {i \in DOMAIN lines : lines[i].field = field} = of
    BY LinesAre DEF FieldsOf
  <1>2. \A i \in of : i \in Nat
    BY DEF FieldsOf
  <1> HIDE DEF of
  <1>3. ASSUME NEW m \in of, \A j \in of : j <= m
        PROVE  LastValue(lines, field) = lines[m].value
    <2>1. PICK c : c = CHOOSE i \in of : \A j \in of : j <= i
      OBVIOUS
    <2>2. c \in of /\ \A j \in of : j <= c
      BY <1>3, <2>1
    <2>3. c <= m /\ m <= c /\ c \in Nat /\ m \in Nat
      BY <1>2, <1>3, <2>2
    <2>4. c = m
      BY <2>3
    <2>5. of # {}
      OBVIOUS
    <2>6. LastValue(lines, field) = lines[c].value
      BY <1>1, <2>1, <2>5 DEF LastValue
    <2> QED
      BY <2>4, <2>6
  <1>4. of = {} => LastValue(lines, field) = Empty
    BY <1>1 DEF LastValue
  <1> QED
    BY <1>3, <1>4 DEF of

LEMMA LastValueMore ==
    ASSUME NEW lines \in Seq(Lines), NEW line \in Lines, NEW field
    PROVE  LastValue(Append(lines, line), field) =
             IF line.field = field THEN line.value ELSE LastValue(lines, field)
  <1>1. PICK more \in Seq(Lines) : more = Append(lines, line)
    BY OneMoreLine
  <1>2. PICK n \in Nat : n = Len(lines)
    BY LinesAre
  <1>3. /\ Len(more) = n + 1 /\ more[n + 1] = line /\ \A i \in 1..n : more[i] = lines[i]
        /\ FieldsOf(lines, field) \in SUBSET (1..n)
        /\ FieldsOf(more, field) = IF line.field = field THEN FieldsOf(lines, field) \cup {n + 1}
                                   ELSE FieldsOf(lines, field)
    BY <1>1, <1>2, OneMoreLine, FieldsOfMore
  <1>4. CASE line.field = field
    <2>1. n + 1 \in FieldsOf(more, field) /\ \A j \in FieldsOf(more, field) : j <= n + 1
      BY <1>3, <1>4
    <2>2. LastValue(more, field) = more[n + 1].value
      BY <2>1, LastValueIs
    <2> QED
      BY <1>1, <1>3, <1>4, <2>2
  <1>5. CASE line.field # field /\ FieldsOf(lines, field) = {}
    BY <1>1, <1>3, <1>5, LastValueIs
  <1>6. CASE line.field # field /\ FieldsOf(lines, field) # {}
    <2>1. PICK m \in FieldsOf(lines, field) : \A j \in FieldsOf(lines, field) : j <= m
      BY <1>3, <1>6, LastPosition
    <2>2. LastValue(lines, field) = lines[m].value /\ LastValue(more, field) = more[m].value
      BY <1>3, <1>6, <2>1, LastValueIs
    <2>3. more[m] = lines[m]
      BY <1>3
    <2> QED
      BY <1>1, <1>6, <2>2, <2>3
  <1> QED
    BY <1>4, <1>5, <1>6

LEMMA ValuesMore ==
    ASSUME NEW lines \in Seq(Lines), NEW line \in Lines
    PROVE  /\ TrimmedData(lines) \in Seq(Trimmed)
           /\ TrimmedData(Append(lines, line)) =
                IF line.field = "data" THEN Append(TrimmedData(lines), TrimSpace(line.value)) ELSE TrimmedData(lines)
  <1>1. PICK more \in Seq(Lines) : more = Append(lines, line)
    BY OneMoreLine
  <1>2. PICK n \in Nat : n = Len(lines)
    BY LinesAre
  <1>3. PICK of \in SUBSET (1..n) : of = FieldsOf(lines, "data")
    BY <1>2, FieldsOfMore
  <1>4. PICK data \in Seq(Lines) : data = Picked(lines, of)
    BY <1>2, PickedTyped
  <1>5. /\ Len(more) = n + 1 /\ more[n + 1] = line /\ \A i \in 1..n : more[i] = lines[i]
        /\ FieldsOf(more, "data") = IF line.field = "data" THEN of \cup {n + 1} ELSE of
    BY <1>1, <1>2, <1>3, OneMoreLine, FieldsOfMore
  <1>6. Picked(more, of) = data
    <2>1. \A i \in of : more[i] = lines[i]
      BY <1>3, <1>5
    <2> QED
      BY <1>3, <1>4, <2>1, PickedSame
  <1>7. /\ TrimmedData(lines) = [i \in 1..Len(data) |-> TrimSpace(data[i].value)] /\ Len(data) \in Nat
        /\ \A i \in 1..Len(data) : TrimSpace(data[i].value) \in Trimmed
    BY <1>3, <1>4, LineTyped, LinesAre DEF TrimmedData
  <1>8. TrimmedData(lines) \in Seq(Trimmed) /\ Len(TrimmedData(lines)) = Len(data)
    BY <1>7
  <1>9. CASE line.field # "data"
    BY <1>1, <1>3, <1>5, <1>6, <1>7, <1>8, <1>9 DEF TrimmedData
  <1>10. CASE line.field = "data"
    <2>1. Picked(more, of \cup {n + 1}) = Append(data, line)
      <3>1. n + 1 \in (n + 1)..Len(more)
        BY <1>5
      <3> QED
        BY <1>3, <1>5, <1>6, <3>1, PickedMore
    <2>2. TrimmedData(more) = [i \in 1..(Len(data) + 1) |-> TrimSpace(Append(data, line)[i].value)]
      <3>1. PICK next : next = Append(data, line)
        OBVIOUS
      <3>2. TrimmedData(more) = [i \in 1..Len(next) |-> TrimSpace(next[i].value)]
        BY <1>5, <1>10, <2>1, <3>1 DEF TrimmedData
      <3>3. Len(next) = Len(data) + 1
        BY <3>1, OneMoreLine
      <3> QED
        BY <3>1, <3>2, <3>3
    <2>3. TrimSpace(line.value) \in Trimmed
      BY LineTyped
    <2>4. /\ Append(TrimmedData(lines), TrimSpace(line.value)) \in Seq(Trimmed)
          /\ Len(Append(TrimmedData(lines), TrimSpace(line.value))) = Len(data) + 1
      BY <1>8, <2>3
    <2>5. \A i \in 1..(Len(data) + 1) :
            TrimSpace(Append(data, line)[i].value) = Append(TrimmedData(lines), TrimSpace(line.value))[i]
      <3> SUFFICES ASSUME NEW i \in 1..(Len(data) + 1)
                   PROVE  TrimSpace(Append(data, line)[i].value) = Append(TrimmedData(lines), TrimSpace(line.value))[i]
        OBVIOUS
      <3>1. CASE i = Len(data) + 1
        BY <1>7, <1>8, <2>3, <3>1
      <3>2. CASE i \in 1..Len(data)
        BY <1>7, <1>8, <2>3, <3>2
      <3> QED
        BY <1>7, <3>1, <3>2
    <2>6. TrimmedData(more) \in Seq(Trimmed) /\ Len(TrimmedData(more)) = Len(data) + 1
      <3>1. \A i \in 1..(Len(data) + 1) : TrimSpace(Append(data, line)[i].value) \in Trimmed
        BY LineTyped, OneMoreLine, LinesAre
      <3> QED
        BY <1>7, <2>2, <3>1
    <2>7. \A i \in 1..Len(TrimmedData(more)) : TrimmedData(more)[i] = Append(TrimmedData(lines), TrimSpace(line.value))[i]
      BY <2>2, <2>5, <2>6
    <2>8. TrimmedData(more) = Append(TrimmedData(lines), TrimSpace(line.value))
      BY <2>4, <2>6, <2>7, SeqEqual
    <2> QED
      BY <1>1, <1>8, <1>10, <2>8
  <1> QED
    BY <1>9, <1>10

SSEEvent == [event : Trimmed, id : Trimmed, data : Seq(Trimmed)]

\* Reading on is what AddLine does.
LEMMA RawMore ==
    ASSUME NEW lines \in Seq(Lines), NEW line \in Lines
    PROVE  Raw(Append(lines, line)) = AddLine(Raw(lines), line)
  <1>1. line.field \in {"event", "data", "id", "comment", "blank"}
    BY LineTyped
  <1> QED
    BY <1>1, LastValueMore, ValuesMore DEF Raw, AddLine

LEMMA RawNone == Raw(<<>>) = NoEvent
  <1>1. <<>> \in Seq(Lines) /\ \A field : FieldsOf(<<>>, field) = {}
    BY DEF FieldsOf
  <1>2. TrimSpace(LastValue(<<>>, "event")) = Empty /\ TrimSpace(LastValue(<<>>, "id")) = Empty
    BY <1>1, LastValueIs, TrimmedValues
  <1>3. Picked(<<>>, {}) = <<>>
    BY FS_EmptySet DEF Picked
  <1>4. TrimmedData(<<>>) = <<>>
    BY <1>1, <1>3 DEF TrimmedData
  <1> QED
    BY <1>2, <1>4 DEF Raw, NoEvent

LEMMA ReadOn ==
    ASSUME NEW event \in SSEEvent, NEW line \in Lines
    PROVE  AddLine(event, line) \in SSEEvent
  <1>1. TrimSpace(line.value) \in Trimmed /\ Append(event.data, TrimSpace(line.value)) \in Seq(Trimmed)
    BY LineTyped DEF SSEEvent
  <1> QED
    BY <1>1 DEF SSEEvent, AddLine

LEMMA RawOfPicked ==
    ASSUME NEW lines \in Seq(Lines), NEW t \in SUBSET (1..Len(lines)), t # {}
    PROVE  /\ Max(t) \in t
           /\ Raw(Picked(lines, t)) = AddLine(Raw(Picked(lines, t \ {Max(t)})), lines[Max(t)])
  <1>1. Len(lines) \in Nat
    BY LinesAre
  <1>2. PICK m \in t : \A j \in t : j <= m
    BY <1>1, LastPosition
  <1>3. \A j \in t : j \in Nat /\ j \in 1..Len(lines)
    OBVIOUS
  <1>4. m \in Nat /\ \A j \in t : m >= j
    BY <1>2, <1>3
  <1>5. Max(t) = m
    <2>1. PICK c : c = CHOOSE x \in t : \A y \in t : x >= y
      OBVIOUS
    <2>2. c \in t /\ \A y \in t : c >= y
      BY <1>4, <2>1
    <2>3. c \in Nat /\ c >= m /\ m >= c
      BY <1>3, <1>4, <2>2
    <2>4. c = m
      BY <1>4, <2>3
    <2> QED
      BY <2>1, <2>4 DEF Max
  <1>6. PICK n \in Nat : m = n + 1
    <2>1. m - 1 \in Nat /\ m = (m - 1) + 1
      BY <1>2
    <2> QED
      BY <2>1
  <1>7. PICK s \in SUBSET (1..n) : s = t \ {m} /\ t = s \cup {m}
    <2>1. \A j \in t : j # m => j \in 1..n
      BY <1>2, <1>3, <1>6
    <2>2. t \ {m} \in SUBSET (1..n)
      BY <2>1
    <2>3. t = (t \ {m}) \cup {m}
      BY <1>2
    <2> QED
      BY <2>2, <2>3
  <1>8. m \in (n + 1)..Len(lines) /\ m \in 1..Len(lines)
    BY <1>1, <1>2, <1>3, <1>6
  <1>9. Picked(lines, t) = Append(Picked(lines, s), lines[m])
    <2>1. Picked(lines, s \cup {m}) = Append(Picked(lines, s), lines[m])
      BY <1>8, PickedMore, Zenon
    <2> QED
      BY <1>7, <2>1
  <1>10. Picked(lines, s) \in Seq(Lines) /\ lines[m] \in Lines
    <2>1. s \in SUBSET (1..Len(lines))
      BY <1>7
    <2> QED
      BY <1>8, <2>1, PickedTyped, LinesAre
  <1> QED
    BY <1>5, <1>7, <1>9, <1>10, RawMore

\* ParseSSEBlock reads a block line by line; what it gets is what the block says.
LEMMA FoldIsRaw ==
    ASSUME NEW lines \in Seq(Lines)
    PROVE  FoldLeft(AddLine, NoEvent, lines) = Raw(lines)
  <1> DEFINE Folds(f) == f = [t \in SUBSET (1..Len(lines)) |->
                                IF t = {} THEN NoEvent
                                ELSE AddLine(f[t \ {Max(t)}], lines[Max(t)])]
             fold == CHOOSE f : Folds(f)
             raw == [t \in SUBSET (1..Len(lines)) |-> Raw(Picked(lines, t))]
  <1>1. DOMAIN lines = 1..Len(lines) /\ Len(lines) \in Nat
    BY LinesAre
  <1>2. FoldLeft(AddLine, NoEvent, lines) = fold[1..Len(lines)]
    BY <1>1 DEF FoldLeft, MapThenFoldSet
  <1>3. Picked(lines, {}) = <<>>
    BY FS_EmptySet DEF Picked
  <1>4. Folds(raw)
    <2>1. ASSUME NEW t \in SUBSET (1..Len(lines))
          PROVE  Raw(Picked(lines, t)) = IF t = {} THEN NoEvent
                                         ELSE AddLine(raw[t \ {Max(t)}], lines[Max(t)])
      <3>1. CASE t = {}
        BY <1>3, <3>1, RawNone
      <3>2. CASE t # {}
        <4>1. t \ {Max(t)} \in SUBSET (1..Len(lines))
          OBVIOUS
        <4>2. raw[t \ {Max(t)}] = Raw(Picked(lines, t \ {Max(t)}))
          BY <4>1
        <4> HIDE DEF raw
        <4> QED
          BY <3>2, <4>2, RawOfPicked
      <3> QED
        BY <3>1, <3>2
    <2> QED
      BY <2>1
  <1>5. Folds(fold)
    <2> HIDE DEF Folds, raw
    <2> QED
      BY <1>4
  <1>6. ASSUME NEW t \in SUBSET (1..Len(lines))
        PROVE  fold[t] = IF t = {} THEN NoEvent ELSE AddLine(fold[t \ {Max(t)}], lines[Max(t)])
    <2> HIDE DEF fold
    <2> QED
      BY <1>5
  <1> HIDE DEF fold, Folds
  <1> DEFINE Agree(n) == \A t \in SUBSET (1..n) : t \subseteq 1..Len(lines) => fold[t] = Raw(Picked(lines, t))
             Good == {n \in Nat : Agree(n)}
  <1>7. 0 \in Good
    <2>1. ASSUME NEW t \in SUBSET (1..0), t \subseteq 1..Len(lines) PROVE fold[t] = Raw(Picked(lines, t))
      <3>1. t = {}
        OBVIOUS
      <3> QED
        BY <1>3, <1>6, <3>1, RawNone
    <2> QED
      BY <2>1
  <1>8. ASSUME NEW n \in Good PROVE n + 1 \in Good
    <2>1. n \in Nat /\ Agree(n)
      OBVIOUS
    <2>2. ASSUME NEW t \in SUBSET (1..(n + 1)), t \subseteq 1..Len(lines)
          PROVE  fold[t] = Raw(Picked(lines, t))
      <3>1. CASE t = {}
        BY <1>3, <1>6, <3>1, RawNone
      <3>2. CASE t # {}
        <4>1. t \in SUBSET (1..Len(lines))
          BY <2>2
        <4>2. PICK m : m = Max(t)
          OBVIOUS
        <4>3. /\ m \in t
              /\ Raw(Picked(lines, t)) = AddLine(Raw(Picked(lines, t \ {m})), lines[m])
          BY <3>2, <4>1, <4>2, RawOfPicked
        <4>4. t \ {m} \in SUBSET (1..n)
          <5>1. n + 1 \in t => m = n + 1
            <6>1. \A x \in t : x \in 1..(n + 1)
              OBVIOUS
            <6>2. PICK b \in t : \A j \in t : j <= b
              <7>1. n + 1 \in Nat
                BY <2>1
              <7> QED
                BY <3>2, <7>1, LastPosition
            <6>3. \A j \in t : m >= j
              <7>1. \A j \in t : b >= j
                BY <2>1, <6>1, <6>2
              <7> QED
                BY <4>2, <7>1 DEF Max
            <6> QED
              BY <2>1, <4>3, <6>1, <6>3
          <5>2. \A x \in t : x # n + 1 => x \in 1..n
            BY <2>1
          <5>3. \A x \in t \ {m} : x \in 1..n
            BY <5>1, <5>2
          <5> QED
            BY <5>3
        <4>5. t \ {m} \subseteq 1..Len(lines)
          BY <4>1
        <4>6. fold[t \ {m}] = Raw(Picked(lines, t \ {m}))
          BY <2>1, <4>4, <4>5
        <4> QED
          BY <1>6, <3>2, <4>1, <4>2, <4>3, <4>6
      <3> QED
        BY <3>1, <3>2
    <2> QED
      BY <2>1, <2>2
  <1> HIDE DEF Agree
  <1>9. Good = Nat
    BY <1>7, <1>8, Counting
  <1>10. fold[1..Len(lines)] = Raw(Picked(lines, 1..Len(lines)))
    BY <1>1, <1>9 DEF Agree
  <1>11. Picked(lines, 1..Len(lines)) = lines
    BY PickedAll
  <1> QED
    BY <1>2, <1>10, <1>11

LEMMA RawTyped ==
    ASSUME NEW lines \in Seq(Lines)
    PROVE  /\ Raw(lines) \in SSEEvent
           /\ \A field : LastValue(lines, field) \in Values
  <1>1. ASSUME NEW field
        PROVE  LastValue(lines, field) \in Values /\ TrimSpace(LastValue(lines, field)) \in Trimmed
    <2>1. CASE FieldsOf(lines, field) = {}
      <3>1. LastValue(lines, field) = Empty
        BY <2>1, LastValueIs
      <3> QED
        BY <3>1, TrimmedValues
    <2>2. CASE FieldsOf(lines, field) # {}
      <3>1. FieldsOf(lines, field) \in SUBSET (1..Len(lines)) /\ Len(lines) \in Nat
        BY LinesAre DEF FieldsOf
      <3>2. PICK m \in FieldsOf(lines, field) : \A j \in FieldsOf(lines, field) : j <= m
        BY <2>2, <3>1, LastPosition
      <3>3. LastValue(lines, field) = lines[m].value /\ lines[m] \in Lines
        BY <3>1, <3>2, LastValueIs, LinesAre
      <3> QED
        BY <3>3, LineTyped
    <2> QED
      BY <2>1, <2>2
  <1>2. Blank \in Lines
    BY DEF Lines
  <1>3. TrimmedData(lines) \in Seq(Trimmed)
    BY <1>2, ValuesMore
  <1> QED
    BY <1>1, <1>3 DEF Raw, SSEEvent

LEMMA EmptyText == \E none \in Trimmed : none = Empty
  BY TrimmedValues

\* What the program parses is what the block says but for the space, and never a
\* single empty data line.
LEMMA ParsedIs ==
    ASSUME NEW lines \in Seq(Lines)
    PROVE  /\ ParseSSEBlock(lines) = IF Raw(lines).data = <<Empty>> THEN [Raw(lines) EXCEPT !.data = <<>>]
                                     ELSE Raw(lines)
           /\ ParseSSEBlock(lines) \in SSEEvent /\ ParseSSEBlock(lines).data # <<Empty>>
  <1>1. ParseSSEBlock(lines) = IF Raw(lines).data = <<Empty>> THEN [Raw(lines) EXCEPT !.data = <<>>]
                               ELSE Raw(lines)
    BY FoldIsRaw DEF ParseSSEBlock
  <1>2. <<>> # <<Empty>>
    <2>1. Len(<<>>) = 0 /\ Len(<<Empty>>) = 1
      OBVIOUS
    <2> QED
      BY <2>1
  <1>3. Raw(lines) \in SSEEvent /\ <<>> \in Seq(Trimmed)
    BY RawTyped
  <1>4. ParseSSEBlock(lines) \in SSEEvent /\ ParseSSEBlock(lines).data # <<Empty>>
    BY <1>1, <1>2, <1>3 DEF SSEEvent
  <1> QED
    BY <1>1, <1>4

-----------------------------------------------------------------------------
(* What an event is written as says that event.                            *)

Body(event) ==
    Field("event", event.event) \o Field("id", event.id)
      \o [i \in 1..Len(event.data) |-> [field |-> "data", value |-> event.data[i]]]

TextLines == Lines \ {Blank}

LEMMA FieldLine ==
    ASSUME NEW name \in {"event", "data", "id"}, NEW value \in Trimmed
    PROVE  [field |-> name, value |-> value] \in TextLines
  <1>1. [field |-> name, value |-> value] # Blank
    <2>1. [field |-> name, value |-> value].field # "blank" /\ Blank.field = "blank"
      BY DEF Blank
    <2> QED
      BY <2>1
  <1> QED
    BY <1>1, TrimmedValues DEF TextLines, Lines

LEMMA TextLinesAreLines ==
    ASSUME NEW lines \in Seq(TextLines)
    PROVE  lines \in Seq(Lines)
  <1>1. TextLines \subseteq Lines
    BY DEF TextLines
  <1> QED
    BY <1>1, SeqMonotonic

LEMMA FieldSaid ==
    ASSUME NEW lines \in Seq(TextLines), NEW name \in {"event", "id"}, NEW value \in Trimmed
    PROVE  /\ lines \o Field(name, value) \in Seq(TextLines)
           /\ Raw(lines \o Field(name, value)) =
                IF value = Empty THEN Raw(lines)
                ELSE AddLine(Raw(lines), [field |-> name, value |-> value])
  <1>1. lines \in Seq(Lines)
    BY TextLinesAreLines
  <1>2. CASE value = Empty
    <2>1. Field(name, value) = <<>>
      BY <1>2 DEF Field
    <2>2. lines \o <<>> = lines
      BY ConcatEmptySeq
    <2> QED
      BY <1>2, <2>1, <2>2
  <1>3. CASE value # Empty
    <2>1. PICK line \in TextLines : line = [field |-> name, value |-> value]
      BY FieldLine
    <2>2. Field(name, value) = <<line>> /\ line \in Lines
      BY <1>3, <2>1 DEF Field, TextLines
    <2>3. lines \o <<line>> = Append(lines, line) /\ Append(lines, line) \in Seq(TextLines)
      BY AppendIsConcat, AppendProperties
    <2>4. Raw(Append(lines, line)) = AddLine(Raw(lines), line)
      BY <1>1, <2>2, RawMore
    <2> QED
      BY <1>3, <2>1, <2>2, <2>3, <2>4
  <1> QED
    BY <1>2, <1>3

LEMMA DataSaid ==
    ASSUME NEW lines \in Seq(TextLines), Raw(lines).data = <<>>, NEW data \in Seq(Trimmed)
    PROVE  LET more == lines \o [i \in 1..Len(data) |-> [field |-> "data", value |-> data[i]]]
           IN  more \in Seq(TextLines) /\ Raw(more) = [Raw(lines) EXCEPT !.data = data]
  <1> DEFINE Told(k) == [i \in 1..k |-> [field |-> "data", value |-> data[i]]]
             Said(k) == /\ lines \o Told(k) \in Seq(TextLines)
                        /\ Raw(lines \o Told(k)) = [Raw(lines) EXCEPT !.data = SubSeq(data, 1, k)]
             Good == {k \in Nat : k <= Len(data) => Said(k)}
  <1>1. Len(data) \in Nat /\ \A i \in 1..Len(data) : data[i] \in Trimmed
    OBVIOUS
  <1>2. Raw(lines) \in SSEEvent
    BY TextLinesAreLines, RawTyped
  <1>3. 0 \in Good
    <2>1. Told(0) = <<>> /\ SubSeq(data, 1, 0) = <<>>
      OBVIOUS
    <2>2. lines \o <<>> = lines
      BY ConcatEmptySeq
    <2>3. Raw(lines) = [Raw(lines) EXCEPT !.data = <<>>]
      BY <1>2 DEF SSEEvent
    <2> HIDE DEF Told
    <2> QED
      BY <2>1, <2>2, <2>3
  <1>4. ASSUME NEW k \in Good PROVE k + 1 \in Good
    <2> SUFFICES ASSUME k + 1 <= Len(data) PROVE Said(k + 1)
      OBVIOUS
    <2>1. Said(k) /\ k \in Nat /\ k + 1 \in 1..Len(data)
      BY <1>1
    <2>2. PICK line \in TextLines : line = [field |-> "data", value |-> data[k + 1]]
      BY <1>1, <2>1, FieldLine
    <2>3. \A i \in 1..k : [field |-> "data", value |-> data[i]] \in TextLines
      BY <1>1, <2>1, FieldLine
    <2>4. Told(k) \in Seq(TextLines) /\ Len(Told(k)) = k
      BY <2>1, <2>3
    <2>5. Told(k + 1) = Append(Told(k), line)
      BY <2>1, <2>2
    <2> HIDE DEF Told
    <2>6. lines \o Append(Told(k), line) = Append(lines \o Told(k), line)
      <3>1. Append(Told(k), line) = Told(k) \o <<line>> /\ <<line>> \in Seq(TextLines)
        BY <2>4, AppendIsConcat
      <3>2. Append(lines \o Told(k), line) = (lines \o Told(k)) \o <<line>>
        BY <2>1, AppendIsConcat
      <3> QED
        BY <2>4, <3>1, <3>2, ConcatAssociative
    <2>7. Raw(Append(lines \o Told(k), line)) = AddLine(Raw(lines \o Told(k)), line)
      <3>1. lines \o Told(k) \in Seq(Lines) /\ line \in Lines
        BY <2>1, TextLinesAreLines DEF TextLines
      <3> QED
        BY <3>1, RawMore
    <2>8. SubSeq(data, 1, k + 1) = Append(SubSeq(data, 1, k), data[k + 1])
      BY <1>1, <2>1
    <2>9. AddLine([Raw(lines) EXCEPT !.data = SubSeq(data, 1, k)], line) =
            [Raw(lines) EXCEPT !.data = SubSeq(data, 1, k + 1)]
      <3>1. line.field = "data" /\ TrimSpace(line.value) = data[k + 1]
        BY <1>1, <2>1, <2>2, TrimmedValues
      <3> QED
        BY <1>2, <2>8, <3>1 DEF AddLine, SSEEvent
    <2>10. Append(lines \o Told(k), line) \in Seq(TextLines)
      BY <2>1, AppendProperties
    <2> QED
      BY <2>1, <2>5, <2>6, <2>7, <2>9, <2>10
  <1> HIDE DEF Said
  <1>5. Good = Nat
    BY <1>3, <1>4, Counting
  <1>6. Said(Len(data))
    BY <1>1, <1>5
  <1>7. SubSeq(data, 1, Len(data)) = data
    BY SubSeqFull
  <1> QED
    BY <1>6, <1>7 DEF Said

LEMMA NothingYet ==
    /\ <<>> \in Seq(TextLines) /\ Raw(<<>>) = NoEvent
    /\ \E none \in Trimmed : none = Empty /\ NoEvent = [event |-> none, id |-> none, data |-> <<>>]
  <1>1. <<>> \in Seq(TextLines)
    BY EmptySeq
  <1>2. PICK none \in Trimmed : none = Empty
    BY EmptyText
  <1>3. NoEvent = [event |-> none, id |-> none, data |-> <<>>]
    BY <1>2, Zenon DEF NoEvent
  <1> QED
    BY <1>1, <1>2, <1>3, RawNone

LEMMA BodyRaw ==
    ASSUME NEW event \in SSEEvent
    PROVE  Body(event) \in Seq(TextLines) /\ Raw(Body(event)) = event
  <1>1. /\ event.event \in Trimmed /\ event.id \in Trimmed /\ event.data \in Seq(Trimmed)
        /\ event = [event |-> event.event, id |-> event.id, data |-> event.data]
    BY DEF SSEEvent
  <1>2. PICK name \in Trimmed, id \in Trimmed, data \in Seq(Trimmed) :
          /\ event.event = name /\ event.id = id /\ event.data = data
          /\ event = [event |-> name, id |-> id, data |-> data]
    BY <1>1
  <1>3. PICK none \in Trimmed : none = Empty /\ NoEvent = [event |-> none, id |-> none, data |-> <<>>]
    BY NothingYet
  <1>4. <<>> \in Seq(TextLines) /\ Raw(<<>>) = [event |-> none, id |-> none, data |-> <<>>]
    BY <1>3, NothingYet
  <1>5. PICK one : one = <<>> \o Field("event", name)
    OBVIOUS
  <1>6. one \in Seq(TextLines) /\ Raw(one) = [event |-> name, id |-> none, data |-> <<>>]
    <2>1. /\ one \in Seq(TextLines)
          /\ Raw(one) = IF name = none THEN Raw(<<>>)
                        ELSE AddLine(Raw(<<>>), [field |-> "event", value |-> name])
      BY <1>2, <1>3, <1>4, <1>5, FieldSaid, Zenon
    <2>2. AddLine([event |-> none, id |-> none, data |-> <<>>], [field |-> "event", value |-> name])
            = [event |-> name, id |-> none, data |-> <<>>]
      <3>1. TrimSpace(name) = name
        BY TrimmedValues
      <3> QED
        BY <3>1 DEF AddLine
    <2> QED
      BY <1>4, <2>1, <2>2
  <1>7. PICK two : two = one \o Field("id", id)
    OBVIOUS
  <1>8. two \in Seq(TextLines) /\ Raw(two) = [event |-> name, id |-> id, data |-> <<>>]
    <2>1. /\ two \in Seq(TextLines)
          /\ Raw(two) = IF id = none THEN Raw(one)
                        ELSE AddLine(Raw(one), [field |-> "id", value |-> id])
      BY <1>2, <1>3, <1>6, <1>7, FieldSaid, Zenon
    <2>2. AddLine([event |-> name, id |-> none, data |-> <<>>], [field |-> "id", value |-> id])
            = [event |-> name, id |-> id, data |-> <<>>]
      <3>1. TrimSpace(id) = id
        BY TrimmedValues
      <3> QED
        BY <3>1 DEF AddLine
    <2> QED
      BY <1>6, <2>1, <2>2
  <1>9. PICK told : told = [i \in 1..Len(data) |-> [field |-> "data", value |-> data[i]]]
    OBVIOUS
  <1>10. two \o told \in Seq(TextLines) /\ Raw(two \o told) = [Raw(two) EXCEPT !.data = data]
    <2>1. Raw(two).data = <<>>
      <3>1. PICK empty : empty = <<>>
        OBVIOUS
      <3>2. Raw(two) = [event |-> name, id |-> id, data |-> empty]
        BY <1>8, <3>1, Zenon
      <3>3. Raw(two).data = empty
        BY <3>2
      <3> QED
        BY <3>1, <3>3, Zenon
    <2> QED
      BY <1>2, <1>8, <1>9, <2>1, DataSaid
  <1>11. Raw(two \o told) = [event |-> name, id |-> id, data |-> data]
    BY <1>8, <1>10
  <1>12. <<>> \o Field("event", name) = Field("event", name)
    <2>1. PICK line \in TextLines : line = [field |-> "event", value |-> name]
      BY <1>2, FieldLine
    <2>2. Field("event", name) \in {<<>>, <<line>>}
      BY <2>1 DEF Field
    <2>3. <<line>> \in Seq(TextLines) /\ <<>> \in Seq(TextLines)
      BY EmptySeq, AppendIsConcat, <1>4
    <2>4. <<>> \o <<line>> = <<line>> /\ <<>> \o <<>> = <<>>
      BY <2>3, ConcatEmptySeq
    <2> QED
      BY <2>2, <2>4
  <1>13. Body(event) = two \o told
    BY <1>2, <1>5, <1>7, <1>9, <1>12, Zenon DEF Body
  <1> QED
    BY <1>2, <1>10, <1>11, <1>13

LEMMA BodySays ==
    ASSUME NEW event \in SSEEvent, event.data # <<Empty>>
    PROVE  /\ Body(event) \in Seq(TextLines) /\ ParseSSEBlock(Body(event)) = event
           /\ SSELines(event) = Append(Body(event), Blank)
  <1>1. Body(event) \in Seq(TextLines) /\ Raw(Body(event)) = event
    BY BodyRaw
  <1>2. Body(event) \in Seq(Lines)
    BY <1>1, TextLinesAreLines
  <1>3. ParseSSEBlock(Body(event)) = event
    BY <1>1, <1>2, ParsedIs, Zenon
  <1>4. SSELines(event) = Body(event) \o <<Blank>>
    <2>1. DOMAIN event.data = 1..Len(event.data)
      BY LenProperties DEF SSEEvent
    <2> QED
      BY <2>1, Zenon DEF SSELines, Body
  <1>5. Append(Body(event), Blank) = Body(event) \o <<Blank>>
    <2>1. Blank \in Lines
      BY DEF Lines
    <2> QED
      BY <1>2, <2>1, AppendIsConcat
  <1> QED
    BY <1>1, <1>3, <1>4, <1>5

-----------------------------------------------------------------------------
(* Blocks, as lines come in.                                               *)

BlanksOf(lines) == {i \in 1..Len(lines) : lines[i] = Blank}

\* The lines since the last blank one.
Unfinished(lines, rest) ==
    \E n \in 0..Len(lines) :
        /\ n = 0 \/ lines[n] = Blank
        /\ \A i \in (n + 1)..Len(lines) : lines[i] # Blank
        /\ rest = SubSeq(lines, n + 1, Len(lines))

\* The events the program makes of the complete blocks of a text.
Shown(lines) ==
    LET blocks == Blocks(lines)
    IN  Seen([k \in DOMAIN blocks |-> ParseSSEBlock(blocks[k])])

LEMMA PartOf ==
    ASSUME NEW lines \in Seq(Lines), NEW a \in Nat \ {0}, NEW b \in Int, b <= Len(lines)
    PROVE  /\ SubSeq(lines, a, b) \in Seq(Lines)
           /\ SubSeq(lines, a, b) = [i \in 1..(b - a + 1) |-> lines[a + i - 1]]
           /\ a <= b + 1 => Len(SubSeq(lines, a, b)) = b - a + 1
  <1>1. Len(lines) \in Nat /\ \A i \in 1..Len(lines) : lines[i] \in Lines
    BY LinesAre
  <1>2. CASE a <= b
    BY <1>1, <1>2, SubSeqProperties
  <1>3. CASE b < a
    BY <1>1, <1>3
  <1> QED
    BY <1>2, <1>3

LEMMA SamePart ==
    ASSUME NEW lines \in Seq(Lines), NEW all \in Seq(Lines), NEW a \in Nat \ {0}, NEW b \in Int,
           b <= Len(lines), Len(lines) <= Len(all),
           \A i \in 1..Len(lines) : all[i] = lines[i]
    PROVE  SubSeq(all, a, b) = SubSeq(lines, a, b)
  <1>1. Len(lines) \in Nat /\ Len(all) \in Nat
    BY LinesAre
  <1>2. b <= Len(all)
    BY <1>1
  <1>3. \A i \in 1..(b - a + 1) : a + i - 1 \in 1..Len(lines)
    BY <1>1
  <1>4. [i \in 1..(b - a + 1) |-> all[a + i - 1]] = [i \in 1..(b - a + 1) |-> lines[a + i - 1]]
    BY <1>3
  <1> QED
    BY <1>2, <1>4, PartOf

\* The blocks of a text are not changed by what is added to it, but for those
\* that its own blank lines complete.
LEMMA BlocksKept ==
    ASSUME NEW lines \in Seq(Lines), NEW all \in Seq(Lines), Len(lines) <= Len(all),
           \A i \in 1..Len(lines) : all[i] = lines[i],
           \A k \in 1..Cardinality(BlanksOf(lines)) : Nth(BlanksOf(all), k) = Nth(BlanksOf(lines), k),
           NEW k \in 1..Cardinality(BlanksOf(lines)),
           k \in 1..Cardinality(BlanksOf(all))
    PROVE  k \in DOMAIN Blocks(all) /\ k \in DOMAIN Blocks(lines) /\ Blocks(all)[k] = Blocks(lines)[k]
  <1>1. Len(lines) \in Nat /\ DOMAIN lines = 1..Len(lines) /\ DOMAIN all = 1..Len(all)
    BY LinesAre
  <1>2. PICK blanks \in SUBSET (1..Len(lines)) : blanks = BlanksOf(lines)
    BY DEF BlanksOf
  <1>3. {i \in DOMAIN lines : lines[i] = Blank} = blanks /\ {i \in DOMAIN all : all[i] = Blank} = BlanksOf(all)
    BY <1>1, <1>2 DEF BlanksOf
  <1>4. PICK a : a = IF k = 1 THEN 1 ELSE Nth(blanks, k - 1) + 1
    OBVIOUS
  <1>5. Cardinality(blanks) \in Nat
    BY <1>1, <1>2, FinitePositions
  <1>6. k # 1 => k - 1 \in 1..Cardinality(blanks)
    BY <1>2, <1>5
  <1>7. Nth(blanks, k) \in 1..Len(lines) /\ (k # 1 => Nth(blanks, k - 1) \in 1..Len(lines))
    BY <1>1, <1>2, <1>6, NthIn
  <1>8. a \in Nat \ {0} /\ Nth(blanks, k) - 1 \in Int /\ Nth(blanks, k) - 1 <= Len(lines)
    BY <1>1, <1>4, <1>7
  <1>9. SubSeq(all, a, Nth(blanks, k) - 1) = SubSeq(lines, a, Nth(blanks, k) - 1)
    BY <1>8, SamePart
  <1>10. k \in DOMAIN Blocks(lines) /\ Blocks(lines)[k] = SubSeq(lines, a, Nth(blanks, k) - 1)
    BY <1>2, <1>3, <1>4 DEF Blocks
  <1>11. k \in DOMAIN Blocks(all) /\ Blocks(all)[k] = SubSeq(all, a, Nth(blanks, k) - 1)
    <2>1. Nth(BlanksOf(all), k) = Nth(blanks, k)
      BY <1>2
    <2>2. k # 1 => Nth(BlanksOf(all), k - 1) = Nth(blanks, k - 1)
      BY <1>2, <1>6
    <2> QED
      BY <1>3, <1>4, <2>1, <2>2 DEF Blocks
  <1> QED
    BY <1>9, <1>10, <1>11

LEMMA BlocksCount ==
    ASSUME NEW lines \in Seq(Lines)
    PROVE  DOMAIN Blocks(lines) = 1..Cardinality(BlanksOf(lines)) /\ Cardinality(BlanksOf(lines)) \in Nat
           /\ Blocks(lines) = [k \in 1..Cardinality(BlanksOf(lines)) |-> Blocks(lines)[k]]
  <1>1. Len(lines) \in Nat /\ DOMAIN lines = 1..Len(lines)
    BY LinesAre
  <1>2. PICK blanks \in SUBSET (1..Len(lines)) : blanks = BlanksOf(lines)
    BY DEF BlanksOf
  <1>3. {i \in DOMAIN lines : lines[i] = Blank} = blanks
    BY <1>1, <1>2 DEF BlanksOf
  <1>4. Cardinality(blanks) \in Nat
    BY <1>1, <1>2, FinitePositions
  <1>5. DOMAIN Blocks(lines) = 1..Cardinality(blanks)
    BY <1>3 DEF Blocks
  <1>6. Blocks(lines) = [k \in DOMAIN Blocks(lines) |-> Blocks(lines)[k]]
    BY DEF Blocks
  <1> QED
    BY <1>2, <1>4, <1>5, <1>6

LEMMA LinesAdded ==
    ASSUME NEW lines \in Seq(Lines), NEW more \in Seq(TextLines)
    PROVE  /\ lines \o more \in Seq(Lines) /\ Len(lines \o more) = Len(lines) + Len(more)
           /\ Len(lines) \in Nat /\ Len(more) \in Nat
           /\ \A i \in 1..Len(lines) : (lines \o more)[i] = lines[i]
           /\ \A i \in (Len(lines) + 1)..(Len(lines) + Len(more)) :
                (lines \o more)[i] = more[i - Len(lines)] /\ (lines \o more)[i] # Blank
           /\ BlanksOf(lines \o more) = BlanksOf(lines)
  <1>1. more \in Seq(Lines) /\ Len(lines) \in Nat /\ Len(more) \in Nat
    BY TextLinesAreLines, LinesAre
  <1>2. PICK all \in Seq(Lines) : all = lines \o more
    BY <1>1, ConcatProperties
  <1>3. /\ Len(all) = Len(lines) + Len(more)
        /\ \A i \in 1..(Len(lines) + Len(more)) :
             all[i] = IF i <= Len(lines) THEN lines[i] ELSE more[i - Len(lines)]
    BY <1>1, <1>2, ConcatProperties
  <1>4. \A i \in 1..Len(lines) : all[i] = lines[i]
    BY <1>1, <1>3
  <1>5. ASSUME NEW i \in (Len(lines) + 1)..(Len(lines) + Len(more))
        PROVE  all[i] = more[i - Len(lines)] /\ all[i] # Blank
    <2>1. i - Len(lines) \in 1..Len(more) /\ ~(i <= Len(lines)) /\ i \in 1..(Len(lines) + Len(more))
      BY <1>1
    <2>2. all[i] = more[i - Len(lines)]
      BY <1>3, <2>1
    <2>3. more[i - Len(lines)] \in TextLines
      BY <2>1, ElementOfSeq
    <2> QED
      BY <2>2, <2>3 DEF TextLines
  <1>6. BlanksOf(all) = BlanksOf(lines)
    <2>1. \A i \in 1..Len(all) : i \notin 1..Len(lines) => i \in (Len(lines) + 1)..(Len(lines) + Len(more))
      BY <1>1, <1>3
    <2>2. \A i \in 1..Len(lines) : i \in 1..Len(all)
      BY <1>1, <1>3
    <2> QED
      BY <1>4, <1>5, <2>1, <2>2 DEF BlanksOf
  <1> QED
    BY <1>1, <1>2, <1>3, <1>4, <1>5, <1>6

LEMMA RestOf ==
    ASSUME NEW lines \in Seq(Lines), NEW n \in 0..Len(lines)
    PROVE  /\ SubSeq(lines, n + 1, Len(lines)) \in Seq(Lines)
           /\ Len(SubSeq(lines, n + 1, Len(lines))) = Len(lines) - n
           /\ \A i \in 1..(Len(lines) - n) : SubSeq(lines, n + 1, Len(lines))[i] = lines[n + i]
  <1>1. PICK a \in Nat \ {0}, b \in Int : a = n + 1 /\ b = Len(lines)
    BY LinesAre
  <1>2. /\ SubSeq(lines, a, b) \in Seq(Lines)
        /\ SubSeq(lines, a, b) = [i \in 1..(b - a + 1) |-> lines[a + i - 1]]
        /\ Len(SubSeq(lines, a, b)) = b - a + 1
    <2>1. b <= Len(lines) /\ a <= b + 1
      BY <1>1, LinesAre
    <2> QED
      BY <2>1, PartOf
  <1>3. b - a + 1 = Len(lines) - n /\ \A i \in 1..(Len(lines) - n) : a + i - 1 = n + i
    BY <1>1, LinesAre
  <1> QED
    BY <1>1, <1>2, <1>3

\* Lines that are not blank complete nothing.
LEMMA EventsSilent ==
    ASSUME NEW lines \in Seq(Lines), NEW more \in Seq(TextLines)
    PROVE  /\ Shown(lines \o more) = Shown(lines)
           /\ \A rest : Unfinished(lines, rest) => Unfinished(lines \o more, rest \o more)
  <1>1. PICK all \in Seq(Lines) : all = lines \o more
    BY LinesAdded
  <1>2. /\ Len(all) = Len(lines) + Len(more)
        /\ Len(lines) \in Nat /\ Len(more) \in Nat
        /\ \A i \in 1..Len(lines) : all[i] = lines[i]
        /\ \A i \in (Len(lines) + 1)..(Len(lines) + Len(more)) :
             all[i] = more[i - Len(lines)] /\ all[i] # Blank
        /\ BlanksOf(all) = BlanksOf(lines)
    BY <1>1, LinesAdded, Zenon
  <1>3. Blocks(all) = Blocks(lines)
    <2>1. \A k \in 1..Cardinality(BlanksOf(lines)) : Blocks(all)[k] = Blocks(lines)[k]
      <3>1. Len(lines) <= Len(all)
        BY <1>2
      <3> QED
        BY <1>2, <3>1, BlocksKept
    <2>2. [k \in 1..Cardinality(BlanksOf(lines)) |-> Blocks(all)[k]] =
            [k \in 1..Cardinality(BlanksOf(lines)) |-> Blocks(lines)[k]]
      BY <2>1
    <2>3. Blocks(all) = [k \in 1..Cardinality(BlanksOf(lines)) |-> Blocks(all)[k]]
      BY <1>2, BlocksCount, Zenon
    <2>4. Blocks(lines) = [k \in 1..Cardinality(BlanksOf(lines)) |-> Blocks(lines)[k]]
      BY BlocksCount, Zenon
    <2> QED
      BY <2>2, <2>3, <2>4, Zenon
  <1>4. ASSUME NEW rest, Unfinished(lines, rest) PROVE Unfinished(all, rest \o more)
    <2>1. PICK n \in 0..Len(lines) :
            /\ n = 0 \/ lines[n] = Blank
            /\ \A i \in (n + 1)..Len(lines) : lines[i] # Blank
            /\ rest = SubSeq(lines, n + 1, Len(lines))
      BY <1>4 DEF Unfinished
    <2>2. n \in Nat /\ n + 1 \in Nat \ {0} /\ Len(lines) \in Int /\ Len(all) \in Int
            /\ n + 1 <= Len(lines) + 1 /\ n + 1 <= Len(all) + 1
      BY <1>2
    <2>3. /\ rest \in Seq(Lines) /\ Len(rest) = Len(lines) - n
          /\ \A i \in 1..(Len(lines) - n) : rest[i] = lines[n + i]
      BY <2>1, RestOf
    <2>4. PICK end \in Seq(Lines) :
            /\ end = SubSeq(all, n + 1, Len(all)) /\ Len(end) = Len(all) - n
            /\ \A i \in 1..(Len(all) - n) : end[i] = all[n + i]
      <3>1. n \in 0..Len(all)
        BY <1>2
      <3> QED
        BY <3>1, RestOf
    <2>5. /\ rest \o more \in Seq(Lines)
          /\ Len(rest \o more) = Len(rest) + Len(more)
          /\ \A i \in 1..(Len(rest) + Len(more)) :
               (rest \o more)[i] = IF i <= Len(rest) THEN rest[i] ELSE more[i - Len(rest)]
      BY <2>3, TextLinesAreLines, ConcatProperties
    <2>6. ASSUME NEW i \in 1..(Len(all) - n)
          PROVE  all[n + i] = IF i <= Len(rest) THEN rest[i] ELSE more[i - Len(rest)]
      <3>1. CASE i <= Len(rest)
        <4>1. i \in 1..(Len(lines) - n) /\ n + i \in 1..Len(lines)
          BY <1>2, <2>2, <2>3, <3>1
        <4> QED
          BY <1>2, <2>3, <3>1, <4>1
      <3>2. CASE ~(i <= Len(rest))
        <4>1. n + i \in (Len(lines) + 1)..(Len(lines) + Len(more)) /\ n + i - Len(lines) = i - Len(rest)
          BY <1>2, <2>2, <2>3, <3>2
        <4> QED
          BY <1>2, <3>2, <4>1
      <3> QED
        BY <3>1, <3>2
    <2>7. rest \o more = SubSeq(all, n + 1, Len(all))
      <3>1. Len(rest) + Len(more) = Len(all) - n
        BY <1>2, <2>2, <2>3
      <3>2. \A i \in 1..(Len(all) - n) : (rest \o more)[i] = end[i]
        BY <2>4, <2>5, <2>6, <3>1
      <3>3. PICK sum \in Seq(Lines) : sum = rest \o more
        BY <2>5
      <3>4. Len(sum) = Len(end) /\ \A i \in 1..Len(sum) : sum[i] = end[i]
        BY <2>4, <2>5, <3>1, <3>2, <3>3
      <3>5. sum = end
        BY <3>4, SeqEqual
      <3> QED
        BY <2>4, <3>3, <3>5
    <2>8. n \in 0..Len(all) /\ (n = 0 \/ all[n] = Blank)
      BY <1>2, <2>1, <2>2
    <2>9. \A i \in (n + 1)..Len(all) : all[i] # Blank
      <3>1. \A i \in (n + 1)..Len(all) :
              \/ i \in 1..Len(lines) /\ i \in (n + 1)..Len(lines)
              \/ i \in (Len(lines) + 1)..(Len(lines) + Len(more))
        BY <1>2, <2>2
      <3> QED
        BY <1>2, <2>1, <3>1
    <2> QED
      BY <2>7, <2>8, <2>9 DEF Unfinished
  <1>5. Shown(all) = Shown(lines)
    BY <1>3 DEF Shown
  <1> QED
    BY <1>1, <1>4, <1>5

LEMMA SeenMore ==
    ASSUME NEW events \in Seq(SSEEvent), NEW event \in SSEEvent
    PROVE  /\ Seen(events) \in Seq(SSEEvent)
           /\ Seen(Append(events, event)) =
                IF IsSeen(event) THEN Append(Seen(events), event) ELSE Seen(events)
  <1>1. PICK n \in Nat : n = Len(events)
    OBVIOUS
  <1>2. PICK more \in Seq(SSEEvent) : more = Append(events, event)
    BY AppendProperties
  <1>3. /\ Len(more) = n + 1 /\ more[n + 1] = event
        /\ \A i \in 1..n : more[i] = events[i]
    BY <1>1, <1>2, AppendProperties
  <1>4. DOMAIN events = 1..n /\ DOMAIN more = 1..(n + 1)
    BY <1>1, <1>3, LenProperties
  <1>5. PICK seen \in SUBSET (1..n) : seen = {i \in DOMAIN events : IsSeen(events[i])}
    BY <1>4
  <1>6. Seen(events) = Picked(events, seen) /\ Picked(events, seen) = Picked(more, seen)
    <2>1. \A i \in seen : events[i] = more[i]
      BY <1>3
    <2> QED
      BY <1>5, <2>1, PickedSame DEF Seen
  <1>7. Seen(events) \in Seq(SSEEvent)
    BY <1>1, <1>5, <1>6, PickedTyped
  <1>8. {i \in DOMAIN more : IsSeen(more[i])} = IF IsSeen(event) THEN seen \cup {n + 1} ELSE seen
    <2>1. \A i : i \in 1..(n + 1) <=> i \in 1..n \/ i = n + 1
      OBVIOUS
    <2>2. n + 1 \notin 1..n
      OBVIOUS
    <2> QED
      BY <1>3, <1>4, <1>5, <2>1, <2>2
  <1>9. CASE IsSeen(event)
    <2>1. Picked(more, seen \cup {n + 1}) = Append(Picked(more, seen), more[n + 1])
      <3>1. n + 1 \in (n + 1)..Len(more)
        BY <1>3
      <3> QED
        BY <3>1, PickedMore
    <2> QED
      BY <1>2, <1>3, <1>6, <1>7, <1>8, <1>9, <2>1 DEF Seen
  <1>10. CASE ~IsSeen(event)
    BY <1>2, <1>6, <1>7, <1>8, <1>10 DEF Seen
  <1> QED
    BY <1>9, <1>10

LEMMA SeenAlone ==
    ASSUME NEW event \in SSEEvent
    PROVE  /\ Seen(<<>>) = <<>>
           /\ Seen(<<event>>) = IF IsSeen(event) THEN <<event>> ELSE <<>>
           /\ Seen(<<event>>) \in Seq(SSEEvent)
  <1>1. PICK none \in Seq(SSEEvent) : none = <<>>
    BY EmptySeq
  <1>2. Seen(<<>>) = <<>>
    <2>1. {i \in DOMAIN <<>> : IsSeen(<<>>[i])} = {}
      OBVIOUS
    <2> QED
      BY <2>1, FS_EmptySet DEF Seen, Picked
  <1>3. Append(<<>>, event) = <<event>>
    OBVIOUS
  <1>4. <<event>> \in Seq(SSEEvent)
    OBVIOUS
  <1>5. Seen(Append(none, event)) = IF IsSeen(event) THEN Append(Seen(none), event) ELSE Seen(none)
    BY SeenMore, Zenon
  <1>6. Seen(<<event>>) = IF IsSeen(event) THEN <<event>> ELSE <<>>
    BY <1>1, <1>2, <1>3, <1>5, Zenon
  <1> QED
    BY <1>1, <1>2, <1>4, <1>6, Zenon

Cut(lines) == [k \in 1..Cardinality(BlanksOf(lines)) |-> ParseSSEBlock(Blocks(lines)[k])]

LEMMA CutTyped ==
    ASSUME NEW lines \in Seq(Lines)
    PROVE  /\ Shown(lines) = Seen(Cut(lines))
           /\ Cut(lines) \in Seq(SSEEvent) /\ Len(Cut(lines)) = Cardinality(BlanksOf(lines))
           /\ Shown(lines) \in Seq(SSEEvent)
           /\ \A k \in 1..Cardinality(BlanksOf(lines)) : Blocks(lines)[k] \in Seq(Lines)
  <1>1. Len(lines) \in Nat /\ DOMAIN lines = 1..Len(lines)
    BY LinesAre
  <1>2. PICK blanks \in SUBSET (1..Len(lines)) : blanks = BlanksOf(lines)
    BY DEF BlanksOf
  <1>3. {i \in DOMAIN lines : lines[i] = Blank} = blanks
    BY <1>1, <1>2 DEF BlanksOf
  <1>4. Cardinality(blanks) \in Nat
    BY <1>1, <1>2, FinitePositions
  <1>5. ASSUME NEW k \in 1..Cardinality(blanks)
        PROVE  Blocks(lines)[k] \in Seq(Lines)
    <2>1. PICK a : a = IF k = 1 THEN 1 ELSE Nth(blanks, k - 1) + 1
      OBVIOUS
    <2>2. k # 1 => k - 1 \in 1..Cardinality(blanks)
      BY <1>4
    <2>3. Nth(blanks, k) \in 1..Len(lines) /\ (k # 1 => Nth(blanks, k - 1) \in 1..Len(lines))
      BY <1>1, <2>2, NthIn
    <2>4. a \in Nat \ {0} /\ Nth(blanks, k) - 1 \in Int /\ Nth(blanks, k) - 1 <= Len(lines)
      BY <1>1, <2>1, <2>3
    <2>5. Blocks(lines)[k] = SubSeq(lines, a, Nth(blanks, k) - 1)
      BY <1>2, <1>3, <2>1 DEF Blocks
    <2> QED
      BY <2>4, <2>5, PartOf
  <1>6. \A k \in 1..Cardinality(blanks) : ParseSSEBlock(Blocks(lines)[k]) \in SSEEvent
    BY <1>5, ParsedIs
  <1>7. Cut(lines) \in Seq(SSEEvent) /\ Len(Cut(lines)) = Cardinality(blanks)
    BY <1>2, <1>4, <1>6 DEF Cut
  <1>8. DOMAIN Blocks(lines) = 1..Cardinality(blanks)
    BY <1>2, BlocksCount
  <1>9. Shown(lines) = Seen(Cut(lines))
    BY <1>2, <1>8, Zenon DEF Shown, Cut
  <1>10. Seen(Cut(lines)) \in Seq(SSEEvent)
    <2>1. PICK one \in SSEEvent : TRUE
      BY ParsedIs
    <2> QED
      BY <1>7, <2>1, SeenMore
  <1> QED
    BY <1>2, <1>5, <1>7, <1>9, <1>10

LEMMA NothingInNothing == Shown(<<>>) = <<>> /\ Unfinished(<<>>, <<>>) /\ <<>> \in Seq(Lines)
  <1>1. PICK none \in Seq(Lines) : none = <<>> /\ Len(none) = 0
    BY EmptySeq
  <1>2. BlanksOf(none) = {}
    BY <1>1 DEF BlanksOf
  <1>3. Cardinality({}) = 0
    BY FS_EmptySet
  <1>4. Cut(none) = <<>>
    <2>1. Len(Cut(none)) = 0 /\ Cut(none) \in Seq(SSEEvent)
      BY <1>2, <1>3, CutTyped
    <2> QED
      BY <2>1, EmptySeq
  <1>5. PICK one \in SSEEvent : TRUE
    BY <1>1, ParsedIs
  <1>6. Shown(none) = <<>>
    BY <1>4, <1>5, CutTyped, SeenAlone, Zenon
  <1>7. Unfinished(none, <<>>)
    <2>1. SubSeq(none, 1, 0) = <<>> /\ 0 \in 0..Len(none)
      BY <1>1
    <2> QED
      BY <1>1, <2>1 DEF Unfinished
  <1> QED
    BY <1>1, <1>6, <1>7

\* A blank line completes the block of the lines before it.
LEMMA EventsBlank ==
    ASSUME NEW lines \in Seq(Lines), NEW rest, Unfinished(lines, rest)
    PROVE  /\ rest \in Seq(Lines)
           /\ Shown(Append(lines, Blank)) = Shown(lines) \o Seen(<<ParseSSEBlock(rest)>>)
           /\ Unfinished(Append(lines, Blank), <<>>)
  <1>1. Len(lines) \in Nat /\ DOMAIN lines = 1..Len(lines) /\ Blank \in Lines
    BY LinesAre DEF Lines
  <1>2. PICK all \in Seq(Lines) : all = Append(lines, Blank)
    BY <1>1, OneMoreLine
  <1>3. /\ Len(all) = Len(lines) + 1 /\ all[Len(lines) + 1] = Blank
        /\ \A i \in 1..Len(lines) : all[i] = lines[i]
    BY <1>1, <1>2, OneMoreLine
  <1>4. PICK n \in 0..Len(lines) :
          /\ n = 0 \/ lines[n] = Blank
          /\ \A i \in (n + 1)..Len(lines) : lines[i] # Blank
          /\ rest = SubSeq(lines, n + 1, Len(lines))
    BY DEF Unfinished
  <1>5. rest \in Seq(Lines)
    BY <1>4, RestOf
  <1>6. PICK blanks \in SUBSET (1..Len(lines)) : blanks = BlanksOf(lines)
    BY DEF BlanksOf
  <1>7. BlanksOf(all) = blanks \cup {Len(lines) + 1}
    <2>1. \A i : i \in 1..(Len(lines) + 1) <=> i \in 1..Len(lines) \/ i = Len(lines) + 1
      BY <1>1
    <2> QED
      BY <1>3, <1>6, <2>1 DEF BlanksOf
  <1>8. PICK m \in Nat : m = Cardinality(blanks)
    BY <1>1, FinitePositions
  <1>9. /\ Cardinality(BlanksOf(all)) = m + 1
        /\ \A k \in 1..m : Nth(BlanksOf(all), k) = Nth(blanks, k)
        /\ Nth(BlanksOf(all), m + 1) = Len(lines) + 1
    <2>1. PICK len \in Nat, next \in Nat : len = Len(lines) /\ next = Len(lines) + 1 /\ len < next
      <3>1. Len(lines) \in Nat /\ Len(lines) + 1 \in Nat /\ Len(lines) < Len(lines) + 1
        BY <1>1
      <3> QED
        BY <3>1, Zenon
    <2>2. PICK old \in SUBSET (1..len) : old = blanks
      BY <2>1
    <2>3. PICK T : T = old \cup {next}
      OBVIOUS
    <2>4. /\ Cardinality(T) = m + 1
          /\ \A k \in 1..m : Nth(T, k) = Nth(old, k)
          /\ Nth(T, m + 1) = next
      <3>1. m = Cardinality(old) /\ len < next
        BY <1>8, <2>1, <2>2
      <3> QED
        BY <2>3, <3>1, NthOfMore
    <2>5. T = BlanksOf(all)
      BY <1>7, <2>1, <2>2, <2>3
    <2> QED
      BY <2>1, <2>2, <2>4, <2>5
  <1>10. n + 1 = IF m + 1 = 1 THEN 1 ELSE Nth(BlanksOf(all), m) + 1
    <2>1. \A i \in blanks : i \in 1..n
      BY <1>1, <1>4, <1>6 DEF BlanksOf
    <2>2. n # 0 => n \in blanks
      BY <1>1, <1>4, <1>6 DEF BlanksOf
    <2>3. CASE n = 0
      <3>1. blanks = {}
        BY <2>1, <2>3
      <3>2. m = 0
        BY <1>8, <3>1, FS_EmptySet
      <3> QED
        BY <2>3, <3>2
    <2>4. CASE n # 0
      <3>1. n \in blanks /\ Rank(blanks, n) = Cardinality(blanks)
        <4>1. {j \in blanks : j <= n} = blanks
          <5>1. n \in Nat /\ blanks \in SUBSET (1..n)
            BY <1>1, <2>1
          <5> QED
            BY <5>1, PositionsUpTo
        <4> QED
          BY <2>2, <2>4, <4>1 DEF Rank
      <3>2. Nth(blanks, m) = n
        BY <1>1, <1>8, <3>1, NthIs
      <3>3. m # 0
        <4>1. IsFiniteSet(blanks)
          BY <1>1, FinitePositions
        <4> QED
          BY <1>8, <3>1, <4>1, FS_EmptySet
      <3> QED
        BY <1>9, <3>2, <3>3
    <2> QED
      BY <2>3, <2>4
  <1>11. Blocks(all)[m + 1] = rest
    <2>1. {i \in DOMAIN all : all[i] = Blank} = BlanksOf(all)
      BY LinesAre DEF BlanksOf
    <2>2. m + 1 \in 1..Cardinality(BlanksOf(all)) /\ m + 1 - 1 = m
      BY <1>9
    <2>3. Blocks(all)[m + 1] = SubSeq(all, n + 1, Nth(BlanksOf(all), m + 1) - 1)
      <3>1. PICK k \in 1..Cardinality(BlanksOf(all)) : k = m + 1 /\ k - 1 = m
        BY <2>2
      <3>2. PICK a : a = IF k = 1 THEN 1 ELSE Nth(BlanksOf(all), k - 1) + 1
        OBVIOUS
      <3>3. Blocks(all)[k] = SubSeq(all, a, Nth(BlanksOf(all), k) - 1)
        BY <2>1, <3>1, <3>2 DEF Blocks
      <3>4. a = n + 1
        BY <1>10, <3>1, <3>2
      <3> QED
        BY <3>1, <3>3, <3>4
    <2>4. Nth(BlanksOf(all), m + 1) - 1 = Len(lines)
      BY <1>1, <1>9
    <2>5. SubSeq(all, n + 1, Len(lines)) = SubSeq(lines, n + 1, Len(lines))
      <3>1. n + 1 \in Nat \ {0} /\ Len(lines) \in Int /\ Len(lines) <= Len(lines) /\ Len(lines) <= Len(all)
        BY <1>1, <1>3
      <3> QED
        BY <1>3, <3>1, SamePart
    <2> QED
      BY <1>4, <2>3, <2>4, <2>5
  <1>12. \A k \in 1..m : Blocks(all)[k] = Blocks(lines)[k]
    <2>1. Len(lines) <= Len(all) /\ \A k \in 1..m : k \in 1..Cardinality(BlanksOf(all))
      BY <1>1, <1>3, <1>9
    <2>2. \A k \in 1..Cardinality(BlanksOf(lines)) : Nth(BlanksOf(all), k) = Nth(BlanksOf(lines), k)
      BY <1>6, <1>8, <1>9
    <2>3. \A k \in 1..m : k \in 1..Cardinality(BlanksOf(lines))
      BY <1>6, <1>8
    <2> QED
      BY <1>3, <2>1, <2>2, <2>3, BlocksKept
  <1>13. PICK event \in SSEEvent : event = ParseSSEBlock(rest)
    BY <1>5, ParsedIs
  <1>14. Cut(all) = Append(Cut(lines), event)
    <2>1. PICK cut \in Seq(SSEEvent) : cut = Cut(lines) /\ Len(cut) = m
      BY <1>6, <1>8, CutTyped
    <2>2. PICK new \in Seq(SSEEvent) : new = Cut(all) /\ Len(new) = m + 1
      BY <1>9, CutTyped
    <2>3. \A k \in 1..m : new[k] = ParseSSEBlock(Blocks(all)[k]) /\ cut[k] = ParseSSEBlock(Blocks(lines)[k])
      <3>1. \A k \in 1..m : k \in 1..(m + 1)
        OBVIOUS
      <3> QED
        BY <1>6, <1>8, <1>9, <2>1, <2>2, <3>1 DEF Cut
    <2>4. new[m + 1] = event
      <3>1. m + 1 \in 1..(m + 1)
        OBVIOUS
      <3> QED
        BY <1>9, <1>11, <1>13, <2>2, <3>1 DEF Cut
    <2>5. \A k \in 1..m : new[k] = cut[k]
      BY <1>12, <2>3
    <2>6. PICK sum \in Seq(SSEEvent) : sum = Append(cut, event)
      BY AppendProperties
    <2>7. Len(sum) = m + 1 /\ sum[m + 1] = event /\ \A k \in 1..m : sum[k] = cut[k]
      BY <2>1, <2>6, AppendProperties
    <2>8. \A k \in 1..(m + 1) : k \in 1..m \/ k = m + 1
      OBVIOUS
    <2>9. \A k \in 1..Len(sum) : sum[k] = new[k]
      BY <2>4, <2>5, <2>7, <2>8
    <2>10. sum = new
      BY <2>2, <2>7, <2>9, SeqEqual
    <2> QED
      BY <2>1, <2>2, <2>6, <2>10
  <1>15. PICK before \in Seq(SSEEvent) : before = Seen(Cut(lines)) /\ before = Shown(lines)
    BY CutTyped
  <1>16. Shown(all) = IF IsSeen(event) THEN Append(before, event) ELSE before
    <2>1. Shown(all) = Seen(Append(Cut(lines), event))
      BY <1>14, CutTyped
    <2> QED
      BY <1>15, <2>1, CutTyped, SeenMore
  <1>17. Shown(all) = before \o Seen(<<event>>)
    <2>1. Append(before, event) = before \o <<event>> /\ before \o <<>> = before
      BY AppendIsConcat, ConcatEmptySeq
    <2>2. Seen(<<event>>) = IF IsSeen(event) THEN <<event>> ELSE <<>>
      BY SeenAlone, Zenon
    <2> QED
      BY <1>16, <2>1, <2>2, Zenon
  <1>18. Unfinished(all, <<>>)
    <2>1. /\ Len(all) \in 0..Len(all) /\ all[Len(all)] = Blank
          /\ \A i \in (Len(all) + 1)..Len(all) : all[i] # Blank
      BY <1>1, <1>3
    <2>2. <<>> = SubSeq(all, Len(all) + 1, Len(all))
      <3>1. Len(SubSeq(all, Len(all) + 1, Len(all))) = 0 /\ SubSeq(all, Len(all) + 1, Len(all)) \in Seq(Lines)
        BY <2>1, RestOf, LinesAre
      <3> QED
        BY <3>1, EmptySeq
    <2> QED
      BY <2>1, <2>2 DEF Unfinished
  <1> QED
    BY <1>2, <1>5, <1>13, <1>15, <1>17, <1>18, Zenon

-----------------------------------------------------------------------------
(* The stream.                                                             *)

StreamTyped ==
    /\ mode \in {"passthrough", "transform"} /\ stream \in {"going", "ended", "broken"}
    /\ read \in Seq(Lines) /\ out \in Seq(Lines) /\ pending \in Seq(TextLines)
    /\ plain \in BOOLEAN

\* Passed on, the lines are those read.
PassedOn ==
    mode = "passthrough" =>
        /\ out = read /\ Unfinished(out, pending)
        /\ observed = IF stream = "going" THEN Shown(out)
                      ELSE Shown(out) \o Seen(<<ParseSSEBlock(pending)>>)

\* Written anew, what has gone out are whole blocks.
WrittenAnew ==
    mode = "transform" =>
        /\ Unfinished(read, pending) /\ Unfinished(out, <<>>)
        /\ observed = Shown(out)
        /\ plain => Shown(out) = Shown(read)

StreamInv == StreamTyped /\ PassedOn /\ WrittenAnew

LEMMA StreamStarts == StreamInit => StreamInv
  <1> SUFFICES ASSUME StreamInit PROVE StreamInv
    OBVIOUS
  <1>1. StreamTyped
    BY NothingInNothing, NothingYet DEF StreamInit, StreamTyped
  <1>2. PassedOn
    BY NothingInNothing DEF StreamInit, PassedOn
  <1>3. WrittenAnew
    BY NothingInNothing DEF StreamInit, WrittenAnew
  <1> QED
    BY <1>1, <1>2, <1>3 DEF StreamInv

LEMMA OneElement ==
    ASSUME NEW X, NEW x \in X
    PROVE  <<x>> \in Seq(X) /\ Append(<<x>>, x) = <<x, x>> /\ <<x>> \o <<x>> = <<x, x>>
  <1>1. <<x>> \in Seq(X)
    OBVIOUS
  <1>2. Append(<<x>>, x) = <<x, x>>
    <2>1. PICK one \in Seq(X) : one = <<x>> /\ Len(one) = 1 /\ one[1] = x
      <3>1. Len(<<x>>) = 1 /\ <<x>>[1] = x
        OBVIOUS
      <3> QED
        BY <1>1, <3>1, Zenon
    <2>2. PICK two \in Seq(X) : two = <<x, x>> /\ Len(two) = 2 /\ two[1] = x /\ two[2] = x
      <3>1. <<x, x>> \in Seq(X)
        OBVIOUS
      <3>2. Len(<<x, x>>) = 2 /\ <<x, x>>[1] = x /\ <<x, x>>[2] = x
        OBVIOUS
      <3> QED
        BY <3>1, <3>2, Zenon
    <2>3. PICK more \in Seq(X) : more = Append(one, x) /\ Len(more) = 2 /\ more[1] = x /\ more[2] = x
      <3>1. /\ Append(one, x) \in Seq(X) /\ Len(Append(one, x)) = 2
            /\ Append(one, x)[1] = x /\ Append(one, x)[2] = x
        BY <2>1, AppendProperties
      <3> QED
        BY <3>1, Zenon
    <2>4. more = two
      <3>1. \A i \in 1..2 : more[i] = two[i]
        <4>1. \A i \in 1..2 : i = 1 \/ i = 2
          OBVIOUS
        <4> QED
          BY <2>2, <2>3, <4>1
      <3> QED
        BY <2>2, <2>3, <3>1, SeqEqual
    <2> QED
      BY <2>1, <2>2, <2>3, <2>4
  <1>3. <<x>> \o <<x>> = Append(<<x>>, x)
    BY <1>1, AppendIsConcat
  <1> QED
    BY <1>1, <1>2, <1>3

LEMMA Regrouped ==
    ASSUME NEW X, NEW s \in Seq(X), NEW t \in Seq(X), NEW u \in Seq(X)
    PROVE  s \o (t \o u) = (s \o t) \o u
  BY ConcatAssociative

LEMMA TwiceMore ==
    ASSUME NEW X, NEW s \in Seq(X), NEW t \in Seq(X)
    PROVE  s \o (t \o t) = (s \o t) \o t
  BY Regrouped

LEMMA LineComesIn ==
    ASSUME NEW lines \in Seq(Lines), NEW rest \in Seq(TextLines), Unfinished(lines, rest),
           NEW line \in TextLines
    PROVE  /\ Append(lines, line) \in Seq(Lines) /\ Append(rest, line) \in Seq(TextLines)
           /\ Shown(Append(lines, line)) = Shown(lines)
           /\ Unfinished(Append(lines, line), Append(rest, line))
  <1>1. PICK one \in Seq(TextLines) : one = <<line>>
    BY OneElement, Zenon
  <1>2. Append(lines, line) = lines \o one /\ Append(rest, line) = rest \o one
    <2>1. line \in Lines
      BY DEF TextLines
    <2> QED
      BY <1>1, <2>1, AppendIsConcat
  <1>3. Shown(lines \o one) = Shown(lines) /\ Unfinished(lines \o one, rest \o one)
    BY EventsSilent
  <1>4. lines \o one \in Seq(Lines) /\ rest \o one \in Seq(TextLines)
    BY LinesAdded, ConcatProperties
  <1> QED
    BY <1>2, <1>3, <1>4

\* A whole block goes out.
LEMMA BlockGoesOut ==
    ASSUME NEW lines \in Seq(Lines), Unfinished(lines, <<>>), NEW block \in Seq(TextLines)
    PROVE  /\ lines \o Append(block, Blank) \in Seq(Lines)
           /\ Shown(lines \o Append(block, Blank)) = Shown(lines) \o Seen(<<ParseSSEBlock(block)>>)
           /\ Unfinished(lines \o Append(block, Blank), <<>>)
  <1>1. PICK all \in Seq(Lines) : all = lines \o block
    BY LinesAdded
  <1>2. Shown(all) = Shown(lines) /\ Unfinished(all, block)
    <2>1. Unfinished(all, <<>> \o block)
      BY <1>1, EventsSilent
    <2>2. <<>> \o block = block
      BY ConcatEmptySeq
    <2> QED
      BY <1>1, <2>1, <2>2, EventsSilent
  <1>3. lines \o Append(block, Blank) = Append(all, Blank) /\ Append(all, Blank) \in Seq(Lines)
    <2>1. PICK blank \in Lines : blank = Blank
      BY DEF Lines
    <2>2. PICK text \in Seq(Lines) : text = block
      BY TextLinesAreLines
    <2>3. PICK one \in Seq(Lines) : one = <<blank>>
      BY OneElement, Zenon
    <2>4. Append(text, blank) = text \o one /\ Append(all, blank) = all \o one
      BY <2>3, AppendIsConcat
    <2>5. lines \o (text \o one) = (lines \o text) \o one
      <3>1. PICK X : X = Lines
        OBVIOUS
      <3>2. lines \in Seq(X) /\ text \in Seq(X) /\ one \in Seq(X)
        BY <3>1
      <3> QED
        BY <3>2, Regrouped
    <2>6. Append(all, blank) \in Seq(Lines)
      BY AppendProperties
    <2> QED
      BY <1>1, <2>1, <2>2, <2>4, <2>5, <2>6
  <1>4. /\ Shown(Append(all, Blank)) = Shown(all) \o Seen(<<ParseSSEBlock(block)>>)
        /\ Unfinished(Append(all, Blank), <<>>)
    BY <1>2, EventsBlank
  <1> QED
    BY <1>2, <1>3, <1>4

LEMMA PassLineKeeps == StreamInv /\ PassLine => StreamInv'
  <1> SUFFICES ASSUME StreamInv, PassLine PROVE StreamInv'
    OBVIOUS
  <1>1. /\ StreamTyped /\ mode = "passthrough" /\ stream = "going"
        /\ out = read /\ Unfinished(out, pending) /\ observed = Shown(out)
    BY DEF StreamInv, PassedOn, PassLine
  <1>2. PICK line \in Lines :
          /\ read' = Append(read, line) /\ out' = Append(out, line)
          /\ IF line = Blank
             THEN pending' = <<>> /\ Observe(<<ParseSSEBlock(pending)>>)
             ELSE pending' = Append(pending, line) /\ UNCHANGED observed
    BY DEF PassLine
  <1>3. UNCHANGED <<mode, stream, plain>>
    BY DEF PassLine
  <1>4. out \in Seq(Lines) /\ pending \in Seq(TextLines) /\ pending \in Seq(Lines)
    BY <1>1, TextLinesAreLines DEF StreamTyped
  <1>5. /\ out' \in Seq(Lines) /\ pending' \in Seq(TextLines) /\ Unfinished(out', pending')
        /\ observed' = Shown(out')
    <2>1. CASE line = Blank
      <3>1. out' = Append(out, Blank) /\ pending' = <<>>
            /\ observed' = observed \o Seen(<<ParseSSEBlock(pending)>>)
        BY <1>2, <2>1 DEF Observe
      <3>2. /\ Shown(Append(out, Blank)) = Shown(out) \o Seen(<<ParseSSEBlock(pending)>>)
            /\ Unfinished(Append(out, Blank), <<>>)
        BY <1>1, <1>4, EventsBlank
      <3>3. Append(out, Blank) \in Seq(Lines) /\ <<>> \in Seq(TextLines)
        BY <1>2, <1>4, <2>1, OneMoreLine, NothingYet
      <3> QED
        BY <1>1, <3>1, <3>2, <3>3
    <2>2. CASE line # Blank
      <3>1. line \in TextLines
        BY <2>2 DEF TextLines
      <3> QED
        BY <1>1, <1>2, <1>4, <2>2, <3>1, LineComesIn
    <2> QED
      BY <2>1, <2>2
  <1>6. out' = read'
    BY <1>1, <1>2
  <1>7. mode' = "passthrough" /\ stream' = "going" /\ plain' \in BOOLEAN
    BY <1>1, <1>3 DEF StreamTyped
  <1> QED
    BY <1>5, <1>6, <1>7 DEF StreamInv, StreamTyped, PassedOn, WrittenAnew

LEMMA HoldLineKeeps == StreamInv /\ HoldLine => StreamInv'
  <1> SUFFICES ASSUME StreamInv, HoldLine PROVE StreamInv'
    OBVIOUS
  <1>1. /\ StreamTyped /\ mode = "transform" /\ Unfinished(read, pending) /\ Unfinished(out, <<>>)
        /\ observed = Shown(out) /\ (plain => Shown(out) = Shown(read))
    BY DEF StreamInv, WrittenAnew, HoldLine
  <1>2. PICK line \in TextLines : read' = Append(read, line) /\ pending' = Append(pending, line)
    BY DEF HoldLine, TextLines
  <1>3. UNCHANGED <<mode, stream, out, observed, plain>>
    BY DEF HoldLine
  <1>4. /\ read' \in Seq(Lines) /\ pending' \in Seq(TextLines)
        /\ Shown(read') = Shown(read) /\ Unfinished(read', pending')
    BY <1>1, <1>2, LineComesIn DEF StreamTyped
  <1>5. StreamTyped'
    BY <1>1, <1>3, <1>4 DEF StreamTyped
  <1>6. PassedOn' /\ WrittenAnew'
    BY <1>1, <1>3, <1>4 DEF PassedOn, WrittenAnew
  <1> QED
    BY <1>5, <1>6 DEF StreamInv

LEMMA SeenTwice ==
    ASSUME NEW event \in SSEEvent
    PROVE  Seen(<<event, event>>) = Seen(<<event>>) \o Seen(<<event>>)
  <1>1. PICK single \in Seq(SSEEvent) : single = <<event>>
    BY OneElement, Zenon
  <1>2. Append(single, event) = <<event, event>> /\ Append(<<event>>, event) = <<event, event>>
    BY <1>1, OneElement, Zenon
  <1>3. <<event>> \o <<event>> = <<event, event>> /\ <<>> \o <<>> = <<>>
    BY OneElement, EmptySeq, ConcatEmptySeq, Zenon
  <1>4. Seen(Append(single, event)) = IF IsSeen(event) THEN Append(Seen(single), event) ELSE Seen(single)
    BY SeenMore
  <1>5. Seen(single) = IF IsSeen(event) THEN <<event>> ELSE <<>>
    BY <1>1, SeenAlone, Zenon
  <1> QED
    BY <1>1, <1>2, <1>3, <1>4, <1>5, Zenon

LEMMA WrittenIs ==
    ASSUME NEW event
    PROVE  /\ Written(<<>>) = <<>> /\ Written(<<event>>) = SSELines(event)
           /\ Written(<<event, event>>) = SSELines(event) \o SSELines(event)
  <1>1. Len(<<>>) = 0 /\ Len(<<event>>) = 1 /\ Len(<<event, event>>) = 2
    OBVIOUS
  <1>2. <<event>>[1] = event /\ <<event, event>>[1] = event /\ <<event, event>>[2] = event
    OBVIOUS
  <1> QED
    BY <1>1, <1>2 DEF Written

\* What the events the hooks left are written as reads as those events.
LEMMA WrittenReadsBack ==
    ASSUME NEW lines \in Seq(Lines), Unfinished(lines, <<>>),
           NEW event \in SSEEvent, NEW body \in Seq(TextLines),
           ParseSSEBlock(body) = event, SSELines(event) = Append(body, Blank),
           NEW events \in Hooked(event)
    PROVE  /\ lines \o Written(events) \in Seq(Lines)
           /\ Shown(lines \o Written(events)) = Shown(lines) \o Seen(events)
           /\ Unfinished(lines \o Written(events), <<>>)
  <1>1. PICK block \in Seq(Lines) : SSELines(event) = block /\ block = Append(body, Blank)
    <2>1. body \in Seq(Lines) /\ Blank \in Lines
      BY TextLinesAreLines DEF Lines
    <2> QED
      BY <2>1, AppendProperties
  <1>2. PICK one \in Seq(Lines) :
          /\ one = lines \o block
          /\ Shown(one) = Shown(lines) \o Seen(<<event>>)
          /\ Unfinished(one, <<>>)
    BY <1>1, BlockGoesOut
  <1>3. PICK before \in Seq(SSEEvent), seen \in Seq(SSEEvent) :
          before = Shown(lines) /\ seen = Seen(<<event>>)
    BY CutTyped, SeenAlone, Zenon
  <1>4. CASE events = <<>>
    <2>1. Written(events) = <<>> /\ Seen(events) = <<>>
      BY <1>4, SeenAlone, WrittenIs, Zenon
    <2>2. lines \o <<>> = lines /\ before \o <<>> = before
      BY ConcatEmptySeq
    <2> QED
      BY <1>3, <2>1, <2>2
  <1>5. CASE events = <<event>>
    <2>1. Written(events) = block
      BY <1>1, <1>5, WrittenIs
    <2> QED
      BY <1>2, <1>5, <2>1
  <1>6. CASE events = <<event, event>>
    <2>1. Written(events) = block \o block
      BY <1>1, <1>6, WrittenIs
    <2>2. PICK two \in Seq(Lines) :
            /\ two = one \o block
            /\ Shown(two) = Shown(one) \o Seen(<<event>>)
            /\ Unfinished(two, <<>>)
      BY <1>1, <1>2, BlockGoesOut
    <2>3. lines \o (block \o block) = two
      <3>1. lines \o (block \o block) = (lines \o block) \o block
        BY TwiceMore, Zenon
      <3> QED
        BY <1>2, <2>2, <3>1
    <2>4. Shown(two) = before \o (seen \o seen)
      <3>1. before \o (seen \o seen) = (before \o seen) \o seen
        BY TwiceMore, Zenon
      <3> QED
        BY <1>2, <1>3, <2>2, <3>1
    <2>5. Seen(events) = seen \o seen
      BY <1>3, <1>6, SeenTwice
    <2> QED
      BY <1>3, <2>1, <2>2, <2>3, <2>4, <2>5
  <1> QED
    BY <1>4, <1>5, <1>6 DEF Hooked

LEMMA FlushBlockKeeps == StreamInv /\ FlushBlock => StreamInv'
  <1> SUFFICES ASSUME StreamInv, FlushBlock PROVE StreamInv'
    OBVIOUS
  <1>1. /\ StreamTyped /\ mode = "transform" /\ Unfinished(read, pending) /\ Unfinished(out, <<>>)
        /\ observed = Shown(out) /\ (plain => Shown(out) = Shown(read))
    BY DEF StreamInv, WrittenAnew, FlushBlock
  <1>2. read \in Seq(Lines) /\ out \in Seq(Lines) /\ pending \in Seq(TextLines) /\ pending \in Seq(Lines)
        /\ Blank \in Lines
    BY <1>1, TextLinesAreLines DEF StreamTyped, Lines
  <1>3. PICK event \in SSEEvent, body \in Seq(TextLines) :
          /\ event = ParseSSEBlock(pending)
          /\ ParseSSEBlock(body) = event /\ SSELines(event) = Append(body, Blank)
    <2>1. ParseSSEBlock(pending) \in SSEEvent /\ ParseSSEBlock(pending).data # <<Empty>>
      BY <1>2, ParsedIs
    <2> QED
      BY <2>1, BodySays
  <1>4. /\ read' = Append(read, Blank) /\ pending' = <<>> /\ mode' = mode /\ stream' = stream
        /\ \/ /\ ~IsSeen(event) /\ out' = out \o Append(pending, Blank)
              /\ observed' = observed /\ plain' = plain
           \/ \E events \in Hooked(event) :
                /\ out' = out \o Written(events)
                /\ observed' = observed \o Seen(events)
                /\ plain' = (plain /\ events = <<event>>)
    BY <1>3 DEF FlushBlock, Observe
  <1>5. /\ read' \in Seq(Lines) /\ Unfinished(read', <<>>)
        /\ Shown(read') = Shown(read) \o Seen(<<event>>)
    <2>1. /\ Append(read, Blank) \in Seq(Lines) /\ Unfinished(Append(read, Blank), <<>>)
          /\ Shown(Append(read, Blank)) = Shown(read) \o Seen(<<ParseSSEBlock(pending)>>)
      BY <1>1, <1>2, EventsBlank, OneMoreLine
    <2> QED
      BY <1>3, <1>4, <2>1
  <1>6. Shown(out) \in Seq(SSEEvent)
    BY <1>2, CutTyped
  <1>7. /\ out' \in Seq(Lines) /\ Unfinished(out', <<>>) /\ observed' = Shown(out')
        /\ plain' \in BOOLEAN /\ (plain' => Shown(out') = Shown(read'))
    <2>1. CASE /\ ~IsSeen(event) /\ out' = out \o Append(pending, Blank)
               /\ observed' = observed /\ plain' = plain
      <3>1. /\ out' \in Seq(Lines) /\ Unfinished(out', <<>>)
            /\ Shown(out') = Shown(out) \o Seen(<<event>>)
        BY <1>1, <1>2, <1>3, <2>1, BlockGoesOut
      <3>2. Seen(<<event>>) = <<>>
        BY <2>1, SeenAlone, Zenon
      <3>3. Shown(out) \o <<>> = Shown(out)
        BY <1>6, ConcatEmptySeq
      <3>4. plain' \in BOOLEAN
        BY <1>1, <2>1 DEF StreamTyped
      <3> QED
        BY <1>1, <1>5, <2>1, <3>1, <3>2, <3>3, <3>4
    <2>2. ASSUME NEW events \in Hooked(event),
                 out' = out \o Written(events), observed' = observed \o Seen(events),
                 plain' = (plain /\ events = <<event>>)
          PROVE  /\ out' \in Seq(Lines) /\ Unfinished(out', <<>>) /\ observed' = Shown(out')
                 /\ plain' \in BOOLEAN /\ (plain' => Shown(out') = Shown(read'))
      <3>1. /\ out' \in Seq(Lines) /\ Unfinished(out', <<>>)
            /\ Shown(out') = Shown(out) \o Seen(events)
        BY <1>1, <1>2, <1>3, <2>2, WrittenReadsBack
      <3>2. plain' \in BOOLEAN
        BY <2>2
      <3>3. plain' => plain /\ events = <<event>>
        BY <2>2
      <3> QED
        BY <1>1, <1>5, <2>2, <3>1, <3>2, <3>3
    <2> QED
      BY <1>4, <2>1, <2>2
  <1>8. mode' = "transform" /\ stream' \in {"going", "ended", "broken"} /\ pending' = <<>>
        /\ pending' \in Seq(TextLines)
    BY <1>1, <1>4, NothingYet DEF StreamTyped
  <1> QED
    BY <1>5, <1>7, <1>8 DEF StreamInv, StreamTyped, PassedOn, WrittenAnew

LEMMA EndStreamKeeps == StreamInv /\ EndStream => StreamInv'
  <1> SUFFICES ASSUME StreamInv, EndStream PROVE StreamInv'
    OBVIOUS
  <1>1. /\ stream = "going" /\ stream' \in {"ended", "broken"}
        /\ IF mode = "passthrough" THEN observed' = observed \o Seen(<<ParseSSEBlock(pending)>>)
           ELSE UNCHANGED observed
        /\ UNCHANGED <<mode, read, out, pending, plain>>
    BY DEF EndStream, Observe
  <1>2. StreamTyped /\ PassedOn /\ WrittenAnew
    BY DEF StreamInv
  <1>3. StreamTyped' /\ WrittenAnew'
    BY <1>1, <1>2 DEF StreamTyped, WrittenAnew
  <1>4. PassedOn'
    BY <1>1, <1>2 DEF PassedOn
  <1> QED
    BY <1>3, <1>4 DEF StreamInv

LEMMA StreamStepKeeps == StreamInv /\ [StreamStep]_streamVars => StreamInv'
  <1>1. StreamInv /\ UNCHANGED streamVars => StreamInv'
    <2> SUFFICES ASSUME StreamInv, UNCHANGED streamVars PROVE StreamInv'
      OBVIOUS
    <2>1. UNCHANGED <<mode, stream, read, out, pending, observed, plain>>
      BY DEF streamVars
    <2>2. StreamTyped'
      BY <2>1 DEF StreamInv, StreamTyped
    <2>3. PassedOn'
      BY <2>1 DEF StreamInv, PassedOn
    <2>4. WrittenAnew'
      BY <2>1 DEF StreamInv, WrittenAnew
    <2> QED
      BY <2>2, <2>3, <2>4 DEF StreamInv
  <1> QED
    BY <1>1, PassLineKeeps, HoldLineKeeps, FlushBlockKeeps, EndStreamKeeps DEF StreamStep

-----------------------------------------------------------------------------
(* The client's side: the events with a text are those the program made.   *)

AnyEvent == [event : Values, id : Values, data : Seq(Values)]

LEMMA SSEEventIsAny ==
    ASSUME NEW event \in SSEEvent
    PROVE  event \in AnyEvent /\ Stripped(event) = event
  <1>1. PICK name \in Trimmed, id \in Trimmed, data \in Seq(Trimmed) :
          event = [event |-> name, id |-> id, data |-> data]
    BY DEF SSEEvent
  <1>2. name \in Values /\ id \in Values /\ TrimSpace(name) = name /\ TrimSpace(id) = id
    BY TrimmedValues
  <1>3. data \in Seq(Values) /\ DOMAIN data = 1..Len(data) /\ Len(data) \in Nat
    BY TrimmedValues, SeqMonotonic
  <1>4. \A i \in 1..Len(data) : TrimSpace(data[i]) = data[i]
    BY TrimmedValues
  <1>5. [i \in DOMAIN data |-> TrimSpace(data[i])] = data
    BY <1>3, <1>4
  <1>6. event \in AnyEvent
    BY <1>1, <1>2, <1>3 DEF AnyEvent
  <1>7. Stripped(event) = [event |-> name, id |-> id, data |-> data]
    BY <1>1, <1>2, <1>5 DEF Stripped
  <1> QED
    BY <1>1, <1>6, <1>7

\* What the client reads in a block is, but for the space, what the block says.
LEMMA ReadByClient ==
    ASSUME NEW lines \in Seq(Lines)
    PROVE  EventOf(lines) \in AnyEvent /\ Stripped(EventOf(lines)) = Raw(lines)
  <1>1. PICK of \in SUBSET (1..Len(lines)) : of = FieldsOf(lines, "data")
    BY DEF FieldsOf
  <1>2. {i \in DOMAIN lines : lines[i].field = "data"} = of
    BY <1>1, LinesAre DEF FieldsOf
  <1>3. PICK data \in Seq(Lines) : data = Picked(lines, of)
    BY <1>1, PickedTyped
  <1>4. DOMAIN data = 1..Len(data) /\ Len(data) \in Nat /\ \A i \in 1..Len(data) : data[i].value \in Values
    BY LinesAre, LineTyped
  <1>5. PICK values \in Seq(Values) :
          values = [i \in 1..Len(data) |-> data[i].value] /\ Len(values) = Len(data)
    <2>1. PICK f : f = [i \in 1..Len(data) |-> data[i].value]
      OBVIOUS
    <2>2. \A i \in 1..Len(data) : f[i] = data[i].value
      BY <2>1
    <2>3. f = [i \in 1..Len(data) |-> f[i]] /\ \A i \in 1..Len(data) : f[i] \in Values
      BY <1>4, <2>1, <2>2
    <2>4. f \in Seq(Values) /\ Len(f) = Len(data)
      BY <1>4, <2>3, Listed
    <2> QED
      BY <2>1, <2>4
  <1>6. DataOf(lines) = values
    BY <1>2, <1>3, <1>4, <1>5 DEF DataOf
  <1>7. TrimmedData(lines) = [i \in DOMAIN values |-> TrimSpace(values[i])]
    <2>1. TrimmedData(lines) = [i \in 1..Len(data) |-> TrimSpace(data[i].value)]
      BY <1>1, <1>3 DEF TrimmedData
    <2>2. DOMAIN values = 1..Len(data) /\ \A i \in 1..Len(data) : values[i] = data[i].value
      BY <1>5
    <2> QED
      BY <2>1, <2>2
  <1>8. PICK name \in Values, id \in Values : name = LastValue(lines, "event") /\ id = LastValue(lines, "id")
    BY RawTyped
  <1>9. EventOf(lines) = [event |-> name, id |-> id, data |-> values]
    BY <1>6, <1>8 DEF EventOf
  <1>10. Raw(lines) = [event |-> TrimSpace(name), id |-> TrimSpace(id),
                       data |-> [i \in DOMAIN values |-> TrimSpace(values[i])]]
    BY <1>7, <1>8 DEF Raw
  <1> QED
    BY <1>9, <1>10 DEF AnyEvent, Stripped

\* A single empty data line is no text: what the program parses has one exactly
\* when the block does, and is then what the block says.
LEMMA SameText ==
    ASSUME NEW lines \in Seq(Lines)
    PROVE  /\ HasText(Stripped(ParseSSEBlock(lines))) <=> HasText(Stripped(EventOf(lines)))
           /\ HasText(Stripped(EventOf(lines))) =>
                Stripped(ParseSSEBlock(lines)) = Stripped(EventOf(lines))
  <1>1. Stripped(ParseSSEBlock(lines)) = ParseSSEBlock(lines) /\ Stripped(EventOf(lines)) = Raw(lines)
    BY ParsedIs, SSEEventIsAny, ReadByClient
  <1>2. CASE Raw(lines).data = <<Empty>>
    <2>1. Raw(lines) \in SSEEvent
      BY RawTyped
    <2>2. ParseSSEBlock(lines).data = <<>>
      BY <1>2, <2>1, ParsedIs DEF SSEEvent
    <2> QED
      BY <1>1, <1>2, <2>2 DEF HasText
  <1>3. CASE Raw(lines).data # <<Empty>>
    BY <1>1, <1>3, ParsedIs
  <1> QED
    BY <1>2, <1>3

LEMMA WithTextMore ==
    ASSUME NEW events \in Seq(AnyEvent), NEW event \in AnyEvent
    PROVE  WithText(Append(events, event)) =
             IF HasText(Stripped(event)) THEN Append(WithText(events), Stripped(event)) ELSE WithText(events)
  <1>1. PICK n \in Nat : n = Len(events)
    OBVIOUS
  <1>2. PICK more \in Seq(AnyEvent) : more = Append(events, event)
    BY AppendProperties
  <1>3. /\ Len(more) = n + 1 /\ more[n + 1] = event
        /\ \A i \in 1..n : more[i] = events[i]
    BY <1>1, <1>2, AppendProperties
  <1>4. DOMAIN events = 1..n /\ DOMAIN more = 1..(n + 1)
    BY <1>1, <1>3, LenProperties
  <1> DEFINE X == {Stripped(e) : e \in AnyEvent}
  <1>5. PICK old : old = [i \in 1..n |-> Stripped(events[i])]
    OBVIOUS
  <1>6. PICK new \in Seq(X) : new = [i \in 1..(n + 1) |-> Stripped(more[i])] /\ Len(new) = n + 1
    <2>1. \A i \in 1..(n + 1) : Stripped(more[i]) \in X
      <3>1. \A i \in 1..(n + 1) : more[i] \in AnyEvent
        BY <1>3
      <3> QED
        BY <3>1
    <2> HIDE DEF X
    <2>2. PICK f : f = [i \in 1..(n + 1) |-> Stripped(more[i])]
      OBVIOUS
    <2>3. \A i \in 1..(n + 1) : f[i] = Stripped(more[i])
      BY <2>2
    <2>4. n + 1 \in Nat /\ f = [i \in 1..(n + 1) |-> f[i]] /\ \A i \in 1..(n + 1) : f[i] \in X
      BY <2>1, <2>2, <2>3
    <2>5. f \in Seq(X) /\ Len(f) = n + 1
      BY <2>4, Listed
    <2> QED
      BY <2>2, <2>5
  <1> HIDE DEF X
  <1>7. (\A i \in 1..n : new[i] = old[i]) /\ new[n + 1] = Stripped(event)
    <2>1. \A i \in 1..n : i \in 1..(n + 1)
      OBVIOUS
    <2> QED
      BY <1>3, <1>5, <1>6, <2>1
  <1>8. PICK S \in SUBSET (1..n) : S = {i \in 1..n : HasText(old[i])}
    OBVIOUS
  <1>9. WithText(events) = Picked(old, S)
    BY <1>4, <1>5, <1>8, Zenon DEF WithText
  <1>10. Picked(old, S) = Picked(new, S)
    <2>1. \A i \in S : old[i] = new[i]
      BY <1>7, <1>8
    <2> QED
      BY <2>1, PickedSame
  <1>11. WithText(more) = Picked(new, {i \in 1..(n + 1) : HasText(new[i])})
    BY <1>4, <1>6, Zenon DEF WithText
  <1>12. {i \in 1..(n + 1) : HasText(new[i])} = IF HasText(Stripped(event)) THEN S \cup {n + 1} ELSE S
    <2>1. \A i : i \in 1..(n + 1) <=> i \in 1..n \/ i = n + 1
      OBVIOUS
    <2>2. n + 1 \notin 1..n
      OBVIOUS
    <2> QED
      BY <1>7, <1>8, <2>1, <2>2
  <1>13. Picked(new, S \cup {n + 1}) = Append(Picked(new, S), new[n + 1])
    <2>1. n + 1 \in (n + 1)..Len(new)
      BY <1>6
    <2> QED
      BY <2>1, PickedMore
  <1> QED
    BY <1>2, <1>7, <1>9, <1>10, <1>11, <1>12, <1>13

LEMMA NoText == WithText(<<>>) = <<>>
  <1>1. PICK old : old = [i \in DOMAIN <<>> |-> Stripped(<<>>[i])]
    OBVIOUS
  <1>2. {i \in DOMAIN <<>> : HasText(old[i])} = {}
    OBVIOUS
  <1>3. WithText(<<>>) = Picked(old, {})
    BY <1>1, <1>2, Zenon DEF WithText
  <1> QED
    BY <1>3, FS_EmptySet DEF Picked

\* Leaving out events without a text leaves the ones with one.
LEMMA TextKept ==
    ASSUME NEW events \in Seq(AnyEvent), NEW S \in SUBSET (1..Len(events)),
           \A i \in 1..Len(events) : HasText(Stripped(events[i])) => i \in S
    PROVE  WithText(Picked(events, S)) = WithText(events)
  <1> DEFINE Upto(n) == {i \in S : i <= n}
             Same(n) == WithText(Picked(events, Upto(n))) = WithText(Picked(events, 1..n))
             Good == {n \in Nat : n <= Len(events) => Same(n)}
  <1>1. PICK len \in Nat : len = Len(events)
    OBVIOUS
  <1>2. 0 \in Good
    <2>1. Upto(0) = {} /\ 1..0 = {}
      <3>1. \A i \in S : ~(i <= 0)
        BY <1>1
      <3>2. 1..0 = {}
        OBVIOUS
      <3> QED
        BY <3>1, <3>2
    <2> HIDE DEF Upto
    <2> QED
      BY <2>1
  <1>3. ASSUME NEW n \in Good PROVE n + 1 \in Good
    <2> SUFFICES ASSUME n + 1 <= Len(events) PROVE Same(n + 1)
      BY <1>3
    <2>1. n \in Nat /\ Same(n) /\ n + 1 \in 1..len /\ n + 1 \in (n + 1)..Len(events)
      BY <1>1
    <2>2. PICK event \in AnyEvent : event = events[n + 1]
      BY <1>1, <2>1
    <2>3. PICK upto \in SUBSET (1..n), all \in SUBSET (1..n) : upto = Upto(n) /\ all = 1..n
      <3>1. \A i \in Upto(n) : i \in 1..n
        BY <1>1, <2>1
      <3> QED
        BY <3>1
    <2>4. 1..(n + 1) = all \cup {n + 1}
      BY <2>1, <2>3
    <2>5. Upto(n + 1) = IF n + 1 \in S THEN upto \cup {n + 1} ELSE upto
      <3>1. \A i \in S : i <= n + 1 <=> i <= n \/ i = n + 1
        BY <1>1, <2>1
      <3>2. ~(n + 1 <= n) /\ n + 1 <= n + 1
        BY <2>1
      <3> QED
        BY <2>3, <3>1, <3>2
    <2> HIDE DEF Upto
    <2>6. PICK kept \in Seq(AnyEvent), every \in Seq(AnyEvent) :
            kept = Picked(events, upto) /\ every = Picked(events, all)
      <3>1. upto \in SUBSET (1..Len(events)) /\ all \in SUBSET (1..Len(events))
        BY <1>1, <2>1, <2>3
      <3> QED
        BY <3>1, PickedTyped
    <2>7. WithText(kept) = WithText(every)
      BY <2>1, <2>3, <2>6
    <2>8. Picked(events, 1..(n + 1)) = Append(every, event)
      BY <2>1, <2>2, <2>4, <2>6, PickedMore
    <2>9. WithText(Append(every, event)) =
            IF HasText(Stripped(event)) THEN Append(WithText(every), Stripped(event)) ELSE WithText(every)
      BY WithTextMore
    <2>10. CASE n + 1 \in S
      <3>1. Picked(events, Upto(n + 1)) = Append(kept, event)
        BY <2>1, <2>2, <2>5, <2>6, <2>10, PickedMore
      <3>2. WithText(Append(kept, event)) =
              IF HasText(Stripped(event)) THEN Append(WithText(kept), Stripped(event)) ELSE WithText(kept)
        BY WithTextMore
      <3> QED
        BY <2>7, <2>8, <2>9, <3>1, <3>2
    <2>11. CASE n + 1 \notin S
      <3>1. ~HasText(Stripped(event))
        BY <1>1, <2>1, <2>2, <2>11
      <3>2. Picked(events, Upto(n + 1)) = kept
        BY <2>5, <2>6, <2>11
      <3> QED
        BY <2>7, <2>8, <2>9, <3>1, <3>2
    <2> QED
      BY <2>10, <2>11
  <1> HIDE DEF Same
  <1>4. Good = Nat
    BY <1>2, <1>3, Counting
  <1>5. Same(len)
    BY <1>1, <1>4
  <1>6. Upto(len) = S
    BY <1>1, PositionsUpTo
  <1> HIDE DEF Upto
  <1> QED
    BY <1>1, <1>5, <1>6, PickedAll DEF Same

\* The events with a text the client is dispatched are the ones the program makes.
LEMMA ClientSees ==
    ASSUME NEW lines \in Seq(Lines)
    PROVE  /\ EventsIn(lines) \in Seq(AnyEvent)
           /\ WithText(EventsIn(lines)) = WithText(Shown(lines))
  <1>1. PICK n \in Nat : n = Cardinality(BlanksOf(lines)) /\ DOMAIN Blocks(lines) = 1..n
    BY BlocksCount
  <1>2. \A k \in 1..n : Blocks(lines)[k] \in Seq(Lines)
    BY <1>1, CutTyped
  <1>3. PICK events \in Seq(AnyEvent) :
          events = [k \in 1..n |-> EventOf(Blocks(lines)[k])] /\ Len(events) = n
    <2>1. \A k \in 1..n : EventOf(Blocks(lines)[k]) \in AnyEvent
      BY <1>2, ReadByClient
    <2>2. PICK f : f = [k \in 1..n |-> EventOf(Blocks(lines)[k])]
      OBVIOUS
    <2> QED
      BY <2>1, <2>2, Listed
  <1>4. PICK cut \in Seq(AnyEvent) :
          cut = [k \in 1..n |-> ParseSSEBlock(Blocks(lines)[k])] /\ Len(cut) = n /\ cut = Cut(lines)
    <2>1. \A k \in 1..n : ParseSSEBlock(Blocks(lines)[k]) \in AnyEvent
      BY <1>2, ParsedIs, SSEEventIsAny
    <2>2. PICK f : f = [k \in 1..n |-> ParseSSEBlock(Blocks(lines)[k])]
      OBVIOUS
    <2>3. f \in Seq(AnyEvent) /\ Len(f) = n
      BY <2>1, <2>2, Listed
    <2> QED
      BY <1>1, <2>2, <2>3 DEF Cut
  <1>5. EventsIn(lines) \in Seq(AnyEvent) /\ WithText(EventsIn(lines)) = WithText(events)
    <2>1. PICK S \in SUBSET (1..n) : S = {k \in 1..n : events[k].data # <<>>}
      OBVIOUS
    <2>2. EventsIn(lines) = Picked(events, S)
      <3>1. events = [k \in DOMAIN Blocks(lines) |-> EventOf(Blocks(lines)[k])] /\ DOMAIN events = 1..n
        BY <1>1, <1>3
      <3> QED
        BY <2>1, <3>1, Zenon DEF EventsIn
    <2>3. \A k \in 1..n : HasText(Stripped(events[k])) => k \in S
      <3>1. ASSUME NEW event, event.data = <<>> PROVE ~HasText(Stripped(event))
        <4>1. Stripped(event).data = <<>>
          BY <3>1 DEF Stripped
        <4> QED
          BY <4>1 DEF HasText
      <3> QED
        BY <2>1, <3>1
    <2>4. S \in SUBSET (1..Len(events)) /\ \A k \in 1..Len(events) : HasText(Stripped(events[k])) => k \in S
      BY <1>3, <2>1, <2>3
    <2>5. Picked(events, S) \in Seq(AnyEvent)
      BY <2>4, PickedTyped
    <2>6. WithText(Picked(events, S)) = WithText(events)
      BY <2>4, TextKept
    <2> QED
      BY <2>2, <2>5, <2>6
  <1>6. WithText(Shown(lines)) = WithText(cut)
    <2>1. PICK S \in SUBSET (1..n) : S = {k \in DOMAIN cut : IsSeen(cut[k])}
      BY <1>4
    <2>2. Shown(lines) = Picked(cut, S)
      BY <1>4, <2>1, CutTyped DEF Seen
    <2>3. \A k \in 1..n : HasText(Stripped(cut[k])) => k \in S
      <3>1. ASSUME NEW k \in 1..n, HasText(Stripped(cut[k])) PROVE IsSeen(cut[k])
        <4>1. cut[k] \in SSEEvent
          BY <1>2, <1>4, ParsedIs
        <4>2. Stripped(cut[k]) = cut[k]
          BY <4>1, SSEEventIsAny
        <4> QED
          BY <3>1, <4>2 DEF HasText, IsSeen
      <3>2. DOMAIN cut = 1..n
        BY <1>4
      <3> QED
        BY <2>1, <3>1, <3>2
    <2> QED
      BY <1>4, <2>1, <2>2, <2>3, TextKept
  <1>7. WithText(events) = WithText(cut)
    <2>1. \A k \in 1..n : /\ HasText(Stripped(cut[k])) <=> HasText(Stripped(events[k]))
                          /\ HasText(Stripped(events[k])) => Stripped(cut[k]) = Stripped(events[k])
      BY <1>2, <1>3, <1>4, SameText
    <2>2. PICK e, c : e = [i \in 1..n |-> Stripped(events[i])] /\ c = [i \in 1..n |-> Stripped(cut[i])]
      OBVIOUS
    <2>3. \A k \in 1..n : (HasText(c[k]) <=> HasText(e[k])) /\ (HasText(e[k]) => c[k] = e[k])
      BY <2>1, <2>2
    <2>4. PICK S \in SUBSET (1..n) : S = {k \in 1..n : HasText(e[k])} /\ S = {k \in 1..n : HasText(c[k])}
      BY <2>3
    <2>5. Picked(e, S) = Picked(c, S)
      <3>1. \A k \in S : e[k] = c[k]
        BY <2>3, <2>4
      <3> QED
        BY <3>1, PickedSame
    <2>6. DOMAIN events = 1..n /\ DOMAIN cut = 1..n
      BY <1>3, <1>4
    <2>7. WithText(events) = Picked(e, S)
      BY <2>2, <2>4, <2>6, Zenon DEF WithText
    <2>8. WithText(cut) = Picked(c, S)
      BY <2>2, <2>4, <2>6, Zenon DEF WithText
    <2> QED
      BY <2>5, <2>7, <2>8
  <1> QED
    BY <1>5, <1>6, <1>7

\* What the observers are shown, from the invariant.
LEMMA ObserversSeeIt == StreamInv => ObservedIsSent
  <1> SUFFICES ASSUME StreamInv PROVE ObservedIsSent
    OBVIOUS
  <1>1. StreamTyped /\ PassedOn /\ WrittenAnew
    BY DEF StreamInv
  <1>2. PICK sent \in Seq(AnyEvent) : sent = EventsIn(out) /\ WithText(sent) = WithText(Shown(out))
    BY <1>1, ClientSees DEF StreamTyped
  <1>3. CASE mode = "passthrough" /\ stream # "going"
    <2>1. observed = Shown(out) \o Seen(<<ParseSSEBlock(pending)>>)
      BY <1>1, <1>3 DEF PassedOn
    <2>2. pending \in Seq(Lines)
      BY <1>1, TextLinesAreLines DEF StreamTyped
    <2>3. PICK event \in SSEEvent, events \in Seq(SSEEvent) :
            event = ParseSSEBlock(pending) /\ events = Shown(out)
      BY <1>1, <2>2, ParsedIs, CutTyped DEF StreamTyped
    <2>4. PICK last \in AnyEvent : last = EventOf(pending)
      BY <2>2, ReadByClient
    <2>5. /\ event \in AnyEvent /\ Stripped(event) = event
          /\ HasText(event) <=> HasText(Stripped(last))
          /\ HasText(event) => event = Stripped(last)
      BY <2>2, <2>3, <2>4, SSEEventIsAny, SameText
    <2>6. events \in Seq(AnyEvent)
      <3>1. SSEEvent \subseteq AnyEvent
        BY SSEEventIsAny
      <3> QED
        BY <3>1, SeqMonotonic
    <2>7. WithText(Append(sent, last)) =
            IF HasText(event) THEN Append(WithText(events), event) ELSE WithText(events)
      BY <1>2, <2>3, <2>5, WithTextMore
    <2>8. WithText(Append(events, event)) =
            IF HasText(event) THEN Append(WithText(events), event) ELSE WithText(events)
      BY <2>5, <2>6, WithTextMore
    <2>9. Seen(<<event>>) = IF IsSeen(event) THEN <<event>> ELSE <<>>
      BY SeenAlone, Zenon
    <2>10. events \o <<>> = events /\ Append(events, event) = events \o <<event>>
      BY ConcatEmptySeq, AppendIsConcat
    <2>11. observed = IF IsSeen(event) THEN Append(events, event) ELSE events
      BY <2>1, <2>3, <2>9, <2>10, Zenon
    <2>12. HasText(event) => IsSeen(event)
      BY DEF HasText, IsSeen
    <2>13. WithText(observed) = WithText(Append(sent, last))
      BY <2>7, <2>8, <2>11, <2>12
    <2> QED
      BY <1>2, <1>3, <2>4, <2>13 DEF ObservedIsSent
  <1>4. CASE ~(mode = "passthrough" /\ stream # "going")
    <2>1. observed = Shown(out)
      BY <1>1, <1>4 DEF StreamTyped, PassedOn, WrittenAnew
    <2> QED
      BY <1>2, <2>1 DEF ObservedIsSent
  <1> QED
    BY <1>3, <1>4

\* Passed on, the text is the one read; written anew, it shows the same events.
LEMMA NothingLost == StreamInv => NothingLostInRewriting
  <1> SUFFICES ASSUME StreamInv, plain PROVE WithText(EventsIn(out)) = WithText(EventsIn(read))
    BY DEF NothingLostInRewriting
  <1>1. read \in Seq(Lines) /\ out \in Seq(Lines) /\ Shown(out) = Shown(read)
    BY DEF StreamInv, StreamTyped, PassedOn, WrittenAnew
  <1> QED
    BY <1>1, ClientSees

-----------------------------------------------------------------------------
(* The body.                                                               *)

USE BodyAssumption DEF Attempts

\* The body is there as long as it has not been released, and released once.
HeldUntilReleased ==
    /\ at = "prepare" => attempts = 0 /\ ~released
    /\ at \in {"trying", "sending", "judging"} => ~released /\ ctxBody = BodySize
    /\ at \in {"forwarding", "done"} => released
    /\ ~released => hook.calls = 0
    /\ ~released /\ attempts > 0 => ctxBody = BodySize
    /\ released => /\ ctxBody = 0 /\ shared = 0 /\ hook.calls = 1
                   /\ attempts > 0 => hook.saw = BodySize

\* Only the attempt that is being sent has a buffer.
BuffersOfTheSending ==
    /\ at = "sending" => attempts \in Attempts /\ buffers[attempts] = BodySize
    /\ \A a \in Attempts : ~(at = "sending" /\ a = attempts) => buffers[a] = 0

\* An upload's reader has the whole body in reach.
ReadersAreWhole ==
    \A a \in Attempts : uploads[a].state # "none" =>
        /\ uploads[a].size = BodySize
        /\ uploads[a].state = "eof" => uploads[a].read = BodySize

IInv == BodyTypeOK /\ HeldUntilReleased /\ BuffersOfTheSending /\ ReadersAreWhole

-----------------------------------------------------------------------------

UploadType == [size : {0, BodySize}, read : 0..BodySize, state : {"none", "open", "eof", "closed"}]

\* One attempt's upload changes, to one that is typed and whole.
LEMMA UploadChanges ==
    ASSUME IInv, NEW a \in Attempts, NEW upload \in UploadType,
           uploads' = [uploads EXCEPT ![a] = upload],
           upload.state # "none" =>
             /\ upload.size = BodySize
             /\ upload.state = "eof" => upload.read = BodySize
    PROVE  uploads' \in [Attempts -> UploadType] /\ ReadersAreWhole'
  <1>1. uploads \in [Attempts -> UploadType]
    BY DEF IInv, BodyTypeOK, UploadType
  <1>2. uploads' \in [Attempts -> UploadType]
    BY <1>1
  <1>3. uploads'[a] = upload /\ \A b \in Attempts : b # a => uploads'[b] = uploads[b]
    BY <1>1
  <1> QED
    BY <1>2, <1>3 DEF IInv, ReadersAreWhole

LEMMA NewReader ==
    /\ UploadReader(BodySize) \in UploadType
    /\ UploadReader(BodySize).size = BodySize /\ UploadReader(BodySize).state = "open"
  BY DEF UploadReader, UploadType

LEMMA InitInvariant == Init => IInv
  <1> SUFFICES ASSUME Init PROVE IInv
    OBVIOUS
  <1> USE DEF Init, BodyInit
  <1>1. NoUpload \in UploadType /\ NoUpload.state = "none"
    BY DEF NoUpload, UploadType
  <1>2. uploads \in [Attempts -> UploadType] /\ \A a \in Attempts : uploads[a].state = "none"
    BY <1>1
  <1>3. BodyTypeOK
    <2>1. [calls |-> 0, saw |-> 0] \in [calls : 0..2, saw : {0, BodySize}]
      OBVIOUS
    <2>2. buffers \in [Attempts -> {0, BodySize}] /\ attempts \in 0..MaxUploads
      OBVIOUS
    <2> QED
      BY <1>2, <2>1, <2>2 DEF BodyTypeOK, UploadType
  <1>4. HeldUntilReleased /\ BuffersOfTheSending
    BY DEF HeldUntilReleased, BuffersOfTheSending
  <1>5. ReadersAreWhole
    BY <1>2 DEF ReadersAreWhole
  <1> QED
    BY <1>3, <1>4, <1>5 DEF IInv

\* The steps of the request's goroutine that leave the uploads alone.
LEMMA HandlerKeeps ==
    ASSUME IInv,
           \/ PrepareRequestBody \/ FinishAttempt \/ Retry \/ AcceptAndRelease \/ Panic
           \/ LeaveHandler \/ Forwarded
    PROVE  IInv'
  <1>1. UNCHANGED <<attempts, uploads>>
    BY DEF PrepareRequestBody, FinishAttempt, Retry, AcceptAndRelease, Panic, LeaveHandler, Forwarded
  <1>2. ReadersAreWhole'
    BY <1>1 DEF IInv, ReadersAreWhole
  <1>3. CASE PrepareRequestBody
    BY <1>1, <1>2, <1>3 DEF PrepareRequestBody, IInv, BodyTypeOK, HeldUntilReleased, BuffersOfTheSending
  <1>4. CASE FinishAttempt
    BY <1>1, <1>2, <1>4 DEF FinishAttempt, IInv, BodyTypeOK, HeldUntilReleased, BuffersOfTheSending
  <1>5. CASE Retry
    BY <1>1, <1>2, <1>5 DEF Retry, IInv, BodyTypeOK, HeldUntilReleased, BuffersOfTheSending
  <1>6. CASE Panic
    BY <1>1, <1>2, <1>6 DEF Panic, IInv, BodyTypeOK, HeldUntilReleased, BuffersOfTheSending
  <1>7. CASE Forwarded
    BY <1>1, <1>2, <1>7 DEF Forwarded, IInv, BodyTypeOK, HeldUntilReleased, BuffersOfTheSending
  \* The release, on acceptance or at the very end.
  <1>8. ASSUME Release, at \in {"judging", "leaving"}, at' \in {"forwarding", "leaving", "done"},
               UNCHANGED buffers
        PROVE  IInv'
    <2>1. /\ released' = TRUE /\ ctxBody' = 0 /\ shared' = 0
          /\ hook' \in [calls : 0..2, saw : {0, BodySize}] /\ hook'.calls = 1
          /\ attempts > 0 => hook'.saw = BodySize
      BY <1>8 DEF Release, IInv, BodyTypeOK, HeldUntilReleased
    <2>2. BodyTypeOK'
      BY <1>1, <1>8, <2>1 DEF IInv, BodyTypeOK
    <2>3. HeldUntilReleased' /\ BuffersOfTheSending'
      BY <1>1, <1>8, <2>1 DEF IInv, HeldUntilReleased, BuffersOfTheSending
    <2> QED
      BY <1>2, <2>2, <2>3 DEF IInv
  <1>9. CASE AcceptAndRelease \/ LeaveHandler
    BY <1>8, <1>9 DEF AcceptAndRelease, LeaveHandler
  <1> QED
    BY <1>3, <1>4, <1>5, <1>6, <1>7, <1>9

LEMMA StartUploadKeeps == IInv /\ StartUpload => IInv'
  <1> SUFFICES ASSUME IInv, StartUpload PROVE IInv'
    OBVIOUS
  <1>1. /\ at = "trying" /\ at' = "sending" /\ attempts < MaxUploads /\ attempts' = attempts + 1
        /\ buffers' = [buffers EXCEPT ![attempts + 1] = ctxBody]
        /\ uploads' = [uploads EXCEPT ![attempts + 1] = UploadReader(ctxBody)]
        /\ UNCHANGED <<shared, ctxBody, released, hook>>
    BY DEF StartUpload
  <1>2. attempts + 1 \in Attempts /\ ctxBody = BodySize /\ ~released
    BY <1>1 DEF IInv, BodyTypeOK, HeldUntilReleased
  <1>3. uploads' \in [Attempts -> UploadType] /\ ReadersAreWhole'
    BY <1>1, <1>2, NewReader, UploadChanges
  <1>4. /\ buffers' \in [Attempts -> {0, BodySize}]
        /\ buffers'[attempts + 1] = BodySize
        /\ \A a \in Attempts : a # attempts + 1 => buffers'[a] = 0
    BY <1>1, <1>2 DEF IInv, BodyTypeOK, BuffersOfTheSending
  <1>5. BodyTypeOK'
    BY <1>1, <1>2, <1>3, <1>4 DEF IInv, BodyTypeOK, UploadType
  <1>6. HeldUntilReleased' /\ BuffersOfTheSending'
    BY <1>1, <1>2, <1>4 DEF IInv, HeldUntilReleased, BuffersOfTheSending
  <1> QED
    BY <1>3, <1>5, <1>6 DEF IInv

LEMMA TransportKeeps ==
    ASSUME IInv, NEW a \in Attempts, ReadUpload(a) \/ RewindUpload(a) \/ CloseUpload(a)
    PROVE  IInv'
  <1>1. UNCHANGED <<at, shared, ctxBody, released, hook, attempts, buffers>>
    BY DEF ReadUpload, RewindUpload, CloseUpload
  <1>2. uploads \in [Attempts -> UploadType] /\ uploads[a] \in UploadType
    BY DEF IInv, BodyTypeOK, UploadType
  <1>3. uploads[a].state # "none" => uploads[a].size = BodySize
    BY DEF IInv, ReadersAreWhole
  <1>4. PICK upload \in UploadType :
          /\ uploads' = [uploads EXCEPT ![a] = upload]
          /\ upload.size = BodySize
          /\ upload.state = "eof" => upload.read = BodySize
    <2>1. CASE ReadUpload(a)
      <3>1. Available(a) = BodySize /\ uploads[a].state = "open"
        BY <1>3, <2>1 DEF ReadUpload, Available
      <3>2. CASE uploads[a].read < BodySize
        <4> DEFINE next == [uploads[a] EXCEPT !.read = @ + 1]
        <4>1. next \in UploadType /\ next.size = BodySize /\ next.state = "open"
          BY <1>2, <1>3, <3>1, <3>2 DEF UploadType
        <4>2. uploads' = [uploads EXCEPT ![a] = next]
          BY <1>2, <2>1, <3>1, <3>2 DEF ReadUpload, UploadType
        <4> QED
          BY <4>1, <4>2
      <3>3. CASE ~(uploads[a].read < BodySize)
        <4> DEFINE next == [uploads[a] EXCEPT !.state = "eof"]
        <4>1. next \in UploadType /\ next.size = BodySize /\ next.read = BodySize
          BY <1>2, <1>3, <3>1, <3>3 DEF UploadType
        <4>2. uploads' = [uploads EXCEPT ![a] = next]
          BY <1>2, <2>1, <3>1, <3>3 DEF ReadUpload, UploadType
        <4> QED
          BY <4>1, <4>2
      <3> QED
        BY <3>2, <3>3
    <2>2. CASE RewindUpload(a)
      <3>1. uploads' = [uploads EXCEPT ![a] = UploadReader(BodySize)]
        BY <2>2 DEF RewindUpload, IInv, BuffersOfTheSending
      <3> QED
        BY <3>1, NewReader
    <2>3. CASE CloseUpload(a)
      <3> DEFINE next == [uploads[a] EXCEPT !.state = "closed"]
      <3>1. next \in UploadType /\ next.size = BodySize /\ next.state = "closed"
        BY <1>2, <1>3, <2>3 DEF UploadType, CloseUpload
      <3>2. uploads' = [uploads EXCEPT ![a] = next]
        BY <2>3 DEF CloseUpload
      <3> QED
        BY <3>1, <3>2
    <2> QED
      BY <2>1, <2>2, <2>3
  <1>5. uploads' \in [Attempts -> UploadType] /\ ReadersAreWhole'
    BY <1>4, UploadChanges
  <1>6. BodyTypeOK' /\ HeldUntilReleased' /\ BuffersOfTheSending'
    BY <1>1, <1>5 DEF IInv, BodyTypeOK, HeldUntilReleased, BuffersOfTheSending, UploadType
  <1> QED
    BY <1>5, <1>6 DEF IInv

LEMMA StepInvariant == IInv /\ [Next]_vars => IInv'
  <1> SUFFICES ASSUME IInv, [Next]_vars PROVE IInv'
    OBVIOUS
  <1>1. CASE UNCHANGED bodyVars
    BY <1>1 DEF bodyVars, IInv, BodyTypeOK, HeldUntilReleased, BuffersOfTheSending, ReadersAreWhole
  <1>2. CASE BodyStep
    BY <1>2, HandlerKeeps, StartUploadKeeps, TransportKeeps DEF BodyStep
  <1>3. CASE Forwarded
    BY <1>3, HandlerKeeps
  <1> QED
    BY <1>1, <1>2, <1>3 DEF Next, vars

LEMMA Invariant == Spec => []IInv
  BY InitInvariant, StepInvariant, PTL DEF Spec

-----------------------------------------------------------------------------
(* The theorems.                                                           *)

\* Letting the shared body go never cuts an upload short: each reads from a
\* reader of its own (executeHTTPAttempt's uploadReader, releaseRequestBody).
THEOREM UploadsStayWhole == Spec => []UploadsAreWhole
  <1>1. IInv => UploadsAreWhole
    BY DEF IInv, ReadersAreWhole, UploadsAreWhole
  <1> QED
    BY <1>1, Invariant, PTL

\* The body is released once, and nothing of it outlives the request, whichever
\* hook panics (ServeHTTP's deferred releaseRequestBody).
THEOREM BodyAlwaysReleased == Spec => []BodyReleasedOnce
  <1>1. IInv => BodyReleasedOnce
    BY DEF IInv, BodyTypeOK, HeldUntilReleased, BuffersOfTheSending, BodyReleasedOnce
  <1> QED
    BY <1>1, Invariant, PTL

\* The stream's invariant holds of the whole program: no step of the body's
\* side touches the stream.
LEMMA StreamInvariant == Spec => []StreamInv
  <1>1. Init => StreamInv
    BY StreamStarts DEF Init
  <1>2. StreamInv /\ [Next]_vars => StreamInv'
    <2>1. [Next]_vars => [StreamStep]_streamVars
      BY DEF Next, vars, Forwarded, streamVars
    <2> QED
      BY <2>1, StreamStepKeeps
  <1> QED
    BY <1>1, <1>2, PTL DEF Spec

\* Of the events with a text, OnSSE is called with exactly those the client
\* assembles from what it was sent by the rules of the format, but for the space
\* around values: at every moment, for streams of any length and any values
\* (scanner loop of streamSSEPassthrough and streamSSEWithTransform).
THEOREM ObserversSeeWhatIsSent == Spec => []ObservedIsSent
  BY StreamInvariant, ObserversSeeIt, PTL

\* Parsing each block and writing it anew leaves the client with the events with
\* a text that the upstream completed, but for the space around values, as long
\* as the hooks change none (ParseSSEBlock, WriteSSEEvent).
THEOREM RewritingLosesNothing == Spec => []NothingLostInRewriting
  BY StreamInvariant, NothingLost, PTL
=============================================================================
