----------------------------- MODULE PartsProofs -----------------------------
(***************************************************************************)
(* Theorems about the modules that share no state with the backend's: the  *)
(* log file, the trigger loop, the checks of requests, the form's rows, a  *)
(* field's input, and the page's table, each for any values of its         *)
(* constants.                                                              *)
(*                                                                         *)
(* Two of them list things in their order: the events of a file, the rows  *)
(* of a table.  What the list says of the least, the next or the one that  *)
(* is shown rests on lemmas about the rank of a number in a finite set.    *)
(***************************************************************************)
EXTENDS Trigger, LogFile, Tables, Form, Fields, Page, FiniteSetTheorems, SequenceTheorems,
        WellFoundedInduction, TLAPS

(* Sets of numbers *)

\* A set of numbers has a least one.
Less == {ss \in Nat \X Nat : ss[1] < ss[2]}
LEMMA Least == ASSUME NEW S \in SUBSET Nat, S # {} PROVE \E m \in S : \A l \in S : ~(l < m)
  <1>1. IsWellFoundedOn(Less, Nat)
    BY NatLessThanWellFounded, Zenon DEF OpToRel, Less
  <1>2. \E m \in S : \A l \in S : ~(<<l, m>> \in Less)
    BY <1>1, WFMin, Zenon
  <1> QED
    BY <1>2 DEF Less

\* A set of numbers up to a number has a largest.
LEMMA Largest ==
  ASSUME NEW n \in Nat, NEW S \in SUBSET (1..n), S # {}
  PROVE  \E i \in S : \A j \in S : j <= i
  <1> DEFINE above == {k \in Nat : \A j \in S : j <= k}
  <1>1. above \subseteq Nat /\ n \in above
    OBVIOUS
  <1>2. PICK k \in above : \A l \in above : ~(l < k)
    <2> HIDE DEF above
    <2> QED
      BY <1>1, Least
  <1>3. \A l \in above : ~(l < k)
    BY <1>2
  <1>4. k \in S
    <2> SUFFICES ASSUME k \notin S PROVE FALSE
      OBVIOUS
    <2>1. \A j \in S : j <= k - 1
      BY <1>2
    <2>2. PICK j \in S : TRUE
      OBVIOUS
    <2>3. k - 1 \in above
      BY <1>2, <2>1, <2>2
    <2> QED
      BY <1>2, <1>3, <2>3
  <1> QED
    BY <1>2, <1>4

\* Sets of numbers up to a number are finite.
LEMMA FiniteUpTo ==
  ASSUME NEW n \in Nat, NEW S \in SUBSET (1..n)
  PROVE  /\ IsFiniteSet(S) /\ Cardinality(S) \in Nat
         /\ \A T \in SUBSET S : IsFiniteSet(T) /\ Cardinality(T) \in Nat
  <1>1. IsFiniteSet(1..n)
    BY FS_Interval
  <1>2. \A T \in SUBSET (1..n) : IsFiniteSet(T) /\ Cardinality(T) \in Nat
    BY <1>1, FS_Subset, FS_CardinalityType
  <1> QED
    BY <1>2

LEMMA UpTo ==
  ASSUME NEW E \in SUBSET Nat, NEW i \in E
  PROVE  /\ {j \in E : j <= i} = {j \in E : j < i} \cup {i}
         /\ \A k \in E : k < i /\ (\A j \in E : j < i => j <= k)
                       => {j \in E : j <= k} = {j \in E : j < i}
  <1>0. i \in Nat /\ \A j \in E : j \in Nat
    OBVIOUS
  <1>1. {j \in E : j <= i} = {j \in E : j < i} \cup {i}
    <2>1. \A j \in E : j <= i <=> j < i \/ j = i
      BY <1>0
    <2> QED
      BY <2>1, Zenon
  <1>2. ASSUME NEW k \in E, k < i, \A j \in E : j < i => j <= k
        PROVE  {j \in E : j <= k} = {j \in E : j < i}
    <2>1. \A j \in E : j <= k <=> j < i
      BY <1>0, <1>2
    <2> QED
      BY <2>1, Zenon
  <1> QED
    BY <1>1, <1>2

\* Of a set of numbers, one has any number of them up to it that there are.
LEMMA Ranked ==
  ASSUME NEW n \in Nat, NEW E \in SUBSET (1..n), NEW m \in 1..Cardinality(E)
  PROVE  \E i \in E : Cardinality({j \in E : j <= i}) = m
  <1> DEFINE upTo(i) == {j \in E : j <= i}
             most == {i \in E : Cardinality(upTo(i)) >= m}
  <1>1. E \subseteq 1..n /\ Cardinality(E) \in Nat /\ E \subseteq Nat
    BY FiniteUpTo
  <1>2. \A S \in SUBSET E : IsFiniteSet(S) /\ Cardinality(S) \in Nat
    BY FiniteUpTo
  <1>3. E # {}
    BY FS_EmptySet
  <1>4. PICK top \in E : \A j \in E : j <= top
    BY <1>1, <1>3, Largest
  <1>5. top \in most
    <2>1. upTo(top) = E
      BY <1>4
    <2>2. m \in Nat /\ m <= Cardinality(E)
      BY <1>1
    <2> QED
      BY <1>1, <2>1, <2>2
  <1>6. PICK i \in most : \A l \in most : ~(l < i)
    <2>1. most \subseteq Nat /\ most # {}
      BY <1>1, <1>5
    <2> HIDE DEF most
    <2> QED
      BY <2>1, Least
  <1> DEFINE before == {j \in E : j < i}
  <1>7. Cardinality(upTo(i)) = Cardinality(before) + 1 /\ Cardinality(before) \in Nat
    <2>0. i \in E /\ i \in Nat
      BY <1>1, <1>6
    <2>1. i \in E /\ i \notin before /\ upTo(i) = before \cup {i} /\ before \in SUBSET E
      <3> HIDE DEF most
      <3>1. upTo(i) = before \cup {i}
        BY <1>1, <2>0, UpTo
      <3> QED
        BY <1>1, <2>0, <3>1
    <2>2. IsFiniteSet(before) /\ Cardinality(before) \in Nat
      BY <1>2, <2>1
    <2> HIDE DEF before, upTo
    <2>3. Cardinality(before \cup {i}) = Cardinality(before) + 1
      BY <2>1, <2>2, FS_AddElement
    <2> QED
      BY <2>1, <2>2, <2>3
  <1>8. Cardinality(before) < m
    <2>1. CASE before = {}
      <3>1. Cardinality(before) = 0
        BY <2>1, FS_EmptySet
      <3> QED
        BY <3>1
    <2>2. CASE before # {}
      <3>1. before \in SUBSET (1..n)
        BY <1>1
      <3>2. PICK k \in before : \A j \in before : j <= k
        BY <1>1, <2>2, <3>1, Largest
      <3>3. i \in Nat /\ k \in E /\ k < i
        BY <1>1, <1>6, <3>2
      <3>4. upTo(k) = before
        <4> HIDE DEF most
        <4>1. \A j \in E : j < i => j <= k
          BY <3>2
        <4>2. E \in SUBSET Nat /\ i \in E
          BY <1>1, <1>6 DEF most
        <4> QED
          BY <3>3, <4>1, <4>2, UpTo
      <3>5. k \notin most
        BY <1>6, <3>3
      <3>6. ~(Cardinality(upTo(k)) >= m)
        BY <3>3, <3>5
      <3>7. m \in Int
        OBVIOUS
      <3>8. Cardinality(upTo(k)) = Cardinality(before)
        BY <3>4
      <3> HIDE DEF before, most, upTo
      <3> QED
        BY <1>7, <3>6, <3>7, <3>8
    <2> QED
      BY <2>1, <2>2
  <1>9. Cardinality(upTo(i)) >= m
    BY <1>6
  <1>10. Cardinality(upTo(i)) = m
    BY <1>7, <1>8, <1>9
  <1> QED
    BY <1>6, <1>10

-----------------------------------------------------------------------------

-----------------------------------------------------------------------------
(* The log file *)

PieceOf == [event : Event, piece : 1..Pieces]

\* The last line is whole.
Ended(f) == f = <<>> \/ Len(f) \in LineEnds(f)

LogTypes ==
    /\ file \in Seq(PieceOf)
    /\ held \subseteq Process
    /\ \A p, q \in held : p = q
    /\ DOMAIN events = Process
    /\ DOMAIN writing = Process

\* Who has the events of the log holds it, and has what is in the file but for
\* the line it writes.
HoldsLog ==
    \A p \in Process :
        /\ events[p] # NoLog => p \in held
        /\ writing[p] # NotWriting => events[p] # NoLog
        /\ events[p] # NoLog /\ writing[p] = NotWriting => Ended(file) /\ events[p] = Read

\* A line that is written follows a whole one, and is all that does.
LineBegun(f, w) ==
    /\ w.event \in Event
    /\ w.size \in Nat
    /\ w.written \in 0..Pieces
    /\ Len(f) = w.size + w.written
    /\ Ended(SubSeq(f, 1, w.size))
    /\ \A j \in 1..w.written : f[w.size + j] = [event |-> w.event, piece |-> j]
Writes ==
    \A p \in Process : writing[p] # NotWriting =>
        /\ LineBegun(file, writing[p])
        /\ events[p] = EventsOf(SubSeq(file, 1, writing[p].size))

LogInv == LogTypes /\ HoldsLog /\ Writes

-----------------------------------------------------------------------------
(* Lines of a file *)

LEMMA LineEndsAre ==
  ASSUME NEW f \in Seq(PieceOf)
  PROVE  /\ LineEnds(f) \subseteq 1..Len(f)
         /\ LineEnds(f) \subseteq Nat
         /\ \A S \in SUBSET LineEnds(f) : IsFiniteSet(S) /\ Cardinality(S) \in Nat
  <1>1. LineEnds(f) \subseteq 1..Len(f) /\ Len(f) \in Nat
    BY DEF LineEnds
  <1>2. IsFiniteSet(1..Len(f))
    BY <1>1, FS_Interval
  <1>3. ASSUME NEW S \in SUBSET LineEnds(f) PROVE IsFiniteSet(S) /\ Cardinality(S) \in Nat
    BY <1>1, <1>2, FS_Subset, FS_CardinalityType
  <1> QED
    BY <1>1, <1>3

LEMMA Pieced == Pieces \in Nat /\ Pieces > 0
  BY LogFileAssumption

\* A part of a file from its start.
LEMMA Parts ==
  ASSUME NEW f \in Seq(PieceOf), NEW k \in 0..Len(f)
  PROVE  /\ SubSeq(f, 1, k) \in Seq(PieceOf)
         /\ Len(SubSeq(f, 1, k)) = k
         /\ \A i \in 1..k : SubSeq(f, 1, k)[i] = f[i]
         /\ LineEnds(SubSeq(f, 1, k)) = {i \in LineEnds(f) : i <= k}
  <1>1. Len(f) \in Nat /\ \A i \in 1..Len(f) : f[i] \in PieceOf
    OBVIOUS
  <1>2. /\ SubSeq(f, 1, k) \in Seq(PieceOf)
        /\ Len(SubSeq(f, 1, k)) = k
        /\ \A i \in 1..k : SubSeq(f, 1, k)[i] = f[i]
    <2>1. \A i \in 1..k : f[i] \in PieceOf
      BY <1>1
    <2>2. /\ SubSeq(f, 1, k) \in Seq(PieceOf)
          /\ Len(SubSeq(f, 1, k)) = IF 1 <= k THEN k - 1 + 1 ELSE 0
          /\ \A i \in 1..(k - 1 + 1) : SubSeq(f, 1, k)[i] = f[1 + i - 1]
      BY <1>1, <2>1, SubSeqProperties
    <2> QED
      BY <1>1, <2>2
  <1>3. LineEnds(SubSeq(f, 1, k)) = {i \in LineEnds(f) : i <= k}
    BY <1>1, <1>2 DEF LineEnds
  <1> QED
    BY <1>2, <1>3

\* What is cut short is what follows the last end of a line.
LEMMA CutAt ==
  ASSUME NEW f \in Seq(PieceOf), NEW k \in 0..Len(f), Ended(SubSeq(f, 1, k)),
         \A i \in LineEnds(f) : i <= k
  PROVE  CompleteLines(f) = SubSeq(f, 1, k)
  <1>1. Len(SubSeq(f, 1, k)) = k /\ LineEnds(SubSeq(f, 1, k)) = LineEnds(f)
    BY Parts
  <1>2. CASE k = 0
    <2>1. LineEnds(f) = {}
      BY <1>2, LineEndsAre
    <2> QED
      BY <1>2, <2>1 DEF CompleteLines
  <1>3. CASE k # 0
    <2>1. k \in LineEnds(f)
      BY <1>1, <1>3, EmptySeq DEF Ended
    <2>2. LineEnds(f) \subseteq Nat
      BY LineEndsAre
    <2>3. \A i \in LineEnds(f) : (\A j \in LineEnds(f) : j <= i) <=> i = k
      BY <2>1, <2>2
    <2>4. (CHOOSE i \in LineEnds(f) : \A j \in LineEnds(f) : j <= i) = k
      BY <2>1, <2>3
    <2> QED
      BY <2>1, <2>4 DEF CompleteLines
  <1> QED
    BY <1>2, <1>3

LEMMA EndedWhole == ASSUME NEW f \in Seq(PieceOf), Ended(f) PROVE CompleteLines(f) = f
  <1>1. Len(f) \in 0..Len(f) /\ SubSeq(f, 1, Len(f)) = f
    BY SubSeqFull, LenProperties
  <1>2. \A i \in LineEnds(f) : i <= Len(f)
    BY LineEndsAre, <1>1
  <1>3. CompleteLines(f) = SubSeq(f, 1, Len(f))
    BY <1>1, <1>2, CutAt
  <1> QED
    BY <1>1, <1>3

LEMMA Cut ==
  ASSUME NEW f \in Seq(PieceOf)
  PROVE  CompleteLines(f) \in Seq(PieceOf) /\ Ended(CompleteLines(f))
  <1>1. LineEnds(f) \subseteq 1..Len(f) /\ Len(f) \in Nat
    BY LineEndsAre, LenProperties
  <1>2. CASE LineEnds(f) = {}
    <2>1. CompleteLines(f) = SubSeq(f, 1, 0)
      BY <1>2 DEF CompleteLines
    <2>2. SubSeq(f, 1, 0) = <<>>
      BY SubSeqEmpty
    <2> QED
      BY <2>1, <2>2, EmptySeq DEF Ended
  <1>3. CASE LineEnds(f) # {}
    <2>1. PICK k \in LineEnds(f) : \A j \in LineEnds(f) : j <= k
      BY <1>1, <1>3, Largest
    <2>2. k \in 0..Len(f) /\ k \in 1..Len(f)
      BY <1>1
    <2>3. SubSeq(f, 1, k) \in Seq(PieceOf) /\ Ended(SubSeq(f, 1, k))
      BY <2>2, Parts DEF Ended
    <2> QED
      BY <2>1, <2>2, <2>3, CutAt
  <1> QED
    BY <1>2, <1>3

\* A whole line is one event more.
LEMMA Adds ==
  ASSUME NEW f \in Seq(PieceOf), NEW k \in Nat, NEW e \in Event, Len(f) = k + Pieces,
         Ended(SubSeq(f, 1, k)),
         \A j \in 1..Pieces : f[k + j] = [event |-> e, piece |-> j]
  PROVE  Ended(f) /\ EventsOf(f) = Append(EventsOf(SubSeq(f, 1, k)), e)
  <1> DEFINE g == SubSeq(f, 1, k)
             n == Cardinality(LineEnds(g))
  <1>0. k \in 0..Len(f) /\ Len(f) \in Nat /\ Len(f) > k
    BY Pieced
  <1>1. g \in Seq(PieceOf) /\ Len(g) = k /\ (\A i \in 1..k : g[i] = f[i])
        /\ LineEnds(g) = {i \in LineEnds(f) : i <= k}
    BY <1>0, Parts
  <1> HIDE DEF g
  <1>2. f[Len(f)] = [event |-> e, piece |-> Pieces]
    BY Pieced
  <1>3. LineEnds(f) = LineEnds(g) \cup {Len(f)} /\ Len(f) \notin LineEnds(g)
    <2>1. Len(f) \in LineEnds(f)
      BY <1>0, <1>2 DEF LineEnds
    <2>2. ASSUME NEW i \in 1..Len(f), i > k, i # Len(f) PROVE i \notin LineEnds(f)
      <3>1. i - k \in 1..Pieces /\ i - k # Pieces /\ f[i] = f[k + (i - k)]
        BY <1>0, <2>2, Pieced
      <3>2. f[i] = [event |-> e, piece |-> i - k]
        BY <3>1
      <3>3. f[i].piece = i - k
        BY <3>2
      <3> QED
        BY <3>1, <3>3 DEF LineEnds
    <2>3. LineEnds(f) \subseteq 1..Len(f)
      BY LineEndsAre
    <2> QED
      BY <1>0, <1>1, <2>1, <2>2, <2>3
  <1>4. n \in Nat /\ Cardinality(LineEnds(f)) = n + 1 /\ LineEnds(g) \subseteq 1..k
    <2>1. n \in Nat /\ IsFiniteSet(LineEnds(g)) /\ LineEnds(g) \subseteq 1..k
      BY <1>1, LineEndsAre
    <2> QED
      BY <1>3, <2>1, FS_AddElement
  <1>5. ASSUME NEW i \in LineEnds(g)
        PROVE  /\ {j \in LineEnds(f) : j <= i} = {j \in LineEnds(g) : j <= i}
               /\ Cardinality({j \in LineEnds(g) : j <= i}) \in 0..n
               /\ LineAt(f, i) = LineAt(g, i)
    <2>1. i \in 1..k
      BY <1>4
    <2>2. {j \in LineEnds(f) : j <= i} = {j \in LineEnds(g) : j <= i}
      BY <1>0, <1>3, <2>1
    <2>3. Cardinality({j \in LineEnds(g) : j <= i}) \in 0..n
      <3>1. {j \in LineEnds(g) : j <= i} \in SUBSET LineEnds(g) /\ IsFiniteSet(LineEnds(g))
        BY <1>1, LineEndsAre
      <3>2. /\ Cardinality({j \in LineEnds(g) : j <= i}) <= n
            /\ Cardinality({j \in LineEnds(g) : j <= i}) \in Nat
        BY <1>1, <3>1, FS_Subset, LineEndsAre
      <3> QED
        BY <1>4, <3>2
    <2>4. LineAt(f, i) = LineAt(g, i)
      <3> DEFINE start == i - Pieces
      <3>1. f[i].event = g[i].event
        BY <1>1, <2>1
      <3>2. start \in Int /\ start < i
        BY <2>1, Pieced
      <3>3. start >= 0 => \A j \in 1..Pieces : f[start + j] = g[start + j]
        <4> SUFFICES ASSUME start >= 0, NEW j \in 1..Pieces PROVE f[start + j] = g[start + j]
          OBVIOUS
        <4>1. start + j \in 1..k
          BY <2>1, <3>2, Pieced
        <4> QED
          BY <1>1, <4>1
      <3>4. start \in LineEnds(f) <=> start \in LineEnds(g)
        BY <1>0, <1>1, <2>1, <3>2
      <3> QED
        BY <3>1, <3>3, <3>4 DEF LineAt
    <2> QED
      BY <2>2, <2>3, <2>4
  <1>6. {j \in LineEnds(f) : j <= Len(f)} = LineEnds(f)
    BY LineEndsAre
  <1> HIDE DEF n
  <1>7. \A m \in 1..n : NthEnd(f, m) = NthEnd(g, m) /\ NthEnd(g, m) \in LineEnds(g)
    <2> SUFFICES ASSUME NEW m \in 1..n
                 PROVE  NthEnd(f, m) = NthEnd(g, m) /\ NthEnd(g, m) \in LineEnds(g)
      OBVIOUS
    <2> DEFINE P(i) == i \in LineEnds(f) /\ Cardinality({j \in LineEnds(f) : j <= i}) = m
               Q(i) == i \in LineEnds(g) /\ Cardinality({j \in LineEnds(g) : j <= i}) = m
    <2>1. ~P(Len(f))
      <3>1. m # n + 1
        BY <1>4
      <3> QED
        BY <1>4, <1>6, <3>1
    <2>2. \A i : P(i) <=> Q(i)
      BY <1>3, <1>5, <2>1
    <2>3. (CHOOSE i : P(i)) = (CHOOSE i : Q(i))
      <3> HIDE DEF P, Q
      <3> QED
        BY <2>2, Zenon
    <2>4. NthEnd(f, m) = (CHOOSE i : P(i)) /\ NthEnd(g, m) = (CHOOSE i : Q(i))
      BY Zenon DEF NthEnd
    <2>5. \E i : Q(i)
      <3>1. \E i \in LineEnds(g) : Cardinality({j \in LineEnds(g) : j <= i}) = m
        <4>1. m \in 1..Cardinality(LineEnds(g)) /\ k \in Nat /\ LineEnds(g) \in SUBSET (1..k)
          BY <1>4 DEF n
        <4> HIDE DEF Q
        <4> QED
          BY <4>1, Ranked
      <3> QED
        BY <3>1
    <2>6. Q(CHOOSE i : Q(i))
      <3> HIDE DEF Q
      <3> QED
        BY <2>5, Zenon
    <2> QED
      BY <2>3, <2>4, <2>6
  <1>8. NthEnd(f, n + 1) = Len(f)
    <2> DEFINE C(i) == Cardinality({j \in LineEnds(f) : j <= i})
    <2>1. C(Len(f)) = n + 1
      BY <1>4, <1>6
    <2>2. \A i \in LineEnds(f) : i # Len(f) => C(i) # n + 1
      <3> SUFFICES ASSUME NEW i \in LineEnds(g) PROVE C(i) # n + 1
        BY <1>3
      <3>1. C(i) \in 0..n
        BY <1>5
      <3> HIDE DEF C
      <3> QED
        BY <1>4, <3>1
    <2>3. Len(f) \in LineEnds(f)
      BY <1>3
    <2>4. NthEnd(f, n + 1) = CHOOSE i \in LineEnds(f) : C(i) = n + 1
      BY DEF NthEnd
    <2> HIDE DEF C
    <2> QED
      BY <2>1, <2>2, <2>3, <2>4
  <1>9. LineAt(f, Len(f)) = e
    <2>1. Len(f) - Pieces = k /\ k >= 0
      BY <1>0, Pieced
    <2>2. k = 0 \/ k \in LineEnds(f)
      <3>1. g = <<>> \/ k \in LineEnds(g)
        BY <1>1 DEF Ended, g
      <3>2. g = <<>> => k = 0
        BY <1>1, EmptySeq
      <3> QED
        BY <1>3, <3>1, <3>2
    <2>3. f[Len(f)].event = e
      BY <1>2
    <2> QED
      BY <2>1, <2>2, <2>3 DEF LineAt
  <1> DEFINE S == {LineAt(g, i) : i \in LineEnds(g)} \cup {e}
             s == EventsOf(g)
             t == EventsOf(f)
  <1>10. s = [m \in 1..n |-> LineAt(g, NthEnd(g, m))]
    BY DEF EventsOf, n
  <1>11. t = [m \in 1..n + 1 |-> LineAt(f, NthEnd(f, m))]
    BY <1>4 DEF EventsOf
  <1>12. s \in Seq(S) /\ Len(s) = n
    <2>1. \A m \in 1..n : LineAt(g, NthEnd(g, m)) \in S
      BY <1>7
    <2> HIDE DEF S
    <2> QED
      BY <1>4, <1>10, <2>1
  <1>13. \A m \in 1..n : t[m] = s[m]
    <2> SUFFICES ASSUME NEW m \in 1..n PROVE t[m] = s[m]
      OBVIOUS
    <2>1. m \in 1..n + 1
      BY <1>4
    <2>2. LineAt(f, NthEnd(f, m)) = LineAt(g, NthEnd(g, m))
      BY <1>5, <1>7
    <2> QED
      BY <1>10, <1>11, <2>1, <2>2
  <1>14. t[n + 1] = e
    BY <1>4, <1>8, <1>9, <1>11
  <1>15. t \in Seq(S) /\ Len(t) = n + 1
    <2>1. \A m \in 1..n + 1 : t[m] \in S
      <3> SUFFICES ASSUME NEW m \in 1..n + 1 PROVE t[m] \in S
        OBVIOUS
      <3>1. m = n + 1 \/ m \in 1..n
        BY <1>4
      <3>2. e \in S
        OBVIOUS
      <3>3. \A l \in 1..n : s[l] \in S
        BY <1>12, LenProperties
      <3> HIDE DEF S, s, t
      <3> QED
        BY <1>13, <1>14, <3>1, <3>2, <3>3
    <2>2. DOMAIN t = 1..n + 1 /\ t = [m \in 1..n + 1 |-> t[m]]
      BY <1>11
    <2> HIDE DEF S, t
    <2>3. t \in [1..n + 1 -> S] /\ n + 1 \in Nat
      BY <1>4, <2>1, <2>2
    <2>4. t \in Seq(S)
      BY <2>3
    <2> QED
      BY <2>2, <2>3, <2>4
  <1>16. t = Append(s, e)
    <2>1. e \in S
      OBVIOUS
    <2> HIDE DEF S, s, t
    <2>2. /\ Append(s, e) \in Seq(S)
          /\ Len(Append(s, e)) = n + 1
          /\ \A i \in 1..n : Append(s, e)[i] = s[i]
          /\ Append(s, e)[n + 1] = e
      BY <1>12, <2>1, AppendProperties
    <2>3. \A i \in 1..n + 1 : t[i] = Append(s, e)[i]
      BY <1>4, <1>13, <1>14, <2>2
    <2> QED
      BY <1>15, <2>2, <2>3, SeqEqual
  <1>17. Ended(f)
    BY <1>3 DEF Ended
  <1> QED
    BY <1>16, <1>17 DEF g

\* Of a line that is written, what is there does not count until it is whole.
LEMMA Within ==
  ASSUME NEW f \in Seq(PieceOf), NEW w, LineBegun(f, w)
  PROVE  /\ w.size \in 0..Len(f)
         /\ w.written < Pieces => CompleteLines(f) = SubSeq(f, 1, w.size)
         /\ w.written = Pieces => /\ Ended(f)
                                  /\ CompleteLines(f) = f
                                  /\ EventsOf(f) = Append(EventsOf(SubSeq(f, 1, w.size)), w.event)
  <1>1. /\ w.event \in Event /\ w.size \in Nat /\ w.written \in 0..Pieces
        /\ Len(f) = w.size + w.written /\ Ended(SubSeq(f, 1, w.size))
        /\ \A j \in 1..w.written : f[w.size + j] = [event |-> w.event, piece |-> j]
    BY DEF LineBegun
  <1>2. w.size \in 0..Len(f)
    BY <1>1, Pieced
  <1>3. ASSUME w.written < Pieces PROVE CompleteLines(f) = SubSeq(f, 1, w.size)
    <2>1. ASSUME NEW i \in LineEnds(f) PROVE i <= w.size
      <3> SUFFICES ASSUME i > w.size PROVE FALSE
        BY <1>1, LineEndsAre
      <3>1. i \in 1..Len(f) /\ f[i].piece = Pieces
        BY DEF LineEnds
      <3>2. i - w.size \in 1..w.written /\ w.size + (i - w.size) = i
        BY <1>1, <3>1
      <3>3. f[i] = [event |-> w.event, piece |-> i - w.size]
        BY <1>1, <3>2
      <3>4. f[i].piece = i - w.size
        BY <3>3
      <3> QED
        BY <1>1, <1>3, <3>1, <3>2, <3>4, Pieced
    <2> QED
      BY <1>1, <1>2, <2>1, CutAt
  <1>4. ASSUME w.written = Pieces
        PROVE  /\ Ended(f)
               /\ CompleteLines(f) = f
               /\ EventsOf(f) = Append(EventsOf(SubSeq(f, 1, w.size)), w.event)
    <2>1. Ended(f) /\ EventsOf(f) = Append(EventsOf(SubSeq(f, 1, w.size)), w.event)
      BY <1>1, <1>4, Adds
    <2> QED
      BY <2>1, EndedWhole
  <1> QED
    BY <1>2, <1>3, <1>4

\* A piece more of it.
LEMMA PieceMore ==
  ASSUME NEW f \in Seq(PieceOf), NEW w, LineBegun(f, w), w.written < Pieces,
         NEW v, v.event = w.event, v.size = w.size, v.written = w.written + 1
  PROVE  LET g == Append(f, [event |-> w.event, piece |-> w.written + 1])
         IN  g \in Seq(PieceOf) /\ LineBegun(g, v) /\ SubSeq(g, 1, v.size) = SubSeq(f, 1, w.size)
  <1> DEFINE fresh == [event |-> w.event, piece |-> w.written + 1]
             g == Append(f, fresh)
  <1>1. /\ w.event \in Event /\ w.size \in Nat /\ w.written \in 0..Pieces
        /\ Len(f) = w.size + w.written /\ Ended(SubSeq(f, 1, w.size))
        /\ \A j \in 1..w.written : f[w.size + j] = [event |-> w.event, piece |-> j]
    BY DEF LineBegun
  <1>2. fresh \in PieceOf
    BY <1>1, Pieced DEF PieceOf
  <1>3. /\ g \in Seq(PieceOf) /\ Len(g) = Len(f) + 1
        /\ \A i \in 1..Len(f) : g[i] = f[i]
        /\ g[Len(f) + 1] = fresh
    <2> HIDE DEF fresh
    <2> QED
      BY <1>2, AppendProperties
  <1> HIDE DEF g
  <1>4. w.size \in 0..Len(f) /\ w.size \in 0..Len(g)
    BY <1>1, <1>3, Pieced
  <1>5. SubSeq(g, 1, w.size) = SubSeq(f, 1, w.size)
    <2>1. /\ SubSeq(f, 1, w.size) \in Seq(PieceOf) /\ Len(SubSeq(f, 1, w.size)) = w.size
          /\ \A i \in 1..w.size : SubSeq(f, 1, w.size)[i] = f[i]
      BY <1>4, Parts
    <2>2. /\ SubSeq(g, 1, w.size) \in Seq(PieceOf) /\ Len(SubSeq(g, 1, w.size)) = w.size
          /\ \A i \in 1..w.size : SubSeq(g, 1, w.size)[i] = g[i]
      BY <1>3, <1>4, Parts
    <2>3. \A i \in 1..w.size : SubSeq(g, 1, w.size)[i] = SubSeq(f, 1, w.size)[i]
      BY <1>3, <1>4, <2>1, <2>2
    <2> QED
      BY <2>1, <2>2, <2>3, SeqEqual
  <1>6. ASSUME NEW j \in 1..v.written PROVE g[v.size + j] = [event |-> v.event, piece |-> j]
    <2>1. CASE j = w.written + 1
      BY <1>1, <1>3, <2>1
    <2>2. CASE j # w.written + 1
      <3>1. j \in 1..w.written /\ w.size + j \in 1..Len(f)
        BY <1>1, <2>2
      <3> QED
        BY <1>1, <1>3, <3>1
    <2> QED
      BY <2>1, <2>2
  <1>7. v.written \in 0..Pieces /\ Len(g) = v.size + v.written
    <2>1. Len(g) = w.size + w.written + 1 /\ w.written + 1 \in 0..Pieces
      BY <1>1, <1>3, Pieced
    <2> QED
      BY <1>1, <2>1
  <1>8. LineBegun(g, v)
    BY <1>1, <1>5, <1>6, <1>7 DEF LineBegun
  <1> QED
    BY <1>3, <1>5, <1>8 DEF g

-----------------------------------------------------------------------------
(* The steps *)

\* No other process has events, nor writes.
LEMMA Alone ==
  ASSUME LogInv, NEW p \in held, NEW q \in Process, q # p
  PROVE  events[q] = NoLog /\ writing[q] = NotWriting
  <1>1. q \notin held
    BY DEF LogInv, LogTypes
  <1> QED
    BY <1>1 DEF LogInv, HoldsLog

LEMMA LogInit == InitLogFile => LogInv /\ Log!InitEventLog
  <1> SUFFICES ASSUME InitLogFile PROVE LogInv /\ Log!InitEventLog
    OBVIOUS
  <1>1. file = <<>> /\ file \in Seq(PieceOf) /\ Len(file) = 0
    BY EmptySeq DEF InitLogFile
  <1>2. Ended(file) /\ LineEnds(file) = {}
    BY <1>1 DEF Ended, LineEnds
  <1>3. CompleteLines(file) = file
    BY <1>1, <1>2, EndedWhole
  <1>4. Cardinality(LineEnds(file)) = 0
    BY <1>2, FS_EmptySet
  <1>5. Read = <<>>
    <2>1. 1..0 = {}
      OBVIOUS
    <2>2. EventsOf(file) = [n \in {} |-> LineAt(file, NthEnd(file, n))]
      BY <1>4, <2>1, Zenon DEF EventsOf
    <2>3. EventsOf(file) = <<>>
      BY <2>2
    <2> QED
      BY <1>3, <2>3 DEF Read
  <1>6. LogInv
    BY <1>1 DEF LogInv, LogTypes, HoldsLog, Writes, InitLogFile
  <1>7. Log!InitEventLog
    BY <1>5 DEF InitLogFile, Log!InitEventLog
  <1> QED
    BY <1>6, <1>7

LEMMA LogHold ==
  ASSUME LogInv, NEW p \in Process, Hold(p)
  PROVE  LogInv' /\ UNCHANGED <<Read, events>>
  <1>1. LogTypes'
    BY DEF LogInv, LogTypes, Hold
  <1>2. \A q \in Process : events[q] = NoLog /\ writing[q] = NotWriting
    BY DEF LogInv, HoldsLog, Hold
  <1>3. HoldsLog' /\ Writes'
    BY <1>2 DEF HoldsLog, Writes, Hold, NotWriting
  <1> QED
    BY <1>1, <1>3 DEF LogInv, Hold, Read

LEMMA LogRecover ==
  ASSUME LogInv, NEW p \in Process, Recover(p)
  PROVE  LogInv' /\ Log!OpenLog(p)
  <1>1. file \in Seq(PieceOf) /\ p \in held
    BY DEF LogInv, LogTypes, Recover
  <1>2. file' \in Seq(PieceOf) /\ Ended(file') /\ CompleteLines(file') = file'
    BY <1>1, Cut, EndedWhole DEF Recover
  <1>3. Read' = EventsOf(file') /\ Read = EventsOf(file')
    BY <1>2 DEF Read, Recover
  <1>4. \A q \in Process : events[q] = NoLog /\ writing[q] = NotWriting
    BY <1>1, Alone DEF LogInv, HoldsLog, Recover
  <1>5. events' = [events EXCEPT ![p] = Read] /\ DOMAIN events = Process
    BY DEF LogInv, LogTypes, Recover, Read
  <1>6. LogTypes'
    BY <1>2, <1>5 DEF LogInv, LogTypes, Recover
  <1>7. HoldsLog'
    BY <1>1, <1>2, <1>3, <1>4, <1>5 DEF HoldsLog, Recover
  <1>8. Writes'
    BY <1>4 DEF Writes, Recover, NotWriting
  <1>9. Log!OpenLog(p)
    BY <1>3, <1>4, <1>5 DEF Log!OpenLog
  <1> QED
    BY <1>6, <1>7, <1>8, <1>9 DEF LogInv

LEMMA LogBeginAppend ==
  ASSUME LogInv, NEW p \in Process, NEW e \in Event, BeginAppend(p, e)
  PROVE  LogInv' /\ UNCHANGED <<Read, events>>
  <1>1. file \in Seq(PieceOf) /\ p \in held /\ Ended(file) /\ events[p] = Read
    BY DEF LogInv, LogTypes, HoldsLog, BeginAppend
  <1>2. CompleteLines(file) = file /\ SubSeq(file, 1, Len(file)) = file /\ Len(file) \in Nat
    BY <1>1, EndedWhole, SubSeqFull, LenProperties
  <1>3. \A q \in Process : q # p => events[q] = NoLog /\ writing'[q] = NotWriting
    BY <1>1, Alone DEF LogInv, LogTypes, BeginAppend
  <1> DEFINE w == [size |-> Len(file), written |-> 0, event |-> e]
  <1>4. writing'[p] = w
    BY DEF LogInv, LogTypes, BeginAppend
  <1>5. LineBegun(file, w)
    <2>1. w.event = e /\ w.size = Len(file) /\ w.written = 0
      OBVIOUS
    <2> HIDE DEF w
    <2>2. w.size \in Nat /\ w.written \in 0..Pieces /\ Len(file) = w.size + w.written
      BY <1>2, <2>1, Pieced
    <2>3. SubSeq(file, 1, w.size) = file
      BY <1>2, <2>1
    <2>4. 1..w.written = {}
      BY <2>1
    <2> QED
      BY <1>1, <2>1, <2>2, <2>3, <2>4, Zenon DEF LineBegun
  <1>6. LogTypes'
    BY DEF LogInv, LogTypes, BeginAppend
  <1>7. HoldsLog'
    BY <1>1, <1>3, <1>4 DEF LogInv, HoldsLog, BeginAppend, Read
  <1>8. Writes'
    <2>1. events[p] = EventsOf(SubSeq(file, 1, w.size))
      BY <1>1, <1>2 DEF Read
    <2> HIDE DEF w
    <2>2. file' = file /\ events' = events
      BY DEF BeginAppend
    <2> QED
      BY <1>3, <1>4, <1>5, <2>1, <2>2 DEF Writes
  <1> QED
    BY <1>6, <1>7, <1>8 DEF LogInv, BeginAppend, Read

\* Who writes: what it has, and what it writes.
LEMMA Writer ==
  ASSUME LogInv, NEW p \in Process, writing[p] # NotWriting
  PROVE  /\ file \in Seq(PieceOf)
         /\ p \in held
         /\ events[p] # NoLog
         /\ LineBegun(file, writing[p])
         /\ events[p] = EventsOf(SubSeq(file, 1, writing[p].size))
         /\ \A q \in Process : q # p => events[q] = NoLog /\ writing[q] = NotWriting
  <1>1. /\ file \in Seq(PieceOf) /\ p \in held /\ events[p] # NoLog
        /\ LineBegun(file, writing[p])
        /\ events[p] = EventsOf(SubSeq(file, 1, writing[p].size))
    BY DEF LogInv, LogTypes, HoldsLog, Writes
  <1> QED
    BY <1>1, Alone

LEMMA LogWritePiece ==
  ASSUME LogInv, NEW p \in Process, WritePiece(p)
  PROVE  LogInv' /\ (UNCHANGED <<Read, events>> \/ \E e \in Event : Log!AppendEvent(p, e))
  <1> DEFINE w == writing[p]
             v == [writing[p] EXCEPT !.written = @ + 1]
  <1>1. /\ file \in Seq(PieceOf) /\ p \in held /\ LineBegun(file, w)
        /\ events[p] = EventsOf(SubSeq(file, 1, w.size))
        /\ events[p] # NoLog
        /\ \A q \in Process : q # p => events[q] = NoLog /\ writing[q] = NotWriting
    BY Writer DEF WritePiece
  <1>2. /\ w.written < Pieces
        /\ file' = Append(file, [event |-> w.event, piece |-> w.written + 1])
        /\ UNCHANGED <<held, events, crashes>>
        /\ writing' = [writing EXCEPT ![p] = v]
    BY DEF WritePiece
  <1>3. v.event = w.event /\ v.size = w.size /\ v.written = w.written + 1
    OBVIOUS
  <1>4. /\ writing'[p] = v
        /\ \A q \in Process : q # p => writing'[q] = writing[q]
        /\ DOMAIN writing' = Process
    BY <1>2 DEF LogInv, LogTypes
  <1> HIDE DEF w, v
  <1>5. /\ file' \in Seq(PieceOf) /\ LineBegun(file', v)
        /\ SubSeq(file', 1, v.size) = SubSeq(file, 1, w.size)
    <2> DEFINE g == Append(file, [event |-> w.event, piece |-> w.written + 1])
    <2>1. g \in Seq(PieceOf) /\ LineBegun(g, v) /\ SubSeq(g, 1, v.size) = SubSeq(file, 1, w.size)
      BY <1>1, <1>2, <1>3, PieceMore
    <2> QED
      BY <1>2, <2>1
  <1>6. LogTypes'
    BY <1>2, <1>4, <1>5 DEF LogInv, LogTypes
  <1>7. Writes'
    BY <1>1, <1>2, <1>4, <1>5 DEF Writes
  <1>8. v # NotWriting
    <2>1. w.written \in Nat
      BY <1>1, Pieced DEF LineBegun
    <2>2. v.written # 0
      BY <1>3, <2>1
    <2> QED
      BY <2>2 DEF NotWriting
  <1>9. HoldsLog'
    BY <1>1, <1>2, <1>4, <1>8 DEF HoldsLog
  <1>10. Read = events[p]
    BY <1>1, <1>2, Within DEF Read
  <1>11. CASE v.written < Pieces
    <2>1. CompleteLines(file') = SubSeq(file', 1, v.size)
      BY <1>5, <1>11, Within
    <2>2. Read' = Read
      BY <1>1, <1>5, <1>10, <2>1 DEF Read
    <2> QED
      BY <1>2, <1>6, <1>7, <1>9, <2>2 DEF LogInv
  <1>12. CASE v.written = Pieces
    <2>1. /\ CompleteLines(file') = file'
          /\ EventsOf(file') = Append(EventsOf(SubSeq(file', 1, v.size)), v.event)
      BY <1>5, <1>12, Within
    <2>2. Read' = Append(Read, v.event)
      BY <1>1, <1>5, <1>10, <2>1 DEF Read
    <2>3. v.event \in Event
      BY <1>5 DEF LineBegun
    <2>4. Log!AppendEvent(p, v.event)
      BY <1>2, <1>10, <2>2 DEF Log!AppendEvent
    <2> QED
      BY <1>6, <1>7, <1>9, <2>3, <2>4 DEF LogInv
  <1>13. v.written < Pieces \/ v.written = Pieces
    BY <1>5, Pieced DEF LineBegun
  <1> QED
    BY <1>11, <1>12, <1>13

LEMMA LogEndAppend ==
  ASSUME LogInv, NEW p \in Process, EndAppend(p)
  PROVE  LogInv' /\ Log!ReturnEvent(p)
  <1> DEFINE w == writing[p]
  <1>1. /\ file \in Seq(PieceOf) /\ p \in held /\ LineBegun(file, w)
        /\ events[p] = EventsOf(SubSeq(file, 1, w.size))
        /\ events[p] # NoLog
        /\ \A q \in Process : q # p => events[q] = NoLog /\ writing[q] = NotWriting
    BY Writer DEF EndAppend
  <1>2. /\ w.written = Pieces
        /\ events' = [events EXCEPT ![p] = Append(events[p], w.event)]
        /\ writing' = [writing EXCEPT ![p] = NotWriting]
        /\ UNCHANGED <<file, held, crashes>>
    BY DEF EndAppend
  <1> HIDE DEF w
  <1>3. /\ Ended(file) /\ CompleteLines(file) = file
        /\ EventsOf(file) = Append(events[p], w.event)
    BY <1>1, <1>2, Within
  <1>4. events' = [events EXCEPT ![p] = Read] /\ Read' = Read
    BY <1>2, <1>3 DEF Read
  <1>5. DOMAIN events = Process /\ DOMAIN writing = Process
    BY DEF LogInv, LogTypes
  <1>6. LogTypes'
    BY <1>2, <1>4 DEF LogInv, LogTypes
  <1>7. HoldsLog'
    BY <1>1, <1>2, <1>3, <1>4, <1>5 DEF HoldsLog
  <1>8. Writes'
    BY <1>1, <1>2, <1>5 DEF Writes
  <1>9. Log!ReturnEvent(p)
    BY <1>1, <1>4 DEF Log!ReturnEvent
  <1> QED
    BY <1>6, <1>7, <1>8, <1>9 DEF LogInv

LEMMA LogWriteFails ==
  ASSUME LogInv, NEW p \in Process, WriteFails(p)
  PROVE  LogInv' /\ UNCHANGED <<Read, events>>
  <1> DEFINE w == writing[p]
  <1>1. /\ file \in Seq(PieceOf) /\ p \in held /\ LineBegun(file, w)
        /\ events[p] = EventsOf(SubSeq(file, 1, w.size))
        /\ events[p] # NoLog
        /\ \A q \in Process : q # p => events[q] = NoLog /\ writing[q] = NotWriting
    BY Writer DEF WriteFails
  <1>2. /\ w.written < Pieces
        /\ file' = SubSeq(file, 1, w.size)
        /\ writing' = [writing EXCEPT ![p] = NotWriting]
        /\ UNCHANGED <<held, events, crashes>>
    BY DEF WriteFails
  <1> HIDE DEF w
  <1>3. w.size \in 0..Len(file) /\ CompleteLines(file) = file'
    BY <1>1, <1>2, Within
  <1>4. file' \in Seq(PieceOf) /\ Ended(file')
    BY <1>1, <1>2, <1>3, Parts DEF LineBegun
  <1>5. CompleteLines(file') = file'
    BY <1>4, EndedWhole
  <1>6. Read' = Read /\ events[p] = Read
    BY <1>1, <1>2, <1>3, <1>5 DEF Read
  <1>7. DOMAIN events = Process /\ DOMAIN writing = Process
    BY DEF LogInv, LogTypes
  <1>8. LogTypes'
    BY <1>2, <1>4 DEF LogInv, LogTypes
  <1>9. HoldsLog'
    BY <1>1, <1>2, <1>4, <1>6, <1>7 DEF HoldsLog
  <1>10. Writes'
    BY <1>1, <1>2, <1>7 DEF Writes
  <1> QED
    BY <1>2, <1>6, <1>8, <1>9, <1>10 DEF LogInv

LEMMA LogLetsGo ==
  ASSUME LogInv, NEW p \in Process, LetsGo(p)
  PROVE  LogInv' /\ Log!CloseLog(p)
  <1>1. DOMAIN events = Process /\ DOMAIN writing = Process
    BY DEF LogInv, LogTypes
  <1>2. /\ events'[p] = NoLog /\ writing'[p] = NotWriting
        /\ \A q \in Process : q # p => events'[q] = events[q] /\ writing'[q] = writing[q]
        /\ held' = held \ {p} /\ file' = file
    BY <1>1 DEF LetsGo
  <1>3. LogTypes'
    BY <1>1 DEF LogInv, LogTypes, LetsGo
  <1>4. Read' = Read
    BY <1>2 DEF Read
  <1>5. HoldsLog'
    BY <1>2, <1>4 DEF LogInv, HoldsLog
  <1>6. Writes'
    BY <1>2 DEF LogInv, Writes
  <1>7. Log!CloseLog(p)
    BY <1>4 DEF LetsGo, Log!CloseLog
  <1> QED
    BY <1>3, <1>5, <1>6, <1>7 DEF LogInv

LEMMA LogNext ==
  ASSUME LogInv, [NextLogFile]_logVars
  PROVE  LogInv' /\ [Log!NextEventLog]_<<Read, events>>
  <1>1. CASE UNCHANGED logVars
    BY <1>1 DEF logVars, LogInv, LogTypes, HoldsLog, Writes, Read
  <1>2. CASE NextLogFile
    <2>1. PICK p \in Process :
            \/ Hold(p) \/ Recover(p) \/ (\E e \in Event : BeginAppend(p, e)) \/ WritePiece(p)
            \/ EndAppend(p) \/ WriteFails(p) \/ Close(p) \/ Crash(p)
      BY <1>2 DEF NextLogFile
    <2>2. CASE Hold(p)
      BY <2>2, LogHold
    <2>3. CASE Recover(p)
      BY <2>3, LogRecover DEF Log!NextEventLog
    <2>4. CASE \E e \in Event : BeginAppend(p, e)
      BY <2>4, LogBeginAppend
    <2>5. CASE WritePiece(p)
      BY <2>5, LogWritePiece DEF Log!NextEventLog
    <2>6. CASE EndAppend(p)
      BY <2>6, LogEndAppend DEF Log!NextEventLog
    <2>7. CASE WriteFails(p)
      BY <2>7, LogWriteFails
    <2>8. CASE Close(p) \/ Crash(p)
      BY <2>8, LogLetsGo DEF Log!NextEventLog, Close, Crash
    <2> QED
      BY <2>1, <2>2, <2>3, <2>4, <2>5, <2>6, <2>7, <2>8
  <1> QED
    BY <1>1, <1>2

\* The file of lines implements the log that log.py promises: pieces of a line
\* that is not whole are never read, and no crash within a line, write that
\* fails, or second process takes an event back, alters one or splits one.
THEOREM FileImplementsLog == SpecLogFile => ImplementsLog
  <1>1. InitLogFile => LogInv /\ Log!InitEventLog
    BY LogInit
  <1>2. LogInv /\ [NextLogFile]_logVars => LogInv' /\ [Log!NextEventLog]_<<Read, events>>
    BY LogNext
  <1> QED
    BY <1>1, <1>2, PTL DEF SpecLogFile, ImplementsLog, Log!SpecEventLog

-----------------------------------------------------------------------------
(* The trigger loop *)

RecordsFed == [label : {Label[r] : r \in ToSet(Rules)}, files : SUBSET Files, loop : BOOLEAN]

TriggerTypes ==
    /\ feed \in Seq(RecordsFed)
    /\ arrived \subseteq Files
    /\ settling \in 0..Len(feed)
    /\ read \in 0..Len(feed)
    /\ handled \in [ToSet(Rules) -> SUBSET Files]
    /\ rule \in Nat
    /\ new \subseteq Files
    /\ new # {} => rule \in 1..Len(Rules)

\* Between two steps no submission has yet to return.
BetweenSteps == rule = 0 => settling = 0

\* What the step read is handled, whoever submitted it.
ReadTaken ==
    /\ position = read
    /\ \A r \in ToSet(Rules) : \A i \in 1..read : FilesAt(feed[i], r) \subseteq handled[r]

\* During a step, all that any loop submitted is handled, but for what has yet to return.
SubmittedTaken ==
    rule # 0 =>
        \A r \in ToSet(Rules) : \A i \in DOMAIN feed :
            feed[i].loop /\ i # settling => FilesAt(feed[i], r) \subseteq handled[r]

TriggerInv == TriggerTypes /\ BetweenSteps /\ ReadTaken /\ SubmittedTaken

-----------------------------------------------------------------------------
LEMMA RuleOf == ASSUME NEW i \in 1..Len(Rules) PROVE Rules[i] \in ToSet(Rules)
  BY TriggerAssumption DEF ToSet

\* A record appended leaves those before it as they are.
LEMMA FeedGrows ==
  ASSUME feed \in Seq(RecordsFed), NEW record \in RecordsFed
  PROVE  /\ Append(feed, record) \in Seq(RecordsFed)
         /\ Len(feed) \in Nat
         /\ Len(Append(feed, record)) = Len(feed) + 1
         /\ DOMAIN feed = 1..Len(feed)
         /\ DOMAIN Append(feed, record) = 1..Len(feed) + 1
         /\ \A i \in 1..Len(feed) : Append(feed, record)[i] = feed[i]
         /\ Append(feed, record)[Len(feed) + 1] = record
  OBVIOUS

\* To take records makes their files handled, and forgets none.
LEMMA Taking ==
  ASSUME NEW records \in SUBSET RecordsFed, handled \in [ToSet(Rules) -> SUBSET Files]
  PROVE  /\ Take(records) \in [ToSet(Rules) -> SUBSET Files]
         /\ \A r \in ToSet(Rules) :
               /\ handled[r] \subseteq Take(records)[r]
               /\ \A x \in records : FilesAt(x, r) \subseteq Take(records)[r]
  <1>1. \A x \in records, r \in ToSet(Rules) : FilesAt(x, r) \subseteq Files
    BY DEF FilesAt, RecordsFed
  <1> QED
    BY <1>1 DEF Take

LEMMA InitTriggerInv == InitTrigger => TriggerInv
  BY TriggerAssumption
  DEF InitTrigger, TriggerInv, TriggerTypes, BetweenSteps, ReadTaken, SubmittedTaken

LEMMA PersonSubmitsInv ==
  ASSUME TriggerInv, NEW q \in ToSet(Rules), NEW f \in Files, PersonSubmits(q, f)
  PROVE  TriggerInv'
  <1> DEFINE record == [label |-> Label[q], files |-> {f}, loop |-> FALSE]
  <1>1. record \in RecordsFed
    BY DEF RecordsFed
  <1> USE DEF TriggerInv, TriggerTypes
  <1>2. feed' = Append(feed, record)
    BY DEF PersonSubmits
  <1>3. TriggerTypes'
    BY <1>1, <1>2, FeedGrows DEF PersonSubmits
  <1>4. BetweenSteps' /\ ReadTaken'
    BY <1>1, <1>2, FeedGrows DEF PersonSubmits, BetweenSteps, ReadTaken, FilesAt
  <1>5. SubmittedTaken'
    BY <1>1, <1>2, FeedGrows DEF PersonSubmits, SubmittedTaken, FilesAt
  <1> QED
    BY <1>3, <1>4, <1>5

LEMMA BeginStepInv == TriggerInv /\ BeginStep => TriggerInv'
  <1> SUFFICES ASSUME TriggerInv, BeginStep PROVE TriggerInv'
    OBVIOUS
  <1> USE DEF TriggerInv, TriggerTypes
  <1> DEFINE changed == {feed[i] : i \in position + 1..Len(feed)}
  <1>1. changed \in SUBSET RecordsFed /\ DOMAIN feed = 1..Len(feed) /\ Len(feed) \in Nat
    BY DEF ReadTaken
  <1>2. /\ handled' \in [ToSet(Rules) -> SUBSET Files]
        /\ \A r \in ToSet(Rules) :
              /\ handled[r] \subseteq handled'[r]
              /\ \A x \in changed : FilesAt(x, r) \subseteq handled'[r]
    <2>1. handled' = Take(changed)
      BY DEF BeginStep
    <2> HIDE DEF changed
    <2> QED
      BY <1>1, <2>1, Taking
  <1>3. \A r \in ToSet(Rules) : \A i \in 1..Len(feed) : FilesAt(feed[i], r) \subseteq handled'[r]
    BY <1>2 DEF ReadTaken
  <1>4. TriggerTypes'
    BY <1>2, TriggerAssumption DEF BeginStep, NewFiles
  <1>5. BetweenSteps' /\ ReadTaken' /\ SubmittedTaken'
    BY <1>1, <1>3 DEF BeginStep, BetweenSteps, ReadTaken, SubmittedTaken, FilesAt
  <1> QED
    BY <1>4, <1>5

LEMMA SubmitsInv ==
  ASSUME TriggerInv, NEW f \in Files, NEW others \in SUBSET Files, Submits(f, others)
  PROVE  TriggerInv'
  <1> DEFINE record == [label |-> Label[Rules[rule]], files |-> others \cup {f}, loop |-> TRUE]
  <1> USE DEF TriggerInv, TriggerTypes
  <1>1. Rules[rule] \in ToSet(Rules)
    BY RuleOf DEF Submits, StillNew
  <1>2. record \in RecordsFed
    BY <1>1 DEF RecordsFed
  <1>3. feed' = Append(feed, record) /\ settling' = Len(feed) + 1
    BY <1>2, FeedGrows DEF Submits
  <1>4. TriggerTypes'
    BY <1>2, <1>3, FeedGrows DEF Submits
  <1>5. BetweenSteps' /\ ReadTaken'
    BY <1>2, <1>3, FeedGrows DEF Submits, BetweenSteps, ReadTaken, FilesAt
  <1>6. SubmittedTaken'
    BY <1>2, <1>3, FeedGrows DEF Submits, SubmittedTaken, FilesAt
  <1> QED
    BY <1>4, <1>5, <1>6

LEMMA ReturnsInv == TriggerInv /\ Returns => TriggerInv'
  <1> SUFFICES ASSUME TriggerInv, Returns PROVE TriggerInv'
    OBVIOUS
  <1> USE DEF TriggerInv, TriggerTypes
  <1>1. feed[settling] \in RecordsFed /\ Len(feed) \in Nat
    BY DEF Returns
  <1>2. /\ handled' \in [ToSet(Rules) -> SUBSET Files]
        /\ \A r \in ToSet(Rules) :
              /\ handled[r] \subseteq handled'[r]
              /\ FilesAt(feed[settling], r) \subseteq handled'[r]
    <2>1. {feed[settling]} \in SUBSET RecordsFed /\ handled' = Take({feed[settling]})
      BY <1>1 DEF Returns
    <2> QED
      BY <2>1, Taking
  <1>3. TriggerTypes'
    <2>1. feed' = feed /\ arrived' = arrived /\ read' = read /\ rule' = rule /\ new' = new /\ settling' = 0
      BY DEF Returns
    <2>2. settling' \in 0..Len(feed')
      BY <1>1, <2>1
    <2> QED
      BY <1>2, <2>1, <2>2
  <1>4. BetweenSteps' /\ ReadTaken' /\ SubmittedTaken'
    BY <1>2 DEF Returns, BetweenSteps, ReadTaken, SubmittedTaken, FilesAt
  <1> QED
    BY <1>3, <1>4

LEMMA EndRuleInv == TriggerInv /\ EndRule => TriggerInv'
  <1> SUFFICES ASSUME TriggerInv, EndRule PROVE TriggerInv'
    OBVIOUS
  <1> USE DEF TriggerInv, TriggerTypes
  <1>1. TriggerTypes'
    BY TriggerAssumption DEF EndRule, NewFiles
  <1>2. BetweenSteps' /\ ReadTaken' /\ SubmittedTaken'
    BY DEF EndRule, BetweenSteps, ReadTaken, SubmittedTaken, FilesAt
  <1> QED
    BY <1>1, <1>2

\* After a crash nothing is known to be handled, and nothing read.
LEMMA StopsInv == TriggerInv /\ StopsAndStarts => TriggerInv'
  BY DEF StopsAndStarts, TriggerInv, TriggerTypes, BetweenSteps, ReadTaken, SubmittedTaken

LEMMA TriggerStepInv == TriggerInv /\ [NextTrigger]_triggerVars => TriggerInv'
  <1> SUFFICES ASSUME TriggerInv, [NextTrigger]_triggerVars PROVE TriggerInv'
    OBVIOUS
  <1> USE DEF TriggerInv, TriggerTypes, BetweenSteps, ReadTaken, SubmittedTaken, FilesAt
  <1>1. ASSUME NEW f \in Files, Arrive(f) PROVE TriggerInv'
    BY <1>1 DEF Arrive
  <1>2. ASSUME NEW f \in Files, Skips(f) PROVE TriggerInv'
    BY <1>2 DEF Skips
  <1>3. CASE UNCHANGED triggerVars
    BY <1>3 DEF triggerVars
  <1> QED
    BY <1>1, <1>2, <1>3, PersonSubmitsInv, BeginStepInv, SubmitsInv, ReturnsInv, EndRuleInv,
       StopsInv DEF NextTrigger

-----------------------------------------------------------------------------
LEMMA SubmitsOnlyNew == TriggerInv => SubmitsNew
  <1> SUFFICES ASSUME TriggerInv, NEW f \in Files, NEW others \in SUBSET Files, Submits(f, others)
               PROVE  /\ ~SettledIn(read, Rules[rule], f)
                      /\ \A i \in DOMAIN feed : feed[i].loop => f \notin FilesAt(feed[i], Rules[rule])
    BY DEF SubmitsNew
  <1> DEFINE own == Rules[rule]
  <1>1. own \in ToSet(Rules) /\ rule # 0 /\ settling = 0 /\ f \notin handled[own]
    BY RuleOf DEF Submits, StillNew, TriggerInv, TriggerTypes
  <1>2. ~SettledIn(read, own, f)
    BY <1>1 DEF TriggerInv, ReadTaken, SettledIn
  <1>3. \A i \in DOMAIN feed : feed[i].loop => f \notin FilesAt(feed[i], own)
    <2>1. DOMAIN feed = 1..Len(feed)
      BY DEF TriggerInv, TriggerTypes
    <2> QED
      BY <1>1, <2>1 DEF TriggerInv, SubmittedTaken
  <1> QED
    BY <1>2, <1>3

\* submit is not called again for a file that a record settled, whatever crashed
\* between a submission and the loop taking it, for any number of rules, files,
\* records and crashes.
THEOREM SettlesOnce == SpecTrigger => SettledOnce
  <1>1. TriggerInv => [SubmitsNew]_triggerVars
    BY SubmitsOnlyNew
  <1>2. SpecTrigger => [][SubmitsNew]_triggerVars
    BY <1>1, InitTriggerInv, TriggerStepInv, PTL DEF SpecTrigger
  <1> QED
    BY <1>2 DEF SettledOnce

-----------------------------------------------------------------------------
(* The checks of requests *)

\* The rows after each push follow from those before it.
Grow(f, before, pushes, n, u) ==
    f = [k \in 0..u |-> IF k = 0 THEN before
                        ELSE IF n \in DOMAIN pushes[k] THEN f[k - 1] \o pushes[k][n] ELSE f[k - 1]]
Pushed(entries, push, n) == IF n \in DOMAIN push THEN entries \o push[n] ELSE entries

LEMMA GrowAt ==
  ASSUME NEW before, NEW pushes, NEW n, NEW u \in Nat, NEW f, Grow(f, before, pushes, n, u)
  PROVE  f[0] = before /\ \A k \in 1..u : f[k] = Pushed(f[k - 1], pushes[k], n)
  <1> DEFINE At(k) == IF k = 0 THEN before
                      ELSE IF n \in DOMAIN pushes[k] THEN f[k - 1] \o pushes[k][n] ELSE f[k - 1]
  <1>1. f = [k \in 0..u |-> At(k)]
    BY Zenon DEF Grow
  <1> HIDE DEF At
  <1>2. \A k \in 0..u : f[k] = At(k)
    BY <1>1, Zenon
  <1>3. 0 \in 0..u /\ \A k \in 1..u : k \in 0..u /\ k # 0
    OBVIOUS
  <1> QED
    BY <1>2, <1>3 DEF At, Pushed

LEMMA GrowExists ==
  ASSUME NEW before, NEW pushes, NEW n, NEW u \in Nat
  PROVE  \E f : Grow(f, before, pushes, n, u)
  <1> DEFINE Bad == {k \in Nat : ~\E f : Grow(f, before, pushes, n, k)}
  <1>1. SUFFICES ASSUME Bad # {} PROVE FALSE
    OBVIOUS
  <1>2. PICK m \in Bad : \A l \in Bad : ~(l < m)
    <2>1. Bad \subseteq Nat
      OBVIOUS
    <2> HIDE DEF Bad
    <2> QED
      BY <1>1, <2>1, Least
  <1>3. m # 0
    <2>1. Grow([k \in 0..0 |-> before], before, pushes, n, 0)
      BY DEF Grow
    <2> QED
      BY <2>1
  <1>4. m - 1 \in Nat /\ \E g : Grow(g, before, pushes, n, m - 1)
    BY <1>2, <1>3
  <1>5. PICK g : Grow(g, before, pushes, n, m - 1)
    BY <1>4
  <1> DEFINE f == [k \in 0..m |-> IF k = m THEN Pushed(g[m - 1], pushes[m], n) ELSE g[k]]
  <1>6. g[0] = before /\ \A k \in 1..m - 1 : g[k] = Pushed(g[k - 1], pushes[k], n)
    BY <1>4, <1>5, GrowAt
  <1>7. ASSUME NEW k \in 0..m
        PROVE  f[k] = IF k = 0 THEN before ELSE Pushed(f[k - 1], pushes[k], n)
    <2>1. CASE k = m
      BY <1>2, <1>3, <2>1
    <2>2. CASE k # m
      BY <1>2, <1>3, <1>6, <2>2
    <2> QED
      BY <2>1, <2>2
  <1>8. Grow(f, before, pushes, n, m)
    <2>1. f = [k \in 0..m |-> f[k]]
      OBVIOUS
    <2> HIDE DEF f
    <2> QED
      BY <1>7, <2>1 DEF Grow, Pushed
  <1> QED
    BY <1>2, <1>8

LEMMA GrowsAlike ==
  ASSUME NEW before, NEW pushes, NEW more, NEW n, NEW u \in Nat, NEW w \in Nat, NEW f, NEW g,
         Grow(f, before, pushes, n, u), Grow(g, before, more, n, w), u <= w,
         \A k \in 1..u : more[k] = pushes[k]
  PROVE  \A k \in 0..u : f[k] = g[k]
  <1> DEFINE Bad == {k \in 0..u : f[k] # g[k]}
  <1>1. SUFFICES ASSUME Bad # {} PROVE FALSE
    OBVIOUS
  <1>2. PICK m \in Bad : \A l \in Bad : ~(l < m)
    <2>1. Bad \in SUBSET Nat
      OBVIOUS
    <2> HIDE DEF Bad
    <2> QED
      BY <1>1, <2>1, Least
  <1>3. /\ f[0] = before /\ \A k \in 1..u : f[k] = Pushed(f[k - 1], pushes[k], n)
        /\ g[0] = before /\ \A k \in 1..w : g[k] = Pushed(g[k - 1], more[k], n)
    BY GrowAt
  <1>4. m # 0
    BY <1>2, <1>3
  <1>5. f[m - 1] = g[m - 1]
    BY <1>2, <1>4
  <1> QED
    BY <1>2, <1>3, <1>4, <1>5

LEMMA RowsAfterGrow ==
  ASSUME NEW before, NEW pushes, NEW n, NEW u \in Nat
  PROVE  \E f : Grow(f, before, pushes, n, u) /\ RowsAfter(before, pushes, n, u) = f[u]
  <1> DEFINE f == CHOOSE g : Grow(g, before, pushes, n, u)
  <1>1. Grow(f, before, pushes, n, u)
    BY GrowExists, Zenon
  <1>2. RowsAfter(before, pushes, n, u) = f[u]
    BY Zenon DEF RowsAfter, Grow
  <1> QED
    BY <1>1, <1>2

\* What no push, and one more, does to the rows of a table.
LEMMA RowsBefore ==
  ASSUME NEW before, NEW pushes, NEW n
  PROVE  RowsAfter(before, pushes, n, 0) = before
  <1>1. PICK f : Grow(f, before, pushes, n, 0) /\ RowsAfter(before, pushes, n, 0) = f[0]
    BY RowsAfterGrow
  <1>2. f[0] = before
    BY <1>1, GrowAt
  <1> QED
    BY <1>1, <1>2

LEMMA RowsPushed ==
  ASSUME NEW before, NEW pushes, NEW n, NEW u \in Nat, NEW w \in Nat
  PROVE  w = u + 1 =>
            RowsAfter(before, pushes, n, w) = Pushed(RowsAfter(before, pushes, n, u), pushes[w], n)
  <1>1. PICK f : Grow(f, before, pushes, n, u) /\ RowsAfter(before, pushes, n, u) = f[u]
    BY RowsAfterGrow
  <1>2. PICK g : Grow(g, before, pushes, n, w) /\ RowsAfter(before, pushes, n, w) = g[w]
    BY RowsAfterGrow
  <1>3. u <= w => f[u] = g[u]
    BY <1>1, <1>2, GrowsAlike
  <1>4. \A k \in 1..w : g[k] = Pushed(g[k - 1], pushes[k], n)
    BY <1>2, GrowAt
  <1>5. w = u + 1 => u <= w /\ w \in 1..w /\ w - 1 = u
    OBVIOUS
  <1> QED
    BY <1>1, <1>2, <1>3, <1>4, <1>5

\* Later pushes do not matter.
LEMMA RowsSteady ==
  ASSUME NEW before, NEW pushes, NEW more, NEW n, NEW u \in Nat,
         \A k \in 1..u : more[k] = pushes[k]
  PROVE  RowsAfter(before, more, n, u) = RowsAfter(before, pushes, n, u)
  <1>1. PICK f : Grow(f, before, pushes, n, u) /\ RowsAfter(before, pushes, n, u) = f[u]
    BY RowsAfterGrow
  <1>2. PICK g : Grow(g, before, more, n, u) /\ RowsAfter(before, more, n, u) = g[u]
    BY RowsAfterGrow
  <1>3. f[u] = g[u]
    BY <1>1, <1>2, GrowsAlike
  <1> QED
    BY <1>1, <1>2, <1>3

\* The names that fit, and a table as the record holds it.
Good == {name \in STRING : FileProblems(name) = {}}
Identities == {Identity(name) : name \in STRING}
Stored(entries) == [i \in DOMAIN entries |-> Identity(entries[i])]

LEMMA StoredIs ==
  ASSUME NEW s \in Seq(STRING)
  PROVE  /\ Stored(s) \in Seq(Identities) /\ Len(Stored(s)) = Len(s)
         /\ \A i \in 1..Len(s) : Stored(s)[i] = Identity(s[i])
  <1>1. DOMAIN s = 1..Len(s) /\ Len(s) \in Nat /\ \A i \in 1..Len(s) : s[i] \in STRING
    BY LenProperties, ElementOfSeq
  <1>2. Stored(s) \in [1..Len(s) -> Identities]
    BY <1>1 DEF Stored, Identities
  <1> QED
    BY <1>1, <1>2 DEF Stored

LEMMA StoredConcat ==
  ASSUME NEW s \in Seq(STRING), NEW r \in Seq(STRING)
  PROVE  Stored(s \o r) = Stored(s) \o Stored(r)
  <1>1. s \o r \in Seq(STRING)
    BY ConcatProperties
  <1>2. /\ Len(s) \in Nat /\ Len(r) \in Nat /\ Len(s \o r) = Len(s) + Len(r)
        /\ \A i \in 1..Len(s) + Len(r) : (s \o r)[i] = IF i <= Len(s) THEN s[i] ELSE r[i - Len(s)]
    BY ConcatProperties, LenProperties
  <1> DEFINE a == Stored(s)
             b == Stored(r)
             c == Stored(s \o r)
  <1>3. /\ a \in Seq(Identities) /\ Len(a) = Len(s)
        /\ b \in Seq(Identities) /\ Len(b) = Len(r)
        /\ c \in Seq(Identities) /\ Len(c) = Len(s) + Len(r)
        /\ \A i \in 1..Len(s) : a[i] = Identity(s[i])
        /\ \A i \in 1..Len(r) : b[i] = Identity(r[i])
        /\ \A i \in 1..Len(s) + Len(r) : c[i] = Identity((s \o r)[i])
    BY <1>1, <1>2, StoredIs
  <1> HIDE DEF a, b, c
  <1>4. /\ a \o b \in Seq(Identities) /\ Len(a \o b) = Len(s) + Len(r)
        /\ \A i \in 1..Len(s) + Len(r) : (a \o b)[i] = IF i <= Len(s) THEN a[i] ELSE b[i - Len(s)]
    <2> a \in Seq(Identities) /\ b \in Seq(Identities)
      BY <1>3
    <2>1. /\ a \o b \in Seq(Identities) /\ Len(a \o b) = Len(a) + Len(b)
          /\ \A i \in 1..Len(a) + Len(b) : (a \o b)[i] = IF i <= Len(a) THEN a[i] ELSE b[i - Len(a)]
      BY ConcatProperties
    <2> QED
      BY <1>3, <2>1
  <1>5. ASSUME NEW i \in 1..Len(s) + Len(r) PROVE c[i] = (a \o b)[i]
    <2>1. CASE i <= Len(s)
      BY <1>2, <1>3, <1>4, <2>1
    <2>2. CASE ~(i <= Len(s))
      <3>1. i - Len(s) \in 1..Len(r)
        BY <1>2, <2>2
      <3> QED
        BY <1>2, <1>3, <1>4, <2>2, <3>1
    <2> QED
      BY <2>1, <2>2
  <1>6. c = a \o b
    BY <1>3, <1>4, <1>5, SeqEqual
  <1> QED
    BY <1>6 DEF a, b, c

LEMMA GoodNames ==
  ASSUME NEW s \in Seq(Good)
  PROVE  s \in Seq(STRING)
  <1>1. Good \subseteq STRING
    BY DEF Good
  <1>2. /\ s \in [1..Len(s) -> Good] /\ Len(s) \in Nat
    BY LenProperties
  <1>3. s \in [1..Len(s) -> STRING]
    BY <1>1, <1>2
  <1> QED
    BY <1>2, <1>3, SeqDef

LEMMA ConcatFits ==
  ASSUME NEW s \in Seq(Good), NEW r \in Seq(STRING)
  PROVE  s \o r \in Seq(Good) <=> r \in Seq(Good)
  <1>1. r \in Seq(Good) => s \o r \in Seq(Good)
    BY ConcatProperties
  <1>2. ASSUME s \o r \in Seq(Good) PROVE r \in Seq(Good)
    <2>1. s \in Seq(STRING)
      BY GoodNames
    <2>2. /\ Len(s) \in Nat /\ Len(r) \in Nat /\ Len(s \o r) = Len(s) + Len(r)
          /\ \A i \in 1..Len(s) + Len(r) : (s \o r)[i] = IF i <= Len(s) THEN s[i] ELSE r[i - Len(s)]
      BY <2>1, ConcatProperties, LenProperties
    <2>3. ASSUME NEW i \in 1..Len(r) PROVE r[i] \in Good
      <3> DEFINE j == Len(s) + i
      <3>1. j \in 1..Len(s \o r) /\ (s \o r)[j] = r[i]
        BY <2>2
      <3> HIDE DEF j
      <3>2. (s \o r)[j] \in Good
        BY <1>2, <3>1, ElementOfSeq
      <3> QED
        BY <3>1, <3>2
    <2>4. r \in [1..Len(r) -> Good]
      <3>1. r \in [1..Len(r) -> STRING]
        BY LenProperties
      <3> QED
        BY <2>3, <3>1
    <2> QED
      BY <2>2, <2>4, SeqDef
  <1> QED
    BY <1>1, <1>2

LEMMA RepeatsConcat ==
  ASSUME NEW S, NEW s \in Seq(S), NEW r \in Seq(S)
  PROVE  Repeats(s \o r, <<>>) <=> Repeats(s, <<>>) \/ Repeats(r, s)
  <1> DEFINE c == s \o r
             n == Len(s)
             m == Len(r)
  <1>1. /\ n \in Nat /\ m \in Nat /\ DOMAIN s = 1..n /\ DOMAIN r = 1..m /\ DOMAIN c = 1..n + m
        /\ \A i \in 1..n + m : c[i] = IF i <= n THEN s[i] ELSE r[i - n]
    BY ConcatProperties, LenProperties
  <1>2. ToSet(<<>>) = {} /\ ToSet(s) = {s[i] : i \in 1..n}
    BY <1>1 DEF ToSet
  <1> HIDE DEF c, n, m
  <1>3. /\ Repeats(c, <<>>) <=> \E j \in 1..n + m : \E i \in 1..j - 1 : c[i] = c[j]
        /\ Repeats(s, <<>>) <=> \E j \in 1..n : \E i \in 1..j - 1 : s[i] = s[j]
        /\ Repeats(r, s) <=> \E j \in 1..m : (\E k \in 1..n : r[j] = s[k]) \/ (\E i \in 1..j - 1 : r[i] = r[j])
    <2>1. Repeats(c, <<>>) <=> \E j \in 1..n + m : \E i \in 1..j - 1 : c[i] = c[j]
      BY <1>1, <1>2 DEF Repeats
    <2>2. Repeats(s, <<>>) <=> \E j \in 1..n : \E i \in 1..j - 1 : s[i] = s[j]
      BY <1>1, <1>2 DEF Repeats
    <2>3. \A x : x \in ToSet(s) <=> \E k \in 1..n : x = s[k]
      BY <1>2
    <2>4. Repeats(r, s) <=> \E j \in 1..m : r[j] \in ToSet(s) \/ \E i \in 1..j - 1 : r[i] = r[j]
      BY <1>1, Zenon DEF Repeats
    <2>5. Repeats(r, s) <=> \E j \in 1..m : (\E k \in 1..n : r[j] = s[k]) \/ (\E i \in 1..j - 1 : r[i] = r[j])
      <3> HIDE DEF Repeats
      <3> QED
        BY <2>3, <2>4
    <2> QED
      BY <2>1, <2>2, <2>5
  <1>4. \A i \in 1..n : c[i] = s[i] /\ i \in 1..n + m
    BY <1>1
  <1>5. \A i \in 1..m : c[n + i] = r[i] /\ n + i \in 1..n + m /\ ~(n + i <= n)
    BY <1>1
  <1>6. ASSUME NEW j \in 1..n + m, NEW i \in 1..j - 1, c[i] = c[j]
        PROVE  Repeats(s, <<>>) \/ Repeats(r, s)
    <2>1. CASE j <= n
      BY <1>1, <1>3, <1>4, <1>6, <2>1
    <2>2. CASE ~(j <= n) /\ i <= n
      <3>1. j - n \in 1..m /\ c[j] = r[j - n] /\ i \in 1..n /\ c[i] = s[i]
        BY <1>1, <2>2
      <3>2. PICK k \in 1..m : c[j] = r[k]
        BY <3>1
      <3> QED
        BY <1>3, <1>6, <3>1, <3>2
    <2>3. CASE ~(j <= n) /\ ~(i <= n)
      <3>1. j - n \in 1..m /\ c[j] = r[j - n] /\ i - n \in 1..(j - n) - 1 /\ c[i] = r[i - n]
        BY <1>1, <2>3
      <3>2. PICK k \in 1..m : c[j] = r[k] /\ i - n \in 1..k - 1
        BY <3>1
      <3>3. PICK l \in 1..k - 1 : c[i] = r[l]
        BY <3>1, <3>2
      <3> QED
        <4>1. r[l] = r[k]
          BY <1>6, <3>2, <3>3
        <4> QED
          BY <1>3, <4>1
    <2> QED
      BY <2>1, <2>2, <2>3
  <1>7. ASSUME NEW j \in 1..n, NEW i \in 1..j - 1, s[i] = s[j] PROVE Repeats(c, <<>>)
    <2>1. i \in 1..n /\ j \in 1..n + m /\ c[i] = c[j]
      BY <1>1, <1>4, <1>7
    <2> QED
      BY <1>3, <2>1
  <1>8. ASSUME NEW j \in 1..m, NEW i \in 1..n, r[j] = s[i] PROVE Repeats(c, <<>>)
    <2>1. n + j \in 1..n + m /\ i \in 1..(n + j) - 1 /\ c[i] = c[n + j]
      BY <1>1, <1>4, <1>5, <1>8
    <2> QED
      BY <1>3, <2>1
  <1>9. ASSUME NEW j \in 1..m, NEW i \in 1..j - 1, r[i] = r[j] PROVE Repeats(c, <<>>)
    <2>1. i \in 1..m /\ n + j \in 1..n + m /\ n + i \in 1..(n + j) - 1
      BY <1>1
    <2>2. c[n + i] = c[n + j]
      BY <1>5, <1>9, <2>1
    <2> QED
      BY <1>3, <2>1, <2>2
  <1> QED
    BY <1>3, <1>6, <1>7, <1>8, <1>9 DEF c

LEMMA FileProblemsAre ==
  \A name : FileProblems(name) \subseteq {"unknown file", "of another proposal", "does not fit"}
  BY DEF FileProblems

\* Values have a problem of their own only where a name does not fit.
LEMMA ValuesFit ==
  ASSUME NEW params, \A t \in DOMAIN params \cap TableNames : params[t] \in Seq(STRING)
  PROVE  /\ ValueProblems(params) = {} <=>
               \A t \in DOMAIN params \cap TableNames : params[t] \in Seq(Good)
         /\ "number of rows" \notin ValueProblems(params)
  <1>1. \A x : x \in ValueProblems(params) <=>
           \E t \in DOMAIN params \cap TableNames :
              \E i \in DOMAIN params[t] : x \in FileProblems(params[t][i])
    BY DEF ValueProblems
  <1>2. "number of rows" \notin ValueProblems(params)
    <2>1. ASSUME NEW name PROVE "number of rows" \notin FileProblems(name)
      <3>1. FileProblems(name) \subseteq {"unknown file", "of another proposal", "does not fit"}
        BY FileProblemsAre
      <3> QED
        BY <3>1
    <2> QED
      BY <1>1, <2>1
  <1>3. ASSUME NEW t \in DOMAIN params \cap TableNames
        PROVE  params[t] \in Seq(Good) <=>
                  \A i \in DOMAIN params[t] : FileProblems(params[t][i]) = {}
    <2> DEFINE s == params[t]
    <2>1. s \in Seq(STRING) /\ DOMAIN s = 1..Len(s) /\ \A i \in 1..Len(s) : s[i] \in STRING
      BY LenProperties, ElementOfSeq
    <2> HIDE DEF s
    <2>2. ASSUME s \in Seq(Good) PROVE \A i \in DOMAIN s : FileProblems(s[i]) = {}
      BY <2>1, <2>2, ElementOfSeq DEF Good
    <2>3. ASSUME \A i \in DOMAIN s : FileProblems(s[i]) = {} PROVE s \in Seq(Good)
      <3>1. \A i \in 1..Len(s) : s[i] \in Good
        BY <2>1, <2>3 DEF Good
      <3> QED
        BY <2>1, <3>1, SeqDef
    <2>4. s \in Seq(Good) <=> \A i \in DOMAIN s : FileProblems(s[i]) = {}
      BY <2>2, <2>3
    <2> QED
      BY <2>4 DEF s
  <1>4. ValueProblems(params) = {} <=>
           \A t \in DOMAIN params \cap TableNames :
              \A i \in DOMAIN params[t] : FileProblems(params[t][i]) = {}
    BY <1>1
  <1> QED
    BY <1>2, <1>3, <1>4

\* A template without problems, and a request that gives its blanks rows.
Fits(params, blanks) ==
    /\ \A t \in DOMAIN params \cap TableNames : params[t] \in Seq(STRING)
    /\ blanks \subseteq TableNames
    /\ TemplateProblems(params, blanks) = {}
Completes(asks, params, blanks) ==
    /\ asks = [x \in DOMAIN asks |-> asks[x]]
    /\ DOMAIN asks = DOMAIN params \cup blanks
    /\ \A x \in DOMAIN params \ blanks : asks[x] = params[x]
    /\ \A t \in blanks : asks[t] \in Seq(STRING)
TooFew(params, t) == Len(params[t]) < MinRows[t] \/ Len(params[t]) > MaxRows[t]

LEMMA StoredAt ==
  ASSUME NEW params
  PROVE  /\ DOMAIN StoredValues(params) = DOMAIN params
         /\ \A t \in DOMAIN params \cap TableNames : StoredValues(params)[t] = Stored(params[t])
         /\ \A x \in DOMAIN params \ TableNames : StoredValues(params)[x] = params[x]
  BY DEF StoredValues, Stored

LEMMA FixedAt ==
  ASSUME NEW params, NEW blanks, blanks \subseteq TableNames
  PROVE  /\ DOMAIN FixedValues(params, blanks) = DOMAIN params \cup {"bins"}
         /\ \A x \in DOMAIN params : FixedValues(params, blanks)[x] = params[x]
         /\ "bins" \notin DOMAIN params => FixedValues(params, blanks)["bins"] = 1
  <1>1. DOMAIN Defaults = {"bins"} /\ Defaults["bins"] = 1
    BY DEF Defaults
  <1>2. DOMAIN Defaults \ blanks = {"bins"}
    BY <1>1, TablesAssumption
  <1> DEFINE rest == [n \in DOMAIN Defaults \ blanks |-> Defaults[n]]
  <1>3. DOMAIN rest = {"bins"} /\ rest["bins"] = 1
    BY <1>1, <1>2
  <1>4. FixedValues(params, blanks) = OrElse(params, rest)
    BY DEF FixedValues
  <1> HIDE DEF rest
  <1>5. OrElse(params, rest) =
          [x \in DOMAIN params \cup DOMAIN rest |-> IF x \in DOMAIN params THEN params[x] ELSE rest[x]]
    BY DEF OrElse
  <1> QED
    BY <1>3, <1>4, <1>5

\* What a template without problems has.
LEMMA FitsGives ==
  ASSUME NEW params, NEW blanks, Fits(params, blanks)
  PROVE  /\ DOMAIN params \cup blanks \subseteq Parameters
         /\ DOMAIN params \cap blanks = {}
         /\ TableNames \subseteq DOMAIN params \cup blanks
         /\ \A t \in TableNames \ blanks :
               /\ params[t] \in Seq(Good)
               /\ ~TooFew(params, t)
               /\ ~Repeats(Stored(params[t]), <<>>)
  <1> DEFINE fixed == FixedValues(params, blanks)
  <1>1. blanks \subseteq TableNames /\ TemplateProblems(params, blanks) = {}
    BY DEF Fits
  <1>2. FixedProblems(params, blanks) = {}
    BY <1>1 DEF TemplateProblems, ParamsProblems
  <1>3. /\ DOMAIN params \cup blanks \subseteq Parameters
        /\ DOMAIN params \cap blanks = {}
        /\ TableNames \subseteq DOMAIN params \cup blanks
    BY <1>2 DEF FixedProblems
  <1>4. /\ DOMAIN fixed = DOMAIN params \cup {"bins"}
        /\ \A x \in DOMAIN params : fixed[x] = params[x]
    BY <1>1, FixedAt
  <1>5. /\ ValueProblems(fixed) = {}
        /\ LengthProblems(fixed, TableNames \ blanks) = {}
        /\ RepeatProblems(StoredValues(fixed), NoRows, TableNames \ blanks) = {}
    BY <1>1, <1>2 DEF TemplateProblems, ParamsProblems
  <1> HIDE DEF fixed
  <1>6. \A t \in TableNames \ blanks : t \in DOMAIN params /\ fixed[t] = params[t]
    BY <1>3, <1>4
  <1>7. \A t \in DOMAIN fixed \cap TableNames : t \in DOMAIN params /\ fixed[t] \in Seq(STRING)
    BY <1>4, TablesAssumption DEF Fits
  <1>8. \A t \in DOMAIN fixed \cap TableNames : fixed[t] \in Seq(Good)
    BY <1>5, <1>7, ValuesFit
  <1>9. ASSUME NEW t \in TableNames \ blanks
        PROVE  params[t] \in Seq(Good) /\ ~TooFew(params, t) /\ ~Repeats(Stored(params[t]), <<>>)
    <2>1. t \in DOMAIN fixed \cap TableNames /\ fixed[t] = params[t]
      BY <1>4, <1>6
    <2>2. StoredValues(fixed)[t] = Stored(params[t]) /\ NoRows[t] = <<>>
      BY <2>1, StoredAt DEF NoRows
    <2>3. ~TooFew(params, t)
      BY <1>5, <2>1 DEF LengthProblems, TooFew
    <2>4. ~Repeats(StoredValues(fixed)[t], NoRows[t])
      BY <1>5, Zenon DEF RepeatProblems
    <2> QED
      BY <1>8, <2>1, <2>2, <2>3, <2>4
  <1> QED
    BY <1>3, <1>9

\* What is wrong with a request that completes such a template: first names, and
\* then numbers of rows and repeated ones.
LEMMA RequestFull ==
  ASSUME NEW params, NEW blanks, NEW asks, Fits(params, blanks), Completes(asks, params, blanks)
  PROVE  /\ TableNames \subseteq DOMAIN asks
         /\ DOMAIN FixedValues(asks, {}) = DOMAIN asks \cup {"bins"}
         /\ \A x \in DOMAIN asks : FixedValues(asks, {})[x] = asks[x]
         /\ FixedProblems(asks, {}) = {}
         /\ \A t \in TableNames \ blanks : asks[t] = params[t]
         /\ \A t \in TableNames : asks[t] \in Seq(STRING)
  <1>1. TableNames \subseteq DOMAIN asks /\ DOMAIN asks \subseteq Parameters
    BY FitsGives DEF Completes
  <1>2. FixedProblems(asks, {}) = {}
    BY <1>1 DEF FixedProblems
  <1>3. \A t \in TableNames \ blanks : t \in DOMAIN params /\ asks[t] = params[t]
    BY FitsGives DEF Completes
  <1>4. \A t \in TableNames : asks[t] \in Seq(STRING)
    BY <1>3 DEF Completes, Fits
  <1> QED
    BY <1>1, <1>2, <1>3, <1>4, FixedAt

LEMMA RequestIs ==
  ASSUME NEW params, NEW blanks, NEW asks, Fits(params, blanks), Completes(asks, params, blanks)
  PROVE  /\ (\A t \in blanks : asks[t] \in Seq(Good)) =>
               /\ (\A t \in blanks : ~Repeats(Stored(asks[t]), <<>>)) =>
                     RequestProblems(asks) = LengthProblems(asks, blanks)
               /\ (\E t \in blanks : Repeats(Stored(asks[t]), <<>>)) =>
                     "a row repeated" \in RequestProblems(asks)
         /\ ~(\A t \in blanks : asks[t] \in Seq(Good)) =>
               ~(RequestProblems(asks) \subseteq {"number of rows"})
  <1> DEFINE full == FixedValues(asks, {})
  <1>1. /\ TableNames \subseteq DOMAIN asks
        /\ DOMAIN full = DOMAIN asks \cup {"bins"}
        /\ \A x \in DOMAIN asks : full[x] = asks[x]
        /\ FixedProblems(asks, {}) = {}
        /\ \A t \in TableNames \ blanks : asks[t] = params[t]
        /\ \A t \in TableNames : asks[t] \in Seq(STRING)
    BY RequestFull
  <1>2. RequestProblems(asks) =
          IF ValueProblems(full) # {} THEN ValueProblems(full)
          ELSE LengthProblems(full, TableNames) \cup RepeatProblems(StoredValues(full), NoRows, TableNames)
    BY <1>1 DEF RequestProblems, ParamsProblems
  <1> HIDE DEF full
  <1>3. blanks \subseteq TableNames
    BY DEF Fits
  <1>4. /\ DOMAIN full \cap TableNames = TableNames
        /\ \A t \in TableNames : full[t] = asks[t]
    BY <1>1
  <1>5. /\ ValueProblems(full) = {} <=> \A t \in TableNames : asks[t] \in Seq(Good)
        /\ "number of rows" \notin ValueProblems(full)
    <2>1. \A t \in DOMAIN full \cap TableNames : full[t] \in Seq(STRING)
      BY <1>1, <1>4
    <2> QED
      BY <1>4, <2>1, ValuesFit
  <1>6. \A t \in TableNames \ blanks : /\ asks[t] \in Seq(Good)
                                       /\ ~TooFew(params, t)
                                       /\ ~Repeats(Stored(asks[t]), <<>>)
    BY <1>1, FitsGives
  <1>7. ValueProblems(full) = {} <=> \A t \in blanks : asks[t] \in Seq(Good)
    BY <1>3, <1>5, <1>6
  <1>8. LengthProblems(full, TableNames) = LengthProblems(asks, blanks)
    <2>1. (\E t \in TableNames : TooFew(full, t)) <=> (\E t \in blanks : TooFew(asks, t))
      <3>1. \A t \in TableNames : TooFew(full, t) <=> TooFew(asks, t)
        BY <1>4 DEF TooFew
      <3>2. \A t \in TableNames \ blanks : ~TooFew(asks, t)
        BY <1>1, <1>6 DEF TooFew
      <3> QED
        BY <1>3, <3>1, <3>2
    <2> QED
      BY <2>1 DEF LengthProblems, TooFew
  <1>9. \A t \in TableNames :
           Repeats(StoredValues(full)[t], NoRows[t]) <=> Repeats(Stored(asks[t]), <<>>)
    BY <1>4, StoredAt DEF NoRows
  <1>10. ASSUME \A t \in blanks : asks[t] \in Seq(Good),
                \A t \in blanks : ~Repeats(Stored(asks[t]), <<>>)
         PROVE  RequestProblems(asks) = LengthProblems(asks, blanks)
    <2>1. RepeatProblems(StoredValues(full), NoRows, TableNames) = {}
      BY <1>6, <1>9, <1>10 DEF RepeatProblems
    <2> QED
      BY <1>2, <1>7, <1>8, <1>10, <2>1
  <1>11. ASSUME \A t \in blanks : asks[t] \in Seq(Good),
                \E t \in blanks : Repeats(Stored(asks[t]), <<>>)
         PROVE  "a row repeated" \in RequestProblems(asks)
    <2>1. RepeatProblems(StoredValues(full), NoRows, TableNames) = {"a row repeated"}
      BY <1>3, <1>9, <1>11 DEF RepeatProblems
    <2> QED
      BY <1>2, <1>7, <1>11, <2>1
  <1>12. ASSUME ~(\A t \in blanks : asks[t] \in Seq(Good))
         PROVE  ~(RequestProblems(asks) \subseteq {"number of rows"})
    BY <1>2, <1>5, <1>7, <1>12
  <1> QED
    BY <1>10, <1>11, <1>12

\* A table that no push gives rows keeps those it had.
LEMMA RowsUntouched ==
  ASSUME NEW before, NEW pushes, NEW n, NEW u \in Nat, \A k \in 1..u : n \notin DOMAIN pushes[k]
  PROVE  RowsAfter(before, pushes, n, u) = before
  <1>1. PICK f : Grow(f, before, pushes, n, u) /\ RowsAfter(before, pushes, n, u) = f[u]
    BY RowsAfterGrow
  <1>2. f[0] = before /\ \A k \in 1..u : f[k] = f[k - 1]
    <2>1. f[0] = before /\ \A k \in 1..u : f[k] = Pushed(f[k - 1], pushes[k], n)
      BY <1>1, GrowAt
    <2> QED
      BY <2>1 DEF Pushed
  <1> DEFINE g == [k \in 0..u |-> before]
  <1>3. ASSUME NEW k \in 0..u
        PROVE  before = IF k = 0 THEN before
                        ELSE IF n \in DOMAIN pushes[k] THEN g[k - 1] \o pushes[k][n] ELSE g[k - 1]
    <2>1. k = 0 \/ (k \in 1..u /\ k - 1 \in 0..u)
      OBVIOUS
    <2>2. \A l \in 0..u : g[l] = before
      OBVIOUS
    <2> QED
      BY <2>1, <2>2
  <1>4. Grow(g, before, pushes, n, u)
    <2> DEFINE At(k) == IF k = 0 THEN before
                        ELSE IF n \in DOMAIN pushes[k] THEN g[k - 1] \o pushes[k][n] ELSE g[k - 1]
    <2>1. \A k \in 0..u : At(k) = before
      BY <1>3
    <2>2. g = [k \in 0..u |-> At(k)]
      <3> HIDE DEF At
      <3> QED
        BY <2>1
    <2> QED
      BY <2>2, Zenon DEF Grow
  <1>5. \A k \in 0..u : f[k] = g[k]
    BY <1>1, <1>4, GrowsAlike
  <1> QED
    BY <1>1, <1>5

PushType == RowsOfTables(Rows)

\* The template fits, and the log holds the opening it stands for.
Opened ==
    /\ template.params \in Given
    /\ Fits(template.params, template.blanks)
    /\ opened = OrElse(StoredValues(FixedValues(template.params, template.blanks)),
                       [t \in template.blanks |-> <<>>])
    /\ \A k \in 1..Len(asked) : DOMAIN asked[k] \subseteq template.blanks

\* The log holds each push as it was written, with the files' identities.
PushesKept ==
    /\ asked \in Seq(PushType)
    /\ pushed \in Seq({StoredValues(entries) : entries \in PushType})
    /\ Len(pushed) = Len(asked)
    /\ \A k \in 1..Len(asked) : pushed[k] = StoredValues(asked[k])

\* The rows of a table after n pushes all fit, none twice, and the log has them.
Asked(t, n) == RowsAfter(<<>>, asked, t, n)
Held(t, n) == RowsAfter(<<>>, pushed, t, n)
RowsFit(t, n) ==
    /\ Asked(t, n) \in Seq(Good)
    /\ Held(t, n) = Stored(Asked(t, n))
    /\ ~Repeats(Stored(Asked(t, n)), <<>>)

\* An answer about a state is about its numbers of rows.
Answer(upto) == LengthProblems(PlainOf(upto), template.blanks)
AnswersStand ==
    /\ checked # Unset =>
          /\ template # Unset
          /\ checked.upto \in 0..Len(pushed)
          /\ checked.problems = Answer(checked.upto)
    /\ \A t \in Thread :
          /\ checks[t].step # "idle" => template # Unset /\ checks[t].upto \in 0..Len(pushed)
          /\ checks[t].step = "answered" => checks[t].problems = Answer(checks[t].upto)

ChecksType == [upto : Int, step : {"idle", "checks", "answered"}, problems : SUBSET {"number of rows"}]

TablesInv ==
    /\ template # Unset => Opened
    /\ template = Unset => asked = <<>>
    /\ PushesKept
    /\ \A t \in TableNames : \A n \in 0..Len(asked) : RowsFit(t, n)
    /\ seen = [t \in TableNames |-> Held(t, Len(asked))]
    /\ checks \in [Thread -> ChecksType]
    /\ AnswersStand

\* The request that gives at once what was pushed bit by bit completes the template.
LEMMA AtOnceIs ==
  ASSUME TablesInv, template # Unset, NEW n \in 0..Len(asked)
  PROVE  /\ Completes(AtOnce(n), template.params, template.blanks)
         /\ \A t \in template.blanks : AtOnce(n)[t] = Asked(t, n)
  <1> DEFINE params == template.params
             blanks == template.blanks
             base == OrElse(params, [t \in blanks |-> <<>>])
  <1>1. /\ Fits(params, blanks) /\ blanks \subseteq TableNames
        /\ Len(asked) \in Nat /\ n \in Nat /\ \A k \in 1..n : DOMAIN asked[k] \subseteq blanks
    BY DEF TablesInv, Opened, PushesKept, Fits
  <1>2. DOMAIN params \cap blanks = {}
    BY <1>1, FitsGives
  <1>3. /\ DOMAIN base = DOMAIN params \cup blanks
        /\ \A x \in DOMAIN params : base[x] = params[x]
        /\ \A t \in blanks : base[t] = <<>>
    BY <1>2 DEF OrElse
  <1>4. /\ AtOnce(n) = [x \in DOMAIN AtOnce(n) |-> AtOnce(n)[x]]
        /\ DOMAIN AtOnce(n) = DOMAIN params \cup blanks
        /\ \A x \in DOMAIN params \cup blanks : AtOnce(n)[x] = RowsAfter(base[x], asked, x, n)
    <2> HIDE DEF base
    <2>1. AtOnce(n) = [x \in DOMAIN base |-> RowsAfter(base[x], asked, x, n)]
      BY DEF AtOnce, WithRows, base
    <2> QED
      BY <1>3, <2>1
  <1>5. ASSUME NEW x \in DOMAIN params PROVE AtOnce(n)[x] = params[x]
    <2>1. \A k \in 1..n : x \notin DOMAIN asked[k]
      BY <1>1, <1>2
    <2> HIDE DEF base
    <2>2. RowsAfter(base[x], asked, x, n) = base[x]
      BY <1>1, <2>1, RowsUntouched
    <2> QED
      BY <1>3, <1>4, <2>2
  <1>6. ASSUME NEW t \in blanks
        PROVE  AtOnce(n)[t] = Asked(t, n) /\ Asked(t, n) \in Seq(STRING)
    <2>1. Asked(t, n) \in Seq(Good) /\ Good \subseteq STRING
      BY <1>1 DEF TablesInv, RowsFit, Good
    <2>2. Asked(t, n) \in Seq(STRING)
      BY <2>1, GoodNames
    <2> QED
      BY <1>3, <1>4, <2>2 DEF Asked
  <1> QED
    BY <1>4, <1>5, <1>6 DEF Completes

\* The plain request of a state has the same values, as the record holds them.
LEMMA PlainIs ==
  ASSUME TablesInv, template # Unset, NEW n \in 0..Len(asked)
  PROVE  PlainOf(n) = StoredValues(FixedValues(AtOnce(n), {}))
  <1> DEFINE params == template.params
             blanks == template.blanks
             fixed == FixedValues(params, blanks)
             stored == StoredValues(fixed)
             asks == AtOnce(n)
             full == FixedValues(asks, {})
  <1>1. /\ Fits(params, blanks) /\ blanks \subseteq TableNames
        /\ opened = OrElse(stored, [t \in blanks |-> <<>>])
        /\ Len(asked) \in Nat /\ n \in Nat
        /\ \A k \in 1..n : pushed[k] = StoredValues(asked[k]) /\ DOMAIN asked[k] \subseteq blanks
    BY DEF TablesInv, Opened, PushesKept, Fits
  <1>2. DOMAIN params \cap blanks = {} /\ TableNames \subseteq DOMAIN params \cup blanks
    BY <1>1, FitsGives
  <1>3. /\ DOMAIN asks = DOMAIN params \cup blanks
        /\ \A x \in DOMAIN params : asks[x] = params[x]
        /\ \A t \in blanks : asks[t] = Asked(t, n)
    BY <1>2, AtOnceIs DEF Completes
  <1>4. /\ DOMAIN stored = DOMAIN params \cup {"bins"}
        /\ \A t \in DOMAIN params \cap TableNames : stored[t] = Stored(params[t])
        /\ \A x \in DOMAIN params \ TableNames : stored[x] = params[x]
        /\ "bins" \notin DOMAIN params => stored["bins"] = 1
    <2> HIDE DEF params, blanks
    <2>1. /\ DOMAIN fixed = DOMAIN params \cup {"bins"}
          /\ \A x \in DOMAIN params : fixed[x] = params[x]
          /\ "bins" \notin DOMAIN params => fixed["bins"] = 1
      BY <1>1, FixedAt
    <2> HIDE DEF fixed
    <2> QED
      BY <2>1, StoredAt, TablesAssumption
  <1>5. /\ DOMAIN StoredValues(full) = DOMAIN params \cup blanks \cup {"bins"}
        /\ \A t \in DOMAIN params \cap TableNames : StoredValues(full)[t] = Stored(params[t])
        /\ \A x \in DOMAIN params \ TableNames : StoredValues(full)[x] = params[x]
        /\ \A t \in blanks : StoredValues(full)[t] = Stored(Asked(t, n))
        /\ "bins" \notin DOMAIN params => StoredValues(full)["bins"] = 1
    <2>1. "bins" \notin blanks
      BY <1>1, TablesAssumption
    <2> HIDE DEF params, blanks, asks
    <2>2. /\ DOMAIN full = DOMAIN asks \cup {"bins"}
          /\ \A x \in DOMAIN asks : full[x] = asks[x]
          /\ "bins" \notin DOMAIN asks => full["bins"] = 1
      BY FixedAt
    <2> HIDE DEF full
    <2> QED
      BY <1>1, <1>3, <2>1, <2>2, StoredAt, TablesAssumption
  <1> HIDE DEF params, blanks, fixed, stored, asks, full
  <1>6. /\ DOMAIN opened = DOMAIN params \cup blanks \cup {"bins"}
        /\ \A x \in DOMAIN params \cup {"bins"} : opened[x] = stored[x]
        /\ \A t \in blanks : opened[t] = <<>>
    <2>1. "bins" \notin blanks
      BY <1>1, TablesAssumption
    <2> QED
      BY <1>1, <1>2, <1>4, <2>1 DEF OrElse
  <1>7. /\ PlainOf(n) = [x \in DOMAIN opened |-> RowsAfter(opened[x], pushed, x, n)]
    BY DEF PlainOf, WithRows
  <1>8. \A k \in 1..n : DOMAIN pushed[k] \subseteq blanks
    BY <1>1, StoredAt
  <1>9. ASSUME NEW x \in DOMAIN params \cup {"bins"} PROVE PlainOf(n)[x] = stored[x]
    <2>1. \A k \in 1..n : x \notin DOMAIN pushed[k]
      BY <1>1, <1>2, <1>8, TablesAssumption
    <2>2. RowsAfter(opened[x], pushed, x, n) = opened[x]
      BY <1>1, <2>1, RowsUntouched
    <2> QED
      BY <1>6, <1>7, <2>2
  <1>10. ASSUME NEW t \in blanks PROVE PlainOf(n)[t] = Stored(Asked(t, n))
    <2>1. Held(t, n) = Stored(Asked(t, n))
      BY <1>1 DEF TablesInv, RowsFit
    <2> QED
      BY <1>6, <1>7, <2>1 DEF Held
  <1>11. /\ StoredValues(full) = [x \in DOMAIN StoredValues(full) |-> StoredValues(full)[x]]
         /\ PlainOf(n) = [x \in DOMAIN PlainOf(n) |-> PlainOf(n)[x]]
         /\ DOMAIN PlainOf(n) = DOMAIN StoredValues(full)
    BY <1>5, <1>6, <1>7 DEF StoredValues
  <1>12. \A x \in DOMAIN PlainOf(n) : PlainOf(n)[x] = StoredValues(full)[x]
    BY <1>4, <1>5, <1>6, <1>7, <1>9, <1>10
  <1> QED
    BY <1>11, <1>12 DEF full, asks

\* The numbers of rows are the same in both.
LEMMA NumbersAlike ==
  ASSUME TablesInv, template # Unset, NEW n \in 0..Len(asked), NEW T, T \subseteq TableNames
  PROVE  LengthProblems(PlainOf(n), T) = LengthProblems(AtOnce(n), T)
  <1> DEFINE asks == AtOnce(n)
             full == FixedValues(asks, {})
  <1>1. /\ TableNames \subseteq DOMAIN asks
        /\ DOMAIN full = DOMAIN asks \cup {"bins"}
        /\ \A x \in DOMAIN asks : full[x] = asks[x]
        /\ \A t \in TableNames : asks[t] \in Seq(STRING)
    <2> DEFINE params == template.params
               blanks == template.blanks
    <2>1. Completes(asks, params, blanks) /\ Fits(params, blanks)
      BY AtOnceIs DEF TablesInv, Opened
    <2> HIDE DEF asks, params, blanks
    <2>2. /\ TableNames \subseteq DOMAIN asks
          /\ DOMAIN FixedValues(asks, {}) = DOMAIN asks \cup {"bins"}
          /\ \A x \in DOMAIN asks : FixedValues(asks, {})[x] = asks[x]
          /\ FixedProblems(asks, {}) = {}
          /\ \A t \in TableNames \ blanks : asks[t] = params[t]
          /\ \A t \in TableNames : asks[t] \in Seq(STRING)
      BY <2>1, RequestFull, Zenon
    <2> QED
      BY <2>2
  <1>2. PlainOf(n) = StoredValues(full)
    BY PlainIs
  <1> HIDE DEF asks, full
  <1>3. \A t \in TableNames : PlainOf(n)[t] = Stored(asks[t])
    BY <1>1, <1>2, StoredAt
  <1>4. \A t \in TableNames : Len(PlainOf(n)[t]) = Len(asks[t])
    BY <1>1, <1>3, StoredIs
  <1>5. (\E t \in T : TooFew(PlainOf(n), t)) <=> (\E t \in T : TooFew(asks, t))
    BY <1>4 DEF TooFew
  <1>6. LengthProblems(PlainOf(n), T) = LengthProblems(asks, T)
    BY <1>5 DEF LengthProblems, TooFew
  <1> QED
    BY <1>6 DEF asks

\* A state is refused exactly if the request at once is: for its numbers of rows.
LEMMA StateRefused ==
  ASSUME TablesInv, template # Unset, NEW n \in 0..Len(asked)
  PROVE  /\ RequestProblems(AtOnce(n)) = LengthProblems(PlainOf(n), template.blanks)
         /\ RequestProblems(AtOnce(n)) = LengthProblems(PlainOf(n), TableNames)
  <1> DEFINE params == template.params
             blanks == template.blanks
             asks == AtOnce(n)
  <1>1. Fits(params, blanks) /\ blanks \subseteq TableNames
    BY DEF TablesInv, Opened, Fits
  <1>2. Completes(asks, params, blanks) /\ \A t \in blanks : asks[t] = Asked(t, n)
    BY AtOnceIs
  <1>3. \A t \in blanks : asks[t] \in Seq(Good) /\ ~Repeats(Stored(asks[t]), <<>>)
    BY <1>1, <1>2 DEF TablesInv, RowsFit
  <1>4. LengthProblems(asks, TableNames) = LengthProblems(asks, blanks)
    <2> HIDE DEF params, blanks, asks
    <2>1. \A t \in TableNames \ blanks : ~TooFew(params, t) /\ asks[t] = params[t]
      <3>1. \A t \in TableNames \ blanks : ~TooFew(params, t)
        BY <1>1, FitsGives
      <3>2. \A t \in TableNames \ blanks : t \in DOMAIN params \ blanks
        BY <1>1, FitsGives
      <3>3. \A t \in TableNames \ blanks : asks[t] = params[t]
        BY <1>2, <3>2 DEF Completes
      <3> QED
        BY <3>1, <3>3
    <2>2. (\E t \in TableNames : TooFew(asks, t)) <=> (\E t \in blanks : TooFew(asks, t))
      BY <1>1, <2>1 DEF TooFew
    <2> QED
      BY <2>2 DEF LengthProblems, TooFew
  <1>5. RequestProblems(asks) = LengthProblems(asks, blanks)
    <2> HIDE DEF params, blanks, asks
    <2> QED
      BY <1>1, <1>2, <1>3, RequestIs
  <1> QED
    BY <1>1, <1>4, <1>5, NumbersAlike

\* A push of rows to a table is refused exactly if they make that request one
\* with another problem than their number.
LEMMA PushRefused ==
  ASSUME TablesInv, template # Unset, NEW t \in template.blanks, NEW r \in Seq(STRING), r # <<>>
  PROVE  LET entries == [x \in {t} |-> r]
         IN PushProblems(entries) = {} <=>
               RequestProblems(WithRows(AtOnce(Len(pushed)), <<entries>>, 1)) \subseteq {"number of rows"}
  <1> DEFINE params == template.params
             blanks == template.blanks
             entries == [x \in {t} |-> r]
             n == Len(asked)
             asks == AtOnce(n)
             more == WithRows(asks, <<entries>>, 1)
             had == Asked(t, n)
  <1>1. /\ Fits(params, blanks) /\ blanks \subseteq TableNames
        /\ n \in Nat /\ n \in 0..n /\ Len(pushed) = n
    BY DEF TablesInv, Opened, PushesKept, Fits
  <1>2. Completes(asks, params, blanks) /\ \A x \in blanks : asks[x] = Asked(x, n)
    BY <1>1, AtOnceIs
  <1>3. /\ \A x \in blanks : asks[x] \in Seq(Good) /\ ~Repeats(Stored(asks[x]), <<>>)
        /\ had \in Seq(Good) /\ seen[t] = Stored(had) /\ asks[t] = had
    <2>1. \A x \in TableNames : RowsFit(x, n) /\ seen[x] = Held(x, n)
      BY <1>1 DEF TablesInv
    <2> QED
      BY <1>1, <1>2, <2>1 DEF RowsFit
  <1> HIDE DEF params, asks, had
  <1>4. /\ more = [x \in DOMAIN more |-> more[x]]
        /\ DOMAIN more = DOMAIN asks
        /\ \A x \in DOMAIN asks \ {t} : more[x] = asks[x]
        /\ t \in DOMAIN asks /\ more[t] = had \o r
    <2>1. ASSUME NEW x PROVE RowsAfter(asks[x], <<entries>>, x, 1) = Pushed(asks[x], entries, x)
      <3>1. RowsAfter(asks[x], <<entries>>, x, 1) =
              Pushed(RowsAfter(asks[x], <<entries>>, x, 0), <<entries>>[1], x)
        <4> DEFINE none == 0
                   one == 1
        <4>1. none \in Nat /\ one \in Nat /\ one = none + 1
          OBVIOUS
        <4> HIDE DEF none, one
        <4>2. RowsAfter(asks[x], <<entries>>, x, one) =
                Pushed(RowsAfter(asks[x], <<entries>>, x, none), <<entries>>[one], x)
          BY <4>1, RowsPushed
        <4> QED
          BY <4>2 DEF none, one
      <3>2. RowsAfter(asks[x], <<entries>>, x, 0) = asks[x] /\ <<entries>>[1] = entries
        BY RowsBefore
      <3> QED
        BY <3>1, <3>2
    <2>2. more = [x \in DOMAIN asks |-> Pushed(asks[x], entries, x)]
      BY <2>1 DEF WithRows
    <2>3. t \in DOMAIN asks
      BY <1>2 DEF Completes
    <2> HIDE DEF more
    <2> QED
      BY <1>3, <2>2, <2>3 DEF Pushed
  <1>5. had \in Seq(STRING) /\ had \o r \in Seq(STRING)
    BY <1>3, GoodNames, ConcatProperties
  <1>6. Completes(more, params, blanks)
    <2> HIDE DEF more
    <2>1. DOMAIN params \cap blanks = {}
      BY <1>1, FitsGives
    <2>2. /\ DOMAIN asks = DOMAIN params \cup blanks
          /\ \A x \in DOMAIN params \ blanks : asks[x] = params[x]
          /\ \A x \in blanks : asks[x] \in Seq(STRING)
      BY <1>2 DEF Completes
    <2>3. \A x \in DOMAIN params \ blanks : x \in DOMAIN asks \ {t} /\ more[x] = params[x]
      BY <1>4, <2>2
    <2>4. \A x \in blanks : x \in DOMAIN asks /\ more[x] \in Seq(STRING)
      <3> HIDE DEF blanks
      <3> QED
        BY <1>4, <1>5, <2>2
    <2> QED
      BY <1>4, <2>2, <2>3, <2>4 DEF Completes
  <1>7. /\ DOMAIN entries = {t} /\ entries[t] = r
        /\ StoredValues(entries)[t] = Stored(r)
        /\ DOMAIN entries \cap TableNames = {t}
    BY <1>1, StoredAt
  <1> HIDE DEF entries, more
  <1>8. /\ ValueProblems(entries) = {} <=> r \in Seq(Good)
    BY <1>7, ValuesFit
  <1>9. PushProblems(entries) = {} <=> r \in Seq(Good) /\ ~Repeats(Stored(r), seen[t])
    <2>1. DOMAIN entries # {} /\ DOMAIN entries \subseteq blanks /\ ~(\E x \in DOMAIN entries : entries[x] = <<>>)
      BY <1>7
    <2>2. PushProblems(entries) = IF ValueProblems(entries) # {} THEN ValueProblems(entries)
                               ELSE RepeatProblems(StoredValues(entries), seen, DOMAIN entries)
      BY <2>1 DEF PushProblems
    <2>3. RepeatProblems(StoredValues(entries), seen, DOMAIN entries) = {} <=> ~Repeats(Stored(r), seen[t])
      BY <1>7 DEF RepeatProblems
    <2> QED
      BY <1>8, <2>2, <2>3
  <1>10. had \o r \in Seq(Good) <=> r \in Seq(Good)
    BY <1>3, ConcatFits
  <1>11. Repeats(Stored(had \o r), <<>>) <=> Repeats(Stored(r), Stored(had))
    <2>1. Stored(had \o r) = Stored(had) \o Stored(r)
      BY <1>5, StoredConcat
    <2>2. Stored(had) \in Seq(Identities) /\ Stored(r) \in Seq(Identities)
      BY <1>5, StoredIs
    <2>3. ~Repeats(Stored(had), <<>>)
      BY <1>3
    <2> QED
      BY <2>1, <2>2, <2>3, RepeatsConcat
  <1>12. CASE r \in Seq(Good)
    <2>1. \A x \in blanks : more[x] \in Seq(Good)
      BY <1>2, <1>3, <1>4, <1>10, <1>12 DEF Completes
    <2>2. (\E x \in blanks : Repeats(Stored(more[x]), <<>>)) <=> Repeats(Stored(r), seen[t])
      BY <1>2, <1>3, <1>4, <1>11 DEF Completes
    <2>3. LengthProblems(more, blanks) \subseteq {"number of rows"}
      BY DEF LengthProblems
    <2>4. Repeats(Stored(r), seen[t]) => "a row repeated" \in RequestProblems(more)
      BY <1>1, <1>6, <2>1, <2>2, RequestIs
    <2>5. ~Repeats(Stored(r), seen[t]) => RequestProblems(more) = LengthProblems(more, blanks)
      BY <1>1, <1>6, <2>1, <2>2, RequestIs
    <2>6. "a row repeated" \notin {"number of rows"}
      OBVIOUS
    <2>7. PushProblems(entries) = {} <=> RequestProblems(more) \subseteq {"number of rows"}
      BY <1>9, <1>12, <2>3, <2>4, <2>5, <2>6
    <2> QED
      BY <1>1, <2>7 DEF entries, more, asks
  <1>13. CASE r \notin Seq(Good)
    <2>1. ~(\A x \in blanks : more[x] \in Seq(Good))
      BY <1>4, <1>10, <1>13
    <2>2. ~(RequestProblems(more) \subseteq {"number of rows"})
      BY <1>1, <1>6, <2>1, RequestIs
    <2> QED
      BY <1>1, <1>9, <1>13, <2>2 DEF entries, more, asks
  <1> QED
    BY <1>12, <1>13

LEMMA StandsAsRequest == TablesInv => StateAsRequest
  <1> SUFFICES ASSUME TablesInv, template # Unset
               PROVE  /\ StatesAsRequests /\ PushesAsRequests
                      /\ \A t \in Thread :
                            checks[t].step = "answered" =>
                               checks[t].problems = RequestProblems(AtOnce(checks[t].upto))
    BY DEF StateAsRequest
  <1>1. Len(pushed) = Len(asked)
    BY DEF TablesInv, PushesKept
  <1>2. StatesAsRequests
    BY <1>1, PlainIs, StateRefused DEF StatesAsRequests
  <1>3. PushesAsRequests
    <2> SUFFICES ASSUME NEW t \in template.blanks, NEW a \in Rows, NEW b \in Rows, a \o b # <<>>
                 PROVE  LET entries == [x \in {t} |-> a \o b]
                        IN PushProblems(entries) = {} <=>
                              RequestProblems(WithRows(AtOnce(Len(pushed)), <<entries>>, 1))
                                 \subseteq {"number of rows"}
      BY DEF PushesAsRequests
    <2>1. a \o b \in Seq(STRING)
      BY ConcatProperties, TablesAssumption
    <2> QED
      BY <2>1, PushRefused
  <1>4. ASSUME NEW t \in Thread, checks[t].step = "answered"
        PROVE  checks[t].problems = RequestProblems(AtOnce(checks[t].upto))
    <2>1. checks[t].upto \in 0..Len(asked) /\ checks[t].problems = Answer(checks[t].upto)
      BY <1>1, <1>4 DEF TablesInv, AnswersStand
    <2> QED
      BY <2>1, StateRefused DEF Answer
  <1> QED
    BY <1>2, <1>3, <1>4

LEMMA NoRowsFit ==
  ASSUME NEW t, asked = <<>>, pushed = <<>>
  PROVE  RowsFit(t, 0) /\ Held(t, 0) = <<>>
  <1>1. Asked(t, 0) = <<>> /\ Held(t, 0) = <<>>
    BY RowsBefore DEF Asked, Held
  <1>2. Stored(<<>>) = <<>>
    BY DEF Stored
  <1>3. ~Repeats(<<>>, <<>>)
    BY DEF Repeats
  <1> QED
    BY <1>1, <1>2, <1>3, EmptySeq DEF RowsFit

LEMMA TablesInit == InitTables => TablesInv
  <1> SUFFICES ASSUME InitTables PROVE TablesInv
    OBVIOUS
  <1>1. template = Unset /\ asked = <<>> /\ pushed = <<>> /\ Len(asked) = 0
    BY DEF InitTables
  <1>2. PushesKept
    BY <1>1, EmptySeq DEF PushesKept
  <1>3. \A t \in TableNames : \A n \in 0..Len(asked) : RowsFit(t, n)
    BY <1>1, NoRowsFit
  <1>4. seen = [t \in TableNames |-> Held(t, Len(asked))]
    BY <1>1, NoRowsFit DEF InitTables
  <1>5. checks \in [Thread -> ChecksType] /\ AnswersStand
    BY DEF InitTables, Unchecked, ChecksType, AnswersStand
  <1> QED
    BY <1>1, <1>2, <1>3, <1>4, <1>5 DEF TablesInv

LEMMA OpenTablesKeeps ==
  ASSUME TablesInv, NEW params \in Given, NEW blanks \in SUBSET TableNames, OpenTables(params, blanks)
  PROVE  TablesInv'
  <1>1. /\ template = Unset /\ TemplateProblems(params, blanks) = {}
        /\ template' = [params |-> params, blanks |-> blanks]
        /\ opened' = OrElse(StoredValues(FixedValues(params, blanks)), [t \in blanks |-> <<>>])
        /\ UNCHANGED <<pushed, asked, seen, checked, checks>>
    BY DEF OpenTables
  <1>2. Fits(params, blanks)
    BY <1>1, TablesAssumption DEF Fits
  <1>3. asked = <<>> /\ Len(asked) = 0
    BY <1>1 DEF TablesInv
  <1>4. template'.params = params /\ template'.blanks = blanks
    BY <1>1
  <1>5. Opened'
    <2>1. template'.params \in Given /\ Fits(template'.params, template'.blanks)
      BY <1>2, <1>4
    <2>2. \A k \in 1..Len(asked') : DOMAIN asked'[k] \subseteq template'.blanks
      BY <1>1, <1>3
    <2> QED
      BY <1>1, <1>4, <2>1, <2>2 DEF Opened, Fits
  <1>6. PushesKept' /\ (\A t \in TableNames : \A n \in 0..Len(asked) : RowsFit(t, n))'
        /\ (seen = [t \in TableNames |-> Held(t, Len(asked))])'
    BY <1>1 DEF TablesInv, PushesKept, RowsFit, Asked, Held
  <1>7. AnswersStand' /\ checks' \in [Thread -> ChecksType]
    BY <1>1 DEF TablesInv, AnswersStand, ChecksType
  <1> QED
    BY <1>1, <1>3, <1>5, <1>6, <1>7 DEF TablesInv

LEMMA ChecksKeep ==
  ASSUME TablesInv, NEW t \in Thread, (\E upto \in 0..MaxPushes : BeginCheck(t, upto)) \/ EndCheck(t)
  PROVE  TablesInv'
  <1>1. UNCHANGED <<template, opened, pushed, asked, seen>>
    BY DEF BeginCheck, EndCheck
  <1>2. \A n : Answer(n)' = Answer(n)
    BY <1>1 DEF Answer, PlainOf, LengthProblems
  <1>3. \A n : Answer(n) \subseteq {"number of rows"}
    BY DEF Answer, LengthProblems
  <1>4. Len(pushed) \in Nat
    BY DEF TablesInv, PushesKept
  <1>5. CASE \E upto \in 0..MaxPushes : BeginCheck(t, upto)
    <2>1. PICK upto \in 0..MaxPushes : BeginCheck(t, upto)
      BY <1>5
    <2>2. /\ template # Unset /\ upto \in 0..Len(pushed) /\ checked' = checked
          /\ checks' = [checks EXCEPT ![t] =
                           IF Answers(upto)
                           THEN [upto |-> upto, step |-> "answered", problems |-> checked.problems]
                           ELSE [upto |-> upto, step |-> "checks", problems |-> {}]]
      BY <2>1 DEF BeginCheck
    <2> DEFINE outcome == IF Answers(upto)
                          THEN [upto |-> upto, step |-> "answered", problems |-> checked.problems]
                          ELSE [upto |-> upto, step |-> "checks", problems |-> {}]
    <2>3. Answers(upto) => checked # Unset /\ checked.problems = Answer(upto)
      BY DEF Answers, TablesInv, AnswersStand
    <2>4. /\ outcome \in ChecksType /\ outcome.upto = upto
          /\ outcome.step = "answered" => outcome.problems = Answer(upto)
      <3>1. CASE Answers(upto)
        <4>1. outcome = [upto |-> upto, step |-> "answered", problems |-> Answer(upto)]
          BY <2>3, <3>1
        <4> HIDE DEF outcome
        <4>2. upto \in Int /\ Answer(upto) \in SUBSET {"number of rows"}
          <5>1. upto \in Int
            BY <1>4, <2>2
          <5>2. Answer(upto) \subseteq {"number of rows"}
            BY <1>3
          <5> QED
            BY <5>1, <5>2
        <4> QED
          BY <4>1, <4>2 DEF ChecksType
      <3>2. CASE ~Answers(upto)
        <4>1. outcome = [upto |-> upto, step |-> "checks", problems |-> {}]
          BY <3>2
        <4> HIDE DEF outcome
        <4> QED
          BY <1>4, <2>2, <4>1 DEF ChecksType
      <3> QED
        BY <3>1, <3>2
    <2> HIDE DEF outcome
    <2>5. checks' = [checks EXCEPT ![t] = outcome] /\ checks \in [Thread -> ChecksType]
      BY <2>2 DEF outcome, TablesInv
    <2>6. checks' \in [Thread -> ChecksType] /\ AnswersStand'
      BY <1>1, <1>2, <2>2, <2>4, <2>5 DEF TablesInv, AnswersStand
    <2> QED
      BY <1>1, <2>6 DEF TablesInv, Opened, PushesKept, RowsFit, Asked, Held
  <1>6. CASE EndCheck(t)
    <2> DEFINE at == checks[t].upto
               outcome == [checks[t] EXCEPT !.step = "answered", !.problems = Answer(at)]
    <2>1. /\ checks[t].step = "checks"
          /\ checked' = [upto |-> at, problems |-> Answer(at)]
          /\ checks' = [checks EXCEPT ![t] = outcome]
          /\ checks \in [Thread -> ChecksType]
      BY <1>6 DEF EndCheck, Answer, TablesInv
    <2>2. template # Unset /\ at \in 0..Len(pushed)
      BY <2>1 DEF TablesInv, AnswersStand
    <2>3. outcome \in ChecksType /\ outcome.upto = at /\ outcome.step = "answered" /\ outcome.problems = Answer(at)
      BY <1>3, <2>1 DEF ChecksType
    <2> HIDE DEF outcome, at
    <2>4. checked'.upto = at /\ checked'.problems = Answer(at)
      BY <2>1
    <2>5. checks' \in [Thread -> ChecksType] /\ AnswersStand'
      BY <1>1, <1>2, <2>1, <2>2, <2>3, <2>4 DEF TablesInv, AnswersStand
    <2> QED
      BY <1>1, <2>5 DEF TablesInv, Opened, PushesKept, RowsFit, Asked, Held
  <1> QED
    BY <1>5, <1>6

\* A push adds rows that fit, none twice, and leaves what was pushed before.
LEMMA PushTablesKeeps ==
  ASSUME TablesInv, NEW entries \in PushType, PushTables(entries)
  PROVE  TablesInv'
  <1>n. PICK n \in Nat, m \in Nat : n = Len(asked) /\ m = n + 1
    BY LenProperties DEF TablesInv, PushesKept
  <1>1. /\ template # Unset /\ PushProblems(entries) = {}
        /\ pushed' = Append(pushed, StoredValues(entries))
        /\ asked' = Append(asked, entries)
        /\ seen' = [t \in TableNames |->
                      IF t \in DOMAIN entries THEN seen[t] \o RowsSeen(entries, t) ELSE seen[t]]
        /\ UNCHANGED <<template, opened, checked, checks>>
    BY DEF PushTables
  <1>2. /\ asked \in Seq(PushType) /\ n \in Nat /\ m \in Nat
        /\ pushed \in Seq({StoredValues(r) : r \in PushType}) /\ Len(pushed) = n
        /\ \A k \in 1..n : pushed[k] = StoredValues(asked[k])
    BY <1>n DEF TablesInv, PushesKept
  <1>3. /\ asked' \in Seq(PushType) /\ Len(asked') = m
        /\ \A k \in 1..n : asked'[k] = asked[k]
        /\ asked'[m] = entries
    BY <1>n, <1>1, <1>2, AppendProperties
  <1>4. /\ pushed' \in Seq({StoredValues(r) : r \in PushType}) /\ Len(pushed') = m
        /\ \A k \in 1..n : pushed'[k] = pushed[k]
        /\ pushed'[m] = StoredValues(entries)
    <2> StoredValues(entries) \in {StoredValues(r) : r \in PushType}
      OBVIOUS
    <2> QED
      BY <1>n, <1>1, <1>2, AppendProperties
  <1>5. \A k \in 1..m : k \in 1..n \/ k = m
    BY <1>n, <1>2
  <1>6. PushesKept'
    <2>1. \A k \in 1..m : pushed'[k] = StoredValues(asked'[k])
      BY <1>2, <1>3, <1>4, <1>5
    <2> QED
      BY <1>3, <1>4, <2>1 DEF PushesKept
  <1>7. /\ DOMAIN entries \subseteq template.blanks
        /\ ValueProblems(entries) = {}
        /\ RepeatProblems(StoredValues(entries), seen, DOMAIN entries) = {}
    BY <1>1 DEF PushProblems
  <1>8. Opened'
    <2>1. \A k \in 1..m : DOMAIN asked'[k] \subseteq template.blanks
      BY <1>n, <1>1, <1>3, <1>5, <1>7 DEF TablesInv, Opened
    <2> QED
      BY <1>1, <1>3, <2>1 DEF TablesInv, Opened
  <1>9. ASSUME NEW t \in DOMAIN entries
        PROVE  /\ t \in TableNames /\ entries[t] \in Seq(Good)
               /\ StoredValues(entries)[t] = Stored(entries[t])
               /\ ~Repeats(Stored(entries[t]), seen[t])
    <2>1. DOMAIN entries \subseteq TableNames /\ \A x \in DOMAIN entries : entries[x] \in Seq(STRING)
      BY TablesAssumption DEF PushType, RowsOfTables
    <2>2. entries[t] \in Seq(Good)
      BY <1>7, <2>1, ValuesFit
    <2>3. StoredValues(entries)[t] = Stored(entries[t])
      BY <2>1, StoredAt
    <2> QED
      BY <1>7, <2>1, <2>2, <2>3 DEF RepeatProblems
  <1>10. ASSUME NEW t, NEW k \in 0..n PROVE Asked(t, k)' = Asked(t, k) /\ Held(t, k)' = Held(t, k)
    <2>1. k \in Nat /\ \A l \in 1..k : asked'[l] = asked[l] /\ pushed'[l] = pushed[l]
      BY <1>2, <1>3, <1>4
    <2> QED
      BY <2>1, RowsSteady DEF Asked, Held
  <1>11. ASSUME NEW t
         PROVE  /\ Asked(t, m)' = Pushed(Asked(t, n), entries, t)
                /\ Held(t, m)' = Pushed(Held(t, n), StoredValues(entries), t)
    <2>1. \A before, pushes : RowsAfter(before, pushes, t, m) =
                                 Pushed(RowsAfter(before, pushes, t, n), pushes[m], t)
      <3> TAKE before, pushes
      <3>1. m = n + 1
        BY <1>n
      <3> QED
        BY <3>1, RowsPushed
    <2>2. n \in 0..n
      BY <1>n
    <2>3. Asked(t, m)' = Pushed(Asked(t, n)', entries, t)
      BY <1>3, <2>1, <2>2 DEF Asked
    <2>4. Held(t, m)' = Pushed(Held(t, n)', StoredValues(entries), t)
      BY <1>4, <2>1, <2>2 DEF Held
    <2> QED
      BY <1>10, <2>2, <2>3, <2>4
  <1>12. \A t \in TableNames : RowsFit(t, n) /\ seen[t] = Held(t, n)
    BY <1>n, <1>2 DEF TablesInv
  <1>13. ASSUME NEW t \in TableNames
         PROVE  RowsFit(t, m)' /\ seen'[t] = Held(t, m)'
    <2>1. /\ Asked(t, n) \in Seq(Good) /\ Held(t, n) = Stored(Asked(t, n))
          /\ ~Repeats(Stored(Asked(t, n)), <<>>) /\ seen[t] = Held(t, n)
      BY <1>12 DEF RowsFit
    <2>2. DOMAIN StoredValues(entries) = DOMAIN entries
      BY StoredAt
    <2>3. CASE t \notin DOMAIN entries
      <3>1. Asked(t, m)' = Asked(t, n) /\ Held(t, m)' = Held(t, n) /\ seen'[t] = seen[t]
        BY <1>1, <1>11, <2>2, <2>3 DEF Pushed
      <3> QED
        BY <2>1, <3>1 DEF RowsFit
    <2>4. CASE t \in DOMAIN entries
      <3> DEFINE had == Asked(t, n)
                 added == entries[t]
      <3>1. added \in Seq(Good) /\ had \in Seq(Good) /\ ~Repeats(Stored(added), Stored(had))
        BY <1>9, <2>1, <2>4
      <3>2. /\ Asked(t, m)' = had \o added
            /\ Held(t, m)' = Stored(had) \o Stored(added)
            /\ seen'[t] = Stored(had) \o Stored(added)
        BY <1>1, <1>9, <1>11, <2>1, <2>2, <2>4 DEF Pushed, RowsSeen
      <3> HIDE DEF had, added
      <3>3. had \in Seq(STRING) /\ added \in Seq(STRING)
        BY <3>1, GoodNames
      <3>4. Stored(had \o added) = Stored(had) \o Stored(added)
        BY <3>3, StoredConcat
      <3>5. Stored(had) \in Seq(Identities) /\ Stored(added) \in Seq(Identities)
        BY <3>3, StoredIs
      <3>6. ~Repeats(Stored(had \o added), <<>>)
        BY <2>1, <3>1, <3>4, <3>5, RepeatsConcat DEF had
      <3>7. had \o added \in Seq(Good)
        BY <3>1, ConcatProperties
      <3> QED
        BY <3>2, <3>4, <3>6, <3>7 DEF RowsFit
    <2> QED
      BY <2>3, <2>4
  <1>14. (\A t \in TableNames : \A k \in 0..Len(asked) : RowsFit(t, k))'
    <2>1. ASSUME NEW t \in TableNames, NEW k \in 0..m PROVE RowsFit(t, k)'
      <3>1. CASE k \in 0..n
        BY <1>n, <1>10, <3>1 DEF TablesInv, RowsFit
      <3>2. CASE k = m
        BY <1>13, <3>2
      <3> QED
        BY <1>n, <3>1, <3>2
    <2> QED
      BY <1>3, <2>1
  <1>15. (seen = [t \in TableNames |-> Held(t, Len(asked))])'
    <2>1. seen' = [t \in TableNames |-> seen'[t]]
      BY <1>1
    <2>2. seen' = [t \in TableNames |-> Held(t, m)']
      BY <1>13, <2>1
    <2> QED
      BY <1>3, <2>2
  <1>16. ASSUME NEW k \in 0..n PROVE Answer(k)' = Answer(k)
    <2>1. k \in Nat /\ \A l \in 1..k : pushed'[l] = pushed[l]
      BY <1>2, <1>4
    <2>2. \A before, x : RowsAfter(before, pushed', x, k) = RowsAfter(before, pushed, x, k)
      BY <2>1, RowsSteady
    <2>3. PlainOf(k)' = PlainOf(k)
      BY <1>1, <2>2 DEF PlainOf, WithRows
    <2> QED
      BY <1>1, <2>3 DEF Answer, LengthProblems
  <1>17. AnswersStand'
    <2>1. \A k \in 0..Len(pushed) : k \in 0..Len(pushed') /\ Answer(k)' = Answer(k)
      BY <1>n, <1>2, <1>4, <1>16
    <2> QED
      BY <1>1, <2>1 DEF TablesInv, AnswersStand
  <1> QED
    BY <1>1, <1>6, <1>8, <1>14, <1>15, <1>17 DEF TablesInv

\* However a table's rows arrive, in how many pushes and under which names of the
\* files, each state is judged as the one request that gives all its rows, and a
\* push as what it makes of that request (Template, checks.py, and the checks of
\* states in backend.py).
THEOREM JudgedAtOnce == SpecTables => []StateAsRequest
  <1>1. TablesInv /\ [NextTables]_tablesVars => TablesInv'
    <2> SUFFICES ASSUME TablesInv, [NextTables]_tablesVars PROVE TablesInv'
      OBVIOUS
    <2>1. CASE NextTables
      <3>1. CASE \E params \in Given, blanks \in SUBSET TableNames : OpenTables(params, blanks)
        BY <3>1, OpenTablesKeeps
      <3>2. CASE \E entries \in RowsOfTables(Rows) : PushTables(entries)
        BY <3>2, PushTablesKeeps DEF PushType
      <3>3. CASE \E t \in Thread, upto \in 0..MaxPushes : BeginCheck(t, upto)
        BY <3>3, ChecksKeep
      <3>4. CASE \E t \in Thread : EndCheck(t)
        BY <3>4, ChecksKeep
      <3> QED
        BY <2>1, <3>1, <3>2, <3>3, <3>4 DEF NextTables
    <2>2. CASE UNCHANGED tablesVars
      <3>1. UNCHANGED <<template, opened, pushed, asked, seen, checked, checks>>
        BY <2>2 DEF tablesVars
      <3> QED
        BY <3>1 DEF TablesInv, Opened, PushesKept, RowsFit, Asked, Held, AnswersStand, Answer,
                    PlainOf, LengthProblems
    <2> QED
      BY <2>1, <2>2
  <1> QED
    BY TablesInit, <1>1, StandsAsRequest, PTL DEF SpecTables

-----------------------------------------------------------------------------
(* The form's rows *)

\* What an editor may be.
What == Entered \cup FileChoices \cup OutputChoices \cup {NotGiven}
Editor == [way : RowWays \cup {NotGiven}, Given : What, File : What, Unlisted : What, Record : What]

FormTypes ==
    /\ ways \subseteq RowWays
    /\ listing \in Listed
    /\ rows \in Seq(Row) \cup {NotGiven}
    /\ selection \subseteq DOMAIN TheRows
    /\ editor \in Editor

\* What the editor held as it showed the selection, changed since or not, is the
\* one row selected, or nothing.
ShownIs(what, recs, picked) ==
    /\ Cardinality(picked) = 1 =>
          \A i \in picked :
              \/ what.value = recs[i]
              \/ recs[i].way = "From a record" /\ what.missing
    /\ Cardinality(picked) # 1 => what = Holds(ChoiceSet(NotGiven, listing))

FormInv == FormTypes /\ ShownIs(shown, TheRows, selection)

LEMMA NoneGiven ==
  /\ NotGiven \notin RowWays /\ NotGiven \notin Entered /\ NotGiven \notin FileChoices
  /\ NotGiven \notin OutputChoices /\ NotGiven \notin Row /\ NotGiven \notin Seq(Row)
  BY FormAssumption

\* A row shown in the editor is what the editor holds, but for an output that is
\* not listed.
LEMMA Shows ==
  ASSUME NEW known \in Listed, NEW r \in Row
  PROVE  /\ ChoiceSet(r, known) \in Editor
         /\ \/ Holds(ChoiceSet(r, known)).value = r /\ ~Holds(ChoiceSet(r, known)).missing
            \/ r.way = "From a record" /\ Holds(ChoiceSet(r, known)).missing
  <1>1. /\ r # NotGiven /\ r.way \in RowWays /\ r.what # NotGiven
        /\ r = [way |-> r.way, what |-> r.what]
        /\ r.what \in Entered \cup FileChoices \cup OutputChoices
    BY NoneGiven DEF Row
  <1>2. known.outputs \subseteq OutputChoices
    BY DEF Listed
  <1>3. r.way # NotGiven
    BY <1>1, NoneGiven
  <1>4. CASE r.way = "Given"
    <2>1. ChoiceSet(r, known) = [way |-> "Given", Given |-> r.what, File |-> NotGiven,
                                  Unlisted |-> NotGiven, Record |-> NotGiven]
      BY <1>1, <1>4 DEF ChoiceSet, Offered
    <2> DEFINE e == [way |-> "Given", Given |-> r.what, File |-> NotGiven, Unlisted |-> NotGiven,
                     Record |-> NotGiven]
    <2>2. e \in Editor
      <3>1. r.what \in What /\ NotGiven \in What /\ e.way \in RowWays
        BY <1>1 DEF What, RowWays
      <3> HIDE DEF What
      <3> QED
        BY <3>1 DEF Editor
    <2>3. e.way = r.way /\ e.way # NotGiven /\ e.Given = r.what /\ e.File = NotGiven /\ e.Record = NotGiven
      BY <1>3, <1>4
    <2> HIDE DEF e
    <2>4. Holds(e).value = r /\ ~Holds(e).missing
      BY <1>1, <1>4, <2>3 DEF Holds, RowOf
    <2>5. ChoiceSet(r, known) = e
      BY <2>1 DEF e
    <2> QED
      BY <1>4, <2>2, <2>4, <2>5
  <1>5. CASE r.way = "A file"
    <2> DEFINE u == Offered(r.what, known)
    <2>1. ChoiceSet(r, known) = [way |-> "A file", Given |-> NotGiven, File |-> r.what,
                                  Unlisted |-> u, Record |-> NotGiven]
      BY <1>1, <1>5 DEF ChoiceSet
    <2> DEFINE e == [way |-> "A file", Given |-> NotGiven, File |-> r.what, Unlisted |-> u,
                     Record |-> NotGiven]
    <2>2. e \in Editor
      <3>1. r.what \in What /\ NotGiven \in What /\ u \in What /\ e.way \in RowWays
        BY <1>1 DEF What, RowWays, Offered
      <3> HIDE DEF What
      <3> QED
        BY <3>1 DEF Editor
    <2>3. e.way = r.way /\ e.way # NotGiven /\ e.Given = NotGiven /\ e.File = r.what /\ e.Record = NotGiven
      BY <1>3, <1>5
    <2> HIDE DEF e
    <2>4. Holds(e).value = r /\ ~Holds(e).missing
      BY <1>1, <1>5, <2>3 DEF Holds, RowOf
    <2>5. ChoiceSet(r, known) = e
      BY <2>1 DEF e
    <2> QED
      BY <1>5, <2>2, <2>4, <2>5
  <1>6. CASE r.way = "From a record"
    <2> DEFINE o == IF r.what \in known.outputs THEN r.what ELSE NotGiven
    <2>1. ChoiceSet(r, known) = [way |-> "From a record", Given |-> NotGiven,
                                  File |-> NotGiven, Unlisted |-> NotGiven, Record |-> o]
      BY <1>1, <1>6 DEF ChoiceSet, Offered
    <2> DEFINE e == [way |-> "From a record", Given |-> NotGiven, File |-> NotGiven,
                     Unlisted |-> NotGiven, Record |-> o]
    <2>2. e \in Editor
      <3>1. r.what \in What /\ NotGiven \in What /\ e.way \in RowWays
        BY <1>1 DEF What, RowWays
      <3> HIDE DEF What
      <3> QED
        BY <3>1 DEF Editor
    <2>3. e.way = r.way /\ e.way # NotGiven /\ e.Given = NotGiven /\ e.File = NotGiven /\ e.Record = o
      BY <1>3, <1>6
    <2> HIDE DEF e
    <2>4. /\ Holds(e).missing <=> o = NotGiven
          /\ o # NotGiven => Holds(e).value = r
      BY <1>1, <1>6, <2>3 DEF Holds, RowOf
    <2>5. ChoiceSet(r, known) = e
      BY <2>1 DEF e
    <2> QED
      BY <1>6, <2>2, <2>4, <2>5
  <1> QED
    BY <1>1, <1>4, <1>5, <1>6 DEF RowWays

\* Nothing shown is an editor with nothing, whatever is listed.
LEMMA ShowsNothing ==
  ASSUME NEW known \in Listed, ways \subseteq RowWays
  PROVE  /\ ChoiceSet(NotGiven, known) \in Editor
         /\ \A other : ChoiceSet(NotGiven, other) = ChoiceSet(NotGiven, known)
         /\ Holds(ChoiceSet(NotGiven, known)).missing
              <=> ChoiceSet(NotGiven, known).way # NotGiven
  <1> DEFINE w == IF Cardinality(ways) = 1 THEN CHOOSE x \in ways : TRUE ELSE NotGiven
             e == [way |-> w, Given |-> NotGiven, File |-> NotGiven, Unlisted |-> NotGiven,
                   Record |-> NotGiven]
  <1>1. \A other : ChoiceSet(NotGiven, other) = e
    BY DEF ChoiceSet, Offered
  <1>2. w \in RowWays \cup {NotGiven}
    <2>1. CASE Cardinality(ways) = 1
      <3>1. ways # {}
        BY <2>1, FS_EmptySet
      <3> QED
        BY <2>1, <3>1
    <2>2. CASE Cardinality(ways) # 1
      BY <2>2
    <2> QED
      BY <2>1, <2>2
  <1> HIDE DEF w
  <1>3. e \in Editor
    BY <1>2 DEF Editor, What
  <1>4. Holds(e).missing <=> w # NotGiven
    BY DEF Holds
  <1> QED
    BY <1>1, <1>3, <1>4

\* What an editor that misses nothing holds is a row.
LEMMA CompleteRow ==
  ASSUME FormTypes, Complete
  PROVE  Holds(editor).value \in Row
  <1>1. editor \in Editor /\ Holds(editor).value # NotGiven /\ ~Holds(editor).missing
    BY DEF FormTypes, Complete
  <1>2. editor.way \in RowWays
    BY <1>1 DEF Editor, Holds
  <1> DEFINE what == CASE editor.way = "Given" -> editor.Given
                       [] editor.way = "A file" -> editor.File
                       [] editor.way = "From a record" -> editor.Record
                       [] OTHER -> NotGiven
  <1>3. what \in What
    BY <1>1 DEF Editor, What
  <1>4. what # NotGiven /\ Holds(editor).value = RowOf(editor.way, what)
    <2>1. editor.way # NotGiven
      BY <1>2, NoneGiven
    <2>2. Holds(editor).missing = (editor.way # NotGiven /\ what = NotGiven)
      BY DEF Holds
    <2>3. Holds(editor).value = IF editor.way = NotGiven \/ (editor.way # "Given" /\ what = NotGiven)
                                THEN NotGiven ELSE RowOf(editor.way, what)
      BY DEF Holds
    <2> QED
      BY <1>1, <2>1, <2>2, <2>3
  <1> HIDE DEF what
  <1>5. what \in Entered \cup FileChoices \cup OutputChoices
    BY <1>3, <1>4 DEF What
  <1> QED
    BY <1>2, <1>4, <1>5 DEF RowOf, Row

\* The rows, and what is selected of them.
LEMMA TableIs ==
  ASSUME FormTypes
  PROVE  /\ TheRows \in Seq(Row) /\ Len(TheRows) \in Nat /\ DOMAIN TheRows = 1..Len(TheRows)
         /\ \A i \in DOMAIN TheRows : TheRows[i] \in Row
         /\ IsFiniteSet(selection) /\ Cardinality(selection) \in Nat
  <1>1. TheRows \in Seq(Row)
    BY EmptySeq DEF FormTypes, TheRows
  <1>2. /\ Len(TheRows) \in Nat /\ DOMAIN TheRows = 1..Len(TheRows)
        /\ \A i \in DOMAIN TheRows : TheRows[i] \in Row
    BY <1>1, LenProperties
  <1>3. IsFiniteSet(selection) /\ Cardinality(selection) \in Nat
    BY <1>2, FiniteUpTo DEF FormTypes
  <1> QED
    BY <1>1, <1>2, <1>3

\* The editor loaded shows the rows selected.
LEMMA LoadShows ==
  ASSUME FormTypes, NEW recs \in Seq(Row), NEW picked \in SUBSET DOMAIN recs,
         Load(recs, picked)
  PROVE  editor' \in Editor /\ ShownIs(shown', recs, picked)
  <1>0. DOMAIN recs = 1..Len(recs) /\ Len(recs) \in Nat /\ \A i \in DOMAIN recs : recs[i] \in Row
    BY LenProperties
  <1>1. listing \in Listed /\ ways \subseteq RowWays
    BY DEF FormTypes
  <1>2. CASE Cardinality(picked) = 1
    <2>1. PICK i : picked = {i}
      <3>1. IsFiniteSet(picked)
        BY <1>0, FiniteUpTo
      <3> QED
        BY <1>2, <3>1, FS_Singleton
    <2>2. (CHOOSE j \in picked : TRUE) = i /\ recs[i] \in Row
      BY <1>0, <2>1
    <2>3. editor' = ChoiceSet(recs[i], listing) /\ shown' = Holds(editor')
      BY <1>2, <2>2 DEF Load, Loaded
    <2>4. /\ editor' \in Editor
          /\ shown'.value = recs[i] \/ (recs[i].way = "From a record" /\ shown'.missing)
      BY <1>1, <2>2, <2>3, Shows
    <2> QED
      BY <1>2, <2>1, <2>4 DEF ShownIs
  <1>3. CASE Cardinality(picked) # 1
    <2>1. editor' = ChoiceSet(NotGiven, listing) /\ shown' = Holds(editor')
      BY <1>3 DEF Load, Loaded
    <2> QED
      BY <1>1, <1>3, <2>1, ShowsNothing DEF ShownIs
  <1> QED
    BY <1>2, <1>3

\* The rows after a step, where they are given.
LEMMA TableAfter ==
  ASSUME NEW recs \in Seq(Row), rows' = recs
  PROVE  TheRows' = recs /\ rows' \in Seq(Row)
  BY NoneGiven DEF TheRows

-----------------------------------------------------------------------------
LEMMA FormInit == InitForm => FormInv
  <1> SUFFICES ASSUME InitForm PROVE FormInv
    OBVIOUS
  <1>1. ways \subseteq RowWays
    BY FormAssumption DEF InitForm
  <1>2. listing \in Listed
    BY DEF InitForm, Listed
  <1>3. TheRows = <<>> /\ selection = {} /\ Cardinality(selection) = 0
    BY FS_EmptySet DEF InitForm, TheRows
  <1>4. editor \in Editor
    BY <1>1, <1>2, ShowsNothing DEF InitForm
  <1> QED
    BY <1>1, <1>2, <1>3, <1>4 DEF FormInv, FormTypes, ShownIs, InitForm

\* The user changes the editor.
LEMMA FormEdits ==
  ASSUME FormInv, Edits
  PROVE  FormInv' /\ UNCHANGED <<ways, rows, selection, shown, listing>>
  <1>1. UNCHANGED <<ways, rows, selection, shown, listing>>
    BY DEF Edits, ChooseWay, Enter, PickFile, PickRecord
  <1>2. editor' \in Editor
    <2>1. editor \in Editor /\ ways \subseteq RowWays
      BY DEF FormInv, FormTypes
    <2>2. CASE \E w \in ways : ChooseWay(w)
      BY <2>1, <2>2 DEF ChooseWay, Editor
    <2>3. CASE \E what \in Entered \cup {NotGiven} : Enter(what)
      BY <2>1, <2>3 DEF Enter, Editor, What
    <2>4. CASE \E f \in FileChoices \cup {NotGiven} : PickFile(f)
      BY <2>1, <2>4 DEF PickFile, Editor, What
    <2>5. CASE \E o \in OutputChoices \cup {NotGiven} : PickRecord(o)
      BY <2>1, <2>5 DEF PickRecord, Editor, What
    <2> QED
      BY <2>2, <2>3, <2>4, <2>5 DEF Edits
  <1>3. FormTypes'
    BY <1>1, <1>2 DEF FormInv, FormTypes, TheRows
  <1>4. ShownIs(shown, TheRows, selection)'
    BY <1>1 DEF FormInv, ShownIs, TheRows, ChoiceSet
  <1> QED
    BY <1>1, <1>3, <1>4 DEF FormInv

LEMMA FormSelect ==
  ASSUME FormInv, NEW picked \in SUBSET (1..MaxTableRows), Select(picked)
  PROVE  FormInv'
  <1>1. /\ TheRows \in Seq(Row) /\ picked \in SUBSET DOMAIN TheRows
        /\ Load(TheRows, picked) /\ UNCHANGED <<ways, listing, rows>> /\ selection' = picked
    BY TableIs DEF FormInv, Select
  <1>2. editor' \in Editor /\ ShownIs(shown', TheRows, picked)
    BY <1>1, LoadShows DEF FormInv
  <1>3. TheRows' = TheRows
    BY <1>1 DEF TheRows
  <1>4. FormTypes'
    BY <1>1, <1>2, <1>3 DEF FormInv, FormTypes
  <1>5. ShownIs(shown, TheRows, selection)'
    BY <1>1, <1>2, <1>3 DEF ShownIs, ChoiceSet
  <1> QED
    BY <1>4, <1>5 DEF FormInv

LEMMA FormAddRow ==
  ASSUME FormInv, AddRow
  PROVE  FormInv' /\ rows' # rows /\ Holds(editor).value \in ToSet(TheRows')
  <1> DEFINE r == Holds(editor).value
             recs == Append(TheRows, r)
  <1>1. r \in Row /\ TheRows \in Seq(Row) /\ Len(TheRows) \in Nat
    BY CompleteRow, TableIs DEF FormInv, AddRow
  <1>2. /\ recs \in Seq(Row) /\ Len(recs) = Len(TheRows) + 1
        /\ recs[Len(TheRows) + 1] = r /\ DOMAIN recs = 1..Len(TheRows) + 1
    <2> HIDE DEF r
    <2>1. /\ recs \in Seq(Row) /\ Len(recs) = Len(TheRows) + 1
          /\ recs[Len(TheRows) + 1] = r
      BY <1>1, AppendProperties
    <2> QED
      BY <2>1, LenProperties
  <1>3. /\ rows' = recs /\ selection' = {Len(recs)} /\ Load(recs, selection')
        /\ UNCHANGED <<ways, listing>>
    BY DEF AddRow
  <1> HIDE DEF r, recs
  <1>4. TheRows' = recs /\ rows' \in Seq(Row)
    BY <1>2, <1>3, TableAfter
  <1>5. selection' \in SUBSET DOMAIN recs
    BY <1>1, <1>2, <1>3
  <1>6. editor' \in Editor /\ ShownIs(shown', recs, selection')
    BY <1>2, <1>3, <1>5, LoadShows DEF FormInv
  <1>7. FormTypes'
    BY <1>3, <1>4, <1>5, <1>6 DEF FormInv, FormTypes
  <1>8. ShownIs(shown, TheRows, selection)'
    BY <1>3, <1>4, <1>6 DEF ShownIs, ChoiceSet
  <1>9. rows' # rows
    <2>1. CASE rows = NotGiven
      BY <1>4, <2>1, NoneGiven
    <2>2. CASE rows # NotGiven
      BY <1>1, <1>2, <1>3, <2>2 DEF TheRows
    <2> QED
      BY <2>1, <2>2
  <1>10. r \in ToSet(TheRows')
    BY <1>1, <1>2, <1>4 DEF ToSet
  <1> QED
    BY <1>7, <1>8, <1>9, <1>10 DEF FormInv, r

LEMMA FormUpdateRow ==
  ASSUME FormInv, UpdateRow
  PROVE  FormInv' /\ Holds(editor).value \in ToSet(TheRows')
  <1>1. /\ TheRows \in Seq(Row) /\ Len(TheRows) \in Nat /\ DOMAIN TheRows = 1..Len(TheRows)
        /\ IsFiniteSet(selection) /\ selection \subseteq DOMAIN TheRows
        /\ \A i \in DOMAIN TheRows : TheRows[i] \in Row
    BY TableIs DEF FormInv, FormTypes
  <1>2. Cardinality(selection) = 1 /\ Holds(editor).value \in Row
    BY CompleteRow DEF FormInv, UpdateRow
  <1>3. rows # NotGiven /\ TheRows = rows
    <2>1. selection # {}
      BY <1>2, FS_EmptySet
    <2> QED
      BY <1>1, <2>1 DEF TheRows
  <1> DEFINE recs == [i \in DOMAIN rows |-> IF i \in selection THEN Holds(editor).value ELSE rows[i]]
  <1>4. recs \in Seq(Row) /\ DOMAIN recs = DOMAIN TheRows
    <2>1. \A i \in 1..Len(rows) : recs[i] \in Row
      BY <1>1, <1>2, <1>3
    <2> QED
      BY <1>1, <1>3, <2>1
  <1>5. \A i \in selection : recs[i] = Holds(editor).value
    BY <1>1, <1>3
  <1>6. rows' = recs /\ shown' = Holds(editor) /\ UNCHANGED <<ways, listing, selection, editor>>
    BY DEF UpdateRow
  <1> HIDE DEF recs
  <1>7. TheRows' = recs /\ rows' \in Seq(Row)
    BY <1>4, <1>6, TableAfter
  <1>8. FormTypes'
    BY <1>1, <1>4, <1>6, <1>7 DEF FormInv, FormTypes
  <1>9. ShownIs(shown, TheRows, selection)'
    BY <1>2, <1>5, <1>6, <1>7 DEF ShownIs
  <1>10. Holds(editor).value \in ToSet(TheRows')
    <2>1. PICK i : i \in selection
      BY <1>2, FS_EmptySet
    <2> QED
      BY <1>1, <1>4, <1>5, <1>7, <2>1 DEF ToSet
  <1> QED
    BY <1>8, <1>9, <1>10 DEF FormInv

\* The rows that are left are rows.
LEMMA RowsLeft == ASSUME FormTypes PROVE Remaining \in Seq(Row)
  <1> DEFINE n == Len(TheRows)
             E == DOMAIN TheRows \ selection
             k == n - Cardinality(selection)
  <1>1. /\ n \in Nat /\ DOMAIN TheRows = 1..n
        /\ \A i \in DOMAIN TheRows : TheRows[i] \in Row
        /\ IsFiniteSet(selection) /\ Cardinality(selection) \in Nat /\ selection \subseteq 1..n
    BY TableIs DEF FormTypes
  <1>2. Cardinality(E) = k /\ k \in Nat
    <2>1. IsFiniteSet(1..n) /\ Cardinality(1..n) = n
      <3> HIDE DEF n
      <3>1. Cardinality(1..n) = IF 1 > n THEN 0 ELSE n - 1 + 1
        BY <1>1, FS_Interval
      <3> QED
        BY <1>1, <3>1, FS_Interval
    <2>2. selection \cap (1..n) = selection
      BY <1>1
    <2>3. Cardinality(E) = n - Cardinality((1..n) \cap selection) /\ IsFiniteSet(E)
      BY <1>1, <2>1, FS_Difference
    <2>4. Cardinality(E) \in Nat
      BY <2>3, FS_CardinalityType
    <2> QED
      BY <2>2, <2>3, <2>4
  <1>3. ASSUME NEW i \in 1..k
        PROVE  TheRows[CHOOSE j \in E : Cardinality({l \in E : l <= j}) = i] \in Row
    <2>1. E \in SUBSET (1..n) /\ i \in 1..Cardinality(E)
      BY <1>1, <1>2
    <2> HIDE DEF E, k, n
    <2>2. \E j \in E : Cardinality({l \in E : l <= j}) = i
      BY <1>1, <2>1, Ranked
    <2>3. (CHOOSE j \in E : Cardinality({l \in E : l <= j}) = i) \in E
      BY <2>2
    <2> QED
      BY <1>1, <2>1, <2>3
  <1>4. Remaining = [i \in 1..k |-> TheRows[CHOOSE j \in E : Cardinality({l \in E : l <= j}) = i]]
    BY DEF Remaining
  <1> DEFINE row(i) == TheRows[CHOOSE j \in E : Cardinality({l \in E : l <= j}) = i]
  <1>5. Remaining = [i \in 1..k |-> row(i)] /\ \A i \in 1..k : row(i) \in Row
    BY <1>3, <1>4
  <1> HIDE DEF row, E, k, n
  <1> QED
    BY <1>2, <1>5

LEMMA FormRemoveRows ==
  ASSUME FormInv, RemoveRows
  PROVE  FormInv' /\ (selection = {} => UNCHANGED <<editor, shown>>)
  <1>1. /\ Remaining \in Seq(Row) /\ rows' = Remaining /\ UNCHANGED <<ways, listing>>
    BY RowsLeft DEF FormInv, RemoveRows
  <1>2. TheRows' = Remaining /\ rows' \in Seq(Row)
    BY <1>1, TableAfter
  <1>3. CASE selection = {}
    <2>1. UNCHANGED <<selection, editor, shown>>
      BY <1>3 DEF RemoveRows
    <2>2. FormTypes'
      BY <1>1, <1>2, <1>3, <2>1 DEF FormInv, FormTypes
    <2>3. Cardinality(selection) = 0
      BY <1>3, FS_EmptySet
    <2>4. ShownIs(shown, TheRows, selection)'
      BY <1>1, <1>2, <1>3, <2>1, <2>3 DEF FormInv, ShownIs, ChoiceSet
    <2> QED
      BY <2>1, <2>2, <2>4 DEF FormInv
  <1>4. CASE selection # {}
    <2>1. selection' = {} /\ Load(Remaining, {})
      BY <1>4 DEF RemoveRows
    <2>2. {} \in SUBSET DOMAIN Remaining
      OBVIOUS
    <2>3. editor' \in Editor /\ ShownIs(shown', Remaining, {})
      BY <1>1, <2>1, <2>2, LoadShows DEF FormInv
    <2>4. FormTypes'
      BY <1>1, <1>2, <2>1, <2>3 DEF FormInv, FormTypes
    <2>5. ShownIs(shown, TheRows, selection)'
      BY <1>1, <1>2, <2>1, <2>3 DEF ShownIs, ChoiceSet
    <2> QED
      BY <1>4, <2>4, <2>5 DEF FormInv
  <1> QED
    BY <1>3, <1>4

LEMMA FormDiscard ==
  ASSUME FormInv, Discard
  PROVE  FormInv'
  <1>1. TheRows \in Seq(Row) /\ selection \in SUBSET DOMAIN TheRows
    BY TableIs DEF FormInv, FormTypes
  <1>2. Load(TheRows, selection) /\ UNCHANGED <<ways, listing, rows, selection>>
    BY DEF Discard
  <1>3. editor' \in Editor /\ ShownIs(shown', TheRows, selection)
    BY <1>1, <1>2, LoadShows DEF FormInv
  <1>4. TheRows' = TheRows
    BY <1>2 DEF TheRows
  <1>5. FormTypes'
    BY <1>2, <1>3, <1>4 DEF FormInv, FormTypes
  <1>6. ShownIs(shown, TheRows, selection)'
    BY <1>2, <1>3, <1>4 DEF ShownIs, ChoiceSet
  <1> QED
    BY <1>5, <1>6 DEF FormInv

LEMMA GivenIsRow == ASSUME ways \subseteq RowWays, NEW a \in GivenRows PROVE a \in Row
  <1>1. ASSUME NEW by, NEW from \in SUBSET (Entered \cup FileChoices \cup OutputChoices)
        PROVE  \A r \in RowsBy(by, from) : r \in Row
    <2> SUFFICES ASSUME NEW w \in ways, NEW x \in from PROVE RowOf(w, x) \in Row
      BY DEF RowsBy
    <2> QED
      BY DEF RowOf, Row
  <1> QED
    BY <1>1 DEF GivenRows

LEMMA FormSet ==
  ASSUME FormInv, NEW known \in Listed, NEW preset \in {NotGiven} \cup {<<a>> : a \in GivenRows},
         SetForm(preset, known)
  PROVE  FormInv'
  <1>1. /\ listing' = known /\ selection' = {} /\ editor' = ChoiceSet(NotGiven, known)
        /\ shown' = Holds(editor') /\ ways' = ways /\ ways \subseteq RowWays
    BY DEF SetForm, FormInv, FormTypes
  <1>2. rows' \in Seq(Row) \cup {NotGiven}
    <2>1. CASE preset = NotGiven
      BY <2>1 DEF SetForm
    <2>2. CASE preset # NotGiven
      <3>1. PICK a \in GivenRows : preset = <<a>>
        BY <2>2
      <3>2. a \in Row
        BY <1>1, GivenIsRow
      <3> DEFINE made == Holds(ChoiceSet(a, known))
                 row == IF made.missing THEN a ELSE made.value
      <3>3. row = a
        BY <3>2, Shows
      <3>4. rows' = [i \in DOMAIN preset |->
                        LET m == Holds(ChoiceSet(preset[i], known))
                        IN IF m.missing THEN preset[i] ELSE m.value]
        BY <2>2 DEF SetForm
      <3>5. DOMAIN preset = 1..1 /\ preset[1] = a
        BY <3>1
      <3>6. rows' = [i \in 1..1 |-> row]
        BY <3>4, <3>5
      <3> HIDE DEF row
      <3> QED
        BY <3>2, <3>3, <3>6
    <2> QED
      BY <2>1, <2>2
  <1>3. editor' \in Editor
    BY <1>1, ShowsNothing
  <1>4. FormTypes'
    BY <1>1, <1>2, <1>3 DEF FormTypes
  <1>5. Cardinality({}) = 0
    BY FS_EmptySet
  <1>6. ShownIs(shown, TheRows, selection)'
    BY <1>1, <1>5 DEF ShownIs, ChoiceSet
  <1> QED
    BY <1>4, <1>6 DEF FormInv

\* A refresh is no change of the editor, but for an output picked and gone.
LEMMA FormRefresh ==
  ASSUME FormInv, NEW known \in Listed, Refresh(known)
  PROVE  /\ FormInv'
         /\ ~Changed => ~Changed'
         /\ Changed /\ ~Changed' => PickedIsGone(known)
  <1>1. /\ listing' = known /\ editor' = ChoiceRefreshed(editor, known)
        /\ shown' = ShownAfter(editor') /\ UNCHANGED <<ways, rows, selection>>
        /\ editor \in Editor /\ ways \subseteq RowWays /\ TheRows' = TheRows
    BY DEF Refresh, FormInv, FormTypes, TheRows
  <1> DEFINE e == ChoiceRefreshed(editor, known)
             o == IF editor.Record \in known.outputs THEN editor.Record ELSE NotGiven
             u == Offered(editor.File, known)
  <1>2. /\ e \in Editor /\ e.way = editor.way /\ e.Given = editor.Given /\ e.File = editor.File
        /\ e.Record = o
    <2>1. editor.File \in What /\ u \in What /\ o \in What
      BY <1>1 DEF Editor, What, Offered
    <2>2. e = [editor EXCEPT !.Record = o, !.Unlisted = u]
      BY DEF ChoiceRefreshed
    <2> HIDE DEF e, o, u, What
    <2> QED
      BY <1>1, <2>1, <2>2 DEF Editor
  <1>3. e.Record = editor.Record => Holds(e) = Holds(editor)
    BY <1>2 DEF Holds
  <1>4. FormTypes'
    BY <1>1, <1>2 DEF FormInv, FormTypes
  <1>5. ~Changed => ~Changed'
    BY <1>1 DEF Changed, ShownAfter
  <1>6. Holds(e) = Holds(editor) \/ (PickedIsGone(known) /\ Holds(e).missing)
    <2>1. CASE editor.way = "From a record"
      <3>1. CASE editor.Record \in known.outputs \cup {NotGiven}
        BY <1>2, <1>3, <3>1
      <3>2. CASE editor.Record \notin known.outputs \cup {NotGiven}
        BY <1>2, <2>1, <3>2, NoneGiven DEF Holds, RowWays, PickedIsGone
      <3> QED
        BY <3>1, <3>2
    <2>2. CASE editor.way # "From a record"
      BY <1>2, <2>2 DEF Holds
    <2> QED
      BY <2>1, <2>2
  <1>7. ShownIs(shown, TheRows, selection)'
    <2>1. ChoiceSet(NotGiven, listing)' = ChoiceSet(NotGiven, listing)
      BY <1>1 DEF ChoiceSet, Offered
    <2>2. CASE Changed
      BY <1>1, <2>1, <2>2 DEF FormInv, ShownIs, ShownAfter
    <2>3. CASE ~Changed
      <3>1. shown' = Holds(e) /\ shown = Holds(editor)
        BY <1>1, <2>3 DEF ShownAfter, Changed
      <3>2. CASE Holds(e) = Holds(editor)
        BY <1>1, <2>1, <3>1, <3>2 DEF FormInv, ShownIs
      <3>3. CASE PickedIsGone(known) /\ Holds(e).missing
        <4>1. Holds(editor).value = IF editor.Record = NotGiven THEN NotGiven
                                    ELSE RowOf("From a record", editor.Record)
          BY <3>3, NoneGiven DEF Holds, RowWays, PickedIsGone
        <4>2. editor.Record # NotGiven => Holds(editor).value \in Row
                                          /\ Holds(editor).value.way = "From a record"
          <5> SUFFICES ASSUME editor.Record # NotGiven
                       PROVE  LET row == RowOf("From a record", editor.Record)
                              IN  row \in Row /\ row.way = "From a record"
            BY <4>1
          <5>1. editor.Record \in Entered \cup FileChoices \cup OutputChoices
            BY <1>1 DEF Editor, What
          <5> QED
            BY <5>1 DEF Row, RowOf, RowWays
        <4>3. ASSUME Cardinality(selection) = 1, NEW i \in selection
              PROVE  TheRows[i].way = "From a record"
          <5>1. TheRows[i] \in Row
            BY TableIs DEF FormInv, FormTypes
          <5>2. Holds(editor).value = TheRows[i] \/ TheRows[i].way = "From a record"
            BY <3>1, <4>3 DEF FormInv, ShownIs
          <5> QED
            BY <4>1, <4>2, <5>1, <5>2, NoneGiven
        <4>4. ASSUME Cardinality(selection) # 1
              PROVE  Holds(e) = Holds(ChoiceSet(NotGiven, listing))
          <5> DEFINE nothing == ChoiceSet(NotGiven, listing)
          <5>1. Holds(editor) = Holds(nothing)
            BY <3>1, <4>4 DEF FormInv, ShownIs
          <5>2. Holds(nothing).missing <=> nothing.way # NotGiven
            BY <1>1, ShowsNothing DEF FormInv, FormTypes
          <5>3. nothing.way = NotGiven => Holds(nothing).value = NotGiven
            BY DEF Holds
          <5>4. Holds(editor).missing <=> editor.Record = NotGiven
            BY <3>3, NoneGiven DEF Holds, RowWays, PickedIsGone
          <5>5. editor.Record = NotGiven
            BY <4>2, <5>1, <5>2, <5>3, <5>4, NoneGiven
          <5> QED
            BY <3>3, <5>5 DEF PickedIsGone
        <4> QED
          BY <1>1, <2>1, <3>1, <3>3, <4>3, <4>4 DEF ShownIs
      <3> QED
        BY <1>6, <3>2, <3>3
    <2> QED
      BY <2>2, <2>3
  <1>8. Changed /\ ~Changed' => PickedIsGone(known)
    BY <1>1, <1>6 DEF Changed, ShownAfter
  <1> QED
    BY <1>4, <1>5, <1>7, <1>8 DEF FormInv

\* One step, by the operations of the page's server.
LEMMA FormStep ==
  ASSUME FormInv, NextForm
  PROVE  \/ Edits
         \/ \E picked \in SUBSET (1..MaxTableRows) : Select(picked)
         \/ AddRow
         \/ UpdateRow
         \/ RemoveRows
         \/ Discard
         \/ \E preset \in {NotGiven} \cup {<<a>> : a \in GivenRows}, known \in Listed :
                SetForm(preset, known)
         \/ \E known \in Listed : Refresh(known)
  BY DEF NextForm

LEMMA FormNext == ASSUME FormInv, [NextForm]_formVars PROVE FormInv'
  <1>1. CASE UNCHANGED formVars
    BY <1>1 DEF formVars, FormInv, FormTypes, ShownIs, TheRows, ChoiceSet
  <1>2. CASE NextForm
    BY <1>2, FormStep, FormEdits, FormSelect, FormAddRow, FormUpdateRow, FormRemoveRows,
       FormDiscard, FormSet, FormRefresh
  <1> QED
    BY <1>1, <1>2

LEMMA FormInvariant == SpecForm => []FormInv
  BY FormInit, FormNext, PTL DEF SpecForm

\* What a user sees in the editor as they submit is in the request, whatever rows
\* they added, changed and removed, and whatever files and records came and went:
\* an editor without changes shows the one row selected, or nothing.
THEOREM EditorShows == SpecForm => []EditorShowsRow
  <1>1. FormInv => EditorShowsRow
    <2> SUFFICES ASSUME FormInv, ListGiven # NotGiven PROVE EditorShowsRow
      BY DEF EditorShowsRow
    <2>1. rows # NotGiven /\ TheRows = rows /\ Holds(editor) = shown
      BY DEF ListGiven, TheRows, Changed
    <2> QED
      BY <2>1 DEF FormInv, FormTypes, ShownIs, EditorShowsRow
  <1> QED
    BY <1>1, FormInvariant, PTL

\* A step that leaves no change in the editor.
LEMMA KeptOnChange ==
  ASSUME FormInv, [NextForm]_formVars, Changed, ~Changed'
  PROVE  \/ Edits
         \/ (AddRow \/ UpdateRow) /\ Holds(editor).value \in ToSet(TheRows')
         \/ Discard
         \/ selection # {} /\ RemoveRows
         \/ \E preset \in {NotGiven} \cup {<<a>> : a \in GivenRows} : SetForm(preset, listing')
         \/ \E known \in Listed : Refresh(known) /\ PickedIsGone(known)
  <1>1. CASE UNCHANGED formVars
    BY <1>1 DEF formVars, Changed
  <1>2. CASE NextForm
    <2>1. CASE Edits
      BY <2>1
    <2>2. CASE \E picked \in SUBSET (1..MaxTableRows) : Select(picked)
      BY <2>2 DEF Select, MaySelect
    <2>3. CASE AddRow \/ UpdateRow
      BY <2>3, FormAddRow, FormUpdateRow
    <2>4. CASE RemoveRows
      <3>1. selection = {} => (Changed' <=> Changed)
        BY <2>4, FormRemoveRows DEF Changed
      <3> QED
        BY <2>4, <3>1
    <2>5. CASE \E preset \in {NotGiven} \cup {<<a>> : a \in GivenRows}, known \in Listed :
                  SetForm(preset, known)
      BY <2>5 DEF SetForm
    <2>6. ASSUME NEW known \in Listed, Refresh(known) PROVE PickedIsGone(known)
      BY <2>6, FormRefresh
    <2> QED
      BY <1>2, <2>1, <2>2, <2>3, <2>4, <2>5, <2>6, FormStep
  <1> QED
    BY <1>1, <1>2

\* A change in the editor ends as the user has it end, or as the output picked is
\* gone, and a refresh makes none: of any rows, whatever came and went.
THEOREM FormChangesKept == SpecForm => ChangesKept
  <1>1. ASSUME FormInv, [NextForm]_formVars PROVE KeepsChange
    BY <1>1, KeptOnChange, FormRefresh DEF KeepsChange
  <1>2. FormInv /\ [NextForm]_formVars => [KeepsChange]_formVars
    BY <1>1
  <1>3. SpecForm => [][KeepsChange]_formVars
    BY <1>2, FormInvariant, PTL DEF SpecForm
  <1> QED
    BY <1>3, PTL DEF ChangesKept

-----------------------------------------------------------------------------
(* A field's input *)

\* A scalar as a request holds it, or nothing.
Scalars(kind) == ScalarsOf(kind) \cup {UNSET}

\* The time that an input keeps beside what it shows.
TimeKept(kind, value) == IF IsTime(kind) THEN value ELSE UNSET

FieldsInv ==
    /\ param \in Field
    /\ inputs \in Seq(InputOf(param.kind)) \cup {UNSET}
    /\ ~param.list => inputs # UNSET
    /\ given \in Seq(Scalars(param.kind) \cup {NoValue})
    /\ Len(given) = Len(Elements)
    /\ \A i \in DOMAIN given :
          given[i] \notin {UNSET, NoValue} => Elements[i].time = TimeKept(param.kind, given[i])
    /\ ~touched => way = WayOf(param, UNSET) /\ inputs = InputsOf(param, UNSET)

LEMMA FieldIs ==
  ASSUME NEW f \in Field
  PROVE  /\ f.kind \in Kinds /\ (f.list => ~f.optional)
         /\ f.default = UNSET \/ f.default \in ParamsOf(f)
  BY FieldsAssumption

LEMMA ScalarsAre ==
  ASSUME NEW kind \in Kinds, NEW v \in ScalarsOf(kind)
  PROVE  /\ IsTime(kind) => v \in Times
         /\ kind = "text" => v \in Texts
         /\ kind = "number" => v \in Numbers
  BY DEF ScalarsOf, Kinds, IsTime

LEMMA InputMade ==
  ASSUME NEW kind, NEW h \in HeldBy(kind), NEW z \in Zones \cup {"UTC", "no time zone"},
         NEW t \in Times \cup {UNSET}
  PROVE  [holds |-> h, zone |-> z, time |-> t] \in InputOf(kind)
  BY DEF InputOf

\* An input set to a value is one, and keeps its time.
LEMMA SetIs ==
  ASSUME NEW kind \in Kinds, NEW default \in Scalars(kind), NEW value \in Scalars(kind)
  PROVE  /\ ScalarSet(kind, default, value) \in InputOf(kind)
         /\ value # UNSET => ScalarSet(kind, default, value).time = TimeKept(kind, value)
  <1> DEFINE v == IF value = UNSET THEN default ELSE value
  <1>1. v = UNSET \/ v \in ScalarsOf(kind)
    BY DEF Scalars
  <1>2. CASE IsTime(kind) /\ v # UNSET
    <2>1. v \in Times /\ kind # "text"
      BY <1>1, <1>2, ScalarsAre DEF IsTime
    <2>2. ScalarSet(kind, default, value) = [holds |-> v.second, zone |-> v.zone, time |-> v]
      BY <1>2 DEF ScalarSet
    <2>3. v.second \in HeldBy(kind) /\ v.zone \in Zones \cup {"UTC", "no time zone"}
      BY <1>2, <2>1 DEF Times, HeldBy
    <2>4. value # UNSET => v = value
      OBVIOUS
    <2>5. v \in Times \cup {UNSET}
      BY <2>1
    <2> HIDE DEF v
    <2>6. ScalarSet(kind, default, value) \in InputOf(kind)
      BY <2>2, <2>3, <2>5, InputMade
    <2> QED
      BY <1>2, <2>2, <2>4, <2>6 DEF TimeKept
  <1>3. CASE ~(IsTime(kind) /\ v # UNSET)
    <2> DEFINE h == IF v = UNSET /\ kind = "text" THEN "" ELSE v
               z == IF kind = "aware time" THEN "UTC" ELSE "no time zone"
    <2>1. ScalarSet(kind, default, value) = [holds |-> h, zone |-> z, time |-> UNSET]
      BY <1>3 DEF ScalarSet
    <2>2. h \in HeldBy(kind)
      <3>1. CASE v = UNSET
        BY <3>1, FieldsAssumption DEF HeldBy
      <3>2. CASE v # UNSET
        <4>1. ~IsTime(kind)
          BY <1>3, <3>2
        <4>2. kind \in {"text", "number"}
          BY <4>1 DEF IsTime, Kinds
        <4>3. v \in HeldBy(kind)
          BY <1>1, <3>2, <4>1, <4>2, ScalarsAre DEF HeldBy
        <4> QED
          BY <3>2, <4>3
      <3> QED
        BY <3>1, <3>2
    <2>3. z \in Zones \cup {"UTC", "no time zone"} /\ UNSET \in Times \cup {UNSET}
      OBVIOUS
    <2>4. value # UNSET => v = value
      OBVIOUS
    <2> HIDE DEF v, h, z
    <2>5. ScalarSet(kind, default, value) \in InputOf(kind)
      BY <2>1, <2>2, <2>3, InputMade
    <2> QED
      BY <1>3, <2>1, <2>4, <2>5 DEF TimeKept
  <1> QED
    BY <1>2, <1>3

LEMMA Truncated ==
  ASSUME NEW v \in Times
  PROVE  [v EXCEPT !.fraction = 0] = [second |-> v.second, fraction |-> 0, zone |-> v.zone]
  BY DEF Times

\* An input that shows what it was set to, and keeps its time, gives it.
ScalarGivesBack(kind, default, v, input) ==
    /\ v \notin {UNSET, NoValue}
    /\ input.holds = ScalarSet(kind, default, v).holds
    /\ input.zone = ScalarSet(kind, default, v).zone
    /\ input.time = TimeKept(kind, v)
    /\ kind = "text" => default # UNSET \/ v # ""
    => ~Missing(kind, default, input) /\ ScalarValue(kind, input) = v

LEMMA GivesWhatWasSet ==
  ASSUME NEW kind \in Kinds, NEW default, NEW v \in Scalars(kind) \cup {NoValue}, NEW input
  PROVE  ScalarGivesBack(kind, default, v, input)
  <1> SUFFICES ASSUME v \notin {UNSET, NoValue},
                      input.holds = ScalarSet(kind, default, v).holds,
                      input.zone = ScalarSet(kind, default, v).zone,
                      input.time = TimeKept(kind, v),
                      kind = "text" => default # UNSET \/ v # ""
               PROVE  ~Missing(kind, default, input) /\ ScalarValue(kind, input) = v
    BY DEF ScalarGivesBack
  <1>1. CASE IsTime(kind)
    <2>1. v \in Times /\ kind # "text"
      BY <1>1, ScalarsAre DEF Scalars, IsTime
    <2>2. input.holds = v.second /\ input.zone = v.zone /\ input.time = v
      BY <1>1 DEF ScalarSet, TimeKept
    <2>3. v.second # UNSET
      BY <2>1, FieldsAssumption DEF Times
    <2>4. [v EXCEPT !.fraction = 0] = [second |-> v.second, fraction |-> 0, zone |-> v.zone]
      BY <2>1, Truncated
    <2>5. ScalarValue(kind, input) = v
      BY <1>1, <2>2, <2>4 DEF ScalarValue
    <2> QED
      BY <2>1, <2>2, <2>3, <2>5 DEF Missing
  <1>2. CASE ~IsTime(kind)
    <2>1. input.holds = v
      BY <1>2 DEF ScalarSet
    <2> QED
      BY <1>2, <2>1 DEF Missing, ScalarValue
  <1> QED
    BY <1>1, <1>2

\* The default of an input may be given.
LEMMA DefaultIs ==
  ASSUME NEW f \in Field
  PROVE  DefaultOf(f) \in Scalars(f.kind)
  <1>1. f.kind = "text" => "" \in ScalarsOf(f.kind)
    BY FieldsAssumption DEF ScalarsOf
  <1>2. ~f.list /\ ~f.optional => f.default \in Scalars(f.kind)
    BY FieldIs DEF ParamsOf, Scalars
  <1> QED
    BY <1>1, <1>2 DEF DefaultOf, Scalars

\* A field as it is set: its inputs, and what they were given.
GivenOf(f, value) ==
    LET v == IF value = UNSET THEN f.default ELSE value
    IN IF f.list THEN IF v = UNSET THEN <<>> ELSE v ELSE <<v>>

LEMMA InputsSet ==
  ASSUME NEW f \in Field, NEW value \in {UNSET} \cup ParamsOf(f)
  PROVE  LET is == InputsOf(f, value)
             gs == GivenOf(f, value)
             es == IF is = UNSET THEN <<>> ELSE is
         IN /\ is \in Seq(InputOf(f.kind)) \cup {UNSET}
            /\ ~f.list => is # UNSET
            /\ gs \in Seq(Scalars(f.kind) \cup {NoValue})
            /\ Len(gs) = Len(es)
            /\ \A i \in DOMAIN gs :
                  gs[i] \notin {UNSET, NoValue} => es[i].time = TimeKept(f.kind, gs[i])
  <1> DEFINE v == IF value = UNSET THEN f.default ELSE value
             d == DefaultOf(f)
             is == InputsOf(f, value)
             gs == GivenOf(f, value)
             es == IF is = UNSET THEN <<>> ELSE is
  <1>1. f.kind \in Kinds /\ (v = UNSET \/ v \in ParamsOf(f)) /\ d \in Scalars(f.kind)
        /\ UNSET \notin Seq(InputOf(f.kind))
    BY FieldIs, DefaultIs, FieldsAssumption
  <1>2. CASE f.list
    <2>1. CASE v = UNSET
      <3>1. is = UNSET /\ gs = <<>> /\ es = <<>>
        BY <1>2, <2>1 DEF InputsOf, GivenOf
      <3> QED
        BY <1>2, <3>1
    <2>2. CASE v # UNSET
      <3>1. PICK n \in 0..MaxElements : v \in [1..n -> ScalarsOf(f.kind)]
        BY <1>1, <1>2, <2>2 DEF ParamsOf
      <3>2. n \in Nat
        <4>1. MaxElements \in Nat
          BY FieldsAssumption
        <4> QED
          BY <4>1
      <3>3. gs = v /\ is = [i \in 1..n |-> ScalarSet(f.kind, d, v[i])]
        BY <1>2, <2>2, <3>1 DEF InputsOf, GivenOf
      <3> HIDE DEF v, d, is, gs
      <3>4. ASSUME NEW i \in 1..n
            PROVE  /\ v[i] \in Scalars(f.kind) /\ is[i] \in InputOf(f.kind)
                   /\ v[i] # UNSET => is[i].time = TimeKept(f.kind, v[i])
        <4>1. v[i] \in Scalars(f.kind)
          BY <3>1 DEF Scalars
        <4> QED
          BY <1>1, <3>3, <4>1, SetIs
      <3>5. is \in [1..n -> InputOf(f.kind)] /\ gs \in [1..n -> Scalars(f.kind) \cup {NoValue}]
        BY <3>1, <3>3, <3>4
      <3>6. /\ is \in Seq(InputOf(f.kind)) /\ Len(is) = n
            /\ gs \in Seq(Scalars(f.kind) \cup {NoValue}) /\ Len(gs) = n
        BY <3>2, <3>5
      <3>7. is # UNSET /\ es = is
        BY <1>1, <3>6
      <3> HIDE DEF es
      <3> QED
        BY <1>2, <3>3, <3>4, <3>5, <3>6, <3>7 DEF is, gs, v, es
    <2> QED
      BY <2>1, <2>2
  <1>3. CASE ~f.list
    <2> DEFINE w == IF v = NoValue THEN UNSET ELSE v
               input == ScalarSet(f.kind, d, w)
    <2>1. is = <<input>> /\ gs = <<v>>
      BY <1>3 DEF InputsOf, GivenOf
    <2>2. v \in Scalars(f.kind) \cup {NoValue} /\ w \in Scalars(f.kind)
      BY <1>1, <1>3 DEF ParamsOf, Scalars
    <2> HIDE DEF w, v, d
    <2>3. input \in InputOf(f.kind) /\ (w # UNSET => input.time = TimeKept(f.kind, w))
      BY <1>1, <2>2, SetIs
    <2>4. v \notin {UNSET, NoValue} => w = v
      BY DEF w
    <2> HIDE DEF input, is, gs
    <2>5. is \in Seq(InputOf(f.kind)) /\ is # UNSET /\ Len(is) = 1 /\ is[1] = input
      <3>1. is \in Seq(InputOf(f.kind)) /\ Len(is) = 1 /\ is[1] = input
        BY <2>1, <2>3
      <3> QED
        BY <1>1, <3>1
    <2>6. gs \in Seq(Scalars(f.kind) \cup {NoValue}) /\ Len(gs) = 1 /\ gs[1] = v /\ DOMAIN gs = {1}
      BY <2>1, <2>2
    <2>7. es = is
      BY <2>5
    <2> HIDE DEF es
    <2> QED
      BY <1>3, <2>3, <2>4, <2>5, <2>6, <2>7 DEF is, gs, v, es
  <1> QED
    BY <1>2, <1>3

LEMMA ElementsAre ==
  ASSUME FieldsInv
  PROVE  /\ param.kind \in Kinds /\ param \in Field
         /\ Elements \in Seq(InputOf(param.kind)) /\ Len(Elements) \in Nat
         /\ DOMAIN Elements = 1..Len(Elements) /\ DOMAIN given = 1..Len(Elements)
         /\ inputs # UNSET => Elements = inputs
         /\ UNSET \notin Seq(InputOf(param.kind))
  <1>1. Elements \in Seq(InputOf(param.kind))
    BY EmptySeq DEF FieldsInv, Elements
  <1>2. DOMAIN given = 1..Len(given)
    BY LenProperties DEF FieldsInv
  <1> QED
    BY <1>1, <1>2, LenProperties, FieldIs, FieldsAssumption DEF FieldsInv, Elements

-----------------------------------------------------------------------------
LEMMA FieldsInit == InitFields => FieldsInv
  <1> SUFFICES ASSUME InitFields PROVE FieldsInv
    OBVIOUS
  <1>1. /\ param \in Field /\ way = WayOf(param, UNSET) /\ inputs = InputsOf(param, UNSET)
        /\ given = GivenOf(param, UNSET)
    BY DEF InitFields, GivenOf
  <1>2. UNSET \in {UNSET} \cup ParamsOf(param)
    OBVIOUS
  <1> QED
    BY <1>1, <1>2, InputsSet DEF FieldsInv, Elements

LEMMA FieldsSet ==
  ASSUME FieldsInv, NEW value \in {UNSET} \cup ParamsOf(param), Set(value)
  PROVE  FieldsInv'
  <1>1. /\ param' = param /\ param \in Field /\ way' = WayOf(param, value)
        /\ inputs' = InputsOf(param, value) /\ given' = GivenOf(param, value)
        /\ touched' = (value # UNSET)
    BY DEF Set, FieldsInv, GivenOf
  <1>2. ~touched' => way' = WayOf(param', UNSET) /\ inputs' = InputsOf(param', UNSET)
    BY <1>1
  <1> QED
    BY <1>1, <1>2, InputsSet DEF FieldsInv, Elements

LEMMA FieldsGive ==
  ASSUME FieldsInv, NEW i \in 1..MaxElements, NEW what \in HeldBy(param.kind), Give(i, what)
  PROVE  FieldsInv'
  <1>1. /\ inputs # UNSET /\ i \in DOMAIN inputs /\ touched' = TRUE
        /\ inputs' = [inputs EXCEPT ![i].holds = what] /\ UNCHANGED <<param, way, given>>
    BY DEF Give
  <1> DEFINE In == InputOf(param.kind)
  <1>2. inputs \in Seq(In) /\ Elements = inputs /\ UNSET \notin Seq(In) /\ DOMAIN inputs = 1..Len(inputs)
    BY <1>1, ElementsAre
  <1>3. inputs[i] \in In /\ [inputs[i] EXCEPT !.holds = what] \in In
        /\ [inputs[i] EXCEPT !.holds = what].time = inputs[i].time
    <2>1. inputs[i] \in In
      BY <1>1, <1>2
    <2> QED
      BY <2>1 DEF InputOf
  <1> HIDE DEF In
  <1>4. /\ inputs' \in Seq(In) /\ Len(inputs') = Len(inputs)
        /\ \A j \in DOMAIN inputs : inputs'[j].time = inputs[j].time
    BY <1>1, <1>2, <1>3
  <1>5. Elements' = inputs' /\ inputs' # UNSET
    BY <1>2, <1>4 DEF Elements
  <1> QED
    BY <1>1, <1>2, <1>4, <1>5, ElementsAre DEF FieldsInv, In

LEMMA FieldsChoose == ASSUME FieldsInv, NEW w, Choose(w) PROVE FieldsInv'
  BY DEF FieldsInv, Choose, Elements

LEMMA FieldsAdd == ASSUME FieldsInv, AddElement PROVE FieldsInv'
  <1> DEFINE In == InputOf(param.kind)
             Ga == Scalars(param.kind) \cup {NoValue}
             added == ScalarSet(param.kind, DefaultOf(param), UNSET)
             d == DefaultOf(param)
             n == Len(Elements)
  <1>1. /\ inputs' = Append(Elements, added) /\ given' = Append(given, d) /\ touched' = TRUE
        /\ UNCHANGED <<param, way>>
    BY DEF AddElement
  <1>2. /\ param.kind \in Kinds /\ param \in Field /\ Elements \in Seq(In) /\ n \in Nat
        /\ UNSET \notin Seq(In) /\ given \in Seq(Ga) /\ Len(given) = n
        /\ DOMAIN given = 1..n
    BY ElementsAre DEF FieldsInv
  <1>3. d \in Scalars(param.kind) /\ UNSET \in Scalars(param.kind) /\ d \in Ga
    BY <1>2, DefaultIs DEF Scalars
  <1>4. added \in In
    BY <1>2, <1>3, SetIs
  <1>5. d # UNSET => added.time = TimeKept(param.kind, d)
    <2>1. added = ScalarSet(param.kind, d, d)
      BY DEF ScalarSet
    <2> HIDE DEF added, d
    <2> QED
      BY <1>2, <1>3, <2>1, SetIs
  <1> HIDE DEF In, Ga, added, d, n
  <1>6. /\ inputs' \in Seq(In) /\ Len(inputs') = n + 1 /\ inputs'[n + 1] = added
        /\ \A i \in 1..n : inputs'[i] = Elements[i]
    BY <1>1, <1>2, <1>4, AppendProperties DEF n
  <1>7. /\ given' \in Seq(Ga) /\ Len(given') = n + 1 /\ given'[n + 1] = d
        /\ \A i \in 1..n : given'[i] = given[i]
    BY <1>1, <1>2, <1>3, AppendProperties DEF n
  <1>8. Elements' = inputs' /\ inputs' # UNSET
    BY <1>2, <1>6 DEF Elements
  <1>9. ASSUME NEW i \in DOMAIN given', given'[i] \notin {UNSET, NoValue}
        PROVE  Elements'[i].time = TimeKept(param.kind, given'[i])
    <2>1. i \in 1..n \/ i = n + 1
      BY <1>2, <1>7
    <2>2. CASE i \in 1..n
      BY <1>2, <1>6, <1>7, <1>8, <1>9, <2>2 DEF FieldsInv
    <2>3. CASE i = n + 1
      BY <1>5, <1>6, <1>7, <1>8, <1>9, <2>3
    <2> QED
      BY <2>1, <2>2, <2>3
  <1> QED
    BY <1>1, <1>2, <1>6, <1>7, <1>8, <1>9 DEF FieldsInv, In, Ga

LEMMA FieldsRemove == ASSUME FieldsInv, RemoveElement PROVE FieldsInv'
  <1> DEFINE In == InputOf(param.kind)
             Ga == Scalars(param.kind) \cup {NoValue}
             n == Len(Elements)
             k == IF n = 0 THEN 0 ELSE n - 1
  <1>1. /\ inputs' = SubSeq(Elements, 1, n - 1) /\ given' = SubSeq(given, 1, Len(given) - 1)
        /\ touched' = TRUE /\ UNCHANGED <<param, way>>
    BY DEF RemoveElement
  <1>2. /\ param.kind \in Kinds /\ param \in Field /\ Elements \in Seq(In) /\ n \in Nat
        /\ UNSET \notin Seq(In) /\ given \in Seq(Ga) /\ Len(given) = n
        /\ DOMAIN given = 1..n /\ DOMAIN Elements = 1..n
    BY ElementsAre DEF FieldsInv
  <1> HIDE DEF In, Ga, n
  <1>3. k \in Nat /\ 1..n - 1 = 1..k /\ k <= n
    BY <1>2
  <1>4. ASSUME NEW S, NEW s \in Seq(S), Len(s) = n
        PROVE  /\ SubSeq(s, 1, n - 1) \in Seq(S) /\ Len(SubSeq(s, 1, n - 1)) = k
               /\ \A i \in 1..k : SubSeq(s, 1, n - 1)[i] = s[i]
    <2>1. \A i \in 1..n - 1 : s[i] \in S
      BY <1>2, <1>4
    <2>2. /\ SubSeq(s, 1, n - 1) \in Seq(S)
          /\ Len(SubSeq(s, 1, n - 1)) = IF 1 <= n - 1 THEN n - 1 - 1 + 1 ELSE 0
          /\ \A i \in 1..n - 1 - 1 + 1 : SubSeq(s, 1, n - 1)[i] = s[1 + i - 1]
      BY <1>2, <2>1, SubSeqProperties
    <2> QED
      BY <1>2, <1>3, <2>2
  <1>5. /\ inputs' \in Seq(In) /\ Len(inputs') = k /\ \A i \in 1..k : inputs'[i] = Elements[i]
    BY <1>1, <1>2, <1>4 DEF n
  <1>6. /\ given' \in Seq(Ga) /\ Len(given') = k /\ \A i \in 1..k : given'[i] = given[i]
    BY <1>1, <1>2, <1>4
  <1>7. Elements' = inputs' /\ inputs' # UNSET
    BY <1>2, <1>5 DEF Elements
  <1>8. ASSUME NEW i \in DOMAIN given', given'[i] \notin {UNSET, NoValue}
        PROVE  Elements'[i].time = TimeKept(param.kind, given'[i])
    <2>1. i \in 1..k /\ i \in 1..n
      BY <1>2, <1>3, <1>6
    <2> QED
      BY <1>2, <1>5, <1>6, <1>7, <1>8, <2>1 DEF FieldsInv
  <1> QED
    BY <1>1, <1>2, <1>5, <1>6, <1>7, <1>8 DEF FieldsInv, In, Ga

LEMMA FieldsNext == ASSUME FieldsInv, [NextFields]_fieldsVars PROVE FieldsInv'
  <1>1. CASE UNCHANGED fieldsVars
    BY <1>1 DEF fieldsVars, FieldsInv, Elements
  <1>2. CASE NextFields
    BY <1>2, FieldsSet, FieldsGive, FieldsChoose, FieldsAdd, FieldsRemove DEF NextFields
  <1> QED
    BY <1>1, <1>2

\* A record's request comes back as it was, over any edits that leave an input as
\* it was set, the fraction and the zone of a time with it; and a field without a
\* default gives nothing until someone gave something.
THEOREM FormGivesBack == SpecFields => []GivesBack
  <1>1. ASSUME FieldsInv, way = "Given", inputs # UNSET, NEW i \in DOMAIN inputs,
               given[i] \notin {UNSET, NoValue},
               inputs[i].holds = ScalarSet(param.kind, DefaultOf(param), given[i]).holds,
               inputs[i].zone = ScalarSet(param.kind, DefaultOf(param), given[i]).zone,
               param.kind = "text" /\ ~param.list => given[i] # ""
        PROVE  /\ ~Missing(param.kind, DefaultOf(param), inputs[i])
               /\ ScalarValue(param.kind, inputs[i]) = given[i]
    <2>1. i \in DOMAIN given /\ Elements = inputs /\ param.kind \in Kinds /\ param \in Field
      BY <1>1, ElementsAre
    <2>2. given[i] \in Scalars(param.kind) \cup {NoValue}
      <3>1. given \in Seq(Scalars(param.kind) \cup {NoValue})
        BY <1>1 DEF FieldsInv
      <3> QED
        BY <2>1, <3>1, LenProperties
    <2>3. inputs[i].time = TimeKept(param.kind, given[i])
      BY <1>1, <2>1 DEF FieldsInv
    <2>4. param.kind = "text" => DefaultOf(param) # UNSET \/ given[i] # ""
      BY <1>1, FieldsAssumption DEF DefaultOf
    <2>5. ScalarGivesBack(param.kind, DefaultOf(param), given[i], inputs[i])
      BY <2>1, <2>2, GivesWhatWasSet
    <2> QED
      BY <1>1, <2>3, <2>4, <2>5 DEF ScalarGivesBack
  <1>2. ASSUME FieldsInv, ~touched, param.default = UNSET PROVE ParamGiven = UNSET
    <2>1. way = WayOf(param, UNSET) /\ inputs = InputsOf(param, UNSET) /\ param \in Field
      BY <1>2 DEF FieldsInv
    <2>2. CASE param.optional
      BY <1>2, <2>1, <2>2 DEF WayOf, ParamGiven
    <2>3. CASE ~param.optional /\ param.list
      BY <1>2, <2>1, <2>3 DEF WayOf, InputsOf, ParamGiven, LacksValue
    <2>4. CASE ~param.optional /\ ~param.list
      <3> DEFINE input == ScalarSet(param.kind, UNSET, UNSET)
      <3>1. DefaultOf(param) = UNSET
        BY <1>2, <2>4 DEF DefaultOf
      <3>2. ScalarSet(param.kind, UNSET, IF UNSET = NoValue THEN UNSET ELSE UNSET) = input
        OBVIOUS
      <3>3. inputs = <<input>> /\ way = "Given"
        BY <1>2, <2>1, <2>4, <3>1, <3>2 DEF InputsOf, WayOf
      <3>4. Missing(param.kind, UNSET, input)
        BY DEF ScalarSet, Missing
      <3> HIDE DEF input
      <3>5. LacksValue
        BY <3>1, <3>3, <3>4 DEF LacksValue
      <3> QED
        BY <3>5 DEF ParamGiven
    <2> QED
      BY <2>2, <2>3, <2>4
  <1>3. FieldsInv => GivesBack
    BY <1>1, <1>2 DEF GivesBack
  <1> QED
    BY <1>3, FieldsInit, FieldsNext, PTL DEF SpecFields

-----------------------------------------------------------------------------
(* The table of a page *)

\* What the detail shows of a row.
DetailOf(key) == IF key = Nothing THEN NoDetail ELSE <<key, listed.state[key]>>

TableInv ==
    /\ readable \subseteq Submitted
    /\ listed.readable \subseteq Submitted
    /\ keys \in Seq(Submitted)
    /\ selected \in DOMAIN keys \cup {Nothing}
    /\ detail = DetailOf(KeyOf(keys, selected))
    /\ drawn \in {Nothing, KeyOf(keys, selected)}

\* A row of the table may be selected, or none.
LEMMA RankedFromTop ==
  ASSUME NEW S \in SUBSET Submitted
  PROVE  NewestFirst(S) \in Seq(S)
  <1> DEFINE n == Cardinality(S)
             above(r) == {s \in S : s >= r}
             upTo(r) == {s \in S : s <= r}
             under(r) == {s \in S : s < r}
  <1>0. MaxSubmitted \in Nat /\ S \in SUBSET (1..MaxSubmitted) /\ \A r \in S : r \in Nat
    BY PageAssumption DEF Submitted
  <1>1. n \in Nat /\ \A T \in SUBSET S : IsFiniteSet(T) /\ Cardinality(T) \in Nat
    BY <1>0, FiniteUpTo
  <1>2. ASSUME NEW i \in 1..n PROVE \E r \in S : Cardinality(above(r)) = i
    <2>1. n - i + 1 \in 1..n
      BY <1>1
    <2>2. PICK r \in S : Cardinality(upTo(r)) = n - i + 1
      <3> HIDE DEF n
      <3> QED
        BY <1>0, <2>1, Ranked DEF n
    <2>3. Cardinality(upTo(r)) = Cardinality(under(r)) + 1
      <3>1. upTo(r) = under(r) \cup {r} /\ r \notin under(r) /\ under(r) \in SUBSET S
        BY <1>0, UpTo
      <3> HIDE DEF upTo, under
      <3> QED
        BY <1>1, <3>1, FS_AddElement
    <2>4. Cardinality(above(r)) = n - Cardinality(under(r))
      <3>1. above(r) = S \ under(r) /\ under(r) \in SUBSET S
        <4>1. \A s \in S : s >= r <=> ~(s < r)
          BY <1>0
        <4> QED
          BY <4>1, Zenon
      <3>2. S \cap under(r) = under(r)
        BY <3>1
      <3> HIDE DEF above, under
      <3> QED
        BY <1>1, <3>1, <3>2, FS_Difference
    <2>5. Cardinality(under(r)) \in Nat
      <3>1. under(r) \in SUBSET S
        OBVIOUS
      <3> HIDE DEF under
      <3> QED
        BY <1>1, <3>1
    <2> HIDE DEF above, under, upTo, n
    <2> QED
      BY <1>1, <2>2, <2>3, <2>4, <2>5
  <1> DEFINE row(i) == CHOOSE r \in S : Cardinality(above(r)) = i
  <1>3. \A i \in 1..n : row(i) \in S
    <2> SUFFICES ASSUME NEW i \in 1..n PROVE row(i) \in S
      OBVIOUS
    <2> HIDE DEF above
    <2> QED
      BY <1>2
  <1>4. NewestFirst(S) = [i \in 1..n |-> row(i)]
    BY DEF NewestFirst
  <1> HIDE DEF row, n
  <1> QED
    BY <1>1, <1>3, <1>4

LEMMA RowsListed ==
  ASSUME NEW l, l.readable \subseteq Submitted, NEW without
  PROVE  RowsOf(l, without) \in Seq(Submitted)
  <1> DEFINE S == (l.readable \cup {r \in Submitted : l.state[r] = "failed"}) \ without
  <1>1. S \in SUBSET Submitted
    OBVIOUS
  <1>2. RowsOf(l, without) = NewestFirst(S)
    BY DEF RowsOf
  <1> HIDE DEF S
  <1>3. NewestFirst(S) \in Seq(S)
    BY <1>1, RankedFromTop
  <1> QED
    BY <1>1, <1>2, <1>3

\* The record that is logged next is one.
LEMMA NextRecord == ASSUME Fresh # {} PROVE NewRecord \in Submitted
  <1>1. Fresh \in SUBSET Nat /\ Fresh \subseteq Submitted
    BY PageAssumption DEF Fresh, Submitted
  <1>2. PICK r \in Fresh : \A s \in Fresh : ~(s < r)
    BY <1>1, Least
  <1>3. \A s \in Fresh : r <= s
    BY <1>1, <1>2
  <1> QED
    BY <1>1, <1>3 DEF NewRecord

\* Keys are records, none of which is nothing.
LEMMA KeysAre ==
  ASSUME NEW nums \in Seq(Submitted), NEW i \in DOMAIN nums \cup {Nothing}
  PROVE  /\ KeyOf(nums, i) \in Submitted \cup {Nothing}
         /\ KeyOf(nums, i) = Nothing <=> i = Nothing
         /\ \A key \in ToSet(nums) : key # Nothing
  <1>1. Nothing \notin Submitted /\ DOMAIN nums = 1..Len(nums) /\ \A j \in DOMAIN nums : nums[j] \in Submitted
    BY PageAssumption, LenProperties DEF Submitted, Nothing
  <1>2. Nothing \notin DOMAIN nums
    BY <1>1 DEF Nothing
  <1> QED
    BY <1>1, <1>2 DEF KeyOf, ToSet

\* The detail follows what is selected.
LEMMA Follows ==
  ASSUME TableInv, NEW nums \in Seq(Submitted), NEW i \in DOMAIN nums \cup {Nothing},
         Follow(nums, i, listed')
  PROVE  /\ detail' = IF KeyOf(nums, i) = Nothing THEN NoDetail
                      ELSE <<KeyOf(nums, i), listed'.state[KeyOf(nums, i)]>>
         /\ drawn' \in {Nothing, KeyOf(nums, i)}
  <1> DEFINE key == KeyOf(nums, i)
             showing == IF key = Nothing THEN NoDetail ELSE <<key, listed'.state[key]>>
  <1>1. CASE showing = detail
    <2>1. detail' = detail /\ drawn' = drawn
      BY <1>1 DEF Follow
    <2>2. KeyOf(keys, selected) = key
      BY <1>1 DEF TableInv, DetailOf, NoDetail
    <2> QED
      BY <1>1, <2>1, <2>2 DEF TableInv
  <1>2. CASE showing # detail
    BY <1>2 DEF Follow
  <1> QED
    BY <1>1, <1>2

\* The rows of a listing are set: the key selected stays so if it is listed.
LEMMA RowsSet ==
  ASSUME TableInv, NEW l, NEW without, l.readable \subseteq Submitted, SetRows(l, without)
  PROVE  LET before == KeyOf(keys, selected)
             after == KeyOf(keys', selected')
         IN /\ listed' = l /\ keys' \in Seq(Submitted) /\ selected' \in DOMAIN keys' \cup {Nothing}
            /\ after # before => after = Nothing /\ before \notin ToSet(keys')
            /\ detail' = IF after = Nothing THEN NoDetail ELSE <<after, listed'.state[after]>>
            /\ drawn' \in {Nothing, after}
  <1> DEFINE before == KeyOf(keys, selected)
  <1>1. listed' = l /\ keys' \in Seq(Submitted) /\ selected' = SelectedIn(keys')
    BY RowsListed DEF SetRows
  <1>2. /\ selected' \in DOMAIN keys' \cup {Nothing}
        /\ before \in ToSet(keys') => keys'[selected'] = before /\ selected' \in DOMAIN keys'
        /\ before \notin ToSet(keys') => selected' = Nothing
    BY <1>1 DEF SelectedIn, ToSet
  <1>3. /\ before \in ToSet(keys') => KeyOf(keys', selected') = before
        /\ before \notin ToSet(keys') => KeyOf(keys', selected') = Nothing
    <2>1. DOMAIN keys' = 1..Len(keys')
      BY <1>1, LenProperties
    <2> QED
      BY <1>2, <2>1 DEF KeyOf, Nothing
  <1>4. Follow(keys', selected', listed')
    BY <1>1 DEF SetRows
  <1> QED
    BY <1>1, <1>2, <1>3, <1>4, Follows

-----------------------------------------------------------------------------
\* What a step may do to the selection.
Stays ==
    LET before == KeyOf(keys, selected)
        after == KeyOf(keys', selected')
    IN /\ after # before =>
             \/ \E i \in DOMAIN keys \cup {Nothing} : SelectRow(i)
             \/ after = Nothing /\ before \notin ToSet(keys')
       /\ detail' = IF after = Nothing THEN NoDetail ELSE <<after, listed'.state[after]>>
       /\ drawn' \in {Nothing, after}
       /\ removed' # removed => removed' \ removed = {before}

LEMMA PageInit == InitPage => TableInv
  BY EmptySeq DEF InitPage, TableInv, DetailOf, KeyOf, Nothing

\* The table stands still.
LEMMA Still ==
  ASSUME TableInv, UNCHANGED <<listed, table, removed>>, readable' \subseteq Submitted
  PROVE  TableInv' /\ Stays
  BY DEF TableInv, Stays, table, DetailOf, KeyOf

\* The rows are listed anew.
LEMMA ListedAnew ==
  ASSUME TableInv, NEW l, NEW without, l.readable \subseteq Submitted, SetRows(l, without),
         readable' \subseteq Submitted,
         removed' # removed => removed' \ removed = {KeyOf(keys, selected)}
  PROVE  TableInv' /\ Stays
  BY RowsSet DEF TableInv, Stays, DetailOf

LEMMA Changes == ASSUME TableInv PROVE ListChanged.readable \subseteq Submitted
  BY DEF TableInv, ListChanged

\* The backend alone: what may be read is of records.
LEMMA Logs == ASSUME TableInv, LogsSubmission PROVE readable' \subseteq Submitted
  BY NextRecord DEF TableInv, LogsSubmission
LEMMA EndsOrNot ==
  ASSUME TableInv, NEW r \in Submitted
  PROVE  /\ \A how : EndsAs(r, how) => readable' \subseteq Submitted
         /\ Releases(r) => readable' \subseteq Submitted
  BY DEF TableInv, EndsAs, Releases, backendOfPage

LEMMA PageNext == ASSUME TableInv, [NextPage]_pageVars PROVE TableInv' /\ Stays
  <1>1. CASE UNCHANGED pageVars
    BY <1>1, Still DEF pageVars, backendOfPage, TableInv
  <1>2. CASE SubmitsElsewhere
    BY <1>2, Logs, Still DEF SubmitsElsewhere
  <1>3. ASSUME NEW r \in Submitted, EndOf(r) PROVE TableInv' /\ Stays
    BY <1>3, EndsOrNot, Still DEF EndOf, Ends
  <1>4. ASSUME NEW r \in Submitted, ReleasedElsewhere(r) PROVE TableInv' /\ Stays
    BY <1>4, EndsOrNot, Still DEF ReleasedElsewhere
  <1>5. ASSUME NEW i \in 0..MaxSubmitted, SelectRow(i) PROVE TableInv' /\ Stays
    <2>1. /\ i \in DOMAIN keys \cup {Nothing} /\ selected' = i /\ Follow(keys, i, listed')
          /\ UNCHANGED <<listed, keys, removed, readable>>
      BY <1>5 DEF SelectRow, backendOfPage
    <2>2. keys \in Seq(Submitted)
      BY DEF TableInv
    <2>3. /\ detail' = IF KeyOf(keys, i) = Nothing THEN NoDetail
                       ELSE <<KeyOf(keys, i), listed'.state[KeyOf(keys, i)]>>
          /\ drawn' \in {Nothing, KeyOf(keys, i)}
      BY <2>1, <2>2, Follows
    <2> QED
      BY <1>5, <2>1, <2>3 DEF TableInv, Stays, DetailOf
  <1>6. CASE SubmitHere
    BY <1>6, Logs, Still DEF SubmitHere
  <1>7. CASE RefusedHere
    BY <1>7, Still DEF RefusedHere, backendOfPage, TableInv
  <1>8. CASE ListSubmission
    <2>1. SetRows(ListChanged, removed) /\ removed' = removed /\ readable' \subseteq Submitted
      BY <1>8 DEF ListSubmission, backendOfPage, TableInv
    <2> QED
      BY <2>1, Changes, ListedAnew
  <1>9. CASE Poll
    <2>1. removed' = removed /\ readable' \subseteq Submitted
      BY <1>9 DEF Poll, backendOfPage, TableInv
    <2>2. CASE listed.cursor < Len(news)
      <3>1. SetRows(ListChanged, removed)
        BY <1>9, <2>2 DEF Poll
      <3> QED
        BY <2>1, <3>1, Changes, ListedAnew
    <2>3. CASE ~(listed.cursor < Len(news))
      BY <1>9, <2>1, <2>3, Still DEF Poll
    <2> QED
      BY <2>2, <2>3
  <1>10. CASE RemoveOutput
    <2> DEFINE r == keys[selected]
    <2>1. KeyOf(keys, selected) = r /\ r \in Submitted
      BY <1>10, KeysAre DEF RemoveOutput, TableInv, KeyOf
    <2>2. readable' \subseteq Submitted
      BY <1>10, <2>1, EndsOrNot DEF RemoveOutput, TableInv, backendOfPage
    <2>3. removed' = removed \cup {r} /\ SetRows(ListAll, removed')
      BY <1>10 DEF RemoveOutput
    <2>4. ListAll.readable = readable'
      BY DEF ListAll
    <2> QED
      BY <2>1, <2>2, <2>3, <2>4, ListedAnew
  <1> QED
    BY <1>1, <1>2, <1>3, <1>4, <1>5, <1>6, <1>7, <1>8, <1>9, <1>10 DEF NextPage

\* The output selected stays the user's, however the rows come and go above it,
\* and the detail is of it: what Remove releases is what the user looks at.
THEOREM SelectionIsKept == SpecPage => SelectionStays
  <1>1. TableInv /\ [NextPage]_pageVars => TableInv' /\ [Stays]_pageVars
    BY PageNext
  <1>2. SpecPage => [][Stays]_pageVars
    BY <1>1, PageInit, PTL DEF SpecPage
  <1> QED
    BY <1>2, PTL DEF SelectionStays, Stays

=============================================================================
