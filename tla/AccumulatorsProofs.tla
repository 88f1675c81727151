------------------------- MODULE AccumulatorsProofs -------------------------
(***************************************************************************)
(* Theorems about accumulators, for any numbers of accumulators, threads,  *)
(* records and pushes.                                                     *)
(*                                                                         *)
(* A worker changes a driver only when the counter says that nobody reads  *)
(* its state.  So all rests on the counter being exact, through every      *)
(* cancel, stop and release, and on where a reader's state can be: at the  *)
(* driver's, or ahead of it by no more than the steps left.                *)
(***************************************************************************)
EXTENDS Accumulators, FiniteSetTheorems, FunctionTheorems, SequenceTheorems, WellFoundedInduction,
        TLAPS

Statuses == {"none", "pending", "completed", "failed", "cancelled"}
Calls == [op : {"none", "submit", "freeze", "read"},
          phase : {"idle", "checking", "waiting", "copying", "ending"},
          pins : SUBSET State,
          requests : Seq([outs : SUBSET Record, accs : SUBSET Acc])]

Types ==
    /\ count \in 0..MaxRecords
    /\ status \in [Record -> Statuses]
    /\ refs \in [Record -> SUBSET Key]
    /\ pushes \in [Acc -> None..MaxPushes]
    /\ kept \subseteq Record
    /\ open \subseteq Acc
    /\ call \in [Thread -> Calls]
    /\ unread \in [Record -> SUBSET Key]
    /\ held \in [Record -> SUBSET Key]
    /\ readers \in [Key -> Int]
    /\ stateOf \subseteq Record
    /\ memory \subseteq Record
    /\ waiting \in [Record -> SUBSET Key]
    /\ dependents \in [Key -> SUBSET Record]
    /\ queued \subseteq Record
    /\ at \in [Record -> {"idle", "computing", "returned"}]
    /\ steps \in [Acc -> Seq(SUBSET Record)]
    /\ added \in [Acc -> None..MaxPushes]
    /\ busy \in [Acc -> BOOLEAN]
    /\ stopped \in [Acc -> BOOLEAN]
    /\ released \in [Acc -> BOOLEAN]
    /\ freezing \in [Acc -> BOOLEAN]
    /\ frozen \in [Acc -> 0..MaxRecords]
    /\ driver \in [Acc -> Int]
    /\ computed \in [Acc -> Int]
    /\ todo \subseteq Record \X {"failed", "cancelled"}
    /\ drops \subseteq Key
    /\ ready \subseteq Acc
    /\ leaving \subseteq Acc

\* What has not been logged is nowhere.
Fresh ==
    /\ \A r \in Record :
        /\ status[r] = "none" <=> r > count
        /\ r > count => unread[r] = {} /\ held[r] = {} /\ waiting[r] = {} /\ at[r] = "idle"
                        /\ r \notin queued /\ r \notin kept
    /\ \A a \in Acc :
        /\ pushes[a] = None => ~stopped[a] /\ ~released[a] /\ frozen[a] = 0 /\ a \notin open

\* Where a record holds what it reads: before it starts, while it runs, and that
\* of a state as long as its outputs are in memory.
Places ==
    \A r \in Record :
        /\ unread[r] # {} => Pending(r) /\ at[r] = "idle"
        /\ held[r] # {} => at[r] # "idle" \/ status[r] = "completed"
        /\ at[r] # "idle" => r \notin queued /\ status[r] # "completed"
        /\ r \in memory => status[r] = "completed"
        /\ Pending(r) /\ at[r] = "idle" => unread[r] = refs[r]
        /\ unread[r] \cup held[r] \subseteq refs[r]
        /\ Pending(r) /\ refs[r] \cap State # {} /\ at[r] # "idle" => held[r] = refs[r]
        /\ held[r] \cap State # {} /\ at[r] = "idle" => r \in stateOf
        /\ Pending(r) /\ refs[r] \cap State # {} => r \in stateOf
        /\ waiting[r] \subseteq unread[r]
        /\ r \in queued => waiting[r] = {}
        /\ \A k \in refs[r] \cap State : refs[r] = {k}

\* The steps of an accumulator are those of its pushes that it has not added.
Progress ==
    \A a \in Acc :
        /\ added[a] + Len(steps[a]) <= pushes[a]
        /\ a \in open /\ ~stopped[a] => added[a] + Len(steps[a]) = pushes[a]
        /\ busy[a] => steps[a] # <<>>
        /\ released[a] => a \notin open
        /\ a \in leaving => a \in open

\* What a call holds, and what keeps others away while a freeze is checked.
InCalls ==
    /\ \A t \in Thread :
        /\ call[t].phase = "idle" => call[t] = Idle
        /\ call[t].op = "none" => call[t].phase = "idle"
        /\ call[t].op = "submit" => call[t].phase \in {"checking", "ending"}
        /\ call[t].op \in {"freeze", "read"} => \E p \in State : call[t].pins = {p}
        /\ call[t].op = "freeze" => \A p \in call[t].pins :
              /\ freezing[p[1]] /\ pushes[p[1]] = p[2]
              /\ call[t].phase = "checking" => frozen[p[1]] = 0 \/ ~Pending(frozen[p[1]])
    /\ \A t, u \in Thread : \A p \in call[t].pins \cap call[u].pins :
          call[t].op = "freeze" /\ call[u].op = "freeze" => t = u

\* Records of freezes.
Frozen ==
    \A a \in Acc : frozen[a] # 0 =>
        /\ frozen[a] <= count
        /\ refs[frozen[a]] = {<<a, pushes[a]>>}
        /\ status[frozen[a]] = "completed" => stopped[a]

CoreInv == Types /\ Fresh /\ Places /\ Progress /\ InCalls /\ Frozen /\ ReadersCounted

\* A reader's state is the driver's, or comes after the steps left.
Reached ==
    /\ \A a \in Acc : \A n \in 0..MaxPushes : readers[<<a, n>>] > 0 =>
          stopped[a] \/ n \in added[a]..(added[a] + Len(steps[a]))
    /\ \A k \in drops \cap State : readers[k] = 0

\* What a driver holds, and what is computed of it.
Drivers ==
    \A a \in Acc :
        /\ busy[a] => Unread(a) /\ computed[a] = None
        /\ ~Unread(a) => driver[a] = added[a]
        /\ ~busy[a] /\ ~stopped[a] => driver[a] = added[a]
        /\ computed[a] \in {None, added[a]}

There(k) == IF k \in State THEN added[k[1]] = k[2] ELSE status[k[2]] = "completed"

\* What a record has yet to read is there, or it waits for it; and what a record
\* or a call reads stays.
Waits ==
    /\ \A r \in Record :
          /\ \A k \in unread[r] \ waiting[r] : There(k)
          /\ \A k \in held[r] : There(k)
    /\ \A t \in Thread : call[t].phase = "copying" => \A p \in call[t].pins : added[p[1]] = p[2]
    /\ \A a \in Acc : stopped[a] => steps[a] = <<>>

\* What readers, or the client, hold of a completed record is in memory.
Served ==
    \A r \in Record : status[r] = "completed" /\ (readers[Out(r)] > 0 \/ r \in kept) => r \in memory

\* The outputs of a state that are given to its record are those computed.
Given ==
    \A r \in Record : \A s \in refs[r] \cap State :
        /\ at[r] = "returned" /\ Pending(r) => computed[s[1]] = s[2]
        /\ r \in memory /\ frozen[s[1]] # r => s \in held[r] /\ computed[s[1]] = s[2]

ReadInv == CoreInv /\ Reached /\ Drivers /\ Waits /\ Served /\ Given

-----------------------------------------------------------------------------
(* Counting readers *)

RecordsOf(k) == {r \in Record : k \in unread[r] \cup held[r]}
StepsOf(k) == {s \in Acc \X (1..(MaxPushes + 1)) :
                  s[2] <= Len(steps[s[1]]) /\ k \in Sources(steps[s[1]][s[2]])}
CallsOf(k) == {t \in Thread : k \in call[t].pins}

LEMMA AllFinite ==
  /\ IsFiniteSet(Record) /\ IsFiniteSet(Thread) /\ IsFiniteSet(Acc \X (1..(MaxPushes + 1)))
  /\ \A k : IsFiniteSet(RecordsOf(k)) /\ IsFiniteSet(StepsOf(k)) /\ IsFiniteSet(CallsOf(k))
  <1>1. IsFiniteSet(Record)
    BY FS_Interval, AccumulatorsAssumption DEF Record
  <1>2. IsFiniteSet(1..(MaxPushes + 1))
    <2>1. MaxPushes + 1 \in Int /\ 1 \in Int
      BY AccumulatorsAssumption
    <2> QED
      BY <2>1, FS_Interval
  <1>3. IsFiniteSet(Acc \X (1..(MaxPushes + 1)))
    BY <1>2, FS_Product, AccumulatorsAssumption
  <1>4. \A k : RecordsOf(k) \in SUBSET Record /\ StepsOf(k) \in SUBSET (Acc \X (1..(MaxPushes + 1)))
               /\ CallsOf(k) \in SUBSET Thread
    BY DEF RecordsOf, StepsOf, CallsOf
  <1> QED
    BY <1>1, <1>3, <1>4, FS_Subset, AccumulatorsAssumption

LEMMA Exact ==
  ReadersCounted <=>
     \A k \in Key : readers[k] = Cardinality(RecordsOf(k)) + Cardinality(StepsOf(k))
                                    + Cardinality(CallsOf(k))
  BY DEF ReadersCounted, RecordsOf, StepsOf, CallsOf

LEMMA CountsNatural ==
  \A k : /\ Cardinality(RecordsOf(k)) \in Nat /\ Cardinality(StepsOf(k)) \in Nat
         /\ Cardinality(CallsOf(k)) \in Nat
         /\ Cardinality(RecordsOf(k)) = 0 <=> RecordsOf(k) = {}
         /\ Cardinality(StepsOf(k)) = 0 <=> StepsOf(k) = {}
         /\ Cardinality(CallsOf(k)) = 0 <=> CallsOf(k) = {}
  BY AllFinite, FS_CardinalityType, FS_EmptySet

\* The counter is zero when nobody holds a key, and only then.
LEMMA Unheld ==
  ASSUME ReadersCounted, NEW k \in Key
  PROVE  /\ readers[k] \in Nat
         /\ readers[k] = 0 => RecordsOf(k) = {} /\ StepsOf(k) = {} /\ CallsOf(k) = {}
         /\ readers[k] > 0 => RecordsOf(k) # {} \/ StepsOf(k) # {} \/ CallsOf(k) # {}
  <1>1. readers[k] = Cardinality(RecordsOf(k)) + Cardinality(StepsOf(k)) + Cardinality(CallsOf(k))
    BY Exact
  <1>2. /\ Cardinality(RecordsOf(k)) \in Nat /\ Cardinality(StepsOf(k)) \in Nat
        /\ Cardinality(CallsOf(k)) \in Nat
    BY CountsNatural
  <1>3. readers[k] \in Nat
        /\ (readers[k] = 0 <=> /\ Cardinality(RecordsOf(k)) = 0
                              /\ Cardinality(StepsOf(k)) = 0
                              /\ Cardinality(CallsOf(k)) = 0)
    BY <1>1, <1>2
  <1> QED
    BY <1>3, CountsNatural

LEMMA SameHolders ==
  ASSUME ReadersCounted, UNCHANGED <<readers, steps>>,
         \A r \in Record : unread'[r] \cup held'[r] = unread[r] \cup held[r],
         \A t \in Thread : call'[t].pins = call[t].pins
  PROVE  ReadersCounted'
  <1>1. \A k : /\ RecordsOf(k)' = RecordsOf(k) /\ StepsOf(k)' = StepsOf(k)
               /\ CallsOf(k)' = CallsOf(k)
    BY DEF RecordsOf, StepsOf, CallsOf, Sources
  <1> SUFFICES ASSUME NEW k \in Key
               PROVE  readers'[k] = Cardinality(RecordsOf(k)') + Cardinality(StepsOf(k)')
                                       + Cardinality(CallsOf(k)')
    BY DEF ReadersCounted, RecordsOf, StepsOf, CallsOf
  <1> QED
    BY <1>1, Exact

\* A record lets go of some of what it holds.
LEMMA RecordLetsGo ==
  ASSUME ReadersCounted, NEW r \in Record, NEW ks \in SUBSET (unread[r] \cup held[r]),
         LetGo(Once(ks)), UNCHANGED steps,
         unread'[r] \cup held'[r] = (unread[r] \cup held[r]) \ ks,
         \A x \in Record \ {r} : unread'[x] \cup held'[x] = unread[x] \cup held[x],
         \A t \in Thread : call'[t].pins = call[t].pins
  PROVE  ReadersCounted'
  <1> SUFFICES ASSUME NEW k \in Key
               PROVE  readers'[k] = Cardinality(RecordsOf(k)') + Cardinality(StepsOf(k)')
                                       + Cardinality(CallsOf(k)')
    BY DEF ReadersCounted, RecordsOf, StepsOf, CallsOf
  <1>1. StepsOf(k)' = StepsOf(k) /\ CallsOf(k)' = CallsOf(k)
    BY DEF StepsOf, CallsOf, Sources
  <1>2. readers'[k] = readers[k] - (IF k \in ks THEN 1 ELSE 0)
    BY DEF LetGo, Once
  <1>3. RecordsOf(k)' = IF k \in ks THEN RecordsOf(k) \ {r} ELSE RecordsOf(k)
    <2>1. \A x \in Record : k \in unread'[x] \cup held'[x] <=>
              k \in unread[x] \cup held[x] /\ ~(k \in ks /\ x = r)
      OBVIOUS
    <2> QED
      BY <2>1 DEF RecordsOf
  <1>4. k \in ks => r \in RecordsOf(k)
    BY DEF RecordsOf
  <1>5. Cardinality(RecordsOf(k)') = Cardinality(RecordsOf(k)) - (IF k \in ks THEN 1 ELSE 0)
    <2>1. k \in ks => Cardinality(RecordsOf(k) \ {r}) = Cardinality(RecordsOf(k)) - 1
      BY <1>4, AllFinite, FS_RemoveElement
    <2> QED
      BY <1>3, <2>1, CountsNatural
  <1> QED
    BY <1>1, <1>2, <1>5, Exact, CountsNatural

\* A call begins to hold states, or lets go of all it holds.
LEMMA CallPins ==
  ASSUME ReadersCounted, NEW t \in Thread, NEW ks \in SUBSET Key,
         UNCHANGED <<steps, unread, held>>,
         \A u \in Thread \ {t} : call'[u].pins = call[u].pins,
         \/ /\ call[t].pins = {} /\ call'[t].pins = ks
            /\ readers' = [k \in Key |-> readers[k] + Once(ks)[k]]
         \/ /\ call[t].pins = ks /\ call'[t].pins = {}
            /\ LetGo(Once(ks))
  PROVE  ReadersCounted'
  <1> SUFFICES ASSUME NEW k \in Key
               PROVE  readers'[k] = Cardinality(RecordsOf(k)') + Cardinality(StepsOf(k)')
                                       + Cardinality(CallsOf(k)')
    BY DEF ReadersCounted, RecordsOf, StepsOf, CallsOf
  <1>1. StepsOf(k)' = StepsOf(k) /\ RecordsOf(k)' = RecordsOf(k)
    BY DEF StepsOf, RecordsOf, Sources
  <1>2. CASE call[t].pins = {} /\ call'[t].pins = ks /\ readers' = [x \in Key |-> readers[x] + Once(ks)[x]]
    <2>1. CallsOf(k)' = IF k \in ks THEN CallsOf(k) \cup {t} ELSE CallsOf(k)
      <3>1. \A u \in Thread : k \in call'[u].pins <=> k \in call[u].pins \/ (u = t /\ k \in ks)
        BY <1>2
      <3> QED
        BY <3>1 DEF CallsOf
    <2>2. t \notin CallsOf(k)
      BY <1>2 DEF CallsOf
    <2>3. Cardinality(CallsOf(k)') = Cardinality(CallsOf(k)) + (IF k \in ks THEN 1 ELSE 0)
      <3>1. Cardinality(CallsOf(k) \cup {t}) = Cardinality(CallsOf(k)) + 1
        BY <2>2, AllFinite, FS_AddElement
      <3> QED
        BY <2>1, <3>1, CountsNatural
    <2> QED
      BY <1>1, <1>2, <2>3, Exact, CountsNatural DEF Once
  <1>3. CASE call[t].pins = ks /\ call'[t].pins = {} /\ LetGo(Once(ks))
    <2>1. CallsOf(k)' = IF k \in ks THEN CallsOf(k) \ {t} ELSE CallsOf(k)
      <3>1. \A u \in Thread : k \in call'[u].pins <=> k \in call[u].pins /\ u # t
        BY <1>3
      <3> QED
        BY <1>3, <3>1 DEF CallsOf
    <2>2. k \in ks => t \in CallsOf(k)
      BY <1>3 DEF CallsOf
    <2>3. Cardinality(CallsOf(k)') = Cardinality(CallsOf(k)) - (IF k \in ks THEN 1 ELSE 0)
      <3>1. k \in ks => Cardinality(CallsOf(k) \ {t}) = Cardinality(CallsOf(k)) - 1
        BY <2>2, AllFinite, FS_RemoveElement
      <3> QED
        BY <2>1, <3>1, CountsNatural
    <2> QED
      BY <1>1, <1>3, <2>3, Exact, CountsNatural DEF Once, LetGo
  <1> QED
    BY <1>2, <1>3

StepsType == steps \in [Acc -> Seq(SUBSET Record)]

\* A step is logged.
LEMMA StepsGrow ==
  ASSUME ReadersCounted, StepsType, NEW a \in Acc, NEW outs \in SUBSET Record,
         Len(steps[a]) <= MaxPushes,
         steps' = [steps EXCEPT ![a] = Append(@, outs)],
         readers' = [k \in Key |-> readers[k] + Once(Sources(outs))[k]],
         UNCHANGED <<unread, held>>,
         \A t \in Thread : call'[t].pins = call[t].pins
  PROVE  ReadersCounted'
  <1> SUFFICES ASSUME NEW k \in Key
               PROVE  readers'[k] = Cardinality(RecordsOf(k)') + Cardinality(StepsOf(k)')
                                       + Cardinality(CallsOf(k)')
    BY DEF ReadersCounted, RecordsOf, StepsOf, CallsOf
  <1> DEFINE n == Len(steps[a]) + 1
  <1>0. steps[a] \in Seq(SUBSET Record) /\ n \in 1..(MaxPushes + 1)
    BY AccumulatorsAssumption DEF StepsType
  <1>1. RecordsOf(k)' = RecordsOf(k) /\ CallsOf(k)' = CallsOf(k)
    BY DEF RecordsOf, CallsOf
  <1>2. /\ \A b \in Acc \ {a} : steps'[b] = steps[b]
        /\ Len(steps'[a]) = n /\ steps'[a][n] = outs
        /\ \A i \in 1..Len(steps[a]) : steps'[a][i] = steps[a][i]
    BY <1>0 DEF StepsType
  <1>3. StepsOf(k)' = IF k \in Sources(outs) THEN StepsOf(k) \cup {<<a, n>>} ELSE StepsOf(k)
    <2>1. ASSUME NEW b \in Acc, NEW j \in 1..(MaxPushes + 1)
          PROVE  j <= Len(steps'[b]) /\ k \in Sources(steps'[b][j]) <=>
                    \/ j <= Len(steps[b]) /\ k \in Sources(steps[b][j])
                    \/ b = a /\ j = n /\ k \in Sources(outs)
      BY <1>0, <1>2
    <2> QED
      BY <1>0, <2>1 DEF StepsOf, Sources
  <1>4. <<a, n>> \notin StepsOf(k)
    BY <1>0 DEF StepsOf
  <1>5. Cardinality(StepsOf(k)') = Cardinality(StepsOf(k)) + (IF k \in Sources(outs) THEN 1 ELSE 0)
    <2>1. Cardinality(StepsOf(k) \cup {<<a, n>>}) = Cardinality(StepsOf(k)) + 1
      BY <1>4, AllFinite, FS_AddElement
    <2> QED
      BY <1>3, <2>1, CountsNatural
  <1> QED
    BY <1>1, <1>5, Exact, CountsNatural DEF Once

\* The steps after the first i are dropped.
LEMMA StepsCut ==
  ASSUME ReadersCounted, StepsType, NEW a \in Acc, NEW i \in 0..Len(steps[a]),
         Len(steps[a]) <= MaxPushes + 1, Cut(a, i),
         UNCHANGED <<unread, held>>,
         \A t \in Thread : call'[t].pins = call[t].pins
  PROVE  ReadersCounted'
  <1> SUFFICES ASSUME NEW k \in Key
               PROVE  readers'[k] = Cardinality(RecordsOf(k)') + Cardinality(StepsOf(k)')
                                       + Cardinality(CallsOf(k)')
    BY DEF ReadersCounted, RecordsOf, StepsOf, CallsOf
  <1> DEFINE gone == {s \in Rest(a, i) : k \in Sources(steps[s[1]][s[2]])}
  <1>0. steps[a] \in Seq(SUBSET Record) /\ Len(steps[a]) \in Nat
    BY DEF StepsType
  <1>1. RecordsOf(k)' = RecordsOf(k) /\ CallsOf(k)' = CallsOf(k)
    BY DEF RecordsOf, CallsOf
  <1>2. /\ \A b \in Acc \ {a} : steps'[b] = steps[b]
        /\ Len(steps'[a]) = i
        /\ \A j \in 1..i : steps'[a][j] = steps[a][j]
    BY <1>0 DEF StepsType, Cut
  <1>3. readers'[k] = readers[k] - Cardinality(gone)
    BY DEF Cut, LetGo, OfSteps
  <1>4. gone \subseteq StepsOf(k)
    <2>1. \A j \in (i + 1)..Len(steps[a]) : j \in 1..(MaxPushes + 1) /\ j <= Len(steps[a])
      BY <1>0, AccumulatorsAssumption
    <2> QED
      BY <2>1 DEF StepsOf, Rest
  <1>5. StepsOf(k)' = StepsOf(k) \ gone
    <2>1. ASSUME NEW b \in Acc, NEW j \in 1..(MaxPushes + 1)
          PROVE  j <= Len(steps'[b]) /\ k \in Sources(steps'[b][j]) <=>
                    /\ j <= Len(steps[b]) /\ k \in Sources(steps[b][j])
                    /\ ~(b = a /\ j > i)
      BY <1>0, <1>2
    <2>2. ASSUME NEW b \in Acc, NEW j \in 1..(MaxPushes + 1), j <= Len(steps[b]), k \in Sources(steps[b][j])
          PROVE  <<b, j>> \in gone <=> b = a /\ j > i
      BY <1>0, <2>2 DEF Rest
    <2>3. ASSUME NEW s \in Acc \X (1..(MaxPushes + 1))
          PROVE  s[2] <= Len(steps'[s[1]]) /\ k \in Sources(steps'[s[1]][s[2]]) <=>
                    s[2] <= Len(steps[s[1]]) /\ k \in Sources(steps[s[1]][s[2]]) /\ s \notin gone
      <3> HIDE DEF gone
      <3> QED
        BY <2>1, <2>2
    <2> HIDE DEF gone
    <2> QED
      BY <2>3 DEF StepsOf, Sources
  <1> HIDE DEF gone
  <1>6. Cardinality(StepsOf(k)') = Cardinality(StepsOf(k)) - Cardinality(gone)
    <2>1. StepsOf(k) \cap gone = gone
      BY <1>4
    <2> QED
      BY <1>5, <2>1, AllFinite, FS_Difference
  <1>7. Cardinality(gone) \in Nat
    BY <1>4, AllFinite, FS_Subset, FS_CardinalityType
  <1> QED
    BY <1>1, <1>3, <1>6, <1>7, Exact, CountsNatural

\* The first step is done.
LEMMA StepsTail ==
  ASSUME ReadersCounted, StepsType, NEW a \in Acc, steps[a] # <<>>,
         Len(steps[a]) <= MaxPushes + 1,
         steps' = [steps EXCEPT ![a] = Tail(@)],
         LetGo(Once(Sources(Head(steps[a])))),
         UNCHANGED <<unread, held>>,
         \A t \in Thread : call'[t].pins = call[t].pins
  PROVE  ReadersCounted'
  <1> SUFFICES ASSUME NEW k \in Key
               PROVE  readers'[k] = Cardinality(RecordsOf(k)') + Cardinality(StepsOf(k)')
                                       + Cardinality(CallsOf(k)')
    BY DEF ReadersCounted, RecordsOf, StepsOf, CallsOf
  <1> DEFINE rest == StepsOf(k) \ {<<a, 1>>}
             shift == [s \in rest |-> IF s[1] = a THEN <<a, s[2] - 1>> ELSE s]
             reads(b, j) == k \in Sources(steps[b][j])
  <1>0. /\ steps[a] \in Seq(SUBSET Record) /\ Len(steps[a]) \in Nat \ {0}
        /\ MaxPushes + 1 \in Nat \ {0}
    BY AccumulatorsAssumption DEF StepsType
  <1>1. RecordsOf(k)' = RecordsOf(k) /\ CallsOf(k)' = CallsOf(k)
    BY DEF RecordsOf, CallsOf
  <1>2. /\ \A b \in Acc \ {a} : steps'[b] = steps[b]
        /\ Len(steps'[a]) = Len(steps[a]) - 1 /\ Head(steps[a]) = steps[a][1]
        /\ \A j \in 1..(Len(steps[a]) - 1) : steps'[a][j] = steps[a][j + 1]
    BY <1>0 DEF StepsType
  <1>3. <<a, 1>> \in StepsOf(k) <=> k \in Sources(Head(steps[a]))
    BY <1>0, <1>2 DEF StepsOf
  <1>4. /\ IsFiniteSet(rest) /\ Cardinality(rest) \in Nat
        /\ Cardinality(rest) = Cardinality(StepsOf(k)) - (IF k \in Sources(Head(steps[a])) THEN 1 ELSE 0)
    <2> DEFINE S == StepsOf(k)
    <2>1. IsFiniteSet(S) /\ Cardinality(S) \in Nat
      BY AllFinite, CountsNatural
    <2>2. CASE <<a, 1>> \in S
      <3> HIDE DEF S
      <3>1. IsFiniteSet(S \ {<<a, 1>>}) /\ Cardinality(S \ {<<a, 1>>}) = Cardinality(S) - 1
        BY <2>1, <2>2, FS_RemoveElement
      <3>2. Cardinality(S \ {<<a, 1>>}) \in Nat
        BY <3>1, FS_CardinalityType
      <3> QED
        BY <1>3, <2>2, <3>1, <3>2 DEF S
    <2>3. CASE <<a, 1>> \notin S
      <3>1. rest = S
        BY <2>3
      <3>2. k \notin Sources(Head(steps[a]))
        BY <1>3, <2>3
      <3>3. IsFiniteSet(rest) /\ Cardinality(rest) \in Nat /\ Cardinality(rest) = Cardinality(StepsOf(k))
        BY <2>1, <3>1
      <3> HIDE DEF rest
      <3> QED
        BY <3>2, <3>3
    <2> QED
      BY <2>2, <2>3
  <1>5. \A b \in Acc : \A j \in 1..(MaxPushes + 1) :
           <<b, j>> \in StepsOf(k)' <=>
              IF b = a THEN j + 1 <= Len(steps[a]) /\ k \in Sources(steps[a][j + 1])
                       ELSE j <= Len(steps[b]) /\ k \in Sources(steps[b][j])
    BY <1>0, <1>2 DEF StepsOf, Sources
  <1>6. \A b \in Acc : \A j \in 1..(MaxPushes + 1) :
           <<b, j>> \in rest <=>
              j <= Len(steps[b]) /\ k \in Sources(steps[b][j]) /\ (b = a => j # 1)
    BY DEF StepsOf
  <1>7. /\ \A s \in rest : \E b \in Acc, j \in 1..(MaxPushes + 1) : s = <<b, j>>
        /\ \A s \in StepsOf(k)' : \E b \in Acc, j \in 1..(MaxPushes + 1) : s = <<b, j>>
    BY DEF StepsOf
  <1> HIDE DEF rest
  <1>8. shift \in [rest -> StepsOf(k)']
    <2> SUFFICES ASSUME NEW b \in Acc, NEW j \in 1..(MaxPushes + 1), <<b, j>> \in rest
                 PROVE  (IF b = a THEN <<a, j - 1>> ELSE <<b, j>>) \in StepsOf(k)'
      BY <1>7
    <2>1. CASE b = a
      <3>1. j - 1 \in 1..(MaxPushes + 1) /\ (j - 1) + 1 = j
        BY <1>0, <1>6, <2>1
      <3> QED
        BY <1>5, <1>6, <2>1, <3>1
    <2>2. CASE b # a
      BY <1>5, <1>6, <2>2
    <2> QED
      BY <2>1, <2>2
  <1>9. \A s, u \in rest : shift[s] = shift[u] => s = u
    <2> SUFFICES ASSUME NEW b \in Acc, NEW j \in 1..(MaxPushes + 1), <<b, j>> \in rest,
                        NEW c \in Acc, NEW l \in 1..(MaxPushes + 1), <<c, l>> \in rest,
                        shift[<<b, j>>] = shift[<<c, l>>]
                 PROVE  <<b, j>> = <<c, l>>
      BY <1>7
    <2> QED
      BY <1>0
  <1>10. \A u \in StepsOf(k)' : \E s \in rest : shift[s] = u
    <2> SUFFICES ASSUME NEW u \in StepsOf(k)' PROVE \E s \in rest : shift[s] = u
      OBVIOUS
    <2>3. PICK b \in Acc, j \in 1..(MaxPushes + 1) : u = <<b, j>>
      BY <1>7
    <2>1. CASE b = a
      <3>1. j + 1 \in 1..(MaxPushes + 1) /\ <<a, j + 1>> \in rest
        BY <1>0, <1>5, <1>6, <2>1, <2>3
      <3>2. shift[<<a, j + 1>>] = <<a, j>>
        BY <3>1
      <3> QED
        BY <2>1, <2>3, <3>1, <3>2
    <2>2. CASE b # a
      BY <1>5, <1>6, <2>2, <2>3
    <2> QED
      BY <2>1, <2>2
  <1>11. Cardinality(StepsOf(k)') = Cardinality(rest)
    <2>1. shift \in Bijection(rest, StepsOf(k)')
      <3> HIDE DEF shift
      <3> QED
        BY <1>8, <1>9, <1>10, Fun_IsBij
    <2> QED
      BY <1>4, <2>1, FS_Bijection DEF ExistsBijection
  <1> QED
    BY <1>1, <1>4, <1>11, Exact, CountsNatural DEF Once, LetGo

\* New records hold what they reference.
LEMMA RecordsJoin ==
  ASSUME ReadersCounted, NEW made \in SUBSET Record, NEW new \in [made -> SUBSET Key],
         \A r \in made : unread[r] = {} /\ held[r] = {},
         unread' = [r \in Record |-> IF r \in made THEN new[r] ELSE unread[r]],
         readers' = [k \in Key |-> readers[k] + Cardinality({r \in made : k \in new[r]})],
         UNCHANGED <<steps, held>>,
         \A t \in Thread : call'[t].pins = call[t].pins
  PROVE  ReadersCounted'
  <1> SUFFICES ASSUME NEW k \in Key
               PROVE  readers'[k] = Cardinality(RecordsOf(k)') + Cardinality(StepsOf(k)')
                                       + Cardinality(CallsOf(k)')
    BY DEF ReadersCounted, RecordsOf, StepsOf, CallsOf
  <1> DEFINE join == {r \in made : k \in new[r]}
  <1>1. StepsOf(k)' = StepsOf(k) /\ CallsOf(k)' = CallsOf(k)
    BY DEF StepsOf, CallsOf, Sources
  <1>2. RecordsOf(k)' = RecordsOf(k) \cup join /\ RecordsOf(k) \cap join = {}
    BY DEF RecordsOf
  <1>3. readers'[k] = readers[k] + Cardinality(join)
    OBVIOUS
  <1>4. IsFiniteSet(join)
    BY AllFinite, FS_Subset
  <1> HIDE DEF join
  <1>5. Cardinality(join) \in Nat
    BY <1>4, FS_CardinalityType
  <1>6. Cardinality(RecordsOf(k)') = Cardinality(RecordsOf(k)) + Cardinality(join)
    <2>1. Cardinality(RecordsOf(k) \cup join) =
             Cardinality(RecordsOf(k)) + Cardinality(join) - Cardinality(RecordsOf(k) \cap join)
      BY <1>4, AllFinite, FS_Union
    <2>2. Cardinality(RecordsOf(k) \cap join) = 0
      BY <1>2, FS_EmptySet
    <2> QED
      BY <1>2, <1>5, <2>1, <2>2, CountsNatural
  <1> QED
    BY <1>1, <1>3, <1>5, <1>6, Exact, CountsNatural

-----------------------------------------------------------------------------
(* Keys, and the records a call logs *)

LEMMA Keys ==
  /\ \A r \in Record : Out(r) \in Key /\ Out(r) \notin State /\ Out(r)[2] = r /\ Out(r)[1] \notin Acc
  /\ \A k \in Key \ State : \E r \in Record : k = Out(r)
  /\ \A k \in State : k \in Key /\ k[1] \in Acc /\ k[2] \in 0..MaxPushes /\ k = <<k[1], k[2]>>
  /\ \A a \in Acc, n \in 0..MaxPushes : <<a, n>> \in State
  /\ \A rs \in SUBSET Record : Sources(rs) \in SUBSET Key /\ \A r \in Record : Out(r) \in Sources(rs) <=> r \in rs
  /\ \A rs \in SUBSET Record : Sources(rs) \cap State = {}
  BY AccumulatorsAssumption DEF Key, State, Out, Sources

LEMMA Counts == MaxRecords \in Nat /\ MaxPushes \in Nat /\ Record = 1..MaxRecords
  BY AccumulatorsAssumption DEF Record

\* What an accumulator has, one by one.
LEMMA CountsOf ==
  ASSUME CoreInv, NEW a \in Acc
  PROVE  /\ added[a] \in None..MaxPushes /\ added[a] \in Int
         /\ pushes[a] \in None..MaxPushes /\ pushes[a] \in Int
  BY Counts DEF CoreInv, Types, None

LEMMA StepsFor ==
  ASSUME CoreInv, NEW a \in Acc
  PROVE  steps[a] \in Seq(SUBSET Record) /\ Len(steps[a]) \in Nat
  BY LenProperties DEF CoreInv, Types

LEMMA Reaches ==
  ASSUME CoreInv, NEW a \in Acc
  PROVE  added[a] + Len(steps[a]) <= pushes[a] /\ (busy[a] => steps[a] # <<>>)
  BY DEF CoreInv, Progress

\* What a new record references: one state its call has pinned, or outputs that
\* the client may read, or of the records logged with it.
References(t, made, ks) ==
    \/ \E p \in call[t].pins : ks = {p}
    \/ \E rs \in SUBSET Record : ks = Sources(rs) /\ \A x \in rs : x \in made \/ MayRead(x)

\* These outputs are of records logged before it, or that its call asked for.
Names(t, made, r, ks) ==
    \A x \in Record : Out(x) \in ks =>
        \/ x \in made /\ x < r
        \/ MayRead(x) /\ \E i \in DOMAIN call[t].requests : x \in call[t].requests[i].outs

\* What Create and Freeze do.
Logs(t, made, new) ==
    /\ made = (count + 1)..count' /\ count' \in count..MaxRecords
    /\ new \in [made -> SUBSET Key]
    /\ LogRecords(new)
    /\ \A r \in made : References(t, made, new[r]) /\ Names(t, made, r, new[r])
    /\ \A r \in kept' \ kept : new[r] \cap State = {} \/ \E a \in Acc : frozen'[a] = r
    /\ kept \subseteq kept' /\ kept' \subseteq kept \cup made
    /\ call' = [call EXCEPT ![t].phase = "ending"]
    /\ call[t].phase = "checking"
    /\ \/ UNCHANGED frozen
       \/ \E p \in call[t].pins :
            /\ call[t].op = "freeze" /\ ~stopped[p[1]] /\ p[1] \in open
            /\ made = {count + 1} /\ new[count + 1] = {p}
            /\ frozen' = [frozen EXCEPT ![p[1]] = count + 1]

LEMMA PinsFinite ==
  ASSUME Types, NEW t \in Thread
  PROVE  IsFiniteSet(call[t].pins) /\ Cardinality(call[t].pins) \in Nat
  <1>1. IsFiniteSet(0..MaxPushes)
    BY Counts, FS_Interval
  <1>2. IsFiniteSet(State)
    BY <1>1, FS_Product, AccumulatorsAssumption DEF State
  <1>3. call[t].pins \in SUBSET State
    BY DEF Types, Calls
  <1> QED
    BY <1>2, <1>3, FS_Subset, FS_CardinalityType

LEMMA FreezeLogs ==
  ASSUME Types, NEW t \in Thread, Freeze(t)
  PROVE  ~Locked /\ \E made \in SUBSET Record : \E new : Logs(t, made, new)
  <1> DEFINE r == count + 1
  <1>1. PICK p \in call[t].pins :
          /\ ~Locked
          /\ call[t].op = "freeze" /\ call[t].phase = "checking"
          /\ p[1] \in open /\ ~stopped[p[1]]
          /\ count < MaxRecords
          /\ LogRecords([x \in {r} |-> {p}])
          /\ kept' = kept \cup {r}
          /\ frozen' = [frozen EXCEPT ![p[1]] = r]
          /\ call' = [call EXCEPT ![t].phase = "ending"]
    BY DEF Freeze
  <1> DEFINE new == [x \in {r} |-> {p}]
  <1>2. p \in Key
    BY <1>1, Keys DEF Types, Calls
  <1>3. count \in Nat /\ r \in Record
    BY <1>1, Counts DEF Types
  <1>4. count' = r
    <2>1. count' = count + Cardinality({r})
      BY <1>1 DEF LogRecords
    <2> QED
      BY <1>3, <2>1, FS_Singleton
  <1>5. (count + 1)..count' = {r} /\ count' \in count..MaxRecords
    BY <1>1, <1>3, <1>4, Counts
  <1>6. new \in [{r} -> SUBSET Key] /\ new[r] = {p}
    BY <1>2
  <1>7. \A x \in {r} : References(t, {r}, new[x]) /\ Names(t, {r}, x, new[x])
    <2>1. p \in State
      BY <1>1 DEF Types, Calls
    <2>2. \A x \in Record : Out(x) \notin new[r]
      BY <1>6, <2>1, Keys
    <2> QED
      BY <1>6, <2>2 DEF References, Names
  <1> HIDE DEF new
  <1>8. LogRecords(new)
    BY <1>1 DEF new
  <1>9. frozen'[p[1]] = r /\ p[1] \in Acc
    BY <1>1 DEF Types
  <1>10. Logs(t, {r}, new)
    BY <1>1, <1>5, <1>6, <1>7, <1>8, <1>9 DEF Logs
  <1> QED
    BY <1>1, <1>3, <1>10

LEMMA CreateLogs ==
  ASSUME Types, NEW t \in Thread, Create(t)
  PROVE  ~Locked /\ \E made \in SUBSET Record : \E new : Logs(t, made, new)
  <1> DEFINE pins == call[t].pins
             requests == call[t].requests
             first == count + Cardinality(pins)
             last == first + Len(requests)
             made == (count + 1)..last
  <1>1. PICK stateRecord \in Bijection(pins, (count + 1)..first) :
          LogRecords([r \in made |->
              IF r <= first
              THEN {p \in pins : stateRecord[p] = r}
              ELSE Sources(requests[r - first].outs \cup
                           {stateRecord[p] : p \in {s \in pins :
                               s[1] \in requests[r - first].accs}})])
    BY DEF Create
  <1> DEFINE new == [r \in made |->
              IF r <= first
              THEN {p \in pins : stateRecord[p] = r}
              ELSE Sources(requests[r - first].outs \cup
                           {stateRecord[p] : p \in {s \in pins :
                               s[1] \in requests[r - first].accs}})]
  <1>2. /\ ~Locked
        /\ call[t].op = "submit" /\ call[t].phase = "checking"
        /\ \A i \in DOMAIN requests : Accepted(requests[i], pins)
        /\ last <= MaxRecords
        /\ kept' = kept \cup ((first + 1)..last)
        /\ call' = [call EXCEPT ![t].phase = "ending"]
        /\ frozen' = frozen
    BY DEF Create
  <1>3. /\ pins \subseteq State /\ requests \in Seq([outs : SUBSET Record, accs : SUBSET Acc])
        /\ DOMAIN requests = 1..Len(requests)
    <2>1. call[t] \in Calls
      BY DEF Types
    <2>2. pins \subseteq State /\ requests \in Seq([outs : SUBSET Record, accs : SUBSET Acc])
      BY <2>1 DEF Calls
    <2> QED
      BY <2>2, LenProperties
  <1>4. count \in Nat /\ Cardinality(pins) \in Nat /\ Len(requests) \in Nat
    <2>1. count \in Nat
      BY Counts DEF Types
    <2>2. Cardinality(pins) \in Nat
      BY PinsFinite
    <2>3. Len(requests) \in Nat
      BY <1>3, LenProperties
    <2> QED
      BY <2>1, <2>2, <2>3
  <1> HIDE DEF pins, requests
  <1>5. first \in Nat /\ last \in Nat /\ count <= first /\ first <= last
    BY <1>4
  <1>6. made \subseteq Record /\ (count + 1)..first \subseteq made /\ (first + 1)..last \subseteq made
    <2>1. made = (count + 1)..last /\ count \in Nat /\ last <= MaxRecords
      BY <1>2, <1>4
    <2> QED
      BY <1>5, <2>1, Counts
  <1>7. count' = last
    <2>1. count' = count + Cardinality(made)
      BY <1>1 DEF LogRecords
    <2>2. Cardinality(made) = last - count
      <3>1. count + 1 \in Int /\ last \in Int
        BY <1>4, <1>5
      <3>2. Cardinality(made) = IF count + 1 > last THEN 0 ELSE last - (count + 1) + 1
        BY <3>1, FS_Interval
      <3> QED
        BY <1>4, <1>5, <3>2
    <2> QED
      BY <1>4, <1>5, <2>1, <2>2
  <1> HIDE DEF first
  <1>8. /\ stateRecord \in [pins -> (count + 1)..first]
        /\ \A p, q \in pins : stateRecord[p] = stateRecord[q] => p = q
        /\ \A r \in (count + 1)..first : \E p \in pins : stateRecord[p] = r
    <2> DEFINE made1 == (count + 1)..first
    <2>1. stateRecord \in Bijection(pins, made1)
      OBVIOUS
    <2> HIDE DEF made1
    <2>2. /\ stateRecord \in [pins -> made1]
          /\ \A p, q \in pins : stateRecord[p] = stateRecord[q] => p = q
          /\ \A r \in made1 : \E p \in pins : stateRecord[p] = r
      BY <2>1, Fun_BijectionProperties
    <2> QED
      BY <2>2 DEF made1
  <1>9. \A r \in made : /\ new[r] \in SUBSET Key /\ References(t, made, new[r])
                        /\ Names(t, made, r, new[r]) /\ (r > first => new[r] \cap State = {})
    <2> SUFFICES ASSUME NEW r \in made
                 PROVE  /\ new[r] \in SUBSET Key /\ References(t, made, new[r])
                        /\ Names(t, made, r, new[r]) /\ (r > first => new[r] \cap State = {})
      OBVIOUS
    <2>0. r \in Int
      BY <1>4, <1>5
    <2>1. CASE r <= first
      <3>1. r \in (count + 1)..first
        BY <1>4, <1>5, <2>1
      <3>2. PICK p \in pins : stateRecord[p] = r
        BY <1>8, <3>1
      <3>3. new[r] = {p}
        BY <1>8, <2>1, <3>2
      <3>4. p \in Key /\ \A x \in Record : Out(x) \notin new[r]
        BY <1>3, <3>3, Keys
      <3>5. References(t, made, new[r])
        BY <3>3 DEF References, pins
      <3>6. Names(t, made, r, new[r])
        BY <3>4 DEF Names
      <3> QED
        BY <1>5, <2>0, <2>1, <3>3, <3>4, <3>5, <3>6
    <2>2. CASE ~(r <= first)
      <3> DEFINE q == requests[r - first]
                 rs == q.outs \cup {stateRecord[p] : p \in {s \in pins : s[1] \in q.accs}}
      <3>1. r - first \in 1..Len(requests)
        BY <1>4, <1>5, <2>2
      <3>2. q.outs \subseteq Record /\ \A x \in q.outs : MayRead(x)
        <4>1. q \in [outs : SUBSET Record, accs : SUBSET Acc]
          BY <1>3, <3>1, ElementOfSeq
        <4>2. Accepted(q, pins)
          BY <1>2, <1>3, <3>1
        <4> QED
          BY <4>1, <4>2 DEF Accepted
      <3>3. new[r] = Sources(rs)
        BY <2>2
      <3>4. \A x \in rs : x \in made \/ MayRead(x)
        BY <1>6, <1>8, <3>2
      <3>5. rs \subseteq Record
        BY <1>6, <1>8, <3>2
      <3>6. \A x \in rs : (x \in made /\ x < r) \/ (MayRead(x) /\ x \in requests[r - first].outs)
        <4>1. \A x \in (count + 1)..first : x \in made /\ x < r
          BY <1>4, <1>5, <1>6, <2>0, <2>2
        <4>2. \A p \in pins : stateRecord[p] \in (count + 1)..first
          BY <1>8
        <4> HIDE DEF made
        <4>3. \A p \in pins : stateRecord[p] \in made /\ stateRecord[p] < r
          BY <4>1, <4>2
        <4>4. \A x \in q.outs : MayRead(x) /\ x \in requests[r - first].outs
          BY <3>2
        <4>5. \A x \in rs : x \in q.outs \/ \E p \in pins : x = stateRecord[p]
          OBVIOUS
        <4> SUFFICES ASSUME NEW x \in rs
                     PROVE  (x \in made /\ x < r) \/ (MayRead(x) /\ x \in requests[r - first].outs)
          OBVIOUS
        <4>6. CASE x \in q.outs
          BY <4>4, <4>6
        <4>7. CASE \E p \in pins : x = stateRecord[p]
          BY <4>3, <4>7
        <4> QED
          BY <4>5, <4>6, <4>7
      <3> HIDE DEF rs
      <3>7. References(t, made, new[r])
        BY <3>3, <3>4, <3>5 DEF References
      <3>8. Names(t, made, r, new[r])
        BY <1>3, <3>1, <3>3, <3>5, <3>6, Keys DEF Names, requests
      <3>9. Sources(rs) \in SUBSET Key /\ Sources(rs) \cap State = {}
        BY <3>5, Keys
      <3> HIDE DEF new, made
      <3> QED
        BY <3>3, <3>7, <3>8, <3>9
    <2> QED
      BY <2>1, <2>2
  <1>10. new \in [made -> SUBSET Key]
    BY <1>9
  <1>11. made = (count + 1)..count' /\ count' \in count..MaxRecords
    BY <1>2, <1>4, <1>5, <1>7, Counts
  <1>12. /\ kept \subseteq kept' /\ kept' \subseteq kept \cup made
         /\ \A r \in kept' \ kept : new[r] \cap State = {}
    <2>1. \A r \in (first + 1)..last : r > first
      BY <1>5
    <2> QED
      BY <1>2, <1>6, <1>9, <2>1
  <1>13. LogRecords(new)
    BY <1>1
  <1> HIDE DEF new, made
  <1>14. Logs(t, made, new)
    BY <1>2, <1>9, <1>10, <1>11, <1>12, <1>13 DEF Logs
  <1> QED
    BY <1>2, <1>6, <1>14 DEF made

-----------------------------------------------------------------------------
(* The counter is exact: each action preserves CoreInv *)

LEMMA InitCore == Init => CoreInv
  <1> SUFFICES ASSUME Init PROVE CoreInv
    OBVIOUS
  <1>1. Types
    <2>1. Idle \in Calls
      BY DEF Idle, Calls
    <2>2. None \in None..MaxPushes /\ None \in Int /\ 0 \in 0..MaxRecords
      BY Counts DEF None
    <2>3. <<>> \in Seq(SUBSET Record)
      BY EmptySeq
    <2> QED
      BY <2>1, <2>2, <2>3 DEF Init, Types, Statuses
  <1>2. Fresh
    BY Counts DEF Init, Fresh
  <1>3. Places /\ Frozen
    BY DEF Init, Places, Pending, Frozen
  <1>4. Progress
    BY DEF Init, Progress, None
  <1>5. InCalls
    BY DEF Init, InCalls, Idle
  <1>6. ReadersCounted
    <2>1. \A k \in Key : RecordsOf(k) = {} /\ StepsOf(k) = {} /\ CallsOf(k) = {}
      BY DEF Init, RecordsOf, StepsOf, CallsOf, Idle
    <2>2. \A k \in Key : readers[k] = 0
      BY DEF Init
    <2> QED
      BY <2>1, <2>2, FS_EmptySet, Exact
  <1> QED
    BY <1>1, <1>2, <1>3, <1>4, <1>5, <1>6 DEF CoreInv

LEMMA PhaseCalls ==
  ASSUME Types, NEW t \in Thread, NEW phase \in {"idle", "checking", "waiting", "copying", "ending"},
         call' = [call EXCEPT ![t].phase = phase]
  PROVE  /\ call' \in [Thread -> Calls]
         /\ \A u \in Thread : /\ call'[u].pins = call[u].pins /\ call'[u].op = call[u].op
                              /\ u # t => call'[u] = call[u]
         /\ call'[t].phase = phase
  <1>1. call \in [Thread -> Calls] /\ call[t] \in Calls
    BY DEF Types
  <1>2. /\ \A u \in Thread \ {t} : call'[u] = call[u]
        /\ call'[t] = [call[t] EXCEPT !.phase = phase]
    BY <1>1
  <1>3. /\ call'[t] \in Calls /\ call'[t].phase = phase
        /\ call'[t].pins = call[t].pins /\ call'[t].op = call[t].op
    BY <1>1, <1>2 DEF Calls
  <1> QED
    BY <1>1, <1>2, <1>3

LEMMA LogsFresh ==
  ASSUME CoreInv, NEW t \in Thread, NEW made \in SUBSET Record, NEW new, Logs(t, made, new)
  PROVE  /\ \A r \in made : /\ status[r] = "none" /\ at[r] = "idle" /\ r \notin queued /\ r \notin kept
                            /\ r \notin memory /\ unread[r] = {} /\ held[r] = {} /\ waiting[r] = {}
         /\ \A r \in Record : r > count' <=> r > count /\ r \notin made
         /\ \A r \in Record : r <= count => r \notin made
  <1>1. count \in Nat /\ count' \in Nat /\ count <= count' /\ made = (count + 1)..count'
    BY Counts DEF Logs, CoreInv, Types
  <1>2. \A r \in made : r > count
    BY <1>1
  <1>3. \A r \in Record : r \in Nat
    BY Counts
  <1> QED
    BY <1>1, <1>2, <1>3 DEF CoreInv, Fresh, Places

LEMMA LogsCore ==
  ASSUME CoreInv, NEW t \in Thread, NEW made \in SUBSET Record, NEW new, Logs(t, made, new)
  PROVE  CoreInv'
  <1>0. /\ \A r \in made : /\ status[r] = "none" /\ at[r] = "idle" /\ r \notin queued /\ r \notin kept
                           /\ r \notin memory /\ unread[r] = {} /\ held[r] = {} /\ waiting[r] = {}
        /\ \A r \in Record : r > count' <=> r > count /\ r \notin made
        /\ \A r \in Record : r <= count => r \notin made
    BY LogsFresh
  <1>1. /\ new \in [made -> SUBSET Key] /\ DOMAIN new = made
        /\ count' \in 0..MaxRecords
        /\ call' = [call EXCEPT ![t].phase = "ending"] /\ call[t].phase = "checking"
        /\ kept \subseteq kept' /\ kept' \subseteq kept \cup made
    BY Counts DEF Logs, CoreInv, Types
  <1>2. /\ status' = [r \in Record |-> IF r \in made THEN "pending" ELSE status[r]]
        /\ refs' = [r \in Record |-> IF r \in made THEN new[r] ELSE refs[r]]
        /\ unread' = [r \in Record |-> IF r \in made THEN new[r] ELSE unread[r]]
        /\ readers' = [k \in Key |-> readers[k] + Cardinality({r \in made : k \in new[r]})]
        /\ stateOf' = stateOf \cup {r \in made : new[r] \cap State # {}}
        /\ \A r \in Record \ made : waiting'[r] = waiting[r]
        /\ \A r \in made : waiting'[r] \subseteq new[r] /\ (r \in queued' => waiting'[r] = {} \/ r \in queued)
        /\ waiting' \in [Record -> SUBSET Key]
        /\ \A k \in Key : dependents'[k] \subseteq dependents[k] \cup made
        /\ dependents' \in [Key -> SUBSET Record]
        /\ queued \subseteq queued' /\ queued' \subseteq queued \cup made
    BY <1>1 DEF Logs, LogRecords, CoreInv, Types
  <1>3. UNCHANGED <<pushes, held, memory, at, open, steps, added, busy, driver, computed, stopped,
                    released, freezing, todo, drops, ready, leaving>>
    BY DEF Logs, LogRecords, progress, work
  <1>4. frozen' \in [Acc -> 0..MaxRecords]
        /\ \A a \in Acc : frozen'[a] = frozen[a] \/
              \E p \in call[t].pins : /\ p[1] = a /\ call[t].op = "freeze" /\ ~stopped[a] /\ a \in open
                                      /\ made = {count + 1}
                                      /\ new[count + 1] = {p} /\ frozen'[a] = count + 1
    <2>1. made = {count + 1} => count + 1 \in 0..MaxRecords
      <3>1. made = {count + 1} => count + 1 \in 1..MaxRecords
        BY Counts
      <3> QED
        BY <3>1, Counts
    <2>2. \A p \in call[t].pins : p[1] \in Acc
      BY Keys DEF CoreInv, Types, Calls
    <2>3. frozen \in [Acc -> 0..MaxRecords]
      BY DEF CoreInv, Types
    <2>4. CASE UNCHANGED frozen
      BY <2>3, <2>4
    <2>5. CASE \E p \in call[t].pins :
                 /\ call[t].op = "freeze" /\ ~stopped[p[1]] /\ p[1] \in open
                 /\ made = {count + 1} /\ new[count + 1] = {p}
                 /\ frozen' = [frozen EXCEPT ![p[1]] = count + 1]
      BY <2>1, <2>2, <2>3, <2>5
    <2> QED
      BY <2>4, <2>5 DEF Logs
  <1>5. /\ \A u \in Thread : /\ call'[u].pins = call[u].pins /\ call'[u].op = call[u].op
                             /\ u # t => call'[u] = call[u]
        /\ call'[t].phase = "ending" /\ call' \in [Thread -> Calls]
    BY <1>1, PhaseCalls DEF CoreInv
  <1>6. Types'
    <2>1. status' \in [Record -> Statuses] /\ refs' \in [Record -> SUBSET Key]
          /\ unread' \in [Record -> SUBSET Key]
      BY <1>1, <1>2 DEF CoreInv, Types, Statuses
    <2>2. readers' \in [Key -> Int]
      <3> DEFINE join(k) == {r \in made : k \in new[r]}
      <3>1. \A k \in Key : join(k) \in SUBSET Record
        OBVIOUS
      <3>2. readers' = [k \in Key |-> readers[k] + Cardinality(join(k))]
        BY <1>2
      <3> HIDE DEF join
      <3>3. \A k \in Key : Cardinality(join(k)) \in Nat
        BY <3>1, AllFinite, FS_Subset, FS_CardinalityType
      <3>4. \A k \in Key : readers[k] \in Int
        BY DEF CoreInv, Types
      <3> QED
        BY <3>2, <3>3, <3>4
    <2> QED
      BY <1>1, <1>2, <1>3, <1>4, <1>5, <2>1, <2>2 DEF CoreInv, Types
  <1>7. Fresh'
    <2>1. \A r \in Record : status'[r] = "none" <=> r > count'
      BY <1>0, <1>2 DEF CoreInv, Fresh
    <2>2. \A r \in Record : r > count' =>
              /\ unread'[r] = {} /\ held'[r] = {} /\ waiting'[r] = {} /\ at'[r] = "idle"
              /\ r \notin queued' /\ r \notin kept'
      BY <1>0, <1>1, <1>2, <1>3 DEF CoreInv, Fresh
    <2>3. \A a \in Acc : pushes[a] = None => frozen'[a] = 0
      BY <1>4 DEF CoreInv, Fresh
    <2> QED
      BY <1>3, <2>1, <2>2, <2>3 DEF CoreInv, Fresh
  <1>8. Places'
    <2>1. \A r \in made : \A k \in new[r] \cap State : new[r] = {k}
      BY Keys DEF Logs, References
    <2> QED
      BY <1>0, <1>1, <1>2, <1>3, <2>1 DEF CoreInv, Places, Pending
  <1>9. Progress'
    BY <1>3 DEF CoreInv, Progress
  <1>10. InCalls'
    <2>0. /\ \A u \in Thread : \A p \in call[u].pins : p \in State
          /\ \A a \in Acc : frozen[a] # 0 => frozen[a] \in Record
      BY Counts DEF CoreInv, Types, Calls
    <2>1. ASSUME NEW u \in Thread, call[u].op = "freeze", NEW p \in call[u].pins, call'[u].phase = "checking"
          PROVE  frozen'[p[1]] = 0 \/ status'[frozen'[p[1]]] # "pending"
      <3>1. u # t /\ call[u].phase = "checking"
        BY <1>5, <2>1
      <3>2. p[1] \in Acc /\ p = <<p[1], p[2]>> /\ pushes[p[1]] = p[2]
        BY <2>0, <2>1, Keys DEF CoreInv, InCalls
      <3>3. frozen'[p[1]] = frozen[p[1]]
        <4> SUFFICES ASSUME NEW q \in call[t].pins, q[1] = p[1], call[t].op = "freeze" PROVE FALSE
          BY <1>4, <3>2
        <4>1. pushes[q[1]] = q[2] /\ q = <<q[1], q[2]>>
          BY <2>0, Keys DEF CoreInv, InCalls
        <4>2. q = p
          BY <3>2, <4>1
        <4> QED
          BY <2>1, <3>1, <4>2 DEF CoreInv, InCalls
      <3>4. frozen[p[1]] = 0 \/ status[frozen[p[1]]] # "pending"
        BY <2>1, <3>1 DEF CoreInv, InCalls, Pending
      <3>5. frozen[p[1]] # 0 => frozen[p[1]] \in Record /\ frozen[p[1]] <= count
        BY <2>0, <3>2 DEF CoreInv, Frozen
      <3> QED
        BY <1>0, <1>2, <3>3, <3>4, <3>5
    <2>2. call'[t].phase \notin {"idle", "checking", "copying"} /\ call[t].phase = "checking"
      BY <1>1, <1>5
    <2>3. \A u \in Thread : /\ call'[u].phase = "idle" => call'[u] = Idle
                            /\ call'[u].op = "none" => call'[u].phase = "idle"
                            /\ call'[u].op = "submit" => call'[u].phase \in {"checking", "ending"}
                            /\ call'[u].op \in {"freeze", "read"} => \E p \in State : call'[u].pins = {p}
                            /\ call'[u].op = "freeze" => \A p \in call'[u].pins :
                                   freezing[p[1]] /\ pushes[p[1]] = p[2]
      BY <1>5, <2>2 DEF CoreInv, InCalls
    <2>4. \A u, w \in Thread : \A p \in call'[u].pins \cap call'[w].pins :
             call'[u].op = "freeze" /\ call'[w].op = "freeze" => u = w
      BY <1>5 DEF CoreInv, InCalls
    <2> QED
      BY <1>3, <1>5, <2>1, <2>3, <2>4 DEF InCalls, Pending
  <1>11. Frozen'
    <2> SUFFICES ASSUME NEW a \in Acc, frozen'[a] # 0
                 PROVE  /\ frozen'[a] <= count'
                        /\ refs'[frozen'[a]] = {<<a, pushes[a]>>}
                        /\ status'[frozen'[a]] = "completed" => stopped[a]
      BY <1>3 DEF Frozen
    <2>1. CASE frozen'[a] = frozen[a]
      <3>1. frozen[a] \in Record /\ frozen[a] <= count /\ frozen[a] \notin made /\ ~(frozen[a] > count')
        BY <1>0, <2>1, Counts DEF CoreInv, Types, Frozen
      <3>2. frozen[a] <= count'
        BY <1>1, <3>1, Counts
      <3> QED
        BY <1>2, <2>1, <3>1, <3>2 DEF CoreInv, Frozen
    <2>2. CASE frozen'[a] # frozen[a]
      <3>1. PICK p \in call[t].pins : /\ p[1] = a /\ call[t].op = "freeze" /\ made = {count + 1}
                                      /\ new[count + 1] = {p} /\ frozen'[a] = count + 1
        BY <1>4, <2>2
      <3>2. p = <<a, pushes[a]>>
        BY <3>1, Keys DEF CoreInv, InCalls, Types, Calls
      <3>3. count + 1 \in Record /\ count + 1 <= count'
        BY <1>0, <1>1, <3>1, Counts DEF CoreInv, Types
      <3> QED
        BY <1>2, <3>1, <3>2, <3>3
    <2> QED
      BY <2>1, <2>2
  <1>12. ReadersCounted'
    <2>1. \A r \in made : unread[r] = {} /\ held[r] = {}
      BY <1>0
    <2>2. \A u \in Thread : call'[u].pins = call[u].pins
      BY <1>5
    <2> QED
      BY <1>1, <1>2, <1>3, <2>1, <2>2, RecordsJoin DEF CoreInv
  <1> QED
    BY <1>6, <1>7, <1>8, <1>9, <1>10, <1>11, <1>12 DEF CoreInv

\* The counter's type, from its being exact.
LEMMA CounterType ==
  ASSUME ReadersCounted', readers' = [k \in Key |-> readers'[k]]
  PROVE  readers' \in [Key -> Int]
  <1>1. \A k \in Key : readers'[k] = Cardinality(RecordsOf(k)') + Cardinality(StepsOf(k)')
                                        + Cardinality(CallsOf(k)')
    BY DEF ReadersCounted, RecordsOf, StepsOf, CallsOf
  <1>2. (\A k : /\ Cardinality(RecordsOf(k)) \in Nat /\ Cardinality(StepsOf(k)) \in Nat
                /\ Cardinality(CallsOf(k)) \in Nat
                /\ Cardinality(RecordsOf(k)) = 0 <=> RecordsOf(k) = {}
                /\ Cardinality(StepsOf(k)) = 0 <=> StepsOf(k) = {}
                /\ Cardinality(CallsOf(k)) = 0 <=> CallsOf(k) = {})'
    BY CountsNatural, PTL
  <1> QED
    BY <1>1, <1>2

LEMMA EmptiedKeys == \A less : Emptied(less) \subseteq Key
  BY DEF Emptied

LEMMA OpenCore ==
  ASSUME CoreInv, NEW a \in Acc, NEW outs \in SUBSET Record, Open(a, outs)
  PROVE  CoreInv'
  <1>1. /\ pushes[a] = None /\ pushes' = [pushes EXCEPT ![a] = 0] /\ open' = open \cup {a}
        /\ steps' = [steps EXCEPT ![a] = <<outs>>] /\ ready' = {a}
        /\ readers' = [k \in Key |-> readers[k] + Once(Sources(outs))[k]]
        /\ UNCHANGED <<count, status, refs, alive, kept, call, unread, held, stateOf,
                       memory, waiting, dependents, queued, at, added, busy, driver, computed,
                       stopped, released, freezing, frozen, todo, drops, leaving>>
    BY DEF Open, running, flags
  <1>2. /\ added[a] = None /\ steps[a] = <<>> /\ ~stopped[a] /\ ~released[a] /\ frozen[a] = 0 /\ ~busy[a]
        /\ a \notin open
    <2>1. /\ added[a] \in None..MaxPushes /\ steps[a] \in Seq(SUBSET Record)
          /\ added[a] + Len(steps[a]) <= None /\ busy[a] \in BOOLEAN
      BY <1>1 DEF CoreInv, Types, Progress
    <2>2. Len(steps[a]) = 0 /\ added[a] = None
      BY <2>1, Counts DEF None
    <2>3. steps[a] = <<>>
      BY <2>1, <2>2, EmptySeq
    <2> QED
      BY <1>1, <2>2, <2>3 DEF CoreInv, Fresh, Progress, Types
  <1>3. ReadersCounted'
    <2>1. steps' = [steps EXCEPT ![a] = Append(@, outs)]
      BY <1>1, <1>2 DEF CoreInv, Types
    <2>2. Len(steps[a]) <= MaxPushes /\ StepsType
      BY <1>2, Counts DEF CoreInv, Types, StepsType
    <2> QED
      BY <1>1, <2>1, <2>2, StepsGrow DEF CoreInv
  <1>4. Types'
    <2>1. readers' \in [Key -> Int]
      BY <1>1, <1>3, CounterType
    <2>2. pushes' \in [Acc -> None..MaxPushes] /\ steps' \in [Acc -> Seq(SUBSET Record)]
      <3>1. pushes \in [Acc -> None..MaxPushes] /\ steps \in [Acc -> Seq(SUBSET Record)]
        BY DEF CoreInv, Types
      <3>2. 0 \in None..MaxPushes
        BY Counts DEF None
      <3> QED
        BY <1>1, <3>1, <3>2
    <2> QED
      BY <1>1, <2>1, <2>2 DEF CoreInv, Types
  <1>5. Fresh'
    BY <1>1, Counts DEF CoreInv, Types, Fresh, None
  <1>6. Places'
    BY <1>1 DEF CoreInv, Places, Pending
  <1>7. Progress'
    <2>1. pushes'[a] = 0 /\ steps'[a] = <<outs>> /\ added'[a] = -1 /\ Len(<<outs>>) = 1
      BY <1>1, <1>2 DEF CoreInv, Types, None
    <2>2. \A b \in Acc \ {a} : pushes'[b] = pushes[b] /\ steps'[b] = steps[b]
      BY <1>1 DEF CoreInv, Types
    <2> SUFFICES ASSUME NEW b \in Acc
                 PROVE  /\ added'[b] + Len(steps'[b]) <= pushes'[b]
                        /\ b \in open' /\ ~stopped'[b] => added'[b] + Len(steps'[b]) = pushes'[b]
                        /\ busy'[b] => steps'[b] # <<>>
                        /\ released'[b] => b \notin open'
                        /\ b \in leaving' => b \in open'
      BY DEF Progress
    <2>3. Progress
      BY DEF CoreInv
    <2>4. CASE b = a
      BY <1>1, <1>2, <2>1, <2>3, <2>4 DEF Progress
    <2>5. CASE b # a
      BY <1>1, <1>2, <2>2, <2>3, <2>5 DEF Progress
    <2> QED
      BY <2>4, <2>5
  <1>8. InCalls'
    <2>1. \A t \in Thread : \A p \in call[t].pins : p[1] \in Acc /\ p[2] \in 0..MaxPushes
      BY Keys DEF CoreInv, Types, Calls
    <2>2. \A t \in Thread : \A p \in call[t].pins : call[t].op = "freeze" => p[1] # a
      BY <1>1, <2>1, Counts DEF CoreInv, InCalls, None
    <2>3. \A b \in Acc \ {a} : pushes'[b] = pushes[b]
      BY <1>1 DEF CoreInv, Types
    <2> QED
      BY <1>1, <2>1, <2>2, <2>3 DEF CoreInv, InCalls, Pending
  <1>9. Frozen'
    <2>1. \A b \in Acc \ {a} : pushes'[b] = pushes[b]
      BY <1>1 DEF CoreInv, Types
    <2> QED
      BY <1>1, <1>2, <2>1 DEF CoreInv, Frozen
  <1> QED
    BY <1>3, <1>4, <1>5, <1>6, <1>7, <1>8, <1>9 DEF CoreInv

LEMMA PushCore ==
  ASSUME CoreInv, NEW a \in Acc, NEW outs \in SUBSET Record, Push(a, outs)
  PROVE  CoreInv'
  <1>1. /\ a \in open /\ ~stopped[a] /\ ~freezing[a] /\ frozen[a] = 0 /\ pushes[a] < MaxPushes
        /\ pushes' = [pushes EXCEPT ![a] = @ + 1]
        /\ steps' = [steps EXCEPT ![a] = Append(@, outs)] /\ ready' = {a}
        /\ readers' = [k \in Key |-> readers[k] + Once(Sources(outs))[k]]
        /\ UNCHANGED <<count, status, refs, alive, kept, open, call, unread, held, stateOf,
                       memory, waiting, dependents, queued, at, added, busy, driver, computed,
                       stopped, released, freezing, frozen, todo, drops, leaving>>
    BY DEF Push, Settled, client, running, flags
  <1>2. /\ pushes[a] \in None..MaxPushes /\ pushes[a] # None /\ steps[a] \in Seq(SUBSET Record)
        /\ added[a] \in None..MaxPushes /\ added[a] + Len(steps[a]) = pushes[a] /\ Len(steps[a]) \in Nat
    BY <1>1 DEF CoreInv, Types, Fresh, Progress
  <1>3. ReadersCounted'
    <2>1. Len(steps[a]) <= MaxPushes
      BY <1>1, <1>2, Counts DEF None
    <2>2. StepsType
      BY DEF CoreInv, Types, StepsType
    <2> QED
      BY <1>1, <2>1, <2>2, StepsGrow DEF CoreInv
  <1>4. Types'
    <2>1. readers' \in [Key -> Int]
      BY <1>1, <1>3, CounterType
    <2>2. pushes[a] + 1 \in None..MaxPushes
      BY <1>1, <1>2, Counts DEF None
    <2>3. Append(steps[a], outs) \in Seq(SUBSET Record)
      BY <1>2
    <2>4. pushes' \in [Acc -> None..MaxPushes] /\ steps' \in [Acc -> Seq(SUBSET Record)]
      BY <1>1, <2>2, <2>3 DEF CoreInv, Types
    <2> QED
      BY <1>1, <2>1, <2>4 DEF CoreInv, Types
  <1>10. /\ \A b \in Acc \ {a} : pushes'[b] = pushes[b] /\ steps'[b] = steps[b]
         /\ pushes'[a] = pushes[a] + 1 /\ steps'[a] # <<>> /\ Len(steps'[a]) = Len(steps[a]) + 1
    BY <1>1, <1>2 DEF CoreInv, Types
  <1>5. Fresh'
    BY <1>1, <1>2, <1>10, Counts DEF CoreInv, Fresh, None
  <1>6. Places'
    BY <1>1 DEF CoreInv, Places, Pending
  <1>7. Progress'
    <2> SUFFICES ASSUME NEW b \in Acc
                 PROVE  /\ added[b] + Len(steps'[b]) <= pushes'[b]
                        /\ b \in open /\ ~stopped[b] => added[b] + Len(steps'[b]) = pushes'[b]
                        /\ busy[b] => steps'[b] # <<>>
                        /\ released[b] => b \notin open
                        /\ b \in leaving => b \in open
      BY <1>1 DEF Progress
    <2>1. CASE b = a
      <3>1. Progress /\ added[a] \in Int /\ pushes[a] \in Int /\ Len(steps[a]) \in Nat
        BY CountsOf, StepsFor, Reaches DEF CoreInv
      <3> QED
        BY <1>1, <1>2, <1>10, <2>1, <3>1 DEF Progress
    <2>2. CASE b # a
      BY <1>10, <2>2 DEF CoreInv, Progress
    <2> QED
      BY <2>1, <2>2
  <1>8. InCalls'
    <2>1. \A t \in Thread : \A p \in call[t].pins : p[1] \in Acc
      BY Keys DEF CoreInv, Types, Calls
    <2>2. \A t \in Thread : \A p \in call[t].pins : call[t].op = "freeze" => p[1] # a
      BY <1>1, <2>1 DEF CoreInv, InCalls
    <2> QED
      BY <1>1, <1>10, <2>1, <2>2 DEF CoreInv, InCalls, Pending
  <1>9. Frozen'
    BY <1>1, <1>10 DEF CoreInv, Frozen
  <1> QED
    BY <1>3, <1>4, <1>5, <1>6, <1>7, <1>8, <1>9 DEF CoreInv

\* A call begins, and pins states.
LEMMA EnterCore ==
  ASSUME CoreInv, NEW t \in Thread, NEW op \in {"submit", "freeze", "read"},
         NEW phase \in {"checking", "waiting", "ending"}, NEW pins \in SUBSET State,
         NEW requests \in Seq([outs : SUBSET Record, accs : SUBSET Acc]),
         Enter(t, op, phase, pins, requests),
         op = "submit" => phase \in {"checking", "ending"},
         op \in {"freeze", "read"} => \E p \in State : pins = {p},
         IF op = "freeze"
         THEN \A p \in pins : /\ freezing' = [freezing EXCEPT ![p[1]] = TRUE] /\ ~freezing[p[1]]
                              /\ pushes[p[1]] = p[2]
                              /\ frozen[p[1]] = 0 \/ ~Pending(frozen[p[1]])
         ELSE UNCHANGED freezing
  PROVE  CoreInv'
  <1> DEFINE new == [op |-> op, phase |-> phase, pins |-> pins, requests |-> requests]
  <1>1. /\ call[t] = Idle
        /\ call' = [call EXCEPT ![t] = new]
        /\ readers' = [k \in Key |-> readers[k] + Once(pins)[k]]
        /\ UNCHANGED <<count, status, refs, pushes, alive, kept, open, unread, held, stateOf,
                       memory, waiting, dependents, queued, at, steps, added, busy, driver,
                       computed, stopped, released, frozen, todo, drops, ready, leaving>>
    BY DEF Enter, history, running, progress, work
  <1>2. /\ new \in Calls /\ new.pins = pins /\ new.op = op /\ new.phase = phase
        /\ Idle.pins = {} /\ Idle.op = "none"
    BY DEF Calls, Idle
  <1>3. /\ call' \in [Thread -> Calls] /\ call'[t] = new
        /\ \A u \in Thread \ {t} : call'[u] = call[u]
    BY <1>1, <1>2 DEF CoreInv, Types
  <1>4. freezing' \in [Acc -> BOOLEAN] /\ \A a \in Acc : freezing[a] => freezing'[a]
    <2>1. CASE op = "freeze"
      <3>1. PICK p \in State : pins = {p}
        BY <2>1
      <3>2. freezing' = [freezing EXCEPT ![p[1]] = TRUE] /\ p[1] \in Acc
        BY <2>1, <3>1, Keys
      <3> QED
        BY <3>2 DEF CoreInv, Types
    <2>2. CASE op # "freeze"
      BY <2>2 DEF CoreInv, Types
    <2> QED
      BY <2>1, <2>2
  <1> HIDE DEF new
  <1>5. ReadersCounted'
    <2>1. call[t].pins = {} /\ call'[t].pins = pins /\ pins \in SUBSET Key
      BY <1>1, <1>2, <1>3 DEF Key
    <2> QED
      BY <1>1, <1>3, <2>1, CallPins DEF CoreInv
  <1>6. Types'
    <2>1. readers' \in [Key -> Int]
      BY <1>1, <1>5, CounterType
    <2> QED
      BY <1>1, <1>3, <1>4, <2>1 DEF CoreInv, Types
  <1>7. Fresh' /\ Places' /\ Progress' /\ Frozen'
    BY <1>1 DEF CoreInv, Fresh, Places, Progress, Frozen, Pending
  <1>8. InCalls'
    <2>1. ASSUME NEW u \in Thread
          PROVE  /\ call'[u].phase = "idle" => call'[u] = Idle
                 /\ call'[u].op = "none" => call'[u].phase = "idle"
                 /\ call'[u].op = "submit" => call'[u].phase \in {"checking", "ending"}
                 /\ call'[u].op \in {"freeze", "read"} => \E p \in State : call'[u].pins = {p}
      BY <1>2, <1>3 DEF CoreInv, InCalls
    <2>2. ASSUME NEW u \in Thread, call'[u].op = "freeze", NEW p \in call'[u].pins
          PROVE  /\ freezing'[p[1]] /\ pushes[p[1]] = p[2]
                 /\ call'[u].phase = "checking" => frozen[p[1]] = 0 \/ ~Pending(frozen[p[1]])
      <3>1. CASE u = t
        <4>1. op = "freeze" /\ p \in pins /\ p[1] \in Acc
          BY <1>2, <1>3, <2>2, <3>1, Keys
        <4> QED
          BY <4>1 DEF CoreInv, Types
      <3>2. CASE u # t
        <4>1. call'[u] = call[u] /\ p \in State
          BY <1>3, <2>2, <3>2 DEF Calls
        <4>2. p[1] \in Acc
          BY <4>1, Keys
        <4> QED
          BY <1>4, <2>2, <4>1, <4>2 DEF CoreInv, InCalls
      <3> QED
        BY <3>1, <3>2
    <2>3. ASSUME NEW u \in Thread \ {t}, call[u].op = "freeze", op = "freeze", NEW p \in call[u].pins \cap pins
          PROVE  FALSE
      <3>1. ~freezing[p[1]]
        BY <2>3
      <3>2. freezing[p[1]]
        BY <2>3 DEF CoreInv, InCalls
      <3> QED
        BY <3>1, <3>2
    <2>4. \A u, w \in Thread : \A p \in call'[u].pins \cap call'[w].pins :
             call'[u].op = "freeze" /\ call'[w].op = "freeze" => u = w
      BY <1>2, <1>3, <2>3 DEF CoreInv, InCalls
    <2> QED
      BY <1>1, <2>1, <2>2, <2>4 DEF InCalls, Pending
  <1> QED
    BY <1>5, <1>6, <1>7, <1>8 DEF CoreInv

LEMMA PinsStates ==
  ASSUME CoreInv, NEW accs
  PROVE  \A p \in Pins(accs) : p \in State /\ pushes[p[1]] = p[2] /\ p[1] \in open
  <1>1. \A a \in open : a \in Acc /\ pushes[a] \in None..MaxPushes /\ pushes[a] # None
    BY DEF CoreInv, Types, Fresh
  <1>2. \A a \in open : pushes[a] \in 0..MaxPushes
    BY <1>1, Counts DEF None
  <1> QED
    BY <1>1, <1>2, Keys DEF Pins

LEMMA CallCore ==
  ASSUME CoreInv, NEW t \in Thread, CallOf(t)
  PROVE  CoreInv'
  <1>1. ASSUME NEW k \in 1..MaxBatch, NEW requests \in Requests(k), PinStates(t, requests)
        PROVE  CoreInv'
    <2>1. requests \in Seq([outs : SUBSET Record, accs : SUBSET Acc])
      <3>1. k \in Nat
        OBVIOUS
      <3>2. \A n : Readable(n) \subseteq SUBSET Record
        BY Counts DEF Readable, Existing, CoreInv, Types
      <3> DEFINE R == [outs : SUBSET Record, accs : SUBSET Acc]
      <3>3. requests \in [1..k -> R]
        BY <3>2 DEF Requests
      <3> HIDE DEF R
      <3>4. requests \in Seq(R)
        BY <3>1, <3>3
      <3> QED
        BY <3>4 DEF R
    <2> DEFINE pins == Pins(UNION {requests[i].accs : i \in DOMAIN requests})
    <2>2. Enter(t, "submit", "checking", pins, requests) /\ UNCHANGED freezing
      BY <1>1 DEF PinStates
    <2>3. pins \in SUBSET State
      BY PinsStates
    <2> HIDE DEF pins
    <2> QED
      BY <2>1, <2>2, <2>3, EnterCore
  <1>2. ASSUME NEW a \in Acc, BeginFreeze(t, a)
        PROVE  CoreInv'
    <2>1. /\ a \in open /\ ~stopped[a] /\ ~freezing[a] /\ (frozen[a] # 0 => ~Pending(frozen[a]))
          /\ Enter(t, "freeze", "checking", {<<a, pushes[a]>>}, <<>>)
          /\ freezing' = [freezing EXCEPT ![a] = TRUE]
      BY <1>2 DEF BeginFreeze
    <2>2. <<a, pushes[a]>> \in State
      BY <2>1, PinsStates DEF Pins
    <2>3. <<>> \in Seq([outs : SUBSET Record, accs : SUBSET Acc])
      BY EmptySeq
    <2> DEFINE p == <<a, pushes[a]>>
               pins == {p}
    <2>4. p[1] = a /\ p[2] = pushes[a]
      OBVIOUS
    <2>5. \A q \in pins : /\ freezing' = [freezing EXCEPT ![q[1]] = TRUE] /\ ~freezing[q[1]]
                          /\ pushes[q[1]] = q[2]
                          /\ frozen[q[1]] = 0 \/ ~Pending(frozen[q[1]])
      BY <2>1, <2>4
    <2>6. pins \in SUBSET State /\ (\E q \in State : pins = {q}) /\ Enter(t, "freeze", "checking", pins, <<>>)
      BY <2>1, <2>2
    <2> HIDE DEF pins
    <2> QED
      BY <2>3, <2>5, <2>6, EnterCore
  <1>3. ASSUME NEW a \in Acc, BeginRead(t, a)
        PROVE  CoreInv'
    <2>1. PICK phase \in {"waiting", "ending"} :
            /\ a \in open /\ ~stopped[a] /\ UNCHANGED freezing
            /\ Enter(t, "read", phase, {<<a, pushes[a]>>}, <<>>)
      BY <1>3 DEF BeginRead
    <2>2. <<a, pushes[a]>> \in State
      BY <2>1, PinsStates DEF Pins
    <2>3. <<>> \in Seq([outs : SUBSET Record, accs : SUBSET Acc])
      BY EmptySeq
    <2> QED
      BY <2>1, <2>2, <2>3, EnterCore
  <1> QED
    BY <1>1, <1>2, <1>3 DEF CallOf

\* A call goes on, or the client cancels or lets go: no reader joins or leaves.
LEMMA LightCore ==
  ASSUME CoreInv,
         \/ \E t \in Thread : \E phase \in {"waiting", "copying", "ending"} :
              /\ call[t].phase \notin {"idle", "ending"}
              /\ call[t].op = "submit" => phase = "ending"
              /\ call' = [call EXCEPT ![t].phase = phase]
         \/ UNCHANGED call,
         kept' \subseteq kept, computed' \in [Acc -> Int],
         drops' \subseteq Key, leaving' \subseteq open, todo' \subseteq Record \X {"failed", "cancelled"},
         ready' \subseteq Acc, driver' \in [Acc -> Int], busy' \in [Acc -> BOOLEAN],
         \A a \in Acc : busy'[a] => steps[a] # <<>>,
         UNCHANGED <<history, open, reading, running, steps, added, flags>>
  PROVE  CoreInv'
  <1>1. /\ UNCHANGED <<count, status, refs, pushes, open, unread, held, readers, stateOf, memory,
                       waiting, dependents, queued, at, steps, added, stopped, released,
                       freezing, frozen>>
    BY DEF history, reading, running, flags
  <1>2. /\ call' \in [Thread -> Calls]
        /\ \A u \in Thread : /\ call'[u].pins = call[u].pins /\ call'[u].op = call[u].op
                             /\ call'[u] = call[u] \/ /\ call'[u].phase \notin {"idle", "checking"}
                                                      /\ call[u].op = "submit" => call'[u].phase = "ending"
    <2>1. CASE UNCHANGED call
      BY <2>1 DEF CoreInv, Types
    <2>2. ASSUME NEW t \in Thread, NEW phase \in {"waiting", "copying", "ending"},
                 call[t].op = "submit" => phase = "ending",
                 call' = [call EXCEPT ![t].phase = phase]
          PROVE <1>2
      <3>1. /\ call' \in [Thread -> Calls]
            /\ \A u \in Thread : /\ call'[u].pins = call[u].pins /\ call'[u].op = call[u].op
                                 /\ u # t => call'[u] = call[u]
            /\ call'[t].phase = phase
        BY <2>2, PhaseCalls DEF CoreInv
      <3> QED
        BY <2>2, <3>1
    <2> QED
      BY <2>1, <2>2
  <1>3. Types'
    BY <1>1, <1>2 DEF CoreInv, Types
  <1>4. Fresh' /\ Places' /\ Progress' /\ Frozen'
    BY <1>1 DEF CoreInv, Fresh, Places, Progress, Frozen, Pending
  <1>5. InCalls'
    BY <1>1, <1>2 DEF CoreInv, InCalls, Pending
  <1>6. ReadersCounted'
    BY <1>1, <1>2, SameHolders DEF CoreInv
  <1> QED
    BY <1>3, <1>4, <1>5, <1>6 DEF CoreInv

LEMMA CallStepCore ==
  ASSUME CoreInv, NEW t \in Thread, CallStep(t)
  PROVE  CoreInv'
  <1>0. Types /\ computed \in [Acc -> Int] /\ driver \in [Acc -> Int]
    BY DEF CoreInv, Types
  <1>1. CASE Create(t)
    BY <1>0, <1>1, CreateLogs, LogsCore
  <1>2. CASE Freeze(t)
    BY <1>0, <1>2, FreezeLogs, LogsCore
  <1>3. CASE Refuse(t)
    <2>1. /\ call[t].phase = "checking" /\ call' = [call EXCEPT ![t].phase = "ending"]
          /\ UNCHANGED <<history, kept, open, reading, running, steps, added, flags,
                         computed, driver, busy, drops, leaving, todo, ready>>
      BY <1>3 DEF Refuse, progress, work
    <2> QED
      BY <1>0, <2>1, LightCore DEF CoreInv, Types, Progress
  <1>4. CASE StopWaiting(t)
    <2>1. /\ call[t].phase = "waiting"
          /\ \E phase \in {"copying", "ending"} : call' = [call EXCEPT ![t].phase = phase]
          /\ UNCHANGED <<history, kept, open, reading, running, steps, added, flags,
                         computed, driver, busy, drops, leaving, todo, ready>>
      BY <1>4 DEF StopWaiting, progress, work
    <2>2. call[t].op # "submit"
      BY <2>1 DEF CoreInv, InCalls
    <2> QED
      BY <1>0, <2>1, <2>2, LightCore DEF CoreInv, Types, Progress
  <1>5. CASE Copy(t)
    <2>1. PICK p \in call[t].pins :
             /\ call[t].phase = "copying" /\ call' = [call EXCEPT ![t].phase = "ending"]
             /\ Compute(p[1]) \/ UNCHANGED computed
             /\ UNCHANGED <<history, kept, open, reading, running, steps, added, flags,
                            driver, busy, drops, leaving, todo, ready>>
      BY <1>5 DEF Copy, work
    <2>2. p \in State /\ p[1] \in Acc
      BY Keys DEF CoreInv, Types, Calls
    <2>3. computed' \in [Acc -> Int]
      BY <1>0, <2>1, <2>2 DEF Compute
    <2> QED
      BY <1>0, <2>1, <2>3, LightCore DEF CoreInv, Types, Progress
  <1>6. CASE EndCall(t)
    <2>1. /\ call[t].phase = "ending"
          /\ call' = [call EXCEPT ![t] = Idle]
          /\ LetGo(Once(call[t].pins))
          /\ drops' = Emptied(Once(call[t].pins))
          /\ freezing' = [a \in Acc |->
                freezing[a] /\ ~(call[t].op = "freeze" /\ \E p \in call[t].pins : p[1] = a)]
          /\ UNCHANGED <<count, status, refs, pushes, kept, open, unread, held, stateOf, memory,
                         waiting, dependents, queued, at, steps, added, busy, driver, computed,
                         stopped, released, frozen, todo, ready, leaving>>
      BY <1>6 DEF EndCall, history, running, progress
    <2>2. Idle \in Calls /\ Idle.pins = {} /\ Idle.op = "none" /\ Idle.phase = "idle"
      BY DEF Idle, Calls
    <2>3. call' \in [Thread -> Calls] /\ call'[t] = Idle /\ \A u \in Thread \ {t} : call'[u] = call[u]
      BY <2>1, <2>2 DEF CoreInv, Types
    <2>4. ReadersCounted'
      <3>1. call[t].pins \in SUBSET Key /\ call'[t].pins = {}
        BY <2>2, <2>3 DEF CoreInv, Types, Calls, Key
      <3> QED
        BY <2>1, <2>3, <3>1, CallPins DEF CoreInv
    <2>5. Types'
      <3>1. readers' = [k \in Key |-> readers'[k]]
        BY <2>1 DEF LetGo
      <3>2. readers' \in [Key -> Int] /\ drops' \subseteq Key
        BY <2>1, <2>4, <3>1, CounterType, EmptiedKeys
      <3>3. freezing' \in [Acc -> BOOLEAN]
        BY <2>1 DEF CoreInv, Types
      <3> QED
        BY <2>1, <2>3, <3>2, <3>3 DEF CoreInv, Types
    <2>6. Fresh' /\ Places' /\ Progress' /\ Frozen'
      BY <2>1 DEF CoreInv, Fresh, Places, Progress, Frozen, Pending
    <2>7. InCalls'
      <3>1. ASSUME NEW u \in Thread \ {t}, call[u].op = "freeze", NEW p \in call[u].pins
            PROVE  freezing'[p[1]]
        <4>1. p \in State /\ p[1] \in Acc /\ pushes[p[1]] = p[2] /\ freezing[p[1]] /\ p = <<p[1], p[2]>>
          BY <3>1, Keys DEF CoreInv, Types, Calls, InCalls
        <4>2. ASSUME call[t].op = "freeze", NEW q \in call[t].pins, q[1] = p[1] PROVE FALSE
          <5>1. q \in State /\ pushes[q[1]] = q[2] /\ q = <<q[1], q[2]>>
            <6>1. call[t].pins \subseteq State /\ InCalls
              BY DEF CoreInv, Types, Calls
            <6>2. q \in State /\ pushes[q[1]] = q[2]
              BY <4>2, <6>1 DEF InCalls
            <6> QED
              BY <6>2, Keys
          <5>2. q = p
            BY <4>1, <4>2, <5>1
          <5> QED
            BY <3>1, <4>2, <5>2 DEF CoreInv, InCalls
        <4> QED
          BY <2>1, <4>1, <4>2
      <3> QED
        BY <2>1, <2>2, <2>3, <3>1 DEF CoreInv, InCalls, Pending
    <2> QED
      BY <2>4, <2>5, <2>6, <2>7 DEF CoreInv
  <1> QED
    BY <1>1, <1>2, <1>3, <1>4, <1>5, <1>6 DEF CallStep

LEMMA ClientCore ==
  ASSUME CoreInv, (\E r \in Existing : Cancel(r)) \/ ReleaseOne \/ CloseClient
  PROVE  CoreInv'
  <1>0. /\ computed \in [Acc -> Int] /\ driver \in [Acc -> Int] /\ leaving \subseteq open
        /\ busy \in [Acc -> BOOLEAN] /\ (\A a \in Acc : busy[a] => steps[a] # <<>>)
        /\ drops \subseteq Key /\ ready \subseteq Acc /\ todo \subseteq Record \X {"failed", "cancelled"}
    BY DEF CoreInv, Types, Progress
  <1>1. ASSUME NEW r \in Existing, Cancel(r) PROVE CoreInv'
    <2>1. r \in Record
      BY Counts DEF Existing, CoreInv, Types
    <2>2. /\ todo' = {<<r, "cancelled">>}
          /\ UNCHANGED <<history, kept, call, open, reading, running, steps, added, flags,
                         computed, driver, busy, drops, leaving, ready>>
      BY <1>1 DEF Cancel, client, progress
    <2> QED
      BY <1>0, <2>1, <2>2, LightCore
  <1>2. ASSUME NEW rs \in SUBSET kept, NEW accs \in SUBSET open, Release(rs, accs)
        PROVE  CoreInv'
    <2>1. /\ kept' = kept \ rs /\ drops' = Sources(rs) /\ leaving' = accs
          /\ UNCHANGED <<history, call, open, reading, running, steps, added, flags,
                         computed, driver, busy, todo, ready>>
      BY <1>2 DEF Release, progress
    <2>2. Sources(rs) \subseteq Key
      BY Keys DEF CoreInv, Types
    <2> QED
      BY <1>0, <2>1, <2>2, LightCore
  <1>3. CASE ReleaseOne
    BY <1>2, <1>3 DEF ReleaseOne
  <1>4. CASE CloseClient
    BY <1>2, <1>4 DEF CloseClient
  <1> QED
    BY <1>1, <1>3, <1>4

\* A step of a record leaves the rest as it is.
LEMMA RestCore ==
  ASSUME CoreInv, NEW r \in Record, NEW s \in Statuses,
         s = status[r] \/ (Pending(r) /\ s \notin {"none", "pending"}),
         status' = [status EXCEPT ![r] = s],
         \A x \in Record : x > count => /\ unread'[x] = {} /\ held'[x] = {} /\ waiting'[x] = {}
                                        /\ at'[x] = "idle" /\ x \notin queued',
         \A a \in Acc : stopped'[a] = stopped[a] \/ (frozen[a] = r /\ stopped'[a]),
         \A a \in Acc : s = "completed" /\ frozen[a] = r => stopped'[a],
         UNCHANGED <<count, refs, pushes, kept, call, open, steps, added, busy, released,
                     freezing, frozen, leaving>>
  PROVE  Fresh' /\ Progress' /\ InCalls' /\ Frozen'
  <1>1. /\ \A x \in Record \ {r} : status'[x] = status[x]
        /\ status'[r] = s
        /\ \A x \in Record : /\ status'[x] = "none" <=> status[x] = "none"
                             /\ status'[x] = "pending" => status[x] = "pending"
    BY DEF CoreInv, Types, Pending
  <1>2. \A a \in Acc : frozen[a] # 0 => frozen[a] \in Record
    BY Counts DEF CoreInv, Types
  <1>3. Fresh'
    BY <1>1, <1>2, Counts DEF CoreInv, Fresh
  <1>4. Progress'
    BY DEF CoreInv, Progress
  <1>5. InCalls'
    <2>1. \A t \in Thread : \A p \in call[t].pins : p[1] \in Acc
      BY Keys DEF CoreInv, Types, Calls
    <2> QED
      BY <1>1, <1>2, <2>1 DEF CoreInv, InCalls, Pending
  <1>6. Frozen'
    BY <1>1, <1>2 DEF CoreInv, Frozen
  <1> QED
    BY <1>3, <1>4, <1>5, <1>6

LEMMA Satisfies ==
  ASSUME CoreInv, NEW k \in Key, Satisfy(k)
  PROVE  /\ waiting' \in [Record -> SUBSET Key] /\ dependents' \in [Key -> SUBSET Record]
         /\ queued \subseteq queued' /\ queued' \subseteq Record
         /\ \A r \in Record : /\ waiting'[r] = IF r \in dependents[k] THEN waiting[r] \ {k} ELSE waiting[r]
                              /\ waiting'[r] \subseteq waiting[r]
                              /\ r \in queued' /\ r \notin queued =>
                                    waiting'[r] = {} /\ waiting[r] = {k} /\ r \in dependents[k]
                              /\ r \in dependents[k] /\ waiting[r] = {k} => r \in queued'
         /\ dependents' = [dependents EXCEPT ![k] = {}]
  <1>1. /\ waiting \in [Record -> SUBSET Key] /\ dependents \in [Key -> SUBSET Record]
        /\ queued \subseteq Record
    BY DEF CoreInv, Types
  <1>2. \A r \in Record : waiting'[r] = waiting[r] \ {x \in {k} : r \in dependents[x]}
    BY DEF Satisfy
  <1>3. waiting' \in [Record -> SUBSET Key]
    BY <1>1 DEF Satisfy
  <1>4. dependents' = [dependents EXCEPT ![k] = {}] /\ queued' = queued \cup {r \in dependents[k] : waiting[r] = {k}}
    BY DEF Satisfy
  <1> QED
    BY <1>1, <1>2, <1>3, <1>4

LEMMA StartCore ==
  ASSUME CoreInv, NEW r \in Record, Start(r)
  PROVE  CoreInv'
  <1>1. /\ r \in queued /\ queued' = queued \ {r}
        /\ UNCHANGED <<count, status, refs, pushes, kept, open, call, readers, stateOf, memory,
                       waiting, dependents, steps, added, busy, driver, computed, stopped, released,
                       freezing, frozen, todo, drops, ready, leaving>>
    BY DEF Start, history, client, progress, flags, work
  <1>2. CASE ~Pending(r)
    <2>1. UNCHANGED <<at, held, unread>>
      BY <1>2 DEF Start
    <2>2. Types' /\ Places'
      BY <1>1, <2>1 DEF CoreInv, Types, Places, Pending
    <2>3. ReadersCounted'
      BY <1>1, <2>1, SameHolders DEF CoreInv
    <2>4. Fresh' /\ Progress' /\ InCalls' /\ Frozen'
      BY <1>1, <2>1 DEF CoreInv, Fresh, Progress, InCalls, Frozen, Pending
    <2> QED
      BY <2>2, <2>3, <2>4 DEF CoreInv
  <1>3. CASE Pending(r)
    <2>1. /\ at' = [at EXCEPT ![r] = "computing"] /\ held' = [held EXCEPT ![r] = unread[r]]
          /\ unread' = [unread EXCEPT ![r] = {}]
      BY <1>3 DEF Start
    <2>2. /\ at' \in [Record -> {"idle", "computing", "returned"}] /\ at'[r] = "computing"
          /\ held' \in [Record -> SUBSET Key] /\ held'[r] = unread[r]
          /\ unread' \in [Record -> SUBSET Key] /\ unread'[r] = {}
          /\ \A x \in Record \ {r} : at'[x] = at[x] /\ held'[x] = held[x] /\ unread'[x] = unread[x]
      BY <2>1 DEF CoreInv, Types
    <2>3. at[r] = "idle" /\ held[r] = {} /\ unread[r] = refs[r] /\ waiting[r] = {} /\ ~(r > count)
      BY <1>1, <1>3 DEF CoreInv, Places, Fresh, Pending
    <2>4. Types'
      BY <1>1, <2>2 DEF CoreInv, Types
    <2>5. Places'
      BY <1>1, <1>3, <2>2, <2>3 DEF CoreInv, Places, Pending
    <2>6. ReadersCounted'
      BY <1>1, <2>2, <2>3, SameHolders DEF CoreInv
    <2>7. Fresh' /\ Progress' /\ InCalls' /\ Frozen'
      BY <1>1, <2>2, <2>3 DEF CoreInv, Fresh, Progress, InCalls, Frozen, Pending
    <2> QED
      BY <2>4, <2>5, <2>6, <2>7 DEF CoreInv
  <1> QED
    BY <1>2, <1>3

LEMMA ReturnCore ==
  ASSUME CoreInv, NEW r \in Record, Return(r)
  PROVE  CoreInv'
  <1>1. /\ at[r] = "computing" /\ refs[r] \cap State = {}
        /\ at' = [at EXCEPT ![r] = "returned"]
        /\ LetGo(Once(held[r])) /\ drops' = Emptied(Once(held[r]))
        /\ held' = [held EXCEPT ![r] = {}]
        /\ UNCHANGED <<count, status, refs, pushes, kept, open, call, unread, stateOf, memory,
                       waiting, dependents, queued, steps, added, busy, driver, computed, stopped,
                       released, freezing, frozen, todo, ready, leaving>>
    BY DEF Return, history, client, progress, flags
  <1>2. /\ at' \in [Record -> {"idle", "computing", "returned"}] /\ at'[r] = "returned"
        /\ held' \in [Record -> SUBSET Key] /\ held'[r] = {}
        /\ \A x \in Record \ {r} : at'[x] = at[x] /\ held'[x] = held[x]
    BY <1>1 DEF CoreInv, Types
  <1>3. unread[r] = {} /\ ~(r > count)
    BY <1>1 DEF CoreInv, Places, Fresh
  <1>4. ReadersCounted'
    BY <1>1, <1>2, <1>3, RecordLetsGo DEF CoreInv
  <1>5. Types'
    <2>1. readers' = [k \in Key |-> readers'[k]]
      BY <1>1 DEF LetGo
    <2>2. readers' \in [Key -> Int]
      BY <1>4, <2>1, CounterType
    <2> QED
      BY <1>1, <1>2, <2>2, EmptiedKeys DEF CoreInv, Types
  <1>6. Places'
    BY <1>1, <1>2, <1>3 DEF CoreInv, Places, Pending
  <1>7. Fresh' /\ Progress' /\ InCalls' /\ Frozen'
    BY <1>1, <1>2, <1>3 DEF CoreInv, Fresh, Progress, InCalls, Frozen, Pending
  <1> QED
    BY <1>4, <1>5, <1>6, <1>7 DEF CoreInv

LEMMA ReturnStateCore ==
  ASSUME CoreInv, NEW r \in Record, ReturnState(r)
  PROVE  CoreInv'
  <1>1. PICK k \in held[r] \cap State :
           /\ at[r] = "computing" /\ at' = [at EXCEPT ![r] = "returned"]
           /\ Compute(k[1])
           /\ UNCHANGED <<count, status, refs, pushes, kept, open, call, unread, held, readers, stateOf,
                          memory, waiting, dependents, queued, steps, added, busy, driver, stopped,
                          released, freezing, frozen, todo, drops, ready, leaving>>
    BY DEF ReturnState, history, client, reading, flags, work
  <1>2. /\ at' \in [Record -> {"idle", "computing", "returned"}] /\ at'[r] = "returned"
        /\ \A x \in Record \ {r} : at'[x] = at[x]
    BY <1>1 DEF CoreInv, Types
  <1>3. unread[r] = {} /\ ~(r > count)
    BY <1>1 DEF CoreInv, Places, Fresh
  <1>4. ReadersCounted'
    BY <1>1, SameHolders DEF CoreInv
  <1>5. Types'
    <2>1. computed' \in [Acc -> Int]
      BY <1>1, Keys DEF CoreInv, Types, Compute
    <2> QED
      BY <1>1, <1>2, <2>1 DEF CoreInv, Types
  <1>6. Places'
    BY <1>1, <1>2, <1>3 DEF CoreInv, Places, Pending
  <1>7. Fresh' /\ Progress' /\ InCalls' /\ Frozen'
    BY <1>1, <1>2, <1>3 DEF CoreInv, Fresh, Progress, InCalls, Frozen, Pending
  <1> QED
    BY <1>4, <1>5, <1>6, <1>7 DEF CoreInv

LEMMA RaiseCore ==
  ASSUME CoreInv, NEW r \in Record, Raise(r)
  PROVE  CoreInv'
  <1> DEFINE s == IF Pending(r) THEN "failed" ELSE status[r]
  <1>1. /\ at[r] = "computing" /\ at' = [at EXCEPT ![r] = "idle"]
        /\ LetGo(Once(held[r])) /\ drops' = Emptied(Once(held[r]))
        /\ held' = [held EXCEPT ![r] = {}]
        /\ UNCHANGED <<count, refs, pushes, kept, open, call, unread, memory, waiting, queued,
                       steps, added, busy, driver, computed, stopped, released, freezing, frozen,
                       leaving>>
    BY DEF Raise, client, progress, flags
  <1>2. /\ at' \in [Record -> {"idle", "computing", "returned"}] /\ at'[r] = "idle"
        /\ held' \in [Record -> SUBSET Key] /\ held'[r] = {}
        /\ \A x \in Record \ {r} : at'[x] = at[x] /\ held'[x] = held[x]
    BY <1>1 DEF CoreInv, Types
  <1>3. unread[r] = {} /\ ~(r > count) /\ Out(r) \in Key /\ status[r] # "completed"
    BY <1>1, Keys DEF CoreInv, Places, Fresh
  <1>4. /\ status' = [status EXCEPT ![r] = s] /\ s \in Statuses
        /\ stateOf' \in {stateOf, stateOf \ {r}} /\ (r \in stateOf' => ~Pending(r))
        /\ dependents' \in [Key -> SUBSET Record]
        /\ todo' \subseteq Record \X {"failed", "cancelled"}
        /\ ready' \subseteq Acc
    <2>1. CASE Pending(r)
      <3>1. /\ status' = [status EXCEPT ![r] = "failed"] /\ stateOf' = stateOf \ {r}
            /\ dependents' = [dependents EXCEPT ![Out(r)] = {}]
            /\ todo' = Fails(r) /\ ready' = HasSteps
        BY <2>1 DEF Raise
      <3>2. dependents \in [Key -> SUBSET Record]
        BY DEF CoreInv, Types
      <3>3. Fails(r) \subseteq Record \X {"failed", "cancelled"} /\ HasSteps \subseteq Acc
        BY <1>3, <3>2 DEF Fails, HasSteps
      <3>4. dependents' \in [Key -> SUBSET Record]
        BY <3>1, <3>2
      <3> QED
        BY <2>1, <3>1, <3>3, <3>4 DEF Statuses
    <2>2. CASE ~Pending(r)
      BY <1>1, <2>2 DEF Raise, CoreInv, Types
    <2> QED
      BY <2>1, <2>2
  <1>5. status' \in [Record -> Statuses] /\ status'[r] = s /\ \A x \in Record \ {r} : status'[x] = status[x]
    BY <1>4 DEF CoreInv, Types
  <1>6. s = status[r] \/ (Pending(r) /\ s \notin {"none", "pending"})
    OBVIOUS
  <1>7. s # "pending" /\ s # "completed"
    BY <1>3 DEF Pending
  <1> HIDE DEF s
  <1>8. ReadersCounted'
    BY <1>1, <1>2, <1>3, RecordLetsGo DEF CoreInv
  <1>9. Types'
    <2>1. readers' = [k \in Key |-> readers'[k]]
      BY <1>1 DEF LetGo
    <2>2. readers' \in [Key -> Int] /\ drops' \subseteq Key
      BY <1>1, <1>8, <2>1, CounterType, EmptiedKeys
    <2>3. stateOf' \subseteq Record
      BY <1>4 DEF CoreInv, Types
    <2> QED
      BY <1>1, <1>2, <1>4, <1>5, <2>2, <2>3 DEF CoreInv, Types
  <1>10. Places'
    BY <1>1, <1>2, <1>3, <1>4, <1>5, <1>7 DEF CoreInv, Places, Pending
  <1>11. Fresh' /\ Progress' /\ InCalls' /\ Frozen'
    <2>1. \A x \in Record : x > count => /\ unread'[x] = {} /\ held'[x] = {} /\ waiting'[x] = {}
                                        /\ at'[x] = "idle" /\ x \notin queued'
      BY <1>1, <1>2, <1>3 DEF CoreInv, Fresh
    <2> QED
      BY <1>1, <1>4, <1>6, <1>7, <2>1, RestCore
  <1> QED
    BY <1>8, <1>9, <1>10, <1>11 DEF CoreInv

LEMMA CompleteCore ==
  ASSUME CoreInv, NEW r \in Record, Complete(r)
  PROVE  CoreInv'
  <1> DEFINE s == IF Pending(r) THEN "completed" ELSE status[r]
             ks == LeavesAtEnd(r)
  <1>1. /\ at[r] = "returned" /\ at' = [at EXCEPT ![r] = "idle"]
        /\ LetGo(Once(ks))
        /\ held' = [held EXCEPT ![r] = @ \ ks]
        /\ drops' = Emptied(Once(ks)) \cup {Out(d) : d \in {x \in {r} : Pending(x)}}
        /\ stateOf' = IF FreezeOf(r) = {} THEN stateOf ELSE stateOf \ {r}
        /\ UNCHANGED <<count, refs, pushes, kept, open, call, unread, steps, added, busy, driver,
                       computed, released, freezing, frozen, todo, leaving>>
    BY DEF Complete, client, progress
  <1>2. /\ held[r] \in SUBSET Key /\ ks \in SUBSET held[r]
        /\ ~Pending(r) => ks = held[r]
        /\ FreezeOf(r) # {} => ks = held[r]
    BY DEF LeavesAtEnd, CoreInv, Types
  <1>3. unread[r] = {} /\ ~(r > count) /\ Out(r) \in Key /\ status[r] # "completed" /\ r \notin queued
        /\ waiting[r] = {}
    BY <1>1, Keys DEF CoreInv, Places, Fresh
  <1>4. /\ status' = [status EXCEPT ![r] = s] /\ s \in Statuses
        /\ memory' = memory \cup {x \in {r} : Pending(x)}
        /\ waiting' \in [Record -> SUBSET Key] /\ dependents' \in [Key -> SUBSET Record]
        /\ queued' \subseteq Record /\ ready' \subseteq Acc
        /\ \A x \in Record : /\ waiting'[x] \subseteq waiting[x]
                             /\ x \in queued' => waiting'[x] = {} /\ (x \in queued \/ waiting[x] # {})
        /\ stopped' \in [Acc -> BOOLEAN]
        /\ \A a \in Acc : stopped'[a] = stopped[a] \/ (frozen[a] = r /\ stopped'[a])
        /\ \A a \in Acc : s = "completed" /\ frozen[a] = r => stopped'[a]
    <2>1. CASE Pending(r)
      <3>1. Satisfy(Out(r)) /\ status' = [status EXCEPT ![r] = "completed"] /\ memory' = memory \cup {r}
            /\ ready' = HasSteps /\ stopped' = [a \in Acc |-> stopped[a] \/ a \in FreezeOf(r)]
        BY <2>1 DEF Complete
      <3>2. /\ waiting' \in [Record -> SUBSET Key] /\ dependents' \in [Key -> SUBSET Record]
            /\ queued' \subseteq Record
            /\ \A x \in Record : /\ waiting'[x] \subseteq waiting[x]
                                 /\ x \in queued' /\ x \notin queued => waiting'[x] = {} /\ waiting[x] # {}
        <4> DEFINE k == Out(r)
        <4>1. k \in Key /\ Satisfy(k)
          BY <1>3, <3>1
        <4> HIDE DEF k
        <4>2. /\ waiting' \in [Record -> SUBSET Key] /\ dependents' \in [Key -> SUBSET Record]
              /\ queued' \subseteq Record
              /\ \A x \in Record : /\ waiting'[x] \subseteq waiting[x]
                                   /\ x \in queued' /\ x \notin queued => waiting'[x] = {} /\ waiting[x] = {k}
          BY <4>1, Satisfies
        <4> QED
          BY <4>2
      <3>3. \A x \in queued : waiting[x] = {}
        BY DEF CoreInv, Types, Places
      <3>4. \A x \in queued' : waiting'[x] = {} /\ (x \in queued \/ waiting[x] # {})
        BY <3>2, <3>3
      <3> QED
        BY <2>1, <3>1, <3>2, <3>4 DEF CoreInv, Types, FreezeOf, HasSteps, Statuses
    <2>2. CASE ~Pending(r)
      <3>1. UNCHANGED <<status, memory, waiting, dependents, queued, ready, stopped>>
        BY <2>2 DEF Complete
      <3> QED
        BY <1>3, <2>2, <3>1 DEF CoreInv, Types, Places
    <2> QED
      BY <2>1, <2>2
  <1>5. status' \in [Record -> Statuses] /\ status'[r] = s /\ \A x \in Record \ {r} : status'[x] = status[x]
    BY <1>4 DEF CoreInv, Types
  <1>6. /\ s = status[r] \/ (Pending(r) /\ s \notin {"none", "pending"})
        /\ s # "pending" /\ (s = "completed" <=> Pending(r))
    BY <1>3 DEF Pending
  <1>7. /\ at' \in [Record -> {"idle", "computing", "returned"}] /\ at'[r] = "idle"
        /\ held' \in [Record -> SUBSET Key] /\ held'[r] = held[r] \ ks
        /\ \A x \in Record \ {r} : at'[x] = at[x] /\ held'[x] = held[x]
    BY <1>1, <1>2 DEF CoreInv, Types
  <1> HIDE DEF s, ks
  <1>8. ReadersCounted'
    BY <1>1, <1>2, <1>3, <1>7, RecordLetsGo DEF CoreInv
  <1>9. Types'
    <2>1. readers' = [k \in Key |-> readers'[k]]
      BY <1>1 DEF LetGo
    <2>2. readers' \in [Key -> Int] /\ drops' \subseteq Key
      BY <1>1, <1>3, <1>8, <2>1, CounterType, EmptiedKeys
    <2>3. stateOf' \subseteq Record /\ memory' \subseteq Record
      BY <1>1, <1>4 DEF CoreInv, Types
    <2> QED
      BY <1>1, <1>4, <1>5, <1>7, <2>2, <2>3 DEF CoreInv, Types
  <1>10. Places'
    <2>1. ASSUME NEW x \in Record \ {r}
          PROVE  /\ unread'[x] = unread[x] /\ held'[x] = held[x] /\ at'[x] = at[x] /\ refs'[x] = refs[x]
                 /\ status'[x] = status[x] /\ (x \in memory' <=> x \in memory)
                 /\ (x \in stateOf' <=> x \in stateOf)
                 /\ waiting'[x] \subseteq waiting[x] /\ (x \in queued' => waiting'[x] = {} /\ (x \in queued \/ waiting[x] # {}))
      BY <1>1, <1>4, <1>5, <1>7
    <2>2. ASSUME NEW x \in Record \ {r}
          PROVE  /\ unread'[x] # {} => status'[x] = "pending" /\ at'[x] = "idle"
                 /\ held'[x] # {} => at'[x] # "idle" \/ status'[x] = "completed"
                 /\ at'[x] # "idle" => x \notin queued' /\ status'[x] # "completed"
                 /\ x \in memory' => status'[x] = "completed"
                 /\ status'[x] = "pending" /\ at'[x] = "idle" => unread'[x] = refs'[x]
                 /\ unread'[x] \cup held'[x] \subseteq refs'[x]
                 /\ status'[x] = "pending" /\ refs'[x] \cap State # {} /\ at'[x] # "idle" => held'[x] = refs'[x]
                 /\ held'[x] \cap State # {} /\ at'[x] = "idle" => x \in stateOf'
                 /\ status'[x] = "pending" /\ refs'[x] \cap State # {} => x \in stateOf'
                 /\ waiting'[x] \subseteq unread'[x]
                 /\ x \in queued' => waiting'[x] = {}
                 /\ \A k \in refs'[x] \cap State : refs'[x] = {k}
      BY <2>1 DEF CoreInv, Places, Pending
    <2>3. /\ held'[r] # {} => s = "completed"
          /\ held'[r] \subseteq refs[r]
          /\ held'[r] \cap State # {} => r \in stateOf'
      BY <1>1, <1>2, <1>6, <1>7 DEF CoreInv, Places
    <2>4. /\ r \in memory' => s = "completed"
          /\ waiting'[r] = {} /\ unread'[r] = {}
      BY <1>1, <1>3, <1>4, <1>6 DEF CoreInv, Places
    <2>5. \A k \in refs'[r] \cap State : refs'[r] = {k}
      BY <1>1 DEF CoreInv, Places
    <2> QED
      BY <1>1, <1>3, <1>5, <1>6, <1>7, <2>2, <2>3, <2>4, <2>5 DEF Places, Pending
  <1>11. Fresh' /\ Progress' /\ InCalls' /\ Frozen'
    <2>1. \A x \in Record : x > count => /\ unread'[x] = {} /\ held'[x] = {} /\ waiting'[x] = {}
                                        /\ at'[x] = "idle" /\ x \notin queued'
      BY <1>1, <1>3, <1>4, <1>7 DEF CoreInv, Fresh
    <2>2. /\ status' = [status EXCEPT ![r] = s] /\ s \in Statuses
          /\ s = status[r] \/ (Pending(r) /\ s \notin {"none", "pending"})
          /\ \A a \in Acc : stopped'[a] = stopped[a] \/ (frozen[a] = r /\ stopped'[a])
          /\ \A a \in Acc : s = "completed" /\ frozen[a] = r => stopped'[a]
          /\ UNCHANGED <<count, refs, pushes, kept, call, open, steps, added, busy, released,
                         freezing, frozen, leaving>>
      BY <1>1, <1>4, <1>6
    <2> QED
      BY <2>1, <2>2, RestCore
  <1> QED
    BY <1>8, <1>9, <1>10, <1>11 DEF CoreInv

LEMMA FinishCore ==
  ASSUME CoreInv, NEW r \in Record, NEW how \in {"failed", "cancelled"}, FinishNext(r, how)
  PROVE  CoreInv'
  <1>1. UNCHANGED <<count, refs, pushes, kept, open, call, held, memory, queued, at, steps, added,
                    busy, driver, computed, stopped, released, freezing, frozen, leaving>>
    BY DEF FinishNext, client, progress, flags
  <1>2. CASE ~Pending(r)
    <2>1. todo' = todo \ {<<r, how>>}
          /\ UNCHANGED <<status, readers, drops, unread, stateOf, waiting, dependents, ready>>
      BY <1>2 DEF FinishNext
    <2>2. Types' /\ Places'
      BY <1>1, <2>1 DEF CoreInv, Types, Places, Pending
    <2>3. ReadersCounted'
      BY <1>1, <2>1, SameHolders DEF CoreInv
    <2>4. Fresh' /\ Progress' /\ InCalls' /\ Frozen'
      BY <1>1, <2>1 DEF CoreInv, Fresh, Progress, InCalls, Frozen, Pending
    <2> QED
      BY <2>2, <2>3, <2>4 DEF CoreInv
  <1>3. CASE Pending(r)
    <2>1. /\ status' = [status EXCEPT ![r] = how]
          /\ LetGo(Once(unread[r]))
          /\ drops' = drops \cup Emptied(Once(unread[r]))
          /\ unread' = [unread EXCEPT ![r] = {}]
          /\ stateOf' = stateOf \ {r}
          /\ waiting' = [waiting EXCEPT ![r] = {}]
          /\ dependents' = [k \in Key |->
                              IF k = Out(r) THEN {}
                              ELSE dependents[k] \ {d \in {r} : k \in waiting[d]}]
          /\ todo' = (todo \ {<<r, how>>}) \cup Fails(r)
          /\ ready' = ready \cup HasSteps
      BY <1>3 DEF FinishNext
    <2>2. /\ status' \in [Record -> Statuses] /\ status'[r] = how
          /\ unread' \in [Record -> SUBSET Key] /\ unread'[r] = {} /\ unread[r] \in SUBSET Key
          /\ waiting' \in [Record -> SUBSET Key] /\ waiting'[r] = {}
          /\ \A x \in Record \ {r} : status'[x] = status[x] /\ unread'[x] = unread[x] /\ waiting'[x] = waiting[x]
      BY <2>1 DEF CoreInv, Types, Statuses
    <2>3. /\ ~(r > count) /\ Out(r) \in Key
          /\ unread[r] \cap held[r] = {}
          /\ held[r] # {} => at[r] # "idle"
      BY <1>3, Keys DEF CoreInv, Places, Fresh, Pending
    <2>4. ReadersCounted'
      BY <1>1, <2>1, <2>2, <2>3, RecordLetsGo DEF CoreInv
    <2>5. Types'
      <3>1. readers' = [k \in Key |-> readers'[k]]
        BY <2>1 DEF LetGo
      <3>2. readers' \in [Key -> Int] /\ drops' \subseteq Key
        BY <2>1, <2>4, <3>1, CounterType, EmptiedKeys DEF CoreInv, Types
      <3>3. dependents' \in [Key -> SUBSET Record]
        BY <2>1 DEF CoreInv, Types
      <3>4. todo' \subseteq Record \X {"failed", "cancelled"}
        <4>1. dependents[Out(r)] \subseteq Record
          BY <2>3 DEF CoreInv, Types
        <4> QED
          BY <2>1, <4>1 DEF CoreInv, Types, Fails
      <3>5. ready' \subseteq Acc /\ stateOf' \subseteq Record
        BY <2>1 DEF CoreInv, Types, HasSteps
      <3> QED
        BY <1>1, <2>2, <3>2, <3>3, <3>4, <3>5 DEF CoreInv, Types
    <2>6. Places'
      BY <1>1, <1>3, <2>1, <2>2, <2>3 DEF CoreInv, Places, Pending
    <2>7. Fresh' /\ Progress' /\ InCalls' /\ Frozen'
      <3>1. \A x \in Record : x > count => /\ unread'[x] = {} /\ held'[x] = {} /\ waiting'[x] = {}
                                          /\ at'[x] = "idle" /\ x \notin queued'
        BY <1>1, <2>2, <2>3 DEF CoreInv, Fresh
      <3>2. how \in Statuses /\ how \notin {"none", "pending", "completed"}
        BY DEF Statuses
      <3>3. \A a \in Acc : stopped'[a] = stopped[a]
        BY <1>1
      <3> QED
        BY <1>1, <1>3, <2>1, <3>1, <3>2, <3>3, RestCore
    <2> QED
      BY <2>4, <2>5, <2>6, <2>7 DEF CoreInv
  <1> QED
    BY <1>2, <1>3

LEMMA DropRecordCore ==
  ASSUME CoreInv, NEW r \in Record, DropRecord(r)
  PROVE  CoreInv'
  <1> DEFINE unkept == r \notin kept /\ readers[Out(r)] = 0
             gone == unkept /\ ~Pending(r)
             ks == IF gone THEN LeavesState(r) ELSE {}
  <1>1. /\ Out(r) \in drops
        /\ todo' = todo \cup {<<d, "cancelled">> : d \in {x \in {r} : unkept /\ Pending(x)}}
        /\ memory' = IF gone THEN memory \ {r} ELSE memory
        /\ stateOf' = IF gone THEN stateOf \ {r} ELSE stateOf
        /\ held' = [held EXCEPT ![r] = IF gone THEN @ \ LeavesState(r) ELSE @]
        /\ LetGo(Once(ks))
        /\ drops' = (drops \ {Out(r)}) \cup Emptied(Once(ks))
        /\ UNCHANGED <<count, status, refs, pushes, kept, open, call, unread, waiting, dependents,
                       queued, at, steps, added, busy, driver, computed, stopped, released,
                       freezing, frozen, ready, leaving>>
    BY DEF DropRecord, history, client, running, progress, flags
  <1>2. /\ held[r] \in SUBSET Key /\ ks \in SUBSET held[r]
        /\ gone => ~Pending(r) /\ unread[r] = {} /\ (r \in stateOf => ks = held[r])
        /\ ~gone => ks = {}
    BY DEF LeavesState, CoreInv, Types, Places
  <1>3. /\ held' \in [Record -> SUBSET Key] /\ held'[r] = held[r] \ ks
        /\ \A x \in Record \ {r} : held'[x] = held[x]
    BY <1>1, <1>2 DEF CoreInv, Types
  <1>4. \A x \in Record \ {r} : (x \in memory' <=> x \in memory) /\ (x \in stateOf' <=> x \in stateOf)
    BY <1>1
  <1>5. /\ memory' \subseteq memory /\ stateOf' \subseteq stateOf
        /\ ~gone => memory' = memory /\ stateOf' = stateOf
        /\ todo' \subseteq Record \X {"failed", "cancelled"}
    BY <1>1 DEF CoreInv, Types
  <1> HIDE DEF gone, ks
  <1>6. ReadersCounted'
    <2>1. unread'[r] \cup held'[r] = (unread[r] \cup held[r]) \ ks
      BY <1>1, <1>2, <1>3
    <2> QED
      BY <1>1, <1>2, <1>3, <2>1, RecordLetsGo DEF CoreInv
  <1>7. Types'
    <2>1. readers' = [k \in Key |-> readers'[k]]
      BY <1>1 DEF LetGo
    <2>2. readers' \in [Key -> Int] /\ drops' \subseteq Key
      BY <1>1, <1>6, <2>1, CounterType, EmptiedKeys DEF CoreInv, Types
    <2> QED
      BY <1>1, <1>3, <1>5, <2>2 DEF CoreInv, Types
  <1>8. Places'
    BY <1>1, <1>2, <1>3, <1>4, <1>5 DEF CoreInv, Places, Pending
  <1>9. Fresh' /\ Progress' /\ InCalls' /\ Frozen'
    BY <1>1, <1>2, <1>3 DEF CoreInv, Fresh, Progress, InCalls, Frozen, Pending
  <1> QED
    BY <1>6, <1>7, <1>8, <1>9 DEF CoreInv

-----------------------------------------------------------------------------
(* The steps a released accumulator needs *)

Less == {ss \in Nat \X Nat : ss[1] < ss[2]}

LEMMA Minimum ==
  ASSUME NEW S \in SUBSET Nat, S # {}
  PROVE  Min(S) \in S /\ \A i \in S : Min(S) <= i
  <1>0. IsWellFoundedOn(Less, Nat)
    BY NatLessThanWellFounded, Zenon DEF OpToRel, Less
  <1>1. \E m \in S : \A n \in S : ~ (<<n, m>> \in Less)
    BY <1>0, WFMin, Zenon
  <1>2. PICK m \in S : \A n \in S : ~ (n < m)
    BY <1>1 DEF Less
  <1>3. \A n \in S : m <= n
    BY <1>2
  <1> QED
    BY <1>3 DEF Min

\* They go up to the last state a reader is of, and the step a worker does.
LEMMA NeededSteps ==
  ASSUME CoreInv, NEW a \in Acc
  PROVE  /\ Needed(a) \in 0..Len(steps[a])
         /\ busy[a] => Needed(a) >= 1
         /\ \/ Needed(a) = Len(steps[a])
            \/ \A n \in 0..MaxPushes : readers[<<a, n>>] > 0 => n - added[a] <= Needed(a)
         /\ \A i \in 0..Len(steps[a]) :
               /\ busy[a] => i >= 1
               /\ \A n \in 0..MaxPushes : readers[<<a, n>>] > 0 => n - added[a] <= i
               => Needed(a) <= i
  <1> DEFINE len == Len(steps[a])
             P(i) == /\ busy[a] => i >= 1
                     /\ \A n \in 0..MaxPushes : readers[<<a, n>>] > 0 => n - added[a] <= i
             S == {len} \cup {i \in 0..len : P(i)}
  <1>1. len \in Nat /\ (busy[a] => len >= 1)
    <2>1. steps[a] \in Seq(SUBSET Record) /\ (busy[a] => steps[a] # <<>>)
      BY DEF CoreInv, Types, Progress
    <2> QED
      BY <2>1, EmptySeq, LenProperties
  <1>2. Needed(a) = Min(S)
    BY DEF Needed
  <1> HIDE DEF P
  <1>3. S \in SUBSET Nat /\ S # {} /\ S \subseteq 0..len
    BY <1>1
  <1>4. \A i \in S : i = len \/ P(i)
    OBVIOUS
  <1>5. \A i \in 0..len : P(i) => i \in S
    OBVIOUS
  <1> HIDE DEF S, len
  <1>6. Min(S) \in S /\ \A i \in S : Min(S) <= i
    BY <1>3, Minimum
  <1> QED
    BY <1>1, <1>2, <1>3, <1>4, <1>5, <1>6 DEF P, len

\* What happens to the steps of an accumulator leaves records and calls alone.
LEMMA StepsCore ==
  ASSUME CoreInv, ReadersCounted',
         StepsType', readers' = [k \in Key |-> readers'[k]],
         added' \in [Acc -> None..MaxPushes], busy' \in [Acc -> BOOLEAN],
         stopped' \in [Acc -> BOOLEAN], released' \in [Acc -> BOOLEAN],
         driver' \in [Acc -> Int], computed' \in [Acc -> Int],
         todo' \subseteq Record \X {"failed", "cancelled"}, drops' \subseteq Key,
         ready' \subseteq Acc, leaving' \subseteq leaving, open' \subseteq open,
         waiting' \in [Record -> SUBSET Key], dependents' \in [Key -> SUBSET Record],
         queued' \subseteq Record,
         \A r \in Record : /\ waiting'[r] \subseteq waiting[r]
                           /\ r \in queued' => waiting'[r] = {} /\ (r \in queued \/ waiting[r] # {}),
         \A a \in Acc : /\ stopped[a] => stopped'[a]
                        /\ pushes[a] = None => ~stopped'[a] /\ ~released'[a]
                        /\ added'[a] + Len(steps'[a]) <= pushes[a]
                        /\ a \in open' /\ ~stopped'[a] => added'[a] + Len(steps'[a]) = pushes[a]
                        /\ busy'[a] => steps'[a] # <<>>
                        /\ released'[a] => a \notin open'
                        /\ a \in leaving' => a \in open',
         UNCHANGED <<history, kept, call, unread, held, stateOf, memory, at, freezing, frozen>>
  PROVE  CoreInv'
  <1>1. UNCHANGED <<count, status, refs, pushes, kept, call, unread, held, stateOf, memory, at,
                    freezing, frozen>>
    BY DEF history
  <1>2. readers' \in [Key -> Int]
    BY CounterType
  <1>3. Types'
    BY <1>1, <1>2 DEF CoreInv, Types, StepsType
  <1>4. Fresh'
    BY <1>1 DEF CoreInv, Fresh
  <1>5. Places'
    <2>1. /\ status' = status /\ refs' = refs /\ unread' = unread /\ held' = held
          /\ stateOf' = stateOf /\ memory' = memory /\ at' = at
      BY <1>1
    <2>2. ASSUME NEW r \in Record
          PROVE  waiting'[r] \subseteq unread[r] /\ (r \in queued' => waiting'[r] = {} /\ at[r] = "idle")
      <3>1. waiting'[r] \subseteq waiting[r] /\ waiting[r] \subseteq unread[r]
        BY DEF CoreInv, Places
      <3>2. r \in queued' => waiting'[r] = {} /\ (r \in queued \/ waiting[r] # {})
        OBVIOUS
      <3>3. r \in queued \/ unread[r] # {} => at[r] = "idle"
        BY DEF CoreInv, Places
      <3> QED
        BY <3>1, <3>2, <3>3
    <2>3. \A r \in Record : at[r] # "idle" => r \notin queued'
      BY <2>2
    <2> QED
      BY <2>1, <2>2, <2>3 DEF CoreInv, Places, Pending
  <1>6. Progress'
    BY <1>1 DEF Progress
  <1>7. InCalls' /\ Frozen'
    BY <1>1 DEF CoreInv, InCalls, Frozen, Pending
  <1> QED
    BY <1>3, <1>4, <1>5, <1>6, <1>7 DEF CoreInv

\* The first i steps of an accumulator stay.
LEMMA Cuts ==
  ASSUME CoreInv, NEW a \in Acc, NEW i \in 0..Len(steps[a]), Cut(a, i),
         UNCHANGED <<unread, held, call>>
  PROVE  /\ ReadersCounted' /\ StepsType' /\ readers' = [k \in Key |-> readers'[k]]
         /\ Len(steps'[a]) = i /\ (steps'[a] = <<>> <=> i = 0)
         /\ i = Len(steps[a]) => steps'[a] = steps[a]
         /\ i > 0 => Head(steps'[a]) = Head(steps[a])
         /\ \A b \in Acc \ {a} : steps'[b] = steps[b]
         /\ \A k \in Key : readers'[k] <= readers[k]
         /\ steps'[a] \in Seq(SUBSET Record)
  <1>1. /\ steps \in [Acc -> Seq(SUBSET Record)] /\ steps[a] \in Seq(SUBSET Record) /\ Len(steps[a]) \in Nat
        /\ added[a] + Len(steps[a]) <= pushes[a] /\ added[a] \in None..MaxPushes /\ pushes[a] \in None..MaxPushes
    BY LenProperties DEF CoreInv, Types, Progress
  <1>2. Len(steps[a]) <= MaxPushes + 1
    BY <1>1, Counts DEF None
  <1>3. ReadersCounted'
    BY <1>1, <1>2, StepsCut DEF CoreInv, StepsType
  <1>4. /\ steps' = [steps EXCEPT ![a] = SubSeq(steps[a], 1, i)]
        /\ LetGo(OfSteps(Rest(a, i)))
    BY DEF Cut
  <1>5. /\ SubSeq(steps[a], 1, i) \in Seq(SUBSET Record)
        /\ Len(SubSeq(steps[a], 1, i)) = i
        /\ i = Len(steps[a]) => SubSeq(steps[a], 1, i) = steps[a]
        /\ i > 0 => Head(SubSeq(steps[a], 1, i)) = Head(steps[a])
    BY <1>1
  <1>6. StepsType' /\ steps'[a] = SubSeq(steps[a], 1, i) /\ \A b \in Acc \ {a} : steps'[b] = steps[b]
    BY <1>1, <1>4, <1>5 DEF StepsType
  <1>7. \A k \in Key : readers'[k] <= readers[k]
    <2> SUFFICES ASSUME NEW k \in Key PROVE readers'[k] <= readers[k]
      OBVIOUS
    <2> DEFINE gone == {s \in Rest(a, i) : k \in Sources(steps[s[1]][s[2]])}
    <2>1. IsFiniteSet(Rest(a, i))
      <3>1. \A j \in (i + 1)..Len(steps[a]) : j \in 1..(MaxPushes + 1)
        BY <1>1, <1>2, AccumulatorsAssumption
      <3>2. Rest(a, i) \in SUBSET (Acc \X (1..(MaxPushes + 1)))
        BY <3>1 DEF Rest
      <3> QED
        BY <3>2, AllFinite, FS_Subset
    <2>2. IsFiniteSet(gone)
      BY <2>1, FS_Subset
    <2>3. readers'[k] = readers[k] - Cardinality(gone)
      BY <1>4 DEF LetGo, OfSteps
    <2> HIDE DEF gone
    <2>4. Cardinality(gone) \in Nat
      BY <2>2, FS_CardinalityType
    <2>5. readers[k] \in Int
      BY DEF CoreInv, Types
    <2> QED
      BY <2>3, <2>4, <2>5
  <1>8. readers' = [k \in Key |-> readers'[k]]
    BY <1>4 DEF LetGo
  <1>9. steps'[a] = <<>> <=> i = 0
    BY <1>5, <1>6, EmptySeq
  <1> QED
    BY <1>3, <1>5, <1>6, <1>7, <1>8, <1>9

LEMMA StopCore ==
  ASSUME CoreInv, NEW a \in Acc, steps[a] # <<>>, Stop(a), ready' \subseteq ready
  PROVE  CoreInv'
  <1>1. /\ stopped' = [stopped EXCEPT ![a] = TRUE]
        /\ busy' = [busy EXCEPT ![a] = FALSE]
        /\ Cut(a, 0)
        /\ drops' = drops \cup Emptied(OfSteps(Rest(a, 0)))
        /\ todo' = todo \cup FailsOf(a)
        /\ dependents' = [k \in Key |-> IF k[1] = a THEN {} ELSE dependents[k]]
        /\ driver' = [driver EXCEPT ![a] = IF Unread(a) THEN None ELSE @]
        /\ computed' = [computed EXCEPT ![a] = IF Unread(a) THEN None ELSE @]
        /\ UNCHANGED <<history, kept, open, call, unread, held, stateOf, memory, waiting, queued, at,
                       added, released, freezing, frozen, leaving>>
    BY DEF Stop, client
  <1>2. /\ steps \in [Acc -> Seq(SUBSET Record)] /\ Len(steps[a]) \in Nat \ {0} /\ 0 \in 0..Len(steps[a])
        /\ added[a] + Len(steps[a]) <= pushes[a] /\ added[a] \in None..MaxPushes
    <2>1. steps \in [Acc -> Seq(SUBSET Record)]
      BY DEF CoreInv, Types
    <2>2. Len(steps[a]) \in Nat \ {0}
      BY <2>1, EmptySeq, LenProperties
    <2> QED
      BY <2>1, <2>2, CountsOf, StepsFor, Reaches
  <1>3. /\ ReadersCounted' /\ StepsType' /\ readers' = [k \in Key |-> readers'[k]]
        /\ Len(steps'[a]) = 0
        /\ \A b \in Acc \ {a} : steps'[b] = steps[b]
    BY <1>1, <1>2, Cuts
  <1>4. /\ stopped' \in [Acc -> BOOLEAN] /\ stopped'[a] /\ \A b \in Acc \ {a} : stopped'[b] = stopped[b]
        /\ busy' \in [Acc -> BOOLEAN] /\ ~busy'[a] /\ \A b \in Acc \ {a} : busy'[b] = busy[b]
    BY <1>1 DEF CoreInv, Types
  <1>5. driver' \in [Acc -> Int] /\ computed' \in [Acc -> Int]
    BY <1>1 DEF CoreInv, Types, None
  <1>6. /\ dependents' \in [Key -> SUBSET Record] /\ todo' \subseteq Record \X {"failed", "cancelled"}
        /\ drops' \subseteq Key /\ ready' \subseteq Acc
    <2>1. FailsOf(a) \subseteq Record \X {"failed", "cancelled"}
      <3>1. \A n \in 0..MaxPushes : dependents[<<a, n>>] \subseteq Record
        BY Keys DEF CoreInv, Types
      <3> QED
        BY <3>1 DEF FailsOf
    <2> QED
      BY <1>1, <2>1, EmptiedKeys DEF CoreInv, Types
  <1>7. pushes[a] # None
    BY <1>2, Counts DEF None, CoreInv, Types
  <1>8. /\ \A b \in Acc : /\ stopped[b] => stopped'[b]
                          /\ pushes[b] = None => ~stopped'[b] /\ ~released'[b]
                          /\ added'[b] + Len(steps'[b]) <= pushes[b]
                          /\ b \in open' /\ ~stopped'[b] => added'[b] + Len(steps'[b]) = pushes[b]
                          /\ busy'[b] => steps'[b] # <<>>
                          /\ released'[b] => b \notin open'
                          /\ b \in leaving' => b \in open'
    <2> SUFFICES ASSUME NEW b \in Acc
                 PROVE  /\ stopped[b] => stopped'[b]
                        /\ pushes[b] = None => ~stopped'[b] /\ ~released'[b]
                        /\ added'[b] + Len(steps'[b]) <= pushes[b]
                        /\ b \in open' /\ ~stopped'[b] => added'[b] + Len(steps'[b]) = pushes[b]
                        /\ busy'[b] => steps'[b] # <<>>
                        /\ released'[b] => b \notin open'
                        /\ b \in leaving' => b \in open'
      OBVIOUS
    <2>1. CASE b = a
      <3>1. added'[a] + Len(steps'[a]) <= pushes[a]
        BY <1>1, <1>2, <1>3 DEF CoreInv, Types
      <3> QED
        BY <1>1, <1>4, <1>7, <2>1, <3>1 DEF CoreInv, Progress
    <2>2. CASE b # a
      <3>1. /\ stopped'[b] = stopped[b] /\ steps'[b] = steps[b] /\ busy'[b] = busy[b]
            /\ added' = added /\ open' = open /\ leaving' = leaving /\ released' = released
        BY <1>1, <1>3, <1>4, <2>2
      <3> QED
        BY <3>1 DEF CoreInv, Progress, Fresh
    <2> QED
      BY <2>1, <2>2
  <1>9. \A r \in Record : /\ waiting'[r] \subseteq waiting[r]
                          /\ r \in queued' => waiting'[r] = {} /\ (r \in queued \/ waiting[r] # {})
    BY <1>1 DEF CoreInv, Places
  <1>10. /\ added' \in [Acc -> None..MaxPushes] /\ released' \in [Acc -> BOOLEAN]
         /\ leaving' \subseteq leaving /\ open' \subseteq open
         /\ waiting' \in [Record -> SUBSET Key] /\ queued' \subseteq Record
    BY <1>1 DEF CoreInv, Types
  <1> QED
    BY <1>1, <1>3, <1>4, <1>5, <1>6, <1>8, <1>9, <1>10, StepsCore

LEMMA AdvanceCore ==
  ASSUME CoreInv, NEW a \in Acc, AdvanceNext(a)
  PROVE  CoreInv'
  <1>0. /\ driver \in [Acc -> Int] /\ computed \in [Acc -> Int] /\ busy \in [Acc -> BOOLEAN]
        /\ (\A b \in Acc : busy[b] => steps[b] # <<>>)
        /\ drops \subseteq Key /\ ready \subseteq Acc /\ todo \subseteq Record \X {"failed", "cancelled"}
        /\ leaving \subseteq open
    BY DEF CoreInv, Types, Progress
  <1>1. CASE UNCHANGED <<history, client, reading, running, progress, flags, todo, drops, leaving>>
    <2>1. /\ ready' \subseteq ready
          /\ UNCHANGED <<history, call, kept, open, reading, running, steps, added, flags, computed,
                         drops, leaving, todo, driver, busy>>
      BY <1>1 DEF AdvanceNext, client, progress
    <2> QED
      BY <1>0, <2>1, LightCore
  <1>2. CASE MayStep(a) /\ Stop(a)
    <2>1. steps[a] # <<>> /\ ready' \subseteq ready
      BY <1>2 DEF MayStep, AdvanceNext
    <2> QED
      BY <1>2, <2>1, StopCore
  <1>3. CASE /\ MayStep(a)
             /\ busy' = [busy EXCEPT ![a] = TRUE]
             /\ computed' = [computed EXCEPT ![a] = None]
             /\ driver' = [driver EXCEPT ![a] = Changing]
             /\ UNCHANGED <<history, client, reading, running, steps, added, flags, todo, drops, leaving>>
    <2>1. /\ ready' \subseteq ready /\ steps[a] # <<>>
          /\ UNCHANGED <<history, call, kept, open, reading, running, steps, added, flags,
                         drops, leaving, todo>>
      BY <1>3 DEF AdvanceNext, client, MayStep
    <2>2. /\ busy' \in [Acc -> BOOLEAN] /\ \A b \in Acc : busy'[b] => steps[b] # <<>>
      BY <1>0, <1>3, <2>1
    <2>3. computed' \in [Acc -> Int] /\ driver' \in [Acc -> Int]
      BY <1>0, <1>3 DEF None, Changing
    <2> QED
      BY <1>0, <2>1, <2>2, <2>3, LightCore
  <1> QED
    BY <1>1, <1>2, <1>3 DEF AdvanceNext

LEMMA StepFailsCore ==
  ASSUME CoreInv, NEW a \in Acc, StepFails(a)
  PROVE  CoreInv'
  <1>1. steps[a] # <<>> /\ Stop(a) /\ ready' \subseteq ready
    BY DEF StepFails, CoreInv, Progress
  <1> QED
    BY <1>1, StopCore

LEMMA ReleaseNextCore ==
  ASSUME CoreInv, NEW a \in Acc, ReleaseNext(a)
  PROVE  CoreInv'
  <1> DEFINE i == Needed(a)
  <1>1. /\ a \in leaving /\ leaving' = leaving \ {a} /\ open' = open \ {a}
        /\ released' = [released EXCEPT ![a] = TRUE]
        /\ Cut(a, i)
        /\ drops' = drops \cup Emptied(OfSteps(Rest(a, i)))
        /\ ready' = ready \cup {a}
        /\ UNCHANGED <<history, kept, call, unread, held, stateOf, memory, waiting, dependents, queued,
                       at, added, busy, driver, computed, stopped, freezing, frozen, todo>>
    BY DEF ReleaseNext, running
  <1>2. i \in 0..Len(steps[a]) /\ (busy[a] => i >= 1)
    BY NeededSteps
  <1> HIDE DEF i
  <1>3. /\ ReadersCounted' /\ StepsType' /\ readers' = [k \in Key |-> readers'[k]]
        /\ Len(steps'[a]) = i /\ (steps'[a] = <<>> <=> i = 0)
        /\ \A b \in Acc \ {a} : steps'[b] = steps[b]
    BY <1>1, <1>2, Cuts
  <1>4. /\ Len(steps[a]) \in Nat /\ added[a] + Len(steps[a]) <= pushes[a] /\ added[a] \in Int /\ pushes[a] \in Int
        /\ pushes[a] # None
    BY <1>1, LenProperties DEF CoreInv, Types, Progress, Fresh
  <1>5. \A b \in Acc : /\ stopped[b] => stopped'[b]
                       /\ pushes[b] = None => ~stopped'[b] /\ ~released'[b]
                       /\ added'[b] + Len(steps'[b]) <= pushes[b]
                       /\ b \in open' /\ ~stopped'[b] => added'[b] + Len(steps'[b]) = pushes[b]
                       /\ busy'[b] => steps'[b] # <<>>
                       /\ released'[b] => b \notin open'
                       /\ b \in leaving' => b \in open'
    <2> SUFFICES ASSUME NEW b \in Acc
                 PROVE  /\ stopped[b] => stopped'[b]
                        /\ pushes[b] = None => ~stopped'[b] /\ ~released'[b]
                        /\ added'[b] + Len(steps'[b]) <= pushes[b]
                        /\ b \in open' /\ ~stopped'[b] => added'[b] + Len(steps'[b]) = pushes[b]
                        /\ busy'[b] => steps'[b] # <<>>
                        /\ released'[b] => b \notin open'
                        /\ b \in leaving' => b \in open'
      OBVIOUS
    <2>0. stopped' = stopped /\ added' = added /\ busy' = busy /\ pushes' = pushes
      BY <1>1 DEF history
    <2>1. CASE b = a
      <3>1. added'[a] + Len(steps'[a]) <= pushes[a]
        BY <1>2, <1>3, <1>4, <2>0
      <3>2. busy[a] => steps'[a] # <<>>
        BY <1>2, <1>3
      <3>3. b \notin open' /\ b \notin leaving'
        BY <1>1, <2>1
      <3> QED
        BY <1>4, <2>0, <2>1, <3>1, <3>2, <3>3
    <2>2. CASE b # a
      <3>1. /\ steps'[b] = steps[b] /\ released'[b] = released[b]
            /\ (b \in open' <=> b \in open) /\ (b \in leaving' <=> b \in leaving)
        BY <1>1, <1>3, <2>2 DEF CoreInv, Types
      <3> QED
        BY <2>0, <3>1 DEF CoreInv, Progress, Fresh
    <2> QED
      BY <2>1, <2>2
  <1>6. \A r \in Record : /\ waiting'[r] \subseteq waiting[r]
                          /\ r \in queued' => waiting'[r] = {} /\ (r \in queued \/ waiting[r] # {})
    BY <1>1 DEF CoreInv, Places
  <1>7. /\ added' \in [Acc -> None..MaxPushes] /\ released' \in [Acc -> BOOLEAN]
        /\ stopped' \in [Acc -> BOOLEAN] /\ busy' \in [Acc -> BOOLEAN]
        /\ driver' \in [Acc -> Int] /\ computed' \in [Acc -> Int]
        /\ leaving' \subseteq leaving /\ open' \subseteq open
        /\ waiting' \in [Record -> SUBSET Key] /\ queued' \subseteq Record
        /\ dependents' \in [Key -> SUBSET Record] /\ todo' \subseteq Record \X {"failed", "cancelled"}
    BY <1>1 DEF CoreInv, Types
  <1>8. drops' \subseteq Key /\ ready' \subseteq Acc
    BY <1>1, EmptiedKeys DEF CoreInv, Types
  <1> QED
    BY <1>1, <1>3, <1>5, <1>6, <1>7, <1>8, StepsCore

LEMMA DropStateCore ==
  ASSUME CoreInv, NEW a \in Acc, NEW n \in 0..MaxPushes, DropState(a, n)
  PROVE  CoreInv'
  <1>1. UNCHANGED <<history, kept, open, call, unread, held, stateOf, memory, waiting, dependents,
                    queued, at, added, busy, stopped, released, freezing, frozen, todo, leaving>>
    BY DEF DropState, client, running, flags
  <1>2. CASE stopped[a] \/ IsLast(a, n)
    <2>1. /\ driver' = [driver EXCEPT ![a] = IF stopped[a] /\ n = added[a] THEN None ELSE @]
          /\ computed' = [computed EXCEPT ![a] = IF n = added[a] THEN None ELSE @]
          /\ drops' = drops \ {<<a, n>>}
          /\ UNCHANGED <<steps, readers, ready>>
      BY <1>2 DEF DropState
    <2>2. driver' \in [Acc -> Int] /\ computed' \in [Acc -> Int]
      BY <2>1 DEF CoreInv, Types, None
    <2>3. ready' \subseteq Acc /\ busy' \in [Acc -> BOOLEAN] /\ (\A b \in Acc : busy'[b] => steps[b] # <<>>)
          /\ drops' \subseteq Key /\ todo' \subseteq Record \X {"failed", "cancelled"} /\ leaving' \subseteq open
      BY <1>1, <2>1 DEF CoreInv, Types, Progress
    <2>4. UNCHANGED <<history, open, reading, running, steps, added, flags, kept, call>>
      BY <1>1, <2>1 DEF reading, running, flags
    <2> QED
      BY <2>2, <2>3, <2>4, LightCore
  <1>3. CASE ~(stopped[a] \/ IsLast(a, n))
    <2> DEFINE i == IF released[a] THEN Needed(a) ELSE Len(steps[a])
    <2>1. /\ Cut(a, i)
          /\ drops' = (drops \ {<<a, n>>}) \cup Emptied(OfSteps(Rest(a, i)))
          /\ ready' = ready \cup {a}
          /\ UNCHANGED <<driver, computed>>
      BY <1>3 DEF DropState
    <2>0. /\ steps[a] \in Seq(SUBSET Record) /\ Len(steps[a]) \in Nat
          /\ added[a] + Len(steps[a]) <= pushes[a] /\ added[a] \in Int /\ pushes[a] \in Int
          /\ busy[a] => steps[a] # <<>>
          /\ a \in open => ~released[a]
          /\ busy[a] => Len(steps[a]) >= 1
      BY EmptySeq, LenProperties DEF CoreInv, Types, Progress
    <2>2. i \in 0..Len(steps[a]) /\ (busy[a] => i >= 1) /\ (a \in open => i = Len(steps[a]))
      BY <2>0, NeededSteps
    <2> HIDE DEF i
    <2>3. /\ ReadersCounted' /\ StepsType' /\ readers' = [k \in Key |-> readers'[k]]
          /\ Len(steps'[a]) = i /\ (steps'[a] = <<>> <=> i = 0)
          /\ \A b \in Acc \ {a} : steps'[b] = steps[b]
      <3>1. UNCHANGED <<unread, held, call>>
        BY <1>1
      <3> QED
        BY <2>1, <2>2, <3>1, Cuts
    <2>4. \A b \in Acc : /\ stopped[b] => stopped'[b]
                         /\ pushes[b] = None => ~stopped'[b] /\ ~released'[b]
                         /\ added'[b] + Len(steps'[b]) <= pushes[b]
                         /\ b \in open' /\ ~stopped'[b] => added'[b] + Len(steps'[b]) = pushes[b]
                         /\ busy'[b] => steps'[b] # <<>>
                         /\ released'[b] => b \notin open'
                         /\ b \in leaving' => b \in open'
      <3> SUFFICES ASSUME NEW b \in Acc
                   PROVE  /\ stopped[b] => stopped'[b]
                          /\ pushes[b] = None => ~stopped'[b] /\ ~released'[b]
                          /\ added'[b] + Len(steps'[b]) <= pushes[b]
                          /\ b \in open' /\ ~stopped'[b] => added'[b] + Len(steps'[b]) = pushes[b]
                          /\ busy'[b] => steps'[b] # <<>>
                          /\ released'[b] => b \notin open'
                          /\ b \in leaving' => b \in open'
        OBVIOUS
      <3>0. /\ stopped' = stopped /\ added' = added /\ busy' = busy /\ pushes' = pushes
            /\ open' = open /\ leaving' = leaving /\ released' = released
        BY <1>1 DEF history
      <3>1. CASE b = a
        <4>1. added[a] + Len(steps'[a]) <= pushes[a]
          BY <2>0, <2>2, <2>3
        <4>2. busy[a] => steps'[a] # <<>>
          BY <2>2, <2>3
        <4>3. a \in open => Len(steps'[a]) = Len(steps[a])
          BY <2>2, <2>3
        <4> QED
          BY <3>0, <3>1, <4>1, <4>2, <4>3 DEF CoreInv, Progress, Fresh
      <3>2. CASE b # a
        BY <2>3, <3>0, <3>2 DEF CoreInv, Progress, Fresh
      <3> QED
        BY <3>1, <3>2
    <2>5. \A r \in Record : /\ waiting'[r] \subseteq waiting[r]
                            /\ r \in queued' => waiting'[r] = {} /\ (r \in queued \/ waiting[r] # {})
      BY <1>1 DEF CoreInv, Places
    <2>6. /\ added' \in [Acc -> None..MaxPushes] /\ released' \in [Acc -> BOOLEAN]
          /\ stopped' \in [Acc -> BOOLEAN] /\ busy' \in [Acc -> BOOLEAN]
          /\ driver' \in [Acc -> Int] /\ computed' \in [Acc -> Int]
          /\ leaving' \subseteq leaving /\ open' \subseteq open
          /\ waiting' \in [Record -> SUBSET Key] /\ queued' \subseteq Record
          /\ dependents' \in [Key -> SUBSET Record] /\ todo' \subseteq Record \X {"failed", "cancelled"}
      BY <1>1, <2>1 DEF CoreInv, Types
    <2>7. drops' \subseteq Key /\ ready' \subseteq Acc
      BY <2>1, EmptiedKeys DEF CoreInv, Types
    <2>8. UNCHANGED <<history, kept, call, unread, held, stateOf, memory, at, freezing, frozen>>
      BY <1>1
    <2> QED
      BY <2>3, <2>4, <2>5, <2>6, <2>7, <2>8, StepsCore
  <1> QED
    BY <1>2, <1>3

LEMMA StepDoneCore ==
  ASSUME CoreInv, NEW a \in Acc, StepDone(a)
  PROVE  CoreInv'
  <1> DEFINE outs == Head(steps[a])
             k == <<a, added[a] + 1>>
  <1>1. /\ busy[a]
        /\ steps' = [steps EXCEPT ![a] = Tail(@)]
        /\ added' = [added EXCEPT ![a] = @ + 1]
        /\ driver' = [driver EXCEPT ![a] = added[a] + 1]
        /\ busy' = [busy EXCEPT ![a] = FALSE]
        /\ LetGo(Once(Sources(outs)))
        /\ drops' = Emptied(Once(Sources(outs)))
        /\ Satisfy(k)
        /\ ready' = {a}
        /\ UNCHANGED <<history, kept, open, call, unread, held, stateOf, memory, at, computed,
                       stopped, released, freezing, frozen, todo, leaving>>
    BY DEF StepDone, client, flags
  <1>2. /\ steps \in [Acc -> Seq(SUBSET Record)] /\ steps[a] \in Seq(SUBSET Record) /\ steps[a] # <<>>
        /\ added[a] + Len(steps[a]) <= pushes[a] /\ added[a] \in None..MaxPushes
        /\ pushes[a] \in None..MaxPushes
    BY <1>1 DEF CoreInv, Types, Progress
  <1>3. Len(steps[a]) \in Nat \ {0} /\ Len(Tail(steps[a])) = Len(steps[a]) - 1 /\ Tail(steps[a]) \in Seq(SUBSET Record)
    BY <1>2
  <1>4. added[a] + 1 \in 0..MaxPushes /\ Len(steps[a]) <= MaxPushes + 1
    BY <1>2, <1>3, Counts DEF None
  <1>5. ReadersCounted'
    BY <1>1, <1>2, <1>4, StepsTail DEF CoreInv, StepsType
  <1>6. k \in Key
    BY <1>4, Keys
  <1> HIDE DEF k, outs
  <1>7. /\ waiting' \in [Record -> SUBSET Key] /\ dependents' \in [Key -> SUBSET Record]
        /\ queued' \subseteq Record
        /\ \A r \in Record : /\ waiting'[r] \subseteq waiting[r]
                             /\ r \in queued' /\ r \notin queued => waiting'[r] = {} /\ waiting[r] = {k}
    BY <1>1, <1>6, Satisfies
  <1>8. \A r \in Record : /\ waiting'[r] \subseteq waiting[r]
                          /\ r \in queued' => waiting'[r] = {} /\ (r \in queued \/ waiting[r] # {})
    BY <1>7 DEF CoreInv, Places
  <1>9. /\ \A b \in Acc \ {a} : steps'[b] = steps[b] /\ added'[b] = added[b] /\ busy'[b] = busy[b]
        /\ steps'[a] = Tail(steps[a]) /\ added'[a] = added[a] + 1 /\ ~busy'[a]
        /\ steps' \in [Acc -> Seq(SUBSET Record)] /\ added' \in [Acc -> None..MaxPushes]
        /\ busy' \in [Acc -> BOOLEAN]
    <2>1. added[a] + 1 \in None..MaxPushes
      BY <1>4 DEF None
    <2> QED
      BY <1>1, <1>2, <1>3, <2>1 DEF CoreInv, Types
  <1>10. \A b \in Acc : /\ stopped[b] => stopped'[b]
                        /\ pushes[b] = None => ~stopped'[b] /\ ~released'[b]
                        /\ added'[b] + Len(steps'[b]) <= pushes[b]
                        /\ b \in open' /\ ~stopped'[b] => added'[b] + Len(steps'[b]) = pushes[b]
                        /\ busy'[b] => steps'[b] # <<>>
                        /\ released'[b] => b \notin open'
                        /\ b \in leaving' => b \in open'
    <2> SUFFICES ASSUME NEW b \in Acc
                 PROVE  /\ stopped[b] => stopped'[b]
                        /\ pushes[b] = None => ~stopped'[b] /\ ~released'[b]
                        /\ added'[b] + Len(steps'[b]) <= pushes[b]
                        /\ b \in open' /\ ~stopped'[b] => added'[b] + Len(steps'[b]) = pushes[b]
                        /\ busy'[b] => steps'[b] # <<>>
                        /\ released'[b] => b \notin open'
                        /\ b \in leaving' => b \in open'
      OBVIOUS
    <2>0. stopped' = stopped /\ released' = released /\ open' = open /\ leaving' = leaving
      BY <1>1
    <2>1. CASE b = a
      <3>1. added'[a] + Len(steps'[a]) = added[a] + Len(steps[a])
        BY <1>2, <1>3, <1>9
      <3> QED
        BY <1>9, <2>0, <2>1, <3>1 DEF CoreInv, Progress, Fresh
    <2>2. CASE b # a
      BY <1>9, <2>0, <2>2 DEF CoreInv, Progress, Fresh
    <2> QED
      BY <2>1, <2>2
  <1>11. /\ released' \in [Acc -> BOOLEAN] /\ stopped' \in [Acc -> BOOLEAN]
         /\ computed' \in [Acc -> Int]
         /\ leaving' \subseteq leaving /\ open' \subseteq open
         /\ todo' \subseteq Record \X {"failed", "cancelled"}
    BY <1>1 DEF CoreInv, Types
  <1>12. /\ drops' \subseteq Key /\ ready' \subseteq Acc /\ driver' \in [Acc -> Int]
         /\ readers' = [x \in Key |-> readers'[x]]
    BY <1>1, <1>4, EmptiedKeys DEF CoreInv, Types, LetGo
  <1> QED
    BY <1>1, <1>5, <1>7, <1>8, <1>9, <1>10, <1>11, <1>12, StepsCore DEF StepsType

LEMMA NextCore == CoreInv /\ [Next]_vars => CoreInv'
  <1> SUFFICES ASSUME CoreInv, [Next]_vars PROVE CoreInv'
    OBVIOUS
  <1>1. ASSUME NEW a \in Acc, NEW outs \in Readable(MaxReads), Open(a, outs) \/ Push(a, outs)
        PROVE  CoreInv'
    <2>1. outs \in SUBSET Record
      BY Counts DEF Readable, Existing, CoreInv, Types
    <2> QED
      BY <1>1, <2>1, OpenCore, PushCore
  <1>2. ASSUME NEW t \in Thread, CallOf(t) \/ CallStep(t) PROVE CoreInv'
    BY <1>2, CallCore, CallStepCore
  <1>3. CASE (\E r \in Existing : Cancel(r)) \/ ReleaseOne \/ CloseClient
    BY <1>3, ClientCore
  <1>4. CASE Cascade
    <2>1. ASSUME NEW job \in todo, FinishNext(job[1], job[2]) PROVE CoreInv'
      <3>1. job[1] \in Record /\ job[2] \in {"failed", "cancelled"}
        BY DEF CoreInv, Types
      <3> QED
        BY <2>1, <3>1, FinishCore
    <2>2. ASSUME NEW r \in Record, DropRecord(r) PROVE CoreInv'
      BY <2>2, DropRecordCore
    <2>3. ASSUME NEW s \in State, DropState(s[1], s[2]) PROVE CoreInv'
      BY <2>3, Keys, DropStateCore
    <2>4. ASSUME NEW a \in Acc, AdvanceNext(a) \/ ReleaseNext(a) PROVE CoreInv'
      BY <2>4, AdvanceCore, ReleaseNextCore
    <2> QED
      BY <1>4, <2>1, <2>2, <2>3, <2>4 DEF Cascade
  <1>5. ASSUME NEW r \in Record, RecordStep(r) PROVE CoreInv'
    BY <1>5, StartCore, ReturnCore, ReturnStateCore, RaiseCore, CompleteCore DEF RecordStep
  <1>6. ASSUME NEW a \in Acc, AccStep(a) PROVE CoreInv'
    BY <1>6, StepDoneCore, StepFailsCore DEF AccStep
  <1>7. CASE UNCHANGED vars
    <2>1. UNCHANGED <<history, client, reading, running, progress, flags, work>>
      BY <1>7 DEF vars
    <2>2. /\ UNCHANGED <<history, open, reading, running, steps, added, flags, kept, call>>
          /\ computed' = computed /\ driver' = driver /\ busy' = busy /\ drops' = drops
          /\ leaving' = leaving /\ todo' = todo /\ ready' = ready
      BY <2>1 DEF client, progress, work
    <2> QED
      BY <2>2, LightCore DEF CoreInv, Types, Progress
  <1> QED
    BY <1>1, <1>2, <1>3, <1>4, <1>5, <1>6, <1>7 DEF Next

LEMMA AlwaysCore == Spec => []CoreInv
  BY InitCore, NextCore, PTL DEF Spec

\* The counter of readers is exact.
THEOREM CountsReaders == Spec => []ReadersCounted
  <1>1. CoreInv => ReadersCounted
    BY DEF CoreInv
  <1> QED
    BY AlwaysCore, <1>1, PTL

\* A freeze's record is of the last state.
THEOREM FreezesLast == Spec => []FrozenAtLast
  <1>1. CoreInv => FrozenAtLast
    BY DEF CoreInv, Frozen, FrozenAtLast
  <1> QED
    BY AlwaysCore, <1>1, PTL

-----------------------------------------------------------------------------
(* Who reads a state finds it as pinned: each action preserves ReadInv *)

LEMMA Holding ==
  ASSUME CoreInv
  PROVE  /\ \A k \in Key : readers[k] \in Nat
         /\ \A r \in Record : \A k \in unread[r] \cup held[r] : k \in Key /\ readers[k] > 0
         /\ \A t \in Thread : \A k \in call[t].pins : k \in State /\ k \in Key /\ readers[k] > 0
  <1>1. \A r \in Record : \A k \in unread[r] \cup held[r] : k \in Key
    BY DEF CoreInv, Types
  <1>2. \A t \in Thread : \A k \in call[t].pins : k \in State /\ k \in Key
    BY Keys DEF CoreInv, Types, Calls
  <1>3. ASSUME NEW k \in Key, readers[k] = 0
        PROVE  /\ \A r \in Record : k \notin unread[r] \cup held[r]
               /\ \A t \in Thread : k \notin call[t].pins
    <2>1. RecordsOf(k) = {} /\ CallsOf(k) = {}
      BY <1>3, Unheld DEF CoreInv
    <2> QED
      BY <2>1 DEF RecordsOf, CallsOf
  <1>4. \A k \in Key : readers[k] \in Nat
    BY Unheld DEF CoreInv
  <1> QED
    BY <1>1, <1>2, <1>3, <1>4

\* A state that is read and is the current one is the driver's.
LEMMA Current ==
  ASSUME ReadInv, NEW s \in State, readers[s] > 0, added[s[1]] = s[2]
  PROVE  ~busy[s[1]] /\ driver[s[1]] = s[2] /\ computed[s[1]] \in {None, s[2]} /\ ~Unread(s[1])
  <1>1. s[1] \in Acc /\ s[2] \in 0..MaxPushes /\ s = <<s[1], s[2]>> /\ s \in Key
    BY Keys
  <1>2. readers[<<s[1], added[s[1]]>>] # 0 /\ added[s[1]] # None
    BY <1>1, Counts DEF None
  <1> QED
    BY <1>1, <1>2 DEF ReadInv, Drivers, Unread

LEMMA Letting ==
  ASSUME CoreInv, NEW less, LetGo(less)
  PROVE  \A k \in Emptied(less) : readers'[k] = 0
  <1> SUFFICES ASSUME NEW k \in Key, readers[k] = less[k]
               PROVE  readers'[k] = 0
    BY DEF Emptied
  <1>1. readers'[k] = readers[k] - less[k] /\ readers[k] \in Int
    BY DEF LetGo, CoreInv, Types
  <1> QED
    BY <1>1

LEMMA NeverNegative == CoreInv => \A k \in Key : readers[k] \in Nat
  BY Holding

\* The driver of each accumulator, and the readers of its states, as they are.
LEMMA DriversStay ==
  ASSUME ReadInv, CoreInv',
         \A k \in State : readers'[k] > 0 => readers[k] > 0,
         \A k \in drops' \cap State : readers'[k] = 0,
         \A a \in Acc : Len(steps'[a]) >= Len(steps[a]) /\ (stopped[a] => stopped'[a]),
         UNCHANGED <<added, busy, driver, computed>>
  PROVE  Reached' /\ Drivers'
  <1>1. /\ \A k \in Key : readers[k] \in Nat
        /\ \A k \in Key : readers'[k] \in Nat
    <2>1. \A k \in Key : readers[k] \in Nat
      BY Holding DEF ReadInv
    <2>2. (CoreInv => \A k \in Key : readers[k] \in Nat)'
      BY NeverNegative, PTL
    <2> QED
      BY <2>1, <2>2
  <1>2. Reached'
    <2> SUFFICES ASSUME NEW a \in Acc, NEW n \in 0..MaxPushes, readers'[<<a, n>>] > 0
                 PROVE  stopped'[a] \/ n \in added[a]..(added[a] + Len(steps'[a]))
      BY DEF Reached
    <2>1. readers[<<a, n>>] > 0
      BY Keys
    <2>2. stopped[a] \/ n \in added[a]..(added[a] + Len(steps[a]))
      BY <2>1 DEF ReadInv, Reached
    <2>3. /\ added[a] \in Int /\ steps[a] \in Seq(SUBSET Record) /\ steps'[a] \in Seq(SUBSET Record)
          /\ Len(steps[a]) \in Nat /\ Len(steps'[a]) \in Nat
      <3>1. CoreInv /\ steps' \in [Acc -> Seq(SUBSET Record)]
        BY DEF ReadInv, CoreInv, Types
      <3> QED
        BY <3>1, CountsOf, StepsFor, Reaches, LenProperties
    <2> QED
      BY <2>2, <2>3
  <1>3. Drivers'
    <2> SUFFICES ASSUME NEW a \in Acc
                 PROVE  /\ busy[a] => Unread(a)' /\ computed[a] = None
                        /\ ~Unread(a)' => driver[a] = added[a]
                        /\ ~busy[a] /\ ~stopped'[a] => driver[a] = added[a]
                        /\ computed[a] \in {None, added[a]}
      BY DEF Drivers
    <2>1. Unread(a) => Unread(a)'
      <3> SUFFICES ASSUME added[a] # None, readers[<<a, added[a]>>] = 0
                   PROVE  readers'[<<a, added[a]>>] = 0
        BY DEF Unread
      <3>1. added[a] \in 0..MaxPushes
        BY Counts DEF ReadInv, CoreInv, Types, None
      <3>2. <<a, added[a]>> \in State /\ <<a, added[a]>> \in Key
        BY <3>1, Keys
      <3> QED
        BY <1>1, <3>2
    <2> QED
      BY <2>1 DEF ReadInv, Drivers
  <1> QED
    BY <1>2, <1>3

\* What records have read, and have yet to read, as it is.
LEMMA RecordsStay ==
  ASSUME ReadInv,
         UNCHANGED <<status, refs, unread, held, waiting, at, memory, frozen, added>>,
         \A r \in Record : readers'[Out(r)] > 0 \/ r \in kept' => readers[Out(r)] > 0 \/ r \in kept,
         \A r \in Record : \A s \in held[r] \cap State :
             computed[s[1]] = s[2] => computed'[s[1]] = s[2],
         \A t \in Thread : call'[t].phase = "copying" => \A p \in call'[t].pins : added[p[1]] = p[2],
         \A a \in Acc : stopped'[a] => steps'[a] = <<>>
  PROVE  Waits' /\ Served' /\ Given'
  <1>1. Waits'
    BY DEF ReadInv, Waits, There
  <1>2. Served'
    BY DEF ReadInv, Served
  <1>3. Given'
    <2>1. \A r \in Record : Pending(r) /\ at[r] = "returned" /\ refs[r] \cap State # {} => held[r] = refs[r]
      BY DEF ReadInv, CoreInv, Places
    <2> QED
      BY <2>1 DEF ReadInv, Given, Pending
  <1> QED
    BY <1>1, <1>2, <1>3

LEMMA OpenRead ==
  ASSUME ReadInv, NEW a \in Acc, NEW outs \in SUBSET Record, Open(a, outs) \/ Push(a, outs), CoreInv'
  PROVE  ReadInv'
  <1>1. /\ readers' = [k \in Key |-> readers[k] + Once(Sources(outs))[k]]
        /\ \/ steps' = [steps EXCEPT ![a] = <<outs>>] /\ pushes[a] = None
           \/ steps' = [steps EXCEPT ![a] = Append(@, outs)] /\ ~stopped[a]
        /\ ~Locked /\ \A r \in outs : MayRead(r)
        /\ UNCHANGED <<count, status, refs, kept, call, unread, held, stateOf,
                       memory, waiting, dependents, queued, at, added, busy, driver, computed,
                       stopped, released, freezing, frozen, todo, drops, leaving>>
    <2>1. CASE Open(a, outs)
      BY <2>1 DEF Open, running, flags
    <2>2. CASE Push(a, outs)
      BY <2>2 DEF Push, client, running, flags
    <2> QED
      BY <2>1, <2>2
  <1>2. /\ \A b \in Acc : steps[b] \in Seq(SUBSET Record) /\ Len(steps[b]) \in Nat
        /\ ~stopped[a]
        /\ pushes[a] = None => steps[a] = <<>>
    <2>1. \A b \in Acc : steps[b] \in Seq(SUBSET Record) /\ Len(steps[b]) \in Nat
      BY LenProperties DEF ReadInv, CoreInv, Types
    <2>2. pushes[a] = None => ~stopped[a]
      BY DEF ReadInv, CoreInv, Fresh
    <2>3. ASSUME pushes[a] = None PROVE steps[a] = <<>>
      <3>1. added[a] \in None..MaxPushes /\ added[a] + Len(steps[a]) <= None
        BY <2>3 DEF ReadInv, CoreInv, Types, Progress
      <3>2. Len(steps[a]) = 0
        BY <2>1, <3>1 DEF None
      <3> QED
        BY <2>1, <3>2, EmptySeq
    <2> QED
      BY <1>1, <2>1, <2>2, <2>3
  <1>3. /\ Len(steps'[a]) = Len(steps[a]) + 1
        /\ \A b \in Acc \ {a} : steps'[b] = steps[b]
    <2>1. steps \in [Acc -> Seq(SUBSET Record)]
      BY DEF ReadInv, CoreInv, Types
    <2>2. CASE steps' = [steps EXCEPT ![a] = Append(@, outs)]
      BY <1>2, <2>1, <2>2
    <2>3. CASE steps' = [steps EXCEPT ![a] = <<outs>>] /\ steps[a] = <<>>
      BY <2>1, <2>3
    <2> QED
      BY <1>1, <1>2, <2>2, <2>3
  <1>4. \A k \in State : readers'[k] = readers[k]
    <2>1. Sources(outs) \cap State = {}
      BY Keys
    <2>2. \A k \in State : k \in Key /\ readers[k] \in Int
      BY Keys DEF ReadInv, CoreInv, Types
    <2> QED
      BY <1>1, <2>1, <2>2 DEF Once
  <1>5. Reached' /\ Drivers'
    <2>1. drops' = {}
      BY <1>1 DEF Locked
    <2>2. \A b \in Acc : Len(steps'[b]) >= Len(steps[b])
      BY <1>2, <1>3
    <2>3. \A b \in Acc : stopped[b] => stopped'[b]
      BY <1>1
    <2>4. UNCHANGED <<added, busy, driver, computed>>
      BY <1>1
    <2> QED
      BY <1>4, <2>1, <2>2, <2>3, <2>4, DriversStay
  <1>6. Waits' /\ Served' /\ Given'
    <2>1. ASSUME NEW r \in Record, readers'[Out(r)] > 0 \/ r \in kept'
          PROVE  readers[Out(r)] > 0 \/ r \in kept
      <3>1. Out(r) \in Key /\ readers[Out(r)] \in Int
        BY Keys DEF ReadInv, CoreInv, Types
      <3>2. CASE r \in outs
        BY <1>1, <3>2 DEF MayRead
      <3>3. CASE r \notin outs
        <4>1. Out(r) \notin Sources(outs)
          BY <3>3, Keys
        <4> QED
          BY <1>1, <2>1, <3>1, <4>1 DEF Once
      <3> QED
        BY <3>2, <3>3
    <2>2. \A b \in Acc : stopped'[b] => steps'[b] = <<>>
      BY <1>1, <1>2, <1>3 DEF ReadInv, Waits
    <2>3. \A t \in Thread : call'[t].phase = "copying" => \A p \in call'[t].pins : added[p[1]] = p[2]
      BY <1>1 DEF ReadInv, Waits
    <2> QED
      BY <1>1, <2>1, <2>2, <2>3, RecordsStay
  <1> QED
    BY <1>5, <1>6 DEF ReadInv

\* A call pins states that take readers.
LEMMA EnterRead ==
  ASSUME ReadInv, NEW t \in Thread, NEW op, NEW phase \in {"checking", "waiting", "ending"},
         NEW pins \in SUBSET State, NEW requests,
         Enter(t, op, phase, pins, requests),
         \A p \in pins : p[1] \in open /\ ~stopped[p[1]] /\ p[2] = pushes[p[1]],
         CoreInv'
  PROVE  ReadInv'
  <1>1. /\ call[t] = Idle
        /\ call' = [call EXCEPT ![t] = [op |-> op, phase |-> phase, pins |-> pins, requests |-> requests]]
        /\ readers' = [k \in Key |-> readers[k] + Once(pins)[k]]
        /\ ~Locked
        /\ UNCHANGED <<count, status, refs, pushes, kept, open, unread, held, stateOf,
                       memory, waiting, dependents, queued, at, steps, added, busy, driver,
                       computed, stopped, released, frozen, todo, drops, ready, leaving>>
    BY DEF Enter, history, running, progress, work
  <1>2. \A k \in Key : readers'[k] > 0 => readers[k] > 0 \/ k \in pins
    <2>1. \A k \in Key : readers[k] \in Int
      BY DEF ReadInv, CoreInv, Types
    <2> QED
      BY <1>1, <2>1 DEF Once
  <1>3. ASSUME NEW p \in pins
        PROVE  /\ p[1] \in Acc /\ ~stopped[p[1]]
               /\ p[2] = added[p[1]] + Len(steps[p[1]])
               /\ added[p[1]] \in Int /\ Len(steps[p[1]]) \in Nat
               /\ p[2] = added[p[1]] => ~busy[p[1]]
    <2>1. p[1] \in Acc /\ p[2] = added[p[1]] + Len(steps[p[1]]) /\ added[p[1]] \in Int
          /\ steps[p[1]] \in Seq(SUBSET Record)
      <3>1. CoreInv /\ Progress /\ p \in State
        BY DEF ReadInv, CoreInv
      <3>2. p[1] \in Acc
        BY <3>1, Keys
      <3> QED
        BY <3>1, <3>2, CountsOf, StepsFor, Reaches DEF Progress
    <2>2. p[2] = added[p[1]] => steps[p[1]] = <<>>
      BY <2>1, EmptySeq, LenProperties
    <2> QED
      BY <2>1, <2>2, LenProperties DEF ReadInv, CoreInv, Progress
  <1>4. Reached'
    <2>1. drops' = {}
      BY <1>1 DEF Locked
    <2>2. ASSUME NEW a \in Acc, NEW n \in 0..MaxPushes, readers'[<<a, n>>] > 0
          PROVE  stopped[a] \/ n \in added[a]..(added[a] + Len(steps[a]))
      <3>1. <<a, n>> \in Key
        BY Keys
      <3>2. CASE readers[<<a, n>>] > 0
        BY <3>2 DEF ReadInv, Reached
      <3>3. CASE <<a, n>> \in pins
        <4>1. n = added[a] + Len(steps[a]) /\ added[a] \in Int /\ Len(steps[a]) \in Nat
          BY <1>3, <3>3
        <4> QED
          BY <4>1
      <3> QED
        BY <1>2, <2>2, <3>1, <3>2, <3>3
    <2> QED
      BY <1>1, <2>1, <2>2 DEF Reached
  <1>5. Drivers'
    <2> SUFFICES ASSUME NEW a \in Acc
                 PROVE  /\ busy[a] => Unread(a)' /\ computed[a] = None
                        /\ ~Unread(a)' => driver[a] = added[a]
                        /\ ~busy[a] /\ ~stopped[a] => driver[a] = added[a]
                        /\ computed[a] \in {None, added[a]}
      BY <1>1 DEF Drivers
    <2> DEFINE k == <<a, added[a]>>
    <2>1. k \in pins => ~busy[a] /\ ~stopped[a]
      BY <1>3
    <2>2. k \notin pins => (Unread(a) => Unread(a)')
      <3> SUFFICES ASSUME added[a] # None, readers[k] = 0, k \notin pins PROVE readers'[k] = 0
        BY <1>1 DEF Unread
      <3>1. added[a] \in 0..MaxPushes
        <4>1. CoreInv
          BY DEF ReadInv
        <4> QED
          BY <4>1, Counts, CountsOf, StepsFor, Reaches DEF None
      <3>2. k \in Key
        BY <3>1, Keys
      <3> QED
        BY <1>1, <3>2 DEF Once
    <2> QED
      BY <2>1, <2>2 DEF ReadInv, Drivers
  <1>6. Waits' /\ Served' /\ Given'
    <2>1. \A r \in Record : readers'[Out(r)] > 0 => readers[Out(r)] > 0
      BY <1>2, Keys
    <2>2. \A u \in Thread : call'[u].phase = "copying" => \A p \in call'[u].pins : added[p[1]] = p[2]
      <3>1. call'[t].phase # "copying" /\ \A u \in Thread \ {t} : call'[u] = call[u]
        BY <1>1 DEF ReadInv, CoreInv, Types
      <3> QED
        BY <3>1 DEF ReadInv, Waits
    <2>3. \A b \in Acc : stopped'[b] => steps'[b] = <<>>
      BY <1>1 DEF ReadInv, Waits
    <2> QED
      BY <1>1, <2>1, <2>2, <2>3, RecordsStay
  <1> QED
    BY <1>4, <1>5, <1>6 DEF ReadInv

LEMMA CallRead ==
  ASSUME ReadInv, NEW t \in Thread, CallOf(t), CoreInv'
  PROVE  ReadInv'
  <1>0. CoreInv
    BY DEF ReadInv
  <1>1. \A accs : \A p \in Pins(accs) : p \in State /\ p[1] \in open /\ ~stopped[p[1]] /\ p[2] = pushes[p[1]]
    BY <1>0, PinsStates DEF Pins
  <1>2. ASSUME NEW k \in 1..MaxBatch, NEW requests \in Requests(k), PinStates(t, requests)
        PROVE  ReadInv'
    <2> DEFINE pins == Pins(UNION {requests[i].accs : i \in DOMAIN requests})
    <2>1. Enter(t, "submit", "checking", pins, requests)
      BY <1>2 DEF PinStates
    <2>2. \A p \in pins : p \in State /\ p[1] \in open /\ ~stopped[p[1]] /\ p[2] = pushes[p[1]]
      BY <1>1
    <2> HIDE DEF pins
    <2> QED
      BY <2>1, <2>2, EnterRead
  <1>3. ASSUME NEW a \in Acc, NEW op, NEW phase \in {"checking", "waiting", "ending"},
               a \in open, ~stopped[a], Enter(t, op, phase, {<<a, pushes[a]>>}, <<>>)
        PROVE  ReadInv'
    <2> DEFINE pins == {<<a, pushes[a]>>}
    <2>1. pins = Pins({a})
      BY <1>3 DEF Pins
    <2>2. \A p \in pins : p \in State /\ p[1] \in open /\ ~stopped[p[1]] /\ p[2] = pushes[p[1]]
      BY <1>1, <2>1
    <2>3. Enter(t, op, phase, pins, <<>>)
      BY <1>3
    <2> HIDE DEF pins
    <2> QED
      BY <2>2, <2>3, EnterRead
  <1>4. ASSUME NEW a \in Acc, BeginFreeze(t, a) \/ BeginRead(t, a)
        PROVE  ReadInv'
    BY <1>3, <1>4 DEF BeginFreeze, BeginRead
  <1> QED
    BY <1>2, <1>4 DEF CallOf

\* A call goes on, or the client lets go: nobody reads more.
LEMMA LightRead ==
  ASSUME ReadInv, CoreInv',
         \A k \in State : readers'[k] > 0 => readers[k] > 0,
         \A r \in Record : readers'[Out(r)] > 0 \/ r \in kept' => readers[Out(r)] > 0 \/ r \in kept,
         \A k \in drops' \cap State : readers'[k] = 0,
         \A t \in Thread : call'[t].phase = "copying" => \A p \in call'[t].pins : added[p[1]] = p[2],
         UNCHANGED <<history, unread, held, stateOf, memory, running, progress, stopped, frozen>>
  PROVE  ReadInv'
  <1>1. UNCHANGED <<status, refs, unread, held, waiting, at, memory, frozen, added, busy, driver,
                    computed, steps, stopped>>
    BY DEF history, running, progress
  <1>2. Reached' /\ Drivers'
    <2>1. \A a \in Acc : Len(steps'[a]) >= Len(steps[a])
      BY <1>1, LenProperties DEF ReadInv, CoreInv, Types
    <2> QED
      BY <1>1, <2>1, DriversStay
  <1>3. Waits' /\ Served' /\ Given'
    <2>1. \A a \in Acc : stopped'[a] => steps'[a] = <<>>
      BY <1>1 DEF ReadInv, Waits
    <2> QED
      BY <1>1, <2>1, RecordsStay
  <1> QED
    BY <1>2, <1>3 DEF ReadInv

LEMMA LogsRead ==
  ASSUME ReadInv, NEW t \in Thread, NEW made \in SUBSET Record, NEW new, Logs(t, made, new), ~Locked,
         CoreInv'
  PROVE  ReadInv'
  <1>0. CoreInv
    BY DEF ReadInv
  <1>1. /\ new \in [made -> SUBSET Key] /\ DOMAIN new = made
        /\ call' = [call EXCEPT ![t].phase = "ending"] /\ call[t].phase = "checking"
        /\ kept \subseteq kept' /\ kept' \subseteq kept \cup made
        /\ \A r \in made : References(t, made, new[r])
        /\ status' = [r \in Record |-> IF r \in made THEN "pending" ELSE status[r]]
        /\ refs' = [r \in Record |-> IF r \in made THEN new[r] ELSE refs[r]]
        /\ unread' = [r \in Record |-> IF r \in made THEN new[r] ELSE unread[r]]
        /\ readers' = [k \in Key |-> readers[k] + Cardinality({r \in made : k \in new[r]})]
        /\ UNCHANGED <<pushes, held, memory, at, open, steps, added, busy, driver, computed, stopped,
                       released, freezing, todo, drops, ready, leaving>>
    BY DEF Logs, LogRecords, progress, work
  <1>2. /\ \A r \in made : /\ status[r] = "none" /\ at[r] = "idle" /\ r \notin memory /\ held[r] = {}
        /\ \A r \in Record \ made : waiting'[r] = waiting[r]
        /\ \A r \in made : \A k \in new[r] \ waiting'[r] :
              IF k \in State THEN added[k[1]] = k[2] ELSE status[k[2]] \notin {"none", "pending"}
    <2>1. \A r \in made : status[r] = "none" /\ at[r] = "idle" /\ r \notin memory /\ held[r] = {}
      BY <1>0, LogsFresh
    <2>2. waiting' = [r \in Record |->
             IF r \in made THEN {k \in new[r] : IF k \in State THEN added[k[1]] # k[2]
                                                ELSE status[k[2]] \in {"none", "pending"}}
             ELSE waiting[r]]
      BY <1>1 DEF Logs, LogRecords
    <2> QED
      BY <2>1, <2>2
  <1>3. \A k \in Key : readers'[k] > 0 => readers[k] > 0 \/ \E r \in made : k \in new[r]
    <2> SUFFICES ASSUME NEW k \in Key, \A r \in made : k \notin new[r]
                 PROVE  readers'[k] = readers[k]
      OBVIOUS
    <2> DEFINE join == {r \in made : k \in new[r]}
    <2>1. join = {}
      OBVIOUS
    <2>2. readers'[k] = readers[k] + Cardinality(join) /\ readers[k] \in Int
      BY <1>1 DEF ReadInv, CoreInv, Types
    <2> HIDE DEF join
    <2>3. Cardinality(join) = 0
      BY <2>1, FS_EmptySet
    <2> QED
      BY <2>2, <2>3
  <1>4. \A k \in State : readers'[k] > 0 => readers[k] > 0
    <2>1. ASSUME NEW k \in State, NEW r \in made, k \in new[r] PROVE readers[k] > 0
      <3>1. k \in call[t].pins
        BY <1>1, <2>1, Keys DEF References
      <3> QED
        BY <1>0, <3>1, Holding
    <2> QED
      BY <1>3, <2>1, Keys
  <1>5. \A r \in Record : readers'[Out(r)] > 0 \/ r \in kept' =>
           readers[Out(r)] > 0 \/ r \in kept \/ r \in made
    <2>1. ASSUME NEW r \in Record, NEW x \in made, Out(r) \in new[x] PROVE r \in made \/ r \in kept
      <3>1. CASE \E p \in call[t].pins : new[x] = {p}
        BY <1>0, <2>1, <3>1, Holding, Keys
      <3>2. CASE \E rs \in SUBSET Record : new[x] = Sources(rs) /\ \A y \in rs : y \in made \/ MayRead(y)
        BY <2>1, <3>2, Keys DEF MayRead
      <3> QED
        BY <1>1, <2>1, <3>1, <3>2 DEF References
    <2> SUFFICES ASSUME NEW r \in Record, readers'[Out(r)] > 0 \/ r \in kept'
                 PROVE  readers[Out(r)] > 0 \/ r \in kept \/ r \in made
      OBVIOUS
    <2>2. Out(r) \in Key
      BY Keys
    <2>3. readers'[Out(r)] > 0 => readers[Out(r)] > 0 \/ \E x \in made : Out(r) \in new[x]
      BY <1>3, <2>2
    <2>4. r \in kept' => r \in kept \/ r \in made
      BY <1>1
    <2> QED
      BY <2>1, <2>3, <2>4
  <1>6. Reached' /\ Drivers'
    <2>1. drops' = {}
      BY <1>1 DEF Locked
    <2>2. \A a \in Acc : Len(steps'[a]) >= Len(steps[a])
      BY <1>1, LenProperties DEF ReadInv, CoreInv, Types
    <2> QED
      BY <1>1, <1>4, <2>1, <2>2, DriversStay
  <1>7. Waits'
    <2>1. \A k \in Key : There(k) => There(k)'
      <3>1. \A k \in Key \ State : There(k) => There(k)'
        <4> SUFFICES ASSUME NEW r \in Record, There(Out(r)) PROVE There(Out(r))'
          BY Keys
        <4>1. status[r] = "completed"
          BY Keys DEF There
        <4>2. status'[r] = "completed"
          BY <1>1, <1>2, <4>1
        <4> QED
          BY <4>2, Keys DEF There
      <3> QED
        BY <1>1, <3>1 DEF There
    <2>2. ASSUME NEW r \in made, NEW k \in new[r] \ waiting'[r] PROVE There(k)'
      <3>1. CASE k \in State
        BY <1>1, <1>2, <2>2, <3>1 DEF There
      <3>2. CASE k \notin State
        <4>1. PICK x \in Record : k = Out(x)
          BY <1>1, <2>2, <3>2, Keys
        <4>2. status[x] \notin {"none", "pending"}
          BY <1>2, <2>2, <3>2, <4>1, Keys
        <4>3. x \in made \/ MayRead(x)
          <5>1. CASE \E p \in call[t].pins : new[r] = {p}
            BY <1>0, <2>2, <3>2, <5>1, Holding
          <5>2. CASE \E rs \in SUBSET Record : new[r] = Sources(rs) /\ \A y \in rs : y \in made \/ MayRead(y)
            BY <2>2, <4>1, <5>2, Keys
          <5> QED
            BY <1>1, <5>1, <5>2 DEF References
        <4>4. status[x] = "completed"
          BY <1>2, <4>2, <4>3 DEF MayRead, ReadInv, CoreInv, Types, Statuses
        <4>5. There(k)
          BY <4>1, <4>4, Keys DEF There
        <4> QED
          BY <2>1, <4>1, <4>5, Keys
      <3> QED
        BY <3>1, <3>2
    <2>3. ASSUME NEW r \in Record
          PROVE  (\A k \in unread'[r] \ waiting'[r] : There(k)') /\ (\A k \in held[r] : There(k)')
      <3>1. unread[r] \cup held[r] \subseteq Key
        BY DEF ReadInv, CoreInv, Types
      <3>2. \A k \in held[r] : There(k)'
        BY <2>1, <3>1 DEF ReadInv, Waits
      <3>3. CASE r \in made
        BY <1>1, <2>2, <3>2, <3>3
      <3>4. CASE r \notin made
        <4>1. unread'[r] = unread[r] /\ waiting'[r] = waiting[r]
          BY <1>1, <1>2, <3>4
        <4> QED
          BY <2>1, <3>1, <3>2, <4>1 DEF ReadInv, Waits
      <3> QED
        BY <3>3, <3>4
    <2>4. \A u \in Thread : call'[u].phase = "copying" => \A p \in call'[u].pins : added[p[1]] = p[2]
      <3>1. call'[t].phase = "ending" /\ \A u \in Thread \ {t} : call'[u] = call[u]
        BY <1>0, <1>1, PhaseCalls DEF CoreInv
      <3> QED
        BY <3>1 DEF ReadInv, Waits
    <2> QED
      BY <1>1, <2>3, <2>4 DEF ReadInv, Waits
  <1>8. Served'
    BY <1>1, <1>2, <1>5 DEF ReadInv, Served
  <1>9. Given'
    <2> SUFFICES ASSUME NEW r \in Record, NEW s \in refs'[r] \cap State
                 PROVE  /\ at[r] = "returned" /\ status'[r] = "pending" => computed[s[1]] = s[2]
                        /\ r \in memory /\ frozen'[s[1]] # r => s \in held[r] /\ computed[s[1]] = s[2]
      BY <1>1 DEF Given, Pending
    <2>1. CASE r \in made
      BY <1>2, <2>1
    <2>2. CASE r \notin made
      <3>1. refs'[r] = refs[r] /\ status'[r] = status[r]
        BY <1>1, <2>2
      <3>2. at[r] = "returned" /\ status'[r] = "pending" => computed[s[1]] = s[2]
        BY <3>1 DEF ReadInv, Given, Pending
      <3>3. ASSUME r \in memory, frozen'[s[1]] # r, frozen[s[1]] = r PROVE FALSE
        <4>1. s[1] \in Acc
          BY Keys
        <4>2. stopped[s[1]]
          <5>1. status[r] = "completed" /\ frozen[s[1]] # 0
            BY <3>3, Counts DEF ReadInv, CoreInv, Places
          <5> QED
            BY <3>3, <4>1, <5>1 DEF ReadInv, CoreInv, Frozen
        <4>3. PICK p \in call[t].pins : ~stopped[p[1]] /\ frozen' = [frozen EXCEPT ![p[1]] = count + 1]
          BY <3>3 DEF Logs
        <4>4. frozen'[s[1]] = frozen[s[1]]
          BY <4>1, <4>2, <4>3 DEF ReadInv, CoreInv, Types
        <4> QED
          BY <3>3, <4>4
      <3> QED
        BY <3>1, <3>2, <3>3 DEF ReadInv, Given
    <2> QED
      BY <2>1, <2>2
  <1> QED
    BY <1>6, <1>7, <1>8, <1>9 DEF ReadInv

LEMMA CallStepRead ==
  ASSUME ReadInv, NEW t \in Thread, CallStep(t), CoreInv'
  PROVE  ReadInv'
  <1>0. CoreInv /\ Types /\ \A k \in drops \cap State : readers[k] = 0
    BY DEF ReadInv, CoreInv, Reached
  <1>1. CASE Create(t) \/ Freeze(t)
    BY <1>0, <1>1, CreateLogs, FreezeLogs, LogsRead
  <1>2. ASSUME NEW phase \in {"copying", "ending"}, call' = [call EXCEPT ![t].phase = phase],
               phase = "copying" => \A p \in call[t].pins : added[p[1]] = p[2],
               UNCHANGED <<history, kept, reading, running, progress, flags, work>>
        PROVE  ReadInv'
    <2>1. /\ \A u \in Thread : u # t => call'[u] = call[u]
          /\ call'[t].phase = phase /\ call'[t].pins = call[t].pins
      BY <1>0, <1>2, PhaseCalls
    <2>2. \A u \in Thread : call'[u].phase = "copying" => \A p \in call'[u].pins : added[p[1]] = p[2]
      BY <1>2, <2>1 DEF ReadInv, Waits
    <2>3. /\ readers' = readers /\ kept' = kept /\ drops' = drops
          /\ UNCHANGED <<history, unread, held, stateOf, memory, running, progress, stopped, frozen>>
      BY <1>2 DEF reading, flags, work
    <2> QED
      BY <1>0, <2>2, <2>3, LightRead
  <1>3. CASE Refuse(t)
    <2>1. /\ call' = [call EXCEPT ![t].phase = "ending"]
          /\ UNCHANGED <<history, kept, reading, running, progress, flags, work>>
      BY <1>3 DEF Refuse
    <2> QED
      BY <1>2, <2>1
  <1>4. CASE StopWaiting(t)
    <2>1. PICK p \in call[t].pins :
            /\ call[t].phase = "waiting"
            /\ call' = [call EXCEPT ![t].phase =
                          IF alive /\ added[p[1]] = p[2] THEN "copying" ELSE "ending"]
            /\ UNCHANGED <<history, kept, reading, running, progress, flags, work>>
      BY <1>4 DEF StopWaiting
    <2>2. call[t].pins = {p}
      <3>1. call[t].op \in {"freeze", "read"}
        <4>1. InCalls /\ call[t].op \in {"none", "submit", "freeze", "read"}
          BY <1>0 DEF CoreInv, Types, Calls
        <4> QED
          <5>1. /\ call[t].op = "none" => call[t].phase = "idle"
                /\ call[t].op = "submit" => call[t].phase \in {"checking", "ending"}
            BY <4>1 DEF InCalls
          <5> QED
            BY <2>1, <4>1, <5>1
      <3> QED
        BY <1>0, <3>1 DEF CoreInv, InCalls
    <2>3. CASE alive /\ added[p[1]] = p[2]
      BY <1>2, <2>1, <2>2, <2>3
    <2>4. CASE ~(alive /\ added[p[1]] = p[2])
      BY <1>2, <2>1, <2>4
    <2> QED
      BY <2>3, <2>4
  <1>5. CASE Copy(t)
    <2>1. PICK p \in call[t].pins :
            /\ call[t].phase = "copying"
            /\ Compute(p[1]) \/ UNCHANGED computed
            /\ call' = [call EXCEPT ![t].phase = "ending"]
            /\ UNCHANGED <<history, kept, reading, running, steps, added, busy, driver, flags, work>>
      BY <1>5 DEF Copy
    <2>2. CASE UNCHANGED computed
      BY <1>2, <2>1, <2>2 DEF progress
    <2>3. CASE Compute(p[1])
      <3>1. p \in State /\ readers[p] > 0 /\ added[p[1]] = p[2] /\ p[1] \in Acc
        BY <1>0, <2>1, Holding, Keys DEF ReadInv, Waits
      <3>2. ~busy[p[1]] /\ driver[p[1]] = p[2] /\ computed[p[1]] \in {None, p[2]}
        BY <3>1, Current
      <3>3. /\ computed'[p[1]] = p[2] /\ \A b \in Acc \ {p[1]} : computed'[b] = computed[b]
        BY <1>0, <2>3, <3>1, <3>2 DEF Compute, Types
      <3>4. Drivers' /\ Reached'
        <4>1. UNCHANGED <<steps, added, busy, driver, readers, stopped, drops>>
          BY <2>1 DEF reading, flags, work
        <4>2. Drivers'
          BY <3>1, <3>2, <3>3, <4>1 DEF ReadInv, Drivers, Unread
        <4> QED
          BY <4>1, <4>2 DEF ReadInv, Reached
      <3>5. Waits' /\ Served' /\ Given'
        <4>1. \A u \in Thread : call'[u].phase = "copying" => \A q \in call'[u].pins : added[q[1]] = q[2]
          <5>1. call'[t].phase = "ending" /\ \A u \in Thread : u # t => call'[u] = call[u]
            BY <1>0, <2>1, PhaseCalls
          <5> QED
            BY <5>1 DEF ReadInv, Waits
        <4>2. \A r \in Record : \A s \in held[r] \cap State :
                 computed[s[1]] = s[2] => computed'[s[1]] = s[2]
          <5> SUFFICES ASSUME NEW r \in Record, NEW s \in held[r] \cap State, computed[s[1]] = s[2]
                       PROVE  computed'[s[1]] = s[2]
            OBVIOUS
          <5>1. s[1] \in Acc /\ s[2] \in 0..MaxPushes
            BY Keys
          <5>2. s[2] # None
            BY <5>1, Counts DEF None
          <5> QED
            BY <3>2, <3>3, <5>1, <5>2
        <4>3. /\ UNCHANGED <<status, refs, unread, held, waiting, at, memory, frozen, added>>
              /\ readers' = readers /\ kept' = kept /\ stopped' = stopped /\ steps' = steps
          BY <2>1 DEF history, reading, running, flags
        <4>4. \A a \in Acc : stopped'[a] => steps'[a] = <<>>
          BY <4>3 DEF ReadInv, Waits
        <4>5. \A r \in Record : readers'[Out(r)] > 0 \/ r \in kept' => readers[Out(r)] > 0 \/ r \in kept
          BY <4>3
        <4> QED
          BY <4>1, <4>2, <4>3, <4>4, <4>5, RecordsStay
      <3> QED
        BY <3>4, <3>5 DEF ReadInv
    <2> QED
      BY <2>1, <2>2, <2>3
  <1>6. CASE EndCall(t)
    <2> DEFINE less == Once(call[t].pins)
    <2>1. /\ call' = [call EXCEPT ![t] = Idle]
          /\ LetGo(less) /\ drops' = Emptied(less)
          /\ UNCHANGED <<history, kept, unread, held, stateOf, memory, running, progress, stopped, frozen>>
      BY <1>6 DEF EndCall
    <2>2. \A k \in Key : readers'[k] <= readers[k] /\ readers[k] \in Int
      BY <1>0, <2>1 DEF LetGo, Once, Types
    <2> HIDE DEF less
    <2>3. \A k \in drops' \cap State : readers'[k] = 0
      BY <1>0, <2>1, Letting
    <2>4. \A k \in Key : readers'[k] > 0 => readers[k] > 0
      <3>1. \A k \in Key : readers'[k] \in Nat
        <4>1. (CoreInv => \A k \in Key : readers[k] \in Nat)'
          BY NeverNegative, PTL
        <4> QED
          BY <4>1
      <3> QED
        BY <2>2, <3>1
    <2>5. \A u \in Thread : call'[u].phase = "copying" => \A p \in call'[u].pins : added[p[1]] = p[2]
      BY <1>0, <2>1 DEF ReadInv, Waits, Types, Idle
    <2>6. \A k \in State : readers'[k] > 0 => readers[k] > 0
      BY <2>4, Keys
    <2>7. \A r \in Record : readers'[Out(r)] > 0 \/ r \in kept' => readers[Out(r)] > 0 \/ r \in kept
      BY <2>1, <2>4, Keys
    <2> QED
      BY <2>1, <2>3, <2>5, <2>6, <2>7, LightRead
  <1> QED
    BY <1>1, <1>3, <1>4, <1>5, <1>6 DEF CallStep

LEMMA ClientRead ==
  ASSUME ReadInv, (\E r \in Existing : Cancel(r)) \/ ReleaseOne \/ CloseClient, CoreInv'
  PROVE  ReadInv'
  <1>0. /\ \A k \in drops \cap State : readers[k] = 0
        /\ \A t \in Thread : call[t].phase = "copying" => \A p \in call[t].pins : added[p[1]] = p[2]
    BY DEF ReadInv, Reached, Waits
  <1>1. ASSUME NEW r \in Existing, Cancel(r) PROVE ReadInv'
    <2>1. /\ readers' = readers /\ kept' = kept /\ call' = call /\ drops' = drops
          /\ UNCHANGED <<history, unread, held, stateOf, memory, running, progress, stopped, frozen>>
      BY <1>1 DEF Cancel, client, reading, flags
    <2> QED
      BY <1>0, <2>1, LightRead
  <1>2. ASSUME NEW rs \in SUBSET kept, NEW accs \in SUBSET open, Release(rs, accs)
        PROVE  ReadInv'
    <2>1. /\ readers' = readers /\ kept' = kept \ rs /\ call' = call /\ drops' = Sources(rs)
          /\ UNCHANGED <<history, unread, held, stateOf, memory, running, progress, stopped, frozen>>
      BY <1>2 DEF Release, reading, flags
    <2>2. drops' \cap State = {}
      BY <2>1, Keys DEF ReadInv, CoreInv, Types
    <2> QED
      BY <1>0, <2>1, <2>2, LightRead
  <1>3. CASE ReleaseOne \/ CloseClient
    BY <1>2, <1>3 DEF ReleaseOne, CloseClient
  <1> QED
    BY <1>1, <1>3

LEMMA Fewer ==
  ASSUME ReadInv, CoreInv', NEW ks, LetGo(Once(ks))
  PROVE  /\ \A k \in State : readers'[k] > 0 => readers[k] > 0
         /\ \A r \in Record : readers'[Out(r)] > 0 => readers[Out(r)] > 0
         /\ \A k \in (drops \cup Emptied(Once(ks))) \cap State : readers'[k] = 0
  <1> DEFINE less == Once(ks)
  <1>1. \A k \in Key : readers'[k] = readers[k] - less[k] /\ less[k] \in {0, 1} /\ readers[k] \in Int
    BY DEF LetGo, Once, ReadInv, CoreInv, Types
  <1>2. LetGo(less)
    OBVIOUS
  <1> HIDE DEF less
  <1>3. \A k \in Key : readers'[k] \in Nat
    <2>1. (CoreInv => \A k \in Key : readers[k] \in Nat)'
      BY NeverNegative, PTL
    <2> QED
      BY <2>1
  <1>4. \A k \in Key : readers'[k] > 0 => readers[k] > 0
    BY <1>1, <1>3
  <1>5. \A k \in drops \cap State : readers'[k] = 0
    BY <1>1, <1>3, Keys DEF ReadInv, Reached
  <1>6. \A k \in Emptied(less) : readers'[k] = 0
    BY <1>2, Letting DEF ReadInv
  <1> QED
    BY <1>4, <1>5, <1>6, Keys DEF less

LEMMA StartRead ==
  ASSUME ReadInv, NEW r \in Record, Start(r), CoreInv'
  PROVE  ReadInv'
  <1>1. /\ r \in queued
        /\ UNCHANGED <<status, refs, kept, call, readers, memory, waiting, steps, added, busy, driver,
                       computed, stopped, frozen, drops>>
    BY DEF Start, history, client, progress, flags, work
  <1>2. Reached' /\ Drivers'
    BY <1>1 DEF ReadInv, Reached, Drivers, Unread
  <1>3. Served'
    BY <1>1 DEF ReadInv, Served
  <1>4. CASE Pending(r)
    <2>1. /\ at' = [at EXCEPT ![r] = "computing"] /\ held' = [held EXCEPT ![r] = unread[r]]
          /\ unread' = [unread EXCEPT ![r] = {}]
      BY <1>4 DEF Start
    <2>2. /\ at'[r] = "computing" /\ held'[r] = unread[r] /\ unread'[r] = {}
          /\ \A x \in Record \ {r} : at'[x] = at[x] /\ held'[x] = held[x] /\ unread'[x] = unread[x]
      BY <2>1 DEF ReadInv, CoreInv, Types
    <2>3. waiting[r] = {} /\ r \notin memory
      BY <1>1, <1>4 DEF ReadInv, CoreInv, Places, Pending
    <2>4. Waits'
      BY <1>1, <2>2, <2>3 DEF ReadInv, Waits, There
    <2>5. Given'
      BY <1>1, <2>2, <2>3 DEF ReadInv, Given, Pending
    <2> QED
      BY <1>2, <1>3, <2>4, <2>5 DEF ReadInv
  <1>5. CASE ~Pending(r)
    <2>1. UNCHANGED <<at, held, unread>>
      BY <1>5 DEF Start
    <2> QED
      BY <1>1, <1>2, <1>3, <2>1 DEF ReadInv, Waits, There, Given, Pending
  <1> QED
    BY <1>4, <1>5

LEMMA ReturnRead ==
  ASSUME ReadInv, NEW r \in Record, Return(r), CoreInv'
  PROVE  ReadInv'
  <1>1. /\ at[r] = "computing" /\ refs[r] \cap State = {}
        /\ at' = [at EXCEPT ![r] = "returned"]
        /\ LetGo(Once(held[r])) /\ drops' = Emptied(Once(held[r]))
        /\ held' = [held EXCEPT ![r] = {}]
        /\ UNCHANGED <<status, refs, kept, call, unread, memory, waiting, steps, added, busy, driver,
                       computed, stopped, frozen>>
    BY DEF Return, history, client, progress, flags
  <1>2. /\ at'[r] = "returned" /\ held'[r] = {}
        /\ \A x \in Record \ {r} : at'[x] = at[x] /\ held'[x] = held[x]
    BY <1>1 DEF ReadInv, CoreInv, Types
  <1>3. /\ \A k \in State : readers'[k] > 0 => readers[k] > 0
        /\ \A x \in Record : readers'[Out(x)] > 0 => readers[Out(x)] > 0
        /\ \A k \in drops' \cap State : readers'[k] = 0
    BY <1>1, Fewer
  <1>4. Reached' /\ Drivers'
    <2>1. \A a \in Acc : Len(steps'[a]) >= Len(steps[a])
      BY <1>1, LenProperties DEF ReadInv, CoreInv, Types
    <2> QED
      BY <1>1, <1>3, <2>1, DriversStay
  <1>5. Waits'
    BY <1>1, <1>2 DEF ReadInv, Waits, There
  <1>6. Served'
    BY <1>1, <1>3 DEF ReadInv, Served
  <1>7. Given'
    BY <1>1, <1>2 DEF ReadInv, Given, Pending
  <1> QED
    BY <1>4, <1>5, <1>6, <1>7 DEF ReadInv

LEMMA ReturnStateRead ==
  ASSUME ReadInv, NEW r \in Record, ReturnState(r), CoreInv'
  PROVE  ReadInv'
  <1>1. PICK k \in held[r] \cap State :
           /\ at[r] = "computing" /\ at' = [at EXCEPT ![r] = "returned"]
           /\ Compute(k[1])
           /\ UNCHANGED <<status, refs, kept, call, unread, held, readers, memory, waiting, steps, added,
                          busy, driver, stopped, frozen, drops>>
    BY DEF ReturnState, history, client, reading, flags, work
  <1>2. at'[r] = "returned" /\ \A x \in Record \ {r} : at'[x] = at[x]
    BY <1>1 DEF ReadInv, CoreInv, Types
  <1>3. k \in State /\ readers[k] > 0 /\ added[k[1]] = k[2] /\ k[1] \in Acc /\ refs[r] = {k}
    <2>1. readers[k] > 0
      BY Holding DEF ReadInv
    <2> QED
      BY <2>1, Keys DEF ReadInv, Waits, There, CoreInv, Places
  <1>4. ~busy[k[1]] /\ driver[k[1]] = k[2] /\ computed[k[1]] \in {None, k[2]}
    BY <1>3, Current
  <1>5. /\ computed'[k[1]] = k[2] /\ \A b \in Acc \ {k[1]} : computed'[b] = computed[b]
    BY <1>1, <1>3, <1>4 DEF Compute, ReadInv, CoreInv, Types
  <1>6. Reached' /\ Waits' /\ Served'
    BY <1>1 DEF ReadInv, Reached, Waits, There, Served
  <1>7. Drivers'
    BY <1>1, <1>3, <1>4, <1>5 DEF ReadInv, Drivers, Unread
  <1>8. Given'
    <2>1. \A s \in State : computed[s[1]] = s[2] => computed'[s[1]] = s[2]
      <3> SUFFICES ASSUME NEW s \in State, computed[s[1]] = s[2] PROVE computed'[s[1]] = s[2]
        OBVIOUS
      <3>1. s[1] \in Acc /\ s[2] # None
        BY Keys, Counts DEF None
      <3> QED
        BY <1>4, <1>5, <3>1
    <2> QED
      BY <1>1, <1>2, <1>3, <1>5, <2>1 DEF ReadInv, Given, Pending
  <1> QED
    BY <1>6, <1>7, <1>8 DEF ReadInv

LEMMA RaiseRead ==
  ASSUME ReadInv, NEW r \in Record, Raise(r), CoreInv'
  PROVE  ReadInv'
  <1>1. /\ at[r] = "computing" /\ at' = [at EXCEPT ![r] = "idle"]
        /\ LetGo(Once(held[r])) /\ drops' = Emptied(Once(held[r]))
        /\ held' = [held EXCEPT ![r] = {}]
        /\ status' = [status EXCEPT ![r] = IF Pending(r) THEN "failed" ELSE @]
        /\ UNCHANGED <<refs, kept, call, unread, memory, waiting, steps, added, busy, driver,
                       computed, stopped, frozen>>
    BY DEF Raise, client, progress, flags, ReadInv, CoreInv, Types
  <1>2. /\ at'[r] = "idle" /\ held'[r] = {}
        /\ status[r] # "completed" /\ status'[r] # "completed" /\ status'[r] # "pending"
        /\ \A x \in Record \ {r} : at'[x] = at[x] /\ held'[x] = held[x] /\ status'[x] = status[x]
    BY <1>1 DEF ReadInv, CoreInv, Types, Places, Pending
  <1>3. /\ \A k \in State : readers'[k] > 0 => readers[k] > 0
        /\ \A x \in Record : readers'[Out(x)] > 0 => readers[Out(x)] > 0
        /\ \A k \in drops' \cap State : readers'[k] = 0
    BY <1>1, Fewer
  <1>4. Reached' /\ Drivers'
    <2>1. \A a \in Acc : Len(steps'[a]) >= Len(steps[a])
      BY <1>1, LenProperties DEF ReadInv, CoreInv, Types
    <2> QED
      BY <1>1, <1>3, <2>1, DriversStay
  <1>5. Waits'
    <2>1. \A k \in Key : There(k) => There(k)'
      BY <1>1, <1>2, Keys DEF There
    <2>2. \A x \in Record : unread[x] \cup held[x] \subseteq Key
      BY DEF ReadInv, CoreInv, Types
    <2> QED
      BY <1>1, <1>2, <2>1, <2>2 DEF ReadInv, Waits
  <1>6. Served'
    BY <1>1, <1>2, <1>3 DEF ReadInv, Served
  <1>7. Given'
    <2>1. r \notin memory
      BY <1>2 DEF ReadInv, CoreInv, Places
    <2> QED
      BY <1>1, <1>2, <2>1 DEF ReadInv, Given, Pending
  <1> QED
    BY <1>4, <1>5, <1>6, <1>7 DEF ReadInv

LEMMA FinishRead ==
  ASSUME ReadInv, NEW r \in Record, NEW how \in {"failed", "cancelled"}, FinishNext(r, how), CoreInv'
  PROVE  ReadInv'
  <1>1. UNCHANGED <<refs, kept, call, held, memory, at, steps, added, busy, driver, computed, stopped,
                    frozen>>
    BY DEF FinishNext, client, progress, flags
  <1>2. CASE ~Pending(r)
    <2>1. UNCHANGED <<status, readers, drops, unread, waiting>>
      BY <1>2 DEF FinishNext
    <2> QED
      BY <1>1, <2>1 DEF ReadInv, Reached, Drivers, Unread, Waits, There, Served, Given, Pending
  <1>3. CASE Pending(r)
    <2>1. /\ status' = [status EXCEPT ![r] = how]
          /\ LetGo(Once(unread[r]))
          /\ drops' = drops \cup Emptied(Once(unread[r]))
          /\ unread' = [unread EXCEPT ![r] = {}]
          /\ waiting' = [waiting EXCEPT ![r] = {}]
      BY <1>3 DEF FinishNext
    <2>2. /\ status'[r] = how /\ unread'[r] = {} /\ status[r] = "pending"
          /\ \A x \in Record \ {r} : status'[x] = status[x] /\ unread'[x] = unread[x] /\ waiting'[x] = waiting[x]
      BY <1>3, <2>1 DEF ReadInv, CoreInv, Types, Pending
    <2>3. /\ \A k \in State : readers'[k] > 0 => readers[k] > 0
          /\ \A x \in Record : readers'[Out(x)] > 0 => readers[Out(x)] > 0
          /\ \A k \in drops' \cap State : readers'[k] = 0
      BY <2>1, Fewer
    <2>4. Reached' /\ Drivers'
      <3>1. \A a \in Acc : Len(steps'[a]) >= Len(steps[a])
        BY <1>1, LenProperties DEF ReadInv, CoreInv, Types
      <3> QED
        BY <1>1, <2>3, <3>1, DriversStay
    <2>5. Waits'
      <3>1. \A k \in Key : There(k) => There(k)'
        BY <1>1, <2>2, Keys DEF There
      <3>2. \A x \in Record : unread[x] \cup held[x] \subseteq Key
        BY DEF ReadInv, CoreInv, Types
      <3> QED
        BY <1>1, <2>2, <3>1, <3>2 DEF ReadInv, Waits
    <2>6. Served'
      BY <1>1, <2>2, <2>3 DEF ReadInv, Served
    <2>7. Given'
      <3>1. r \notin memory
        BY <2>2 DEF ReadInv, CoreInv, Places
      <3> QED
        BY <1>1, <2>2, <3>1 DEF ReadInv, Given, Pending
    <2> QED
      BY <2>4, <2>5, <2>6, <2>7 DEF ReadInv
  <1> QED
    BY <1>2, <1>3

LEMMA DropRecordRead ==
  ASSUME ReadInv, NEW r \in Record, DropRecord(r), CoreInv'
  PROVE  ReadInv'
  <1> DEFINE unkept == r \notin kept /\ readers[Out(r)] = 0
             gone == unkept /\ ~Pending(r)
             ks == IF gone THEN LeavesState(r) ELSE {}
  <1>1. /\ memory' = IF gone THEN memory \ {r} ELSE memory
        /\ held' = [held EXCEPT ![r] = IF gone THEN @ \ LeavesState(r) ELSE @]
        /\ LetGo(Once(ks))
        /\ drops' = (drops \ {Out(r)}) \cup Emptied(Once(ks))
        /\ UNCHANGED <<status, refs, kept, call, unread, waiting, at, steps, added, busy, driver,
                       computed, stopped, frozen>>
    BY DEF DropRecord, history, client, running, progress, flags
  <1>2. /\ \A k \in State : readers'[k] > 0 => readers[k] > 0
        /\ \A x \in Record : readers'[Out(x)] > 0 => readers[Out(x)] > 0
        /\ \A k \in drops' \cap State : readers'[k] = 0
    BY <1>1, Fewer
  <1>3. /\ \A x \in Record \ {r} : held'[x] = held[x] /\ (x \in memory' <=> x \in memory)
        /\ held'[r] \subseteq held[r] /\ (gone => r \notin memory')
        /\ ~gone => held'[r] = held[r] /\ memory' = memory
    BY <1>1 DEF ReadInv, CoreInv, Types
  <1>4. gone => r \notin kept /\ readers[Out(r)] = 0
    OBVIOUS
  <1> HIDE DEF gone
  <1>5. Reached' /\ Drivers'
    <2>1. \A a \in Acc : Len(steps'[a]) >= Len(steps[a])
      BY <1>1, LenProperties DEF ReadInv, CoreInv, Types
    <2> QED
      BY <1>1, <1>2, <2>1, DriversStay
  <1>6. Waits'
    BY <1>1, <1>3 DEF ReadInv, Waits, There
  <1>7. Served'
    <2>1. gone => ~(readers'[Out(r)] > 0 \/ r \in kept)
      BY <1>2, <1>4
    <2> QED
      BY <1>1, <1>2, <1>3, <2>1 DEF ReadInv, Served
  <1>8. Given'
    BY <1>1, <1>3 DEF ReadInv, Given, Pending
  <1> QED
    BY <1>5, <1>6, <1>7, <1>8 DEF ReadInv

LEMMA CompleteRead ==
  ASSUME ReadInv, NEW r \in Record, Complete(r), CoreInv'
  PROVE  ReadInv'
  <1> DEFINE ks == LeavesAtEnd(r)
  <1>1. /\ at[r] = "returned" /\ at' = [at EXCEPT ![r] = "idle"]
        /\ LetGo(Once(ks))
        /\ held' = [held EXCEPT ![r] = @ \ ks]
        /\ drops' = Emptied(Once(ks)) \cup {Out(d) : d \in {x \in {r} : Pending(x)}}
        /\ UNCHANGED <<refs, pushes, kept, call, unread, steps, added, busy, driver, computed, frozen>>
    BY DEF Complete, client, progress
  <1>2. /\ status[r] # "completed" /\ Out(r) \notin State /\ Out(r) \in Key
        /\ ~Pending(r) => ks = held[r]
        /\ Pending(r) /\ FreezeOf(r) = {} => ks = {}
        /\ \A k \in refs[r] \cap State : refs[r] = {k} /\ (Pending(r) => held[r] = refs[r])
    BY <1>1, Keys DEF ReadInv, CoreInv, Places, LeavesAtEnd
  <1> HIDE DEF ks
  <1>3. /\ \A k \in State : readers'[k] > 0 => readers[k] > 0
        /\ \A x \in Record : readers'[Out(x)] > 0 => readers[Out(x)] > 0
        /\ \A k \in drops' \cap State : readers'[k] = 0
    BY <1>1, <1>2, Fewer
  <1>4. /\ at'[r] = "idle" /\ held'[r] = held[r] \ ks
        /\ \A x \in Record \ {r} : at'[x] = at[x] /\ held'[x] = held[x]
    BY <1>1 DEF ReadInv, CoreInv, Types
  <1>5. CASE ~Pending(r)
    <2>1. UNCHANGED <<status, memory, waiting, stopped>>
      BY <1>5 DEF Complete
    <2>2. Reached' /\ Drivers'
      <3>1. \A a \in Acc : Len(steps'[a]) >= Len(steps[a])
        BY <1>1, LenProperties DEF ReadInv, CoreInv, Types
      <3> QED
        BY <1>1, <1>3, <2>1, <3>1, DriversStay
    <2>3. Waits'
      BY <1>1, <1>4, <2>1 DEF ReadInv, Waits, There
    <2>4. Served'
      BY <1>1, <1>3, <2>1 DEF ReadInv, Served
    <2>5. r \notin memory
      BY <1>2 DEF ReadInv, CoreInv, Places
    <2>6. Given'
      BY <1>1, <1>4, <2>1, <2>5 DEF ReadInv, Given, Pending
    <2> QED
      BY <2>2, <2>3, <2>4, <2>6 DEF ReadInv
  <1>6. CASE Pending(r)
    <2>1. /\ status' = [status EXCEPT ![r] = "completed"]
          /\ memory' = memory \cup {r}
          /\ Satisfy(Out(r))
          /\ stopped' = [a \in Acc |-> stopped[a] \/ a \in FreezeOf(r)]
      BY <1>6 DEF Complete
    <2>2. /\ status'[r] = "completed" /\ \A x \in Record \ {r} : status'[x] = status[x]
          /\ \A x \in Record \ {r} : x \in memory' <=> x \in memory
      BY <2>1 DEF ReadInv, CoreInv, Types
    <2>3. \A x \in Record : \A k \in unread[x] \ waiting'[x] : k \in unread[x] \ waiting[x] \/ k = Out(r)
      BY <2>1 DEF Satisfy
    <2>4. ASSUME NEW a \in Acc, frozen[a] = r
          PROVE  refs[r] = {<<a, pushes[a]>>} /\ steps[a] = <<>>
      <3>1. frozen[a] # 0
        BY <2>4, Counts
      <3>2. refs[r] = {<<a, pushes[a]>>}
        BY <2>4, <3>1 DEF ReadInv, CoreInv, Frozen
      <3>3. <<a, pushes[a]>> \in State
        <4>1. refs[r] \subseteq Key /\ \A x \in Record : <<a, pushes[a]>> # Out(x)
          <5>1. refs[r] \subseteq Key
            BY DEF ReadInv, CoreInv, Types
          <5>2. \A x \in Record : Out(x)[1] \notin Acc
            BY Keys
          <5> QED
            BY <5>1, <5>2
        <4> QED
          BY <3>2, <4>1, Keys
      <3>4. <<a, pushes[a]>> \in held[r]
        BY <1>2, <1>6, <3>2, <3>3
      <3>5. added[a] = pushes[a]
        BY <3>3, <3>4 DEF ReadInv, Waits, There
      <3>6. /\ added[a] + Len(steps[a]) <= pushes[a] /\ steps[a] \in Seq(SUBSET Record)
            /\ pushes[a] \in Int
        BY CountsOf, StepsFor, Reaches DEF ReadInv
      <3>7. Len(steps[a]) = 0
        BY <3>5, <3>6, LenProperties
      <3> QED
        BY <3>2, <3>6, <3>7, EmptySeq
    <2>5. Reached' /\ Drivers'
      <3>1. \A a \in Acc : Len(steps'[a]) >= Len(steps[a])
        BY <1>1, LenProperties DEF ReadInv, CoreInv, Types
      <3>2. \A a \in Acc : stopped[a] => stopped'[a]
        BY <2>1
      <3> QED
        BY <1>1, <1>3, <3>1, <3>2, DriversStay
    <2>6. Waits'
      <3>1. \A k \in Key : There(k) => There(k)'
        BY <1>1, <2>2, Keys DEF There
      <3>2. There(Out(r))'
        BY <2>2, <1>2, Keys DEF There
      <3>3. \A x \in Record : unread[x] \subseteq Key /\ held[x] \subseteq Key /\ held'[x] \subseteq held[x]
        BY <1>4 DEF ReadInv, CoreInv, Types
      <3>4. \A x \in Record : /\ \A k \in unread'[x] \ waiting'[x] : There(k)'
                              /\ \A k \in held'[x] : There(k)'
        <4> SUFFICES ASSUME NEW x \in Record
                     PROVE  /\ \A k \in unread[x] \ waiting'[x] : There(k)'
                            /\ \A k \in held'[x] : There(k)'
          BY <1>1
        <4>1. \A k \in held[x] \cup (unread[x] \ waiting[x]) : There(k)
          BY DEF ReadInv, Waits
        <4> QED
          BY <2>3, <3>1, <3>2, <3>3, <4>1
      <3>5. \A a \in Acc : stopped'[a] => steps'[a] = <<>>
        BY <1>1, <2>1, <2>4 DEF ReadInv, Waits, FreezeOf
      <3> QED
        BY <1>1, <3>4, <3>5 DEF ReadInv, Waits
    <2>7. Served'
      BY <1>1, <1>3, <2>1, <2>2 DEF ReadInv, Served
    <2>8. Given'
      <3> SUFFICES ASSUME NEW x \in Record, NEW s \in refs[x] \cap State
                   PROVE  /\ at'[x] = "returned" /\ status'[x] = "pending" => computed[s[1]] = s[2]
                          /\ x \in memory' /\ frozen[s[1]] # x => s \in held'[x] /\ computed[s[1]] = s[2]
        BY <1>1 DEF Given, Pending
      <3>1. CASE x # r
        <4>1. at'[x] = at[x] /\ status'[x] = status[x] /\ held'[x] = held[x] /\ (x \in memory' <=> x \in memory)
          BY <1>4, <2>2, <3>1
        <4> QED
          BY <4>1 DEF ReadInv, Given, Pending
      <3>2. ASSUME x = r, frozen[s[1]] # r PROVE s \in held'[r] /\ computed[s[1]] = s[2]
        <4>1. computed[s[1]] = s[2]
          BY <1>1, <1>6, <3>2 DEF ReadInv, Given
        <4>2. refs[r] = {s} /\ held[r] = {s} /\ s[1] \in Acc
          BY <1>2, <1>6, <3>2, Keys
        <4>3. FreezeOf(r) = {}
          <5> SUFFICES ASSUME NEW a \in Acc, frozen[a] = r PROVE FALSE
            BY DEF FreezeOf
          <5>1. s = <<a, pushes[a]>>
            BY <2>4, <4>2
          <5> QED
            BY <3>2, <5>1
        <4> QED
          BY <1>2, <1>4, <1>6, <4>1, <4>2, <4>3
      <3> QED
        BY <1>4, <3>1, <3>2
    <2> QED
      BY <2>5, <2>6, <2>7, <2>8 DEF ReadInv
  <1> QED
    BY <1>5, <1>6

\* Steps after the first i are dropped, when no reader is of a state they lead to.
LEMMA CutRead ==
  ASSUME ReadInv, CoreInv', NEW a \in Acc, NEW i \in 0..Len(steps[a]), Cut(a, i),
         UNCHANGED <<unread, held, call, added>>
  PROVE  /\ \A k \in State : readers'[k] > 0 => readers[k] > 0
         /\ \A r \in Record : readers'[Out(r)] > 0 => readers[Out(r)] > 0
         /\ \A k \in (drops \cup Emptied(OfSteps(Rest(a, i)))) \cap State : readers'[k] = 0
         /\ Len(steps'[a]) = i /\ (steps'[a] = <<>> <=> i = 0)
         /\ \A b \in Acc \ {a} : steps'[b] = steps[b]
         /\ \A b \in Acc : Unread(b) => Unread(b)'
  <1> DEFINE less == OfSteps(Rest(a, i))
  <1>1. LetGo(less)
    BY DEF Cut
  <1> HIDE DEF less
  <1>2. /\ Len(steps'[a]) = i /\ (steps'[a] = <<>> <=> i = 0)
        /\ \A b \in Acc \ {a} : steps'[b] = steps[b]
        /\ \A k \in Key : readers'[k] <= readers[k]
    BY Cuts DEF ReadInv
  <1>3. \A k \in Key : readers[k] \in Nat /\ readers'[k] \in Nat
    <2>1. (CoreInv => \A k \in Key : readers[k] \in Nat)'
      BY NeverNegative, PTL
    <2>2. \A k \in Key : readers[k] \in Nat
      BY NeverNegative DEF ReadInv
    <2> QED
      BY <2>1, <2>2
  <1>4. \A k \in Key : (readers'[k] > 0 => readers[k] > 0) /\ (readers[k] = 0 => readers'[k] = 0)
    BY <1>2, <1>3
  <1>5. \A k \in (drops \cup Emptied(less)) \cap State : readers'[k] = 0
    <2>1. \A k \in Emptied(less) : readers'[k] = 0
      BY <1>1, Letting DEF ReadInv
    <2>2. \A k \in drops \cap State : readers'[k] = 0
      BY <1>4, Keys DEF ReadInv, Reached
    <2> QED
      BY <2>1, <2>2
  <1>6. \A b \in Acc : Unread(b) => Unread(b)'
    <2> SUFFICES ASSUME NEW b \in Acc, added[b] # None, readers[<<b, added[b]>>] = 0
                 PROVE  readers'[<<b, added[b]>>] = 0
      BY DEF Unread
    <2>0. added[b] \in None..MaxPushes
      BY DEF ReadInv, CoreInv, Types
    <2>1. added[b] \in 0..MaxPushes
      BY <2>0, Counts DEF None
    <2> QED
      BY <1>4, <2>1, Keys
  <1> QED
    BY <1>2, <1>4, <1>5, <1>6, Keys DEF less

LEMMA StopRead ==
  ASSUME ReadInv, NEW a \in Acc, Stop(a), CoreInv'
  PROVE  ReadInv'
  <1>1. /\ stopped' = [stopped EXCEPT ![a] = TRUE]
        /\ busy' = [busy EXCEPT ![a] = FALSE]
        /\ Cut(a, 0)
        /\ drops' = drops \cup Emptied(OfSteps(Rest(a, 0)))
        /\ driver' = [driver EXCEPT ![a] = IF Unread(a) THEN None ELSE @]
        /\ computed' = [computed EXCEPT ![a] = IF Unread(a) THEN None ELSE @]
        /\ UNCHANGED <<status, refs, kept, call, unread, held, memory, waiting, at, added, frozen>>
    BY DEF Stop, client, history
  <1>2. /\ stopped'[a] /\ ~busy'[a]
        /\ driver'[a] = IF Unread(a) THEN None ELSE driver[a]
        /\ computed'[a] = IF Unread(a) THEN None ELSE computed[a]
        /\ \A b \in Acc \ {a} : /\ stopped'[b] = stopped[b] /\ busy'[b] = busy[b]
                                /\ driver'[b] = driver[b] /\ computed'[b] = computed[b]
    BY <1>1 DEF ReadInv, CoreInv, Types
  <1>3. 0 \in 0..Len(steps[a])
    BY LenProperties DEF ReadInv, CoreInv, Types
  <1>4. /\ \A k \in State : readers'[k] > 0 => readers[k] > 0
        /\ \A r \in Record : readers'[Out(r)] > 0 => readers[Out(r)] > 0
        /\ \A k \in drops' \cap State : readers'[k] = 0
        /\ steps'[a] = <<>>
        /\ \A b \in Acc \ {a} : steps'[b] = steps[b]
        /\ \A b \in Acc : Unread(b) => Unread(b)'
    BY <1>1, <1>3, CutRead
  <1>5. Reached'
    BY <1>1, <1>2, <1>4, Keys DEF ReadInv, Reached
  <1>6. Drivers'
    BY <1>1, <1>2, <1>4 DEF ReadInv, Drivers
  <1>7. Waits' /\ Served' /\ Given'
    <2>1. \A r \in Record : \A s \in held[r] \cap State :
             computed[s[1]] = s[2] => computed'[s[1]] = s[2]
      <3> SUFFICES ASSUME NEW r \in Record, NEW s \in held[r] \cap State, computed[s[1]] = s[2]
                   PROVE  computed'[s[1]] = s[2]
        OBVIOUS
      <3>1. readers[s] > 0 /\ added[s[1]] = s[2] /\ s[1] \in Acc
        BY Holding, Keys DEF ReadInv, Waits, There
      <3>2. ~Unread(s[1])
        BY <3>1, Current
      <3> QED
        BY <1>2, <3>1, <3>2
    <2>2. \A b \in Acc : stopped'[b] => steps'[b] = <<>>
      BY <1>2, <1>4 DEF ReadInv, Waits
    <2>3. \A r \in Record : readers'[Out(r)] > 0 \/ r \in kept' => readers[Out(r)] > 0 \/ r \in kept
      BY <1>1, <1>4
    <2>4. \A t \in Thread : call'[t].phase = "copying" => \A p \in call'[t].pins : added[p[1]] = p[2]
      BY <1>1 DEF ReadInv, Waits
    <2> QED
      BY <1>1, <2>1, <2>2, <2>3, <2>4, RecordsStay
  <1> QED
    BY <1>5, <1>6, <1>7 DEF ReadInv

LEMMA AdvanceRead ==
  ASSUME ReadInv, NEW a \in Acc, AdvanceNext(a), CoreInv'
  PROVE  ReadInv'
  <1>1. CASE UNCHANGED <<history, client, reading, running, progress, flags, todo, drops, leaving>>
    <2>1. /\ readers' = readers /\ kept' = kept /\ call' = call /\ drops' = drops
          /\ UNCHANGED <<history, unread, held, stateOf, memory, running, progress, stopped, frozen>>
      BY <1>1 DEF client, reading, flags
    <2> QED
      BY <2>1, LightRead DEF ReadInv, Reached, Waits
  <1>2. CASE Stop(a)
    BY <1>2, StopRead
  <1>3. CASE /\ MayStep(a)
             /\ busy' = [busy EXCEPT ![a] = TRUE]
             /\ computed' = [computed EXCEPT ![a] = None]
             /\ driver' = [driver EXCEPT ![a] = Changing]
             /\ UNCHANGED <<history, client, reading, running, steps, added, flags, todo, drops, leaving>>
    <2>1. /\ UNCHANGED <<status, refs, kept, call, unread, held, readers, memory, waiting, at, steps, added,
                         stopped, frozen, drops>>
          /\ Unread(a) /\ Unread(a)'
      BY <1>3 DEF history, client, reading, running, flags, MayStep, Unread
    <2>2. /\ computed'[a] = None /\ driver'[a] = Changing /\ busy'[a]
          /\ \A b \in Acc \ {a} : busy'[b] = busy[b] /\ driver'[b] = driver[b] /\ computed'[b] = computed[b]
      BY <1>3 DEF ReadInv, CoreInv, Types
    <2>3. Reached'
      BY <2>1 DEF ReadInv, Reached
    <2>4. Drivers'
      BY <2>1, <2>2 DEF ReadInv, Drivers, Unread
    <2>5. Waits' /\ Served' /\ Given'
      <3>1. \A r \in Record : \A s \in held[r] \cap State :
               computed[s[1]] = s[2] => computed'[s[1]] = s[2]
        <4> SUFFICES ASSUME NEW r \in Record, NEW s \in held[r] \cap State, computed[s[1]] = s[2]
                     PROVE  computed'[s[1]] = s[2]
          OBVIOUS
        <4>1. readers[s] > 0 /\ added[s[1]] = s[2] /\ s[1] \in Acc
          BY Holding, Keys DEF ReadInv, Waits, There
        <4>2. ~Unread(s[1])
          BY <4>1, Current
        <4> QED
          BY <2>1, <2>2, <4>1, <4>2
      <3>2. \A b \in Acc : stopped'[b] => steps'[b] = <<>>
        BY <2>1 DEF ReadInv, Waits
      <3>3. \A t \in Thread : call'[t].phase = "copying" => \A p \in call'[t].pins : added[p[1]] = p[2]
        BY <2>1 DEF ReadInv, Waits
      <3> QED
        BY <2>1, <3>1, <3>2, <3>3, RecordsStay
    <2> QED
      BY <2>3, <2>4, <2>5 DEF ReadInv
  <1> QED
    BY <1>1, <1>2, <1>3 DEF AdvanceNext

LEMMA ReleaseNextRead ==
  ASSUME ReadInv, NEW a \in Acc, ReleaseNext(a), CoreInv'
  PROVE  ReadInv'
  <1> DEFINE i == Needed(a)
  <1>1. /\ Cut(a, i)
        /\ drops' = drops \cup Emptied(OfSteps(Rest(a, i)))
        /\ UNCHANGED <<status, refs, kept, call, unread, held, memory, waiting, at, added, busy, driver,
                       computed, stopped, frozen>>
    BY DEF ReleaseNext, running, history
  <1>2. /\ i \in 0..Len(steps[a])
        /\ i = Len(steps[a]) \/ \A n \in 0..MaxPushes : readers[<<a, n>>] > 0 => n - added[a] <= i
    BY NeededSteps DEF ReadInv
  <1> HIDE DEF i
  <1>3. /\ \A k \in State : readers'[k] > 0 => readers[k] > 0
        /\ \A r \in Record : readers'[Out(r)] > 0 => readers[Out(r)] > 0
        /\ \A k \in drops' \cap State : readers'[k] = 0
        /\ Len(steps'[a]) = i /\ (steps'[a] = <<>> <=> i = 0)
        /\ \A b \in Acc \ {a} : steps'[b] = steps[b]
        /\ \A b \in Acc : Unread(b) => Unread(b)'
    BY <1>1, <1>2, CutRead
  <1>4. Reached'
    <2> SUFFICES ASSUME NEW b \in Acc, NEW n \in 0..MaxPushes, readers'[<<b, n>>] > 0
                 PROVE  stopped[b] \/ n \in added[b]..(added[b] + Len(steps'[b]))
      BY <1>1, <1>3 DEF Reached
    <2>1. readers[<<b, n>>] > 0
      BY <1>3, Keys
    <2>2. stopped[b] \/ n \in added[b]..(added[b] + Len(steps[b]))
      BY <2>1 DEF ReadInv, Reached
    <2>3. added[b] \in Int /\ Len(steps[b]) \in Nat
      BY LenProperties DEF ReadInv, CoreInv, Types
    <2>4. CASE b = a
      BY <1>2, <1>3, <2>1, <2>2, <2>3, <2>4
    <2>5. CASE b # a
      BY <1>3, <2>2, <2>5
    <2> QED
      BY <2>4, <2>5
  <1>5. Drivers'
    BY <1>1, <1>3 DEF ReadInv, Drivers
  <1>6. Waits' /\ Served' /\ Given'
    <2>1. \A b \in Acc : stopped'[b] => steps'[b] = <<>>
      <3>1. steps[a] = <<>> => i = 0
        BY <1>2, LenProperties
      <3> QED
        BY <1>1, <1>3, <3>1 DEF ReadInv, Waits
    <2>2. \A r \in Record : readers'[Out(r)] > 0 \/ r \in kept' => readers[Out(r)] > 0 \/ r \in kept
      BY <1>1, <1>3
    <2>3. \A t \in Thread : call'[t].phase = "copying" => \A p \in call'[t].pins : added[p[1]] = p[2]
      BY <1>1 DEF ReadInv, Waits
    <2> QED
      BY <1>1, <2>1, <2>2, <2>3, RecordsStay
  <1> QED
    BY <1>4, <1>5, <1>6 DEF ReadInv

LEMMA DropStateRead ==
  ASSUME ReadInv, NEW a \in Acc, NEW n \in 0..MaxPushes, DropState(a, n), CoreInv'
  PROVE  ReadInv'
  <1>1. /\ <<a, n>> \in drops
        /\ UNCHANGED <<status, refs, kept, call, unread, held, memory, waiting, at, added, busy,
                       stopped, frozen>>
    BY DEF DropState, client, running, flags, history
  <1>2. readers[<<a, n>>] = 0 /\ <<a, n>> \in State
    BY <1>1, Keys DEF ReadInv, Reached
  <1>3. CASE stopped[a] \/ IsLast(a, n)
    <2>1. /\ driver' = [driver EXCEPT ![a] = IF stopped[a] /\ n = added[a] THEN None ELSE @]
          /\ computed' = [computed EXCEPT ![a] = IF n = added[a] THEN None ELSE @]
          /\ drops' = drops \ {<<a, n>>}
          /\ UNCHANGED <<steps, readers, ready>>
      BY <1>3 DEF DropState
    <2>2. /\ driver'[a] = IF stopped[a] /\ n = added[a] THEN None ELSE driver[a]
          /\ computed'[a] = IF n = added[a] THEN None ELSE computed[a]
          /\ \A b \in Acc \ {a} : driver'[b] = driver[b] /\ computed'[b] = computed[b]
      BY <2>1 DEF ReadInv, CoreInv, Types
    <2>3. Reached'
      BY <1>1, <2>1 DEF ReadInv, Reached
    <2>4. Drivers'
      <3>1. n = added[a] => Unread(a)
        BY <1>2 DEF Unread
      <3> QED
        BY <1>1, <2>1, <2>2, <3>1 DEF ReadInv, Drivers, Unread
    <2>5. Waits' /\ Served' /\ Given'
      <3>1. \A r \in Record : \A s \in held[r] \cap State :
               computed[s[1]] = s[2] => computed'[s[1]] = s[2]
        <4> SUFFICES ASSUME NEW r \in Record, NEW s \in held[r] \cap State, computed[s[1]] = s[2]
                     PROVE  computed'[s[1]] = s[2]
          OBVIOUS
        <4>1. readers[s] > 0 /\ added[s[1]] = s[2] /\ s[1] \in Acc /\ s = <<s[1], s[2]>>
          BY Holding, Keys DEF ReadInv, Waits, There
        <4>2. ~(s[1] = a /\ n = added[a])
          BY <1>2, <4>1
        <4> QED
          BY <2>2, <4>1, <4>2
      <3>2. \A b \in Acc : stopped'[b] => steps'[b] = <<>>
        BY <1>1, <2>1 DEF ReadInv, Waits
      <3>3. \A t \in Thread : call'[t].phase = "copying" => \A p \in call'[t].pins : added[p[1]] = p[2]
        BY <1>1 DEF ReadInv, Waits
      <3>4. \A r \in Record : readers'[Out(r)] > 0 \/ r \in kept' => readers[Out(r)] > 0 \/ r \in kept
        BY <1>1, <2>1
      <3> QED
        BY <1>1, <3>1, <3>2, <3>3, <3>4, RecordsStay
    <2> QED
      BY <2>3, <2>4, <2>5 DEF ReadInv
  <1>4. CASE ~(stopped[a] \/ IsLast(a, n))
    <2> DEFINE i == IF released[a] THEN Needed(a) ELSE Len(steps[a])
    <2>1. /\ Cut(a, i)
          /\ drops' = (drops \ {<<a, n>>}) \cup Emptied(OfSteps(Rest(a, i)))
          /\ UNCHANGED <<driver, computed>>
      BY <1>4 DEF DropState
    <2>0. \A b \in Acc : added[b] \in Int /\ Len(steps[b]) \in Nat
      BY LenProperties DEF ReadInv, CoreInv, Types
    <2>2. /\ i \in 0..Len(steps[a])
          /\ i = Len(steps[a]) \/ \A m \in 0..MaxPushes : readers[<<a, m>>] > 0 => m - added[a] <= i
      BY <2>0, NeededSteps DEF ReadInv
    <2> HIDE DEF i
    <2>3. /\ \A k \in State : readers'[k] > 0 => readers[k] > 0
          /\ \A r \in Record : readers'[Out(r)] > 0 => readers[Out(r)] > 0
          /\ \A k \in drops' \cap State : readers'[k] = 0
          /\ Len(steps'[a]) = i
          /\ \A b \in Acc \ {a} : steps'[b] = steps[b]
          /\ \A b \in Acc : Unread(b) => Unread(b)'
      BY <1>1, <2>1, <2>2, CutRead
    <2>4. Reached'
      <3> SUFFICES ASSUME NEW b \in Acc, NEW m \in 0..MaxPushes, readers'[<<b, m>>] > 0
                   PROVE  stopped[b] \/ m \in added[b]..(added[b] + Len(steps'[b]))
        BY <1>1, <2>3 DEF Reached
      <3>1. readers[<<b, m>>] > 0
        BY <2>3, Keys
      <3>2. stopped[b] \/ m \in added[b]..(added[b] + Len(steps[b]))
        BY <3>1 DEF ReadInv, Reached
      <3>3. CASE b = a
        BY <2>0, <2>2, <2>3, <3>1, <3>2, <3>3
      <3>4. CASE b # a
        BY <2>3, <3>2, <3>4
      <3> QED
        BY <3>3, <3>4
    <2>5. Drivers'
      BY <1>1, <2>1, <2>3 DEF ReadInv, Drivers
    <2>6. Waits' /\ Served' /\ Given'
      <3>1. \A b \in Acc : stopped'[b] => steps'[b] = <<>>
        BY <1>1, <1>4, <2>3 DEF ReadInv, Waits
      <3>2. \A r \in Record : readers'[Out(r)] > 0 \/ r \in kept' => readers[Out(r)] > 0 \/ r \in kept
        BY <1>1, <2>3
      <3>3. \A t \in Thread : call'[t].phase = "copying" => \A p \in call'[t].pins : added[p[1]] = p[2]
        BY <1>1 DEF ReadInv, Waits
      <3> QED
        BY <1>1, <2>1, <3>1, <3>2, <3>3, RecordsStay
    <2> QED
      BY <2>4, <2>5, <2>6 DEF ReadInv
  <1> QED
    BY <1>3, <1>4

\* A step is done only when nobody reads the state before it.
LEMMA StepDoneRead ==
  ASSUME ReadInv, NEW a \in Acc, StepDone(a), CoreInv'
  PROVE  ReadInv'
  <1>0. PICK n \in Int : n = added[a] + 1
    BY CountsOf DEF ReadInv
  <1> DEFINE ks == Sources(Head(steps[a]))
             next == <<a, n>>
  <1>1. /\ busy[a]
        /\ steps' = [steps EXCEPT ![a] = Tail(@)]
        /\ added' = [added EXCEPT ![a] = @ + 1]
        /\ driver' = [driver EXCEPT ![a] = added[a] + 1]
        /\ busy' = [busy EXCEPT ![a] = FALSE]
        /\ LetGo(Once(ks))
        /\ drops' = Emptied(Once(ks))
        /\ Satisfy(next)
        /\ UNCHANGED <<status, refs, kept, call, unread, held, memory, at, computed, stopped, frozen>>
    BY <1>0 DEF StepDone, client, flags, history
  <1>2. /\ steps[a] \in Seq(SUBSET Record) /\ steps[a] # <<>> /\ added[a] \in None..MaxPushes
        /\ ~stopped[a] /\ computed[a] = None /\ Unread(a)
    BY <1>1 DEF ReadInv, CoreInv, Types, Progress, Drivers, Waits
  <1>3. /\ Len(steps[a]) \in Nat /\ Len(steps'[a]) = Len(steps[a]) - 1
        /\ added'[a] = added[a] + 1 /\ driver'[a] = added[a] + 1 /\ ~busy'[a]
        /\ \A b \in Acc \ {a} : /\ steps'[b] = steps[b] /\ added'[b] = added[b] /\ driver'[b] = driver[b]
                                /\ busy'[b] = busy[b]
    BY <1>1, <1>2 DEF ReadInv, CoreInv, Types
  <1> HIDE DEF ks, next
  <1>4. /\ \A s \in State : readers'[s] > 0 => readers[s] > 0
        /\ \A r \in Record : readers'[Out(r)] > 0 => readers[Out(r)] > 0
        /\ \A s \in drops' \cap State : readers'[s] = 0
    BY <1>1, Fewer
  <1>5. \A s \in State : readers[s] > 0 /\ added[s[1]] = s[2] => s[1] # a
    BY <1>1, Current
  <1>6. Reached'
    <2> SUFFICES ASSUME NEW b \in Acc, NEW m \in 0..MaxPushes, readers'[<<b, m>>] > 0
                 PROVE  stopped[b] \/ m \in added'[b]..(added'[b] + Len(steps'[b]))
      BY <1>1, <1>4 DEF Reached
    <2>1. readers[<<b, m>>] > 0 /\ <<b, m>> \in State
      BY <1>4, Keys
    <2>2. stopped[b] \/ m \in added[b]..(added[b] + Len(steps[b]))
      BY <2>1 DEF ReadInv, Reached
    <2>3. CASE b = a
      <3>1. added[a] # m
        BY <1>5, <2>1, <2>3
      <3> QED
        <4>1. added[a] \in Int /\ Len(steps[a]) \in Nat
          BY CountsOf, StepsFor, Reaches DEF ReadInv
        <4>2. added'[a] = added[a] + 1 /\ Len(steps'[a]) = Len(steps[a]) - 1
          BY <1>2, <1>3
        <4> QED
          BY <2>2, <2>3, <3>1, <4>1, <4>2
    <2>4. CASE b # a
      BY <1>3, <2>2, <2>4
    <2> QED
      BY <2>3, <2>4
  <1>7. Drivers'
    <2>1. \A b \in Acc \ {a} : Unread(b) => Unread(b)'
      <3> SUFFICES ASSUME NEW b \in Acc \ {a}, added[b] # None, readers[<<b, added[b]>>] = 0
                   PROVE  readers'[<<b, added[b]>>] = 0
        BY <1>3 DEF Unread
      <3>0. added[b] \in None..MaxPushes
        BY DEF ReadInv, CoreInv, Types
      <3>1. <<b, added[b]>> \in State /\ <<b, added[b]>> \in Key
        BY <3>0, Keys, Counts DEF None
      <3>2. (CoreInv => \A k \in Key : readers[k] \in Nat)'
        BY NeverNegative, PTL
      <3>3. readers'[<<b, added[b]>>] \in Nat /\ ~(readers'[<<b, added[b]>>] > 0)
        BY <1>4, <3>1, <3>2
      <3> QED
        BY <3>3
    <2> SUFFICES ASSUME NEW b \in Acc
                 PROVE  /\ busy'[b] => Unread(b)' /\ computed[b] = None
                        /\ ~Unread(b)' => driver'[b] = added'[b]
                        /\ ~busy'[b] /\ ~stopped[b] => driver'[b] = added'[b]
                        /\ computed[b] \in {None, added'[b]}
      BY <1>1 DEF Drivers
    <2>2. CASE b = a
      BY <1>2, <1>3, <2>2
    <2>3. CASE b # a
      BY <1>3, <2>1, <2>3 DEF ReadInv, Drivers
    <2> QED
      BY <2>2, <2>3
  <1>8. Waits'
    <2>1. ASSUME NEW s \in Key, There(s), readers[s] > 0 PROVE There(s)'
      <3>1. CASE s \in State
        <4>1. added[s[1]] = s[2] /\ s[1] # a /\ s[1] \in Acc
          BY <1>5, <2>1, <3>1, Keys DEF There
        <4> QED
          BY <1>3, <3>1, <4>1 DEF There
      <3>2. CASE s \notin State
        BY <1>1, <2>1, <3>2 DEF There
      <3> QED
        BY <3>1, <3>2
    <2>2. There(next)'
      <3>1. added[a] + 1 \in 0..MaxPushes
        <4>1. added[a] + Len(steps[a]) <= pushes[a] /\ pushes[a] \in None..MaxPushes /\ Len(steps[a]) # 0
          BY <1>2, EmptySeq, LenProperties DEF ReadInv, CoreInv, Types, Progress
        <4> QED
          BY <1>2, <1>3, <4>1, Counts DEF None
      <3>2. next \in State /\ next[1] = a /\ next[2] = n
        BY <1>0, <3>1, Keys DEF next
      <3>3. added'[next[1]] = next[2]
        BY <1>0, <1>3, <3>2
      <3> QED
        BY <3>2, <3>3 DEF There
    <2>3. \A r \in Record : \A s \in unread[r] \ waiting'[r] : s \in unread[r] \ waiting[r] \/ s = next
      BY <1>1 DEF Satisfy
    <2>4. ASSUME NEW r \in Record
          PROVE  /\ \A s \in unread[r] \ waiting'[r] : There(s)'
                 /\ \A s \in held[r] : There(s)'
      <3>1. \A s \in held[r] \cup (unread[r] \ waiting[r]) : There(s) /\ s \in Key /\ readers[s] > 0
        BY Holding DEF ReadInv, Waits
      <3> QED
        BY <2>1, <2>2, <2>3, <3>1
    <2>5. ASSUME NEW t \in Thread, call[t].phase = "copying", NEW p \in call[t].pins
          PROVE  added'[p[1]] = p[2]
      <3>1. p \in State /\ readers[p] > 0 /\ added[p[1]] = p[2]
        BY <2>5, Holding DEF ReadInv, Waits
      <3>2. p[1] # a /\ p[1] \in Acc
        BY <1>5, <3>1, Keys
      <3> QED
        BY <1>3, <3>1, <3>2
    <2>6. \A b \in Acc : stopped'[b] => steps'[b] = <<>>
      BY <1>1, <1>2, <1>3 DEF ReadInv, Waits
    <2> QED
      BY <1>1, <2>4, <2>5, <2>6 DEF Waits
  <1>9. Served' /\ Given'
    BY <1>1, <1>4 DEF ReadInv, Served, Given, Pending
  <1> QED
    BY <1>6, <1>7, <1>8, <1>9 DEF ReadInv

LEMMA InitRead == Init => ReadInv
  <1> SUFFICES ASSUME Init PROVE ReadInv
    OBVIOUS
  <1>1. CoreInv
    BY InitCore
  <1>2. /\ \A k \in State : readers[k] = 0
        /\ \A r \in Record : Out(r) \in Key /\ readers[Out(r)] = 0
    BY Keys DEF Init
  <1>3. Reached
    <2>1. \A a \in Acc : \A n \in 0..MaxPushes : readers[<<a, n>>] = 0
      BY <1>2, Keys
    <2> QED
      BY <2>1 DEF Init, Reached
  <1>4. Drivers
    BY DEF Init, Drivers, Unread
  <1>5. Waits
    BY DEF Init, Waits, Idle
  <1>6. Served /\ Given
    BY DEF Init, Served, Given, Pending
  <1> QED
    BY <1>1, <1>3, <1>4, <1>5, <1>6 DEF ReadInv

LEMMA NextRead == ReadInv /\ [Next]_vars => ReadInv'
  <1> SUFFICES ASSUME ReadInv, [Next]_vars PROVE ReadInv'
    OBVIOUS
  <1>0. CoreInv'
    BY NextCore DEF ReadInv
  <1>1. ASSUME NEW a \in Acc, NEW outs \in Readable(MaxReads), Open(a, outs) \/ Push(a, outs)
        PROVE  ReadInv'
    <2>1. outs \in SUBSET Record
      BY Counts DEF Readable, Existing, ReadInv, CoreInv, Types
    <2> QED
      BY <1>0, <1>1, <2>1, OpenRead
  <1>2. ASSUME NEW t \in Thread, CallOf(t) \/ CallStep(t) PROVE ReadInv'
    BY <1>0, <1>2, CallRead, CallStepRead
  <1>3. CASE (\E r \in Existing : Cancel(r)) \/ ReleaseOne \/ CloseClient
    BY <1>0, <1>3, ClientRead
  <1>4. CASE Cascade
    <2>1. ASSUME NEW job \in todo, FinishNext(job[1], job[2]) PROVE ReadInv'
      <3>1. job[1] \in Record /\ job[2] \in {"failed", "cancelled"}
        BY DEF ReadInv, CoreInv, Types
      <3> QED
        BY <1>0, <2>1, <3>1, FinishRead
    <2>2. ASSUME NEW r \in Record, DropRecord(r) PROVE ReadInv'
      BY <1>0, <2>2, DropRecordRead
    <2>3. ASSUME NEW s \in State, DropState(s[1], s[2]) PROVE ReadInv'
      BY <1>0, <2>3, Keys, DropStateRead
    <2>4. ASSUME NEW a \in Acc, AdvanceNext(a) \/ ReleaseNext(a) PROVE ReadInv'
      BY <1>0, <2>4, AdvanceRead, ReleaseNextRead
    <2> QED
      BY <1>4, <2>1, <2>2, <2>3, <2>4 DEF Cascade
  <1>5. ASSUME NEW r \in Record, RecordStep(r) PROVE ReadInv'
    BY <1>0, <1>5, StartRead, ReturnRead, ReturnStateRead, RaiseRead, CompleteRead DEF RecordStep
  <1>6. ASSUME NEW a \in Acc, AccStep(a) PROVE ReadInv'
    BY <1>0, <1>6, StepDoneRead, StopRead DEF AccStep, StepFails
  <1>7. CASE UNCHANGED vars
    <2>1. UNCHANGED <<history, client, reading, running, progress, flags, work>>
      BY <1>7 DEF vars
    <2>2. /\ readers' = readers /\ kept' = kept /\ call' = call /\ drops' = drops
          /\ UNCHANGED <<history, unread, held, stateOf, memory, running, progress, stopped, frozen>>
      BY <2>1 DEF client, reading, flags, work
    <2> QED
      BY <1>0, <2>2, LightRead DEF ReadInv, Reached, Waits
  <1> QED
    BY <1>1, <1>2, <1>3, <1>4, <1>5, <1>6, <1>7 DEF Next

LEMMA AlwaysRead == Spec => []ReadInv
  BY InitRead, NextRead, PTL DEF Spec

\* Who reads a state or an output finds it as pinned, as long as it reads.
THEOREM ReadsPinned == Spec => []ReadsAsPinned
  <1>1. ASSUME ReadInv PROVE ReadsAsPinned
    <2>1. ASSUME NEW r \in Record, NEW x \in Record, Out(x) \in held[r] PROVE x \in memory
      <3>1. readers[Out(x)] > 0 /\ There(Out(x))
        BY <1>1, <2>1, Holding DEF ReadInv, Waits
      <3>2. status[x] = "completed"
        BY <3>1, Keys DEF There, Out
      <3> QED
        BY <1>1, <3>1, <3>2 DEF ReadInv, Served
    <2>2. ASSUME NEW r \in Record, NEW s \in held[r] \cap State
          PROVE  driver[s[1]] = s[2] /\ computed[s[1]] \in {None, s[2]}
      <3>1. readers[s] > 0 /\ added[s[1]] = s[2]
        BY <1>1, <2>2, Holding DEF ReadInv, Waits, There
      <3> QED
        BY <1>1, <3>1, Current
    <2>3. ASSUME NEW r \in memory, NEW s \in refs[r] \cap State, frozen[s[1]] # r
          PROVE  driver[s[1]] = s[2] /\ computed[s[1]] = s[2]
      <3>1. r \in Record
        BY <1>1 DEF ReadInv, CoreInv, Types
      <3>2. s \in held[r] \cap State /\ computed[s[1]] = s[2]
        BY <1>1, <2>3, <3>1 DEF ReadInv, Given
      <3> QED
        BY <2>2, <3>1, <3>2
    <2>4. ASSUME NEW t \in Thread, call[t].phase = "copying", NEW s \in call[t].pins
          PROVE  driver[s[1]] = s[2] /\ computed[s[1]] \in {None, s[2]}
      <3>1. s \in State /\ readers[s] > 0 /\ added[s[1]] = s[2]
        BY <1>1, <2>4, Holding DEF ReadInv, Waits
      <3> QED
        BY <1>1, <3>1, Current
    <2> QED
      BY <2>1, <2>2, <2>3, <2>4 DEF ReadsAsPinned
  <1> QED
    BY AlwaysRead, <1>1, PTL

=============================================================================
