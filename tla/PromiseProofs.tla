--------------------------- MODULE PromiseProofs ---------------------------
(***************************************************************************)
(* That the records keep the promises of protocol.py, for any numbers of   *)
(* clients, records, names, requests of a submission, and workers: work    *)
(* and values that nothing keeps go, and every step of the backend is a    *)
(* step of module Lifecycle or leaves it alone.                            *)
(*                                                                         *)
(* The first rests on Inv of RecordsProofs, and on what the loops have yet *)
(* to do while the lock is held.  The second rests on less of Inv (Sound), *)
(* which also holds beside stages, and on a record that has yet to compute *)
(* reading all it references.                                              *)
(***************************************************************************)
EXTENDS RecordsProofs

\* Memory holds values of completed records only.
MemoryCompleted == \A v \in memory : status[v[1]] = "completed"

\* A pending record without a keeper is about to be looked at or finished.
OrphansDue ==
    \A r \in Existing : Pending(r) /\ Orphan(r) => r \in drops \/ \E how : <<r, how>> \in todo

\* A value without a keeper is about to be looked at.
UnkeptDue == \A v \in memory : KeptBySome(v[1]) \/ readers[v] > 0 \/ v[1] \in drops

ValuesInv == MemoryCompleted /\ UnkeptDue
KeepersInv == ValuesInv /\ OrphansDue

\* Each of the two is kept by itself, as a restart keeps only the first.
DueKept == (ValuesInv => ValuesInv') /\ (OrphansDue => OrphansDue')

\* All that these rest on, whoever else reads beside the records.
Numbered == Types /\ Fresh /\ \A v \in Value : readers[v] \in Nat

-----------------------------------------------------------------------------
(* What is due *)

LEMMA InvNumbered == Inv => Numbered
  <1> SUFFICES ASSUME Inv PROVE Numbered
    OBVIOUS
  <1>1. \A v \in Value : ReadersOf(v) \in SUBSET Record
    BY DEF ReadersOf
  <1>2. \A v \in Value : readers[v] = Cardinality(ReadersOf(v))
    BY DEF Inv, ReadersCounted, ReadersOf
  <1>3. \A v \in Value : readers[v] \in Nat
    BY <1>1, <1>2, Counting
  <1> QED
    BY <1>3 DEF Inv, Numbered

\* Who lets go of values leaves those without a reader to be dropped.
LEMMA LetGoDue ==
  ASSUME Numbered, NEW vs \in SUBSET Value, LetGo(vs)
  PROVE  /\ \A v \in Value : readers[v] > 0 => readers'[v] > 0 \/ v[1] \in drops'
         /\ drops \subseteq drops'
  BY DEF Numbered, LetGo, Producers

\* What a step must not do: a keeper goes only if what it kept is dropped next,
\* the work left to the loops stays, and what is new has a keeper.
LEMMA DueStep ==
  ASSUME Numbered, Numbered',
         \A r \in Record : KeptBySome(r) => KeptBySome(r)' \/ r \in drops',
         \A v \in Value : readers[v] > 0 => readers'[v] > 0 \/ v[1] \in drops',
         drops \subseteq drops',
         \A r \in Record : \/ Pending(r)' /\ ~Orphan(r)'
                           \/ ~Pending(r)'
                           \/ r \in Existing /\ Pending(r) /\ persists'[r] = persists[r],
         \A r \in Record : \A how : <<r, how>> \in todo /\ Pending(r)' => <<r, how>> \in todo',
         \A r \in Record : status[r] = "completed" => status'[r] = "completed",
         \A v \in memory' : \/ v \in memory
                            \/ KeptBySome(v[1])' /\ status'[v[1]] = "completed"
                            \/ readers'[v] > 0 /\ status'[v[1]] = "completed"
  PROVE  DueKept
  <1>0. Types /\ Types' /\ (\A v \in Value : readers[v] \in Nat)
    BY DEF Numbered
  <1>1. \A v \in memory' : v \in Value /\ v[1] \in Record
    BY <1>0 DEF Types, Value
  <1>2. ASSUME ValuesInv PROVE MemoryCompleted'
    BY <1>1, <1>2 DEF MemoryCompleted, ValuesInv
  <1>3. ASSUME ValuesInv PROVE UnkeptDue'
    BY <1>1, <1>3 DEF UnkeptDue, ValuesInv
  <1>4. ASSUME OrphansDue PROVE OrphansDue'
    <2> SUFFICES ASSUME NEW r \in Existing', Pending(r)', Orphan(r)', r \notin drops'
                 PROVE  \E how : <<r, how>> \in todo'
      BY DEF OrphansDue
    <2>1. r \in Record
      BY <1>0, RecordsAssumption DEF Types, Existing, Record
    <2>2. r \in Existing /\ Pending(r) /\ persists[r] = {}
      BY <2>1 DEF Orphan
    <2>3. ~KeptBySome(r)
      BY <2>1 DEF Orphan
    <2>4. \A v \in Outputs(r, Name) : readers[v] = 0
      <3> SUFFICES ASSUME NEW v \in Outputs(r, Name), readers[v] # 0
                   PROVE  FALSE
        OBVIOUS
      <3>1. v \in Value /\ v[1] = r
        BY <2>1 DEF Outputs, Value
      <3>2. readers[v] > 0
        BY <1>0, <3>1
      <3>3. readers'[v] = 0
        BY DEF Orphan, Unread
      <3> QED
        BY <3>1, <3>2, <3>3
    <2>5. Orphan(r)
      BY <2>2, <2>3, <2>4 DEF Orphan, Unread
    <2> QED
      BY <1>4, <2>1, <2>2, <2>5 DEF OrphansDue
  <1> QED
    BY <1>2, <1>3, <1>4 DEF DueKept, ValuesInv

\* A finish, or a release, leaves what has lost its last keeper to be dropped.
LEMMA CallDue ==
  ASSUME Numbered, Numbered', NEW c \in Client,
         \/ OpenClient(c)
         \/ \E rs \in SUBSET Unended \ {{}} : Cancel(c, rs)
         \/ \E rs \in SUBSET kept[c] \ {{}} : Release(c, rs)
         \/ CloseClient(c)
  PROVE  DueKept
  <1>0. Types /\ Types'
    BY DEF Numbered
  <1>1. /\ UNCHANGED <<history, readers, values>>
        /\ \A r \in Record : Pending(r)' <=> Pending(r)
    BY DEF OpenClient, Cancel, Release, CloseClient, keeping, history, Pending
  <1>2. drops \subseteq drops' /\ todo \subseteq todo'
    BY DEF OpenClient, Cancel, Release, CloseClient, Locked, work
  <1>3. \A r \in Record : KeptBySome(r) => KeptBySome(r)' \/ r \in drops'
    BY <1>0 DEF OpenClient, Cancel, Release, CloseClient, KeptBySome, keeping, Types
  <1>4. \A r \in Record : Pending(r) => r \in Existing
    BY <1>0, RecordsAssumption DEF Numbered, Fresh, Pending, Existing, Record, Types
  <1> QED
    BY <1>1, <1>2, <1>3, <1>4, DueStep DEF history, values

LEMMA AcceptDue ==
  ASSUME Numbered, Numbered', NEW c \in clients, NEW k \in 1..MaxBatch,
         count + k <= MaxRecords,
         NEW reads, NEW names \in SUBSET Name, Accept(c, k, reads, names)
  PROVE  DueKept
  <1>0. /\ Types /\ Types' /\ c \in Client /\ count \in Nat /\ k \in Nat
        /\ \A v \in Value : readers[v] \in Nat
    BY RecordsAssumption DEF Numbered, Types
  <1>1. New(k) \subseteq Record /\ \A r \in New(k) : status[r] = "none"
    BY <1>0, RecordsAssumption DEF New, Record, Numbered, Fresh
  <1>2. /\ status' = [r \in Record |-> IF r \in New(k) THEN "pending" ELSE status[r]]
        /\ persists' = [r \in Record |-> IF r \in New(k) THEN names ELSE persists[r]]
        /\ kept' = [kept EXCEPT ![c] = IF names = {} THEN @ \cup New(k) ELSE @]
        /\ readers' = [v \in Value |->
                         readers[v] + Cardinality({r \in New(k) : v \in reads[r]})]
        /\ UNCHANGED <<clients, memory, todo, drops>>
    BY DEF Accept, values, work
  <1>3. \A r \in Record : KeptBySome(r) => KeptBySome(r)'
    BY <1>0, <1>2 DEF KeptBySome, Types
  <1>4. \A v \in Value : readers[v] > 0 => readers'[v] > 0
    <2> SUFFICES ASSUME NEW v \in Value, readers[v] > 0 PROVE readers'[v] > 0
      OBVIOUS
    <2>1. {r \in New(k) : v \in reads[r]} \in SUBSET Record
      BY <1>1
    <2>2. Cardinality({r \in New(k) : v \in reads[r]}) \in Nat
      BY <2>1, Counting
    <2> QED
      BY <1>0, <1>2, <2>2
  <1>5. ASSUME NEW r \in Record
        PROVE  \/ Pending(r)' /\ ~Orphan(r)'
               \/ ~Pending(r)'
               \/ r \in Existing /\ Pending(r) /\ persists'[r] = persists[r]
    <2>1. CASE r \in New(k)
      <3>1. names = {} => KeptBySome(r)'
        BY <1>0, <1>2, <2>1 DEF KeptBySome, Types
      <3> QED
        BY <1>2, <2>1, <3>1 DEF Orphan, Pending
    <2>2. CASE r \notin New(k)
      BY <1>0, <1>2, <2>2, RecordsAssumption DEF Pending, Numbered, Fresh, Existing, Record
    <2> QED
      BY <2>1, <2>2
  <1>6. \A r \in Record : status[r] = "completed" => status'[r] = "completed"
    BY <1>1, <1>2
  <1> QED
    BY <1>2, <1>3, <1>4, <1>5, <1>6, DueStep

LEMMA FinishNextDue ==
  ASSUME Numbered, Numbered', NEW r \in Record, NEW how \in {"failed", "cancelled"},
         FinishNext(r, how)
  PROVE  DueKept
  <1>0. Types /\ Types'
    BY DEF Numbered
  <1>1. UNCHANGED <<count, persists, clients, kept, memory>>
    BY DEF FinishNext, values
  <1>2. /\ \A v \in Value : readers[v] > 0 => readers'[v] > 0 \/ v[1] \in drops'
        /\ drops \subseteq drops'
    <2>1. CASE Pending(r)
      <3>1. LetGo(unread[r]) /\ unread[r] \in SUBSET Value
        BY <1>0, <2>1 DEF FinishNext, YetToRead, Types
      <3> QED
        BY <3>1, LetGoDue
    <2>2. CASE ~Pending(r)
      BY <2>2 DEF FinishNext
    <2> QED
      BY <2>1, <2>2
  <1>3. \A x \in Record : Pending(x)' => Pending(x) /\ x # r
    BY <1>0 DEF FinishNext, Pending, Types
  <1>4. \A x \in Record : \A h : <<x, h>> \in todo /\ x # r => <<x, h>> \in todo'
    BY DEF FinishNext
  <1>5. \A x \in Record : status[x] = "completed" => status'[x] = "completed"
    BY <1>0 DEF FinishNext, Pending, Types
  <1>6. \A x \in Record : Pending(x) => x \in Existing
    BY <1>0, RecordsAssumption DEF Numbered, Fresh, Pending, Existing, Record, Types
  <1>7. \A x \in Record : KeptBySome(x)' <=> KeptBySome(x)
    BY <1>1 DEF KeptBySome
  <1> QED
    BY <1>1, <1>2, <1>3, <1>4, <1>5, <1>6, <1>7, DueStep

\* The one turn that takes a record off drops: it looks at the record first.
LEMMA DropNextDue ==
  ASSUME Numbered, Numbered', NEW r \in Record, DropNext(r)
  PROVE  DueKept
  <1>0. Types /\ Types' /\ (\A v \in Value : readers[v] \in Nat)
    BY DEF Numbered
  <1>1. /\ UNCHANGED <<count, status, persists, clients, kept, readers>>
        /\ drops' = drops \ {r} /\ todo \subseteq todo' /\ memory' \subseteq memory
    BY DEF DropNext, history, keeping
  <1>2. \A x \in Record : (KeptBySome(x)' <=> KeptBySome(x)) /\ Unread(x)' = Unread(x)
    BY <1>1 DEF KeptBySome, Unread
  <1>3. ASSUME ValuesInv PROVE MemoryCompleted'
    BY <1>1, <1>3 DEF MemoryCompleted, ValuesInv
  <1>4. ASSUME OrphansDue PROVE OrphansDue'
    <2> SUFFICES ASSUME NEW x \in Existing, Pending(x), Orphan(x), x \notin drops'
                 PROVE  \E how : <<x, how>> \in todo'
      <3>1. Existing' = Existing /\ Existing \subseteq Record
        BY <1>0, <1>1, RecordsAssumption DEF Existing, Types, Record
      <3>2. \A x \in Record : (Orphan(x)' <=> Orphan(x)) /\ (Pending(x)' <=> Pending(x))
        BY <1>1, <1>2 DEF Orphan, Pending, Outputs
      <3> QED
        BY <3>1, <3>2 DEF OrphansDue
    <2>1. CASE x = r
      BY <2>1 DEF DropNext
    <2>2. CASE x # r
      BY <1>1, <1>4, <2>2 DEF OrphansDue
    <2> QED
      BY <2>1, <2>2
  <1>5. ASSUME ValuesInv PROVE UnkeptDue'
    <2> SUFFICES ASSUME NEW v \in memory'
                 PROVE  KeptBySome(v[1]) \/ readers[v] > 0 \/ v[1] \in drops'
      BY <1>0, <1>1, <1>2 DEF UnkeptDue, Types, Value
    <2>1. v \in memory /\ v \in Value /\ status[v[1]] = "completed"
      BY <1>0, <1>1, <1>5 DEF Types, ValuesInv, MemoryCompleted
    <2>2. CASE v[1] = r
      <3>1. ~Pending(r)
        BY <2>1, <2>2 DEF Pending
      <3>2. v \in Outputs(r, Name)
        BY <2>1, <2>2 DEF Value, Outputs
      <3>3. KeptBySome(r) \/ v \notin Unread(r)
        BY <3>1 DEF DropNext
      <3> QED
        BY <1>0, <2>1, <2>2, <3>2, <3>3 DEF Unread
    <2>3. CASE v[1] # r
      BY <1>1, <1>5, <2>1, <2>3 DEF ValuesInv, UnkeptDue
    <2> QED
      BY <2>2, <2>3
  <1> QED
    BY <1>3, <1>4, <1>5 DEF DueKept, ValuesInv

LEMMA WorkerDue ==
  ASSUME Numbered, Numbered', NEW r \in Record, WorkerStep(r)
  PROVE  DueKept
  <1>0. Types /\ Types' /\ (\A v \in Value : readers[v] \in Nat)
    BY DEF Numbered
  <1>1. UNCHANGED <<count, persists, clients, kept>> /\ todo \subseteq todo'
    BY DEF WorkerStep, Start, Return, Raise, Write, WriteFails, Complete, Fail, Locked,
           history, keeping, work
  <1>2. \A x \in Record : status'[x] = status[x] \/ (Pending(x) /\ ~Pending(x)')
    BY <1>0 DEF WorkerStep, Start, Return, Raise, Write, WriteFails, Complete, Fail, history,
                Types, Pending
  <1>3. \A x \in Record : KeptBySome(x)' <=> KeptBySome(x)
    BY <1>1 DEF KeptBySome
  <1>4. /\ \A v \in Value : readers[v] > 0 => readers'[v] > 0 \/ v[1] \in drops'
        /\ drops \subseteq drops'
    <2>1. CASE LetGo(held[r])
      <3>1. held[r] \in SUBSET Value
        BY <1>0 DEF Types
      <3> QED
        BY <2>1, <3>1, LetGoDue
    <2>2. CASE UNCHANGED <<readers, drops>>
      BY <2>2
    <2> QED
      BY <2>1, <2>2 DEF WorkerStep, Start, Return, Raise, Write, WriteFails, Complete, keeping, work
  <1>5. ASSUME NEW v \in memory', v \notin memory
        PROVE  (KeptBySome(v[1]) \/ readers'[v] > 0) /\ status'[v[1]] = "completed"
    <2>1. Complete(r) /\ Pending(r)
      BY <1>5 DEF WorkerStep, Start, Return, Raise, Write, WriteFails, Complete, values
    <2>2. /\ v \in Retained(r) /\ status' = [status EXCEPT ![r] = "completed"]
          /\ readers' = readers
      BY <1>5, <2>1 DEF Complete, keeping
    <2>3. v[1] = r /\ v \in Outputs(r, Name)
      BY <1>0, <2>2 DEF Retained, Outputs, Types
    <2>4. KeptBySome(r) \/ v \notin Unread(r)
      BY <2>2 DEF Retained
    <2>5. v \in Value
      BY <1>0, <1>5 DEF Types
    <2> QED
      BY <1>0, <2>2, <2>3, <2>4, <2>5 DEF Unread, Types
  <1>6. \A x \in Record : Pending(x) => x \in Existing
    BY <1>0, RecordsAssumption DEF Numbered, Fresh, Pending, Existing, Record, Types
  <1>7. \A v \in memory' : v[1] \in Record
    BY <1>0 DEF Types, Value
  <1>8. \A x \in Record : Pending(x)' => Pending(x) /\ persists'[x] = persists[x]
    BY <1>1, <1>2 DEF Pending
  <1>9. \A x \in Record : status[x] = "completed" => status'[x] = "completed"
    BY <1>2 DEF Pending
  <1> QED
    BY <1>1, <1>3, <1>4, <1>5, <1>6, <1>7, <1>8, <1>9, DueStep

LEMMA KeepersStep == Numbered /\ Numbered' /\ [Next]_vars => DueKept
  <1> SUFFICES ASSUME Numbered, Numbered', [Next]_vars PROVE DueKept
    OBVIOUS
  <1>0. Types
    BY DEF Numbered
  <1>1. ASSUME NEW c \in Client, CallOf(c) PROVE DueKept
    <2>1. CASE \E k \in 1..MaxBatch :
                 /\ count + k <= MaxRecords
                 /\ \E reads \in Entries(k), names \in SUBSET Name : Submit(c, k, reads, names)
      BY <2>1, AcceptDue DEF Submit
    <2> QED
      BY <1>1, <2>1, CallDue DEF CallOf
  <1>2. ASSUME NEW job \in todo, FinishNext(job[1], job[2]) PROVE DueKept
    <2>1. job[1] \in Record /\ job[2] \in {"failed", "cancelled"}
      BY <1>0 DEF Types
    <2> QED
      BY <1>2, <2>1, FinishNextDue
  <1>3. ASSUME NEW r \in drops, DropNext(r) PROVE DueKept
    BY <1>0, <1>3, DropNextDue DEF Types
  <1>4. CASE UNCHANGED vars
    <2>1. UNCHANGED <<count, status, persists, clients, kept, readers, memory, todo, drops>>
      BY <1>4 DEF vars, history, keeping, values, work
    <2>2. \A x : (KeptBySome(x)' <=> KeptBySome(x)) /\ (Orphan(x)' <=> Orphan(x))
      BY <2>1 DEF KeptBySome, Orphan, Unread
    <2> QED
      BY <2>1, <2>2 DEF DueKept, ValuesInv, MemoryCompleted, OrphansDue, UnkeptDue, Existing, Pending
  <1> QED
    BY <1>1, <1>2, <1>3, <1>4, WorkerDue DEF Next, Cascade

LEMMA KeepersHold == Spec => [](Inv /\ KeepersInv)
  <1>1. Init => KeepersInv
    BY RecordsAssumption DEF Init, KeepersInv, ValuesInv, MemoryCompleted, OrphansDue, UnkeptDue, Existing
  <1>2. Inv /\ Inv' /\ KeepersInv /\ [Next]_vars => KeepersInv'
    <2>1. (Inv => Numbered)'
      BY InvNumbered, PTL
    <2> QED
      BY <2>1, InvNumbered, KeepersStep DEF DueKept, KeepersInv
  <1> QED
    BY <1>1, InitInv, StepInv, <1>2, PTL DEF Spec

\* Work that nothing keeps is cancelled: once the lock is let go, every pending
\* record has a client, the store or a reader to compute for.
THEOREM LeavesNoOrphans == Spec => []NoOrphans
  <1>1. KeepersInv => NoOrphans
    BY DEF KeepersInv, OrphansDue, NoOrphans, Locked
  <1> QED
    BY <1>1, KeepersHold, PTL

\* Values that nothing keeps are dropped: once the lock is let go, what is in
\* memory has a client that keeps it or a reader.
THEOREM KeepsNothingUnkept == Spec => []NothingUnkept
  <1>1. KeepersInv => NothingUnkept
    BY DEF KeepersInv, ValuesInv, UnkeptDue, NothingUnkept, Locked
  <1> QED
    BY <1>1, KeepersHold, PTL

-----------------------------------------------------------------------------
(* The refinement *)

\* What the refinement takes from Inv, and from what holds where others than
\* records read values too.
Sound ==
    /\ Types /\ Fresh /\ Places /\ Waits /\ Written /\ Kept
    /\ \A v \in Value : readers[v] = 0 => \A r \in Record : v \notin unread[r] \cup held[r]

LEMMA InvSound == Inv => Sound
  BY Unheld DEF Inv, Sound

\* A record that has yet to compute holds all it references; and no worker is
\* with a record that has completed.
Retains ==
    \A r \in Record :
        /\ Pending(r) /\ at[r] = "idle" => unread[r] = refs[r]
        /\ at[r] = "computing" => held[r] = refs[r]
        /\ at[r] # "idle" => status[r] # "completed"

LEMMA RetainsAccept ==
  ASSUME Sound, Retains, NEW c \in Client, NEW k \in 1..MaxBatch, count + k <= MaxRecords,
         NEW reads, NEW names \in SUBSET Name, Accept(c, k, reads, names)
  PROVE  Retains'
  <1>0. Types /\ count \in Nat /\ k \in Nat
    BY RecordsAssumption DEF Sound, Types
  <1>1. \A r \in New(k) : r \in Record /\ at[r] = "idle"
    BY <1>0, RecordsAssumption DEF New, Record, Sound, Fresh
  <1>2. /\ status' = [r \in Record |-> IF r \in New(k) THEN "pending" ELSE status[r]]
        /\ refs' = [r \in Record |-> IF r \in New(k) THEN reads[r] ELSE refs[r]]
        /\ unread' = [r \in Record |-> IF r \in New(k) THEN reads[r] ELSE unread[r]]
        /\ UNCHANGED <<held, at>>
    BY DEF Accept
  <1> QED
    BY <1>1, <1>2 DEF Retains, Pending

LEMMA RetainsStep == Sound /\ Retains /\ [Next]_vars => Retains'
  <1> SUFFICES ASSUME Sound, Retains, [Next]_vars PROVE Retains'
    OBVIOUS
  <1>0. Types
    BY DEF Sound
  <1>1. ASSUME NEW c \in Client, CallOf(c) PROVE Retains'
    <2>1. CASE \E k \in 1..MaxBatch :
                 /\ count + k <= MaxRecords
                 /\ \E reads \in Entries(k), names \in SUBSET Name : Submit(c, k, reads, names)
      BY <2>1, RetainsAccept DEF Submit
    <2>2. CASE UNCHANGED <<status, refs, unread, held, at>>
      BY <2>2 DEF Retains, Pending
    <2> QED
      BY <1>1, <2>1, <2>2
      DEF CallOf, OpenClient, Cancel, Release, CloseClient, history, keeping, running
  <1>2. ASSUME NEW job \in todo, FinishNext(job[1], job[2]) PROVE Retains'
    <2> DEFINE r == job[1]
    <2>1. r \in Record /\ job[2] \in {"failed", "cancelled"} /\ UNCHANGED <<refs, held, at>>
      BY <1>0, <1>2 DEF Types, FinishNext
    <2>2. CASE Pending(r)
      BY <1>0, <1>2, <2>1, <2>2 DEF FinishNext, Retains, Pending, Types
    <2>3. CASE ~Pending(r)
      BY <1>2, <2>1, <2>3 DEF FinishNext, Retains, Pending
    <2> QED
      BY <2>2, <2>3
  <1>3. ASSUME NEW r \in drops, DropNext(r) PROVE Retains'
    BY <1>3 DEF DropNext, Retains, Pending, history, keeping, running
  <1>4. ASSUME NEW r \in Record, Start(r) PROVE Retains'
    <2>1. UNCHANGED <<status, refs>> /\ at[r] = "idle"
      BY <1>0, <1>4 DEF Start, history, Sound, Places, Types
    <2> QED
      BY <1>0, <1>4, <2>1 DEF Start, Retains, Pending, Types
  <1>5. ASSUME NEW r \in Record, NEW names \in SUBSET Name, Return(r, names) PROVE Retains'
    BY <1>0, <1>5 DEF Return, Retains, Pending, Types, history
  <1>6. ASSUME NEW r \in Record, Raise(r) \/ WriteFails(r) PROVE Retains'
    <2>1. /\ UNCHANGED <<refs, unread>> /\ at' = [at EXCEPT ![r] = "idle"]
          /\ \A x \in Record : x # r => held'[x] = held[x] /\ status'[x] = status[x]
          /\ status'[r] # "pending" /\ (status'[r] = "completed" => status[r] = "completed")
      BY <1>0, <1>6 DEF Raise, WriteFails, Fail, Pending, Types, keeping
    <2> QED
      BY <1>0, <2>1 DEF Retains, Pending, Types
  <1>7. ASSUME NEW r \in Record, NEW n \in Name, Write(r, n) PROVE Retains'
    BY <1>7 DEF Write, Retains, Pending, history, keeping
  <1>8. ASSUME NEW r \in Record, Complete(r) PROVE Retains'
    <2>1. /\ UNCHANGED <<refs, unread, held>> /\ at' = [at EXCEPT ![r] = "idle"]
          /\ \A x \in Record : x # r => status'[x] = status[x]
          /\ status'[r] # "pending"
      BY <1>0, <1>8 DEF Complete, Pending, Types, keeping
    <2> QED
      BY <1>0, <2>1 DEF Retains, Pending, Types
  <1>9. CASE UNCHANGED vars
    BY <1>9 DEF vars, history, keeping, running, Retains, Pending
  <1> QED
    BY <1>1, <1>2, <1>3, <1>4, <1>5, <1>6, <1>7, <1>8, <1>9 DEF Next, Cascade, WorkerStep

PromiseInv == Sound /\ Retains

\* The values of records that are as they were stay live or not.
Completed(r) == status[r] = "completed"

LEMMA StateOf ==
  ASSUME Sound, NEW r \in Record
  PROVE  /\ State[r] = (IF Pending(r) /\ at[r] = "writing" THEN "computed" ELSE status[r])
         /\ State[r] \in Promise!States
         /\ Pending(r) <=> State[r] \in Promise!Unfinished
         /\ Completed(r) <=> State[r] = "completed"
  BY DEF State, Pending, Completed, Promise!States, Promise!Unfinished, Sound, Types, Statuses

\* A step that changes neither what becomes of records nor what can be read.
LEMMA Stutters ==
  ASSUME UNCHANGED <<State, refs, Live>>
  PROVE  UNCHANGED Promise!vars
  BY DEF Promise!vars

LEMMA CallKeeps ==
  ASSUME PromiseInv, NEW c \in Client,
         \/ OpenClient(c)
         \/ \E rs \in SUBSET Unended \ {{}} : Cancel(c, rs)
         \/ \E rs \in SUBSET kept[c] \ {{}} : Release(c, rs)
         \/ CloseClient(c)
  PROVE  UNCHANGED Promise!vars
  <1>1. UNCHANGED <<status, refs, omitted, memory, store, at>>
    BY DEF OpenClient, Cancel, Release, CloseClient, history, values, running
  <1> QED
    BY <1>1 DEF State, Live, Pending, Promise!vars

\* Requests are accepted, of which what they read can still be read.
LEMMA AcceptKeeps ==
  ASSUME PromiseInv, Types', NEW c \in Client, NEW k \in 1..MaxBatch, count + k <= MaxRecords,
         NEW reads \in [New(k) -> SUBSET (Existing \X Name)], NEW names \in SUBSET Name,
         Accept(c, k, reads, names),
         \A r \in New(k) : \A v \in reads[r] :
            /\ status[v[1]] \notin {"failed", "cancelled"}
            /\ status[v[1]] = "completed" => v \in Live
  PROVE  Promise!Submit(New(k))
  <1> DEFINE new == New(k)
  <1>0. Sound /\ Types /\ count \in Nat /\ k \in Nat
    BY RecordsAssumption DEF PromiseInv, Sound, Types
  <1>1. new \subseteq Record /\ Existing \subseteq Record
    BY <1>0, RecordsAssumption DEF New, Record, Existing, Types
  <1>2. \A r \in new : status[r] = "none" /\ at[r] = "idle"
    BY <1>0, <1>1 DEF New, Sound, Fresh
  <1>3. /\ status' = [r \in Record |-> IF r \in new THEN "pending" ELSE status[r]]
        /\ refs' = [r \in Record |-> IF r \in new THEN reads[r] ELSE refs[r]]
        /\ UNCHANGED <<omitted, memory, store, at>>
    BY DEF Accept, values
  <1>4. \A r \in new : State[r] = "none"
    BY <1>1, <1>2 DEF State, Pending
  <1>5. State' = [r \in Record |-> IF r \in new THEN "pending" ELSE State[r]]
    BY <1>0, <1>1, <1>2, <1>3 DEF State, Pending
  <1>6. refs' \in [Record -> SUBSET Promise!Value] /\ \A r \in Record \ new : refs'[r] = refs[r]
    BY <1>0, <1>3 DEF Types, Promise!Value, Value
  <1>7. ASSUME NEW r \in new, NEW v \in refs'[r]
        PROVE  State[v[1]] \in Promise!Unfinished \/ (State[v[1]] = "completed" /\ v \in Live)
    <2>1. v \in reads[r] /\ reads[r] \in SUBSET (Existing \X Name)
      BY <1>1, <1>3, <1>7
    <2>2. v[1] \in Existing /\ v[1] \in Record
      BY <1>1, <2>1
    <2>3. /\ status[v[1]] \notin {"failed", "cancelled"}
          /\ status[v[1]] = "completed" => v \in Live
      BY <2>1
    <2>4. status[v[1]] # "none"
      BY <1>0, <2>2 DEF Sound, Fresh, Existing
    <2>5. Pending(v[1]) \/ status[v[1]] = "completed"
      BY <1>0, <2>2, <2>3, <2>4 DEF Types, Statuses, Pending
    <2> QED
      BY <1>0, <2>2, <2>3, <2>5, StateOf DEF Completed
  <1>8. Live' = Live
    <2>1. \A v \in Value : status'[v[1]] = "completed" <=> status[v[1]] = "completed"
      BY <1>2, <1>3 DEF Value
    <2> QED
      BY <1>0, <1>3, <2>1 DEF Live, Types
  <1> QED
    BY <1>4, <1>5, <1>6, <1>7, <1>8 DEF Promise!Submit

\* What the read rule allows can still be read.
LEMMA ReadableLives ==
  ASSUME Sound, NEW c \in clients, NEW v \in Value, MayRead(c, v), status[v[1]] = "completed"
  PROVE  v \in Live
  <1>1. v[1] \in Record /\ v[2] \in Name /\ v = <<v[1], v[2]>>
    BY DEF Value
  <1>2. v \in memory \cup store
    BY <1>1 DEF Sound, MayRead, Kept, Written
  <1> QED
    BY <1>2 DEF Live, MayRead

LEMMA SubmitKeeps ==
  ASSUME PromiseInv, Types', NEW c \in Client, NEW k \in 1..MaxBatch, count + k <= MaxRecords,
         NEW reads \in Entries(k), NEW names \in SUBSET Name, Submit(c, k, reads, names)
  PROVE  Promise!Submit(New(k))
  <1>1. c \in clients /\ Accept(c, k, reads, names)
        /\ \A r \in New(k) : \A v \in reads[r] : MayRead(c, v)
    BY DEF Submit
  <1>2. reads \in [New(k) -> SUBSET (Existing \X Name)]
    BY DEF Entries
  <1>3. Sound /\ Existing \subseteq Record
    BY RecordsAssumption DEF PromiseInv, Sound, Types, Existing, Record
  <1>4. ASSUME NEW r \in New(k), NEW v \in reads[r]
        PROVE  /\ status[v[1]] \notin {"failed", "cancelled"}
               /\ status[v[1]] = "completed" => v \in Live
    <2>1. v \in Value /\ MayRead(c, v)
      BY <1>1, <1>2, <1>3 DEF Value
    <2> QED
      BY <1>1, <1>3, <2>1, ReadableLives DEF MayRead
  <1> QED
    BY <1>1, <1>2, <1>4, AcceptKeeps

\* A record that is pending finishes without a value.
LEMMA EndsKeeps ==
  ASSUME PromiseInv, NEW r \in Record, NEW how \in {"failed", "cancelled"}, Pending(r),
         status' = [status EXCEPT ![r] = how],
         UNCHANGED <<refs, omitted, memory, store>>,
         \A x \in Record : x # r => at'[x] = at[x]
  PROVE  Promise!End(r, how)
  <1>0. Types /\ Sound
    BY DEF PromiseInv, Sound
  <1>1. State[r] \in Promise!Unfinished
    BY <1>0, StateOf
  <1>2. State' = [State EXCEPT ![r] = how]
    BY <1>0 DEF State, Pending, Types
  <1>3. \A v \in Value : status'[v[1]] = "completed" <=> status[v[1]] = "completed"
    BY <1>0 DEF Value, Types, Pending
  <1>4. Live' = Live
    BY <1>0, <1>3 DEF Live, Types
  <1> QED
    BY <1>1, <1>2, <1>4 DEF Promise!End

LEMMA FinishNextKeeps ==
  ASSUME PromiseInv, NEW r \in Record, NEW how \in {"failed", "cancelled"}, FinishNext(r, how)
  PROVE  Promise!End(r, how) \/ UNCHANGED Promise!vars
  <1>1. UNCHANGED <<refs, omitted, memory, store, at>>
    BY DEF FinishNext, values
  <1>2. CASE Pending(r)
    BY <1>1, <1>2, EndsKeeps DEF FinishNext
  <1>3. CASE ~Pending(r)
    BY <1>1, <1>3 DEF FinishNext, State, Live, Pending, Promise!vars
  <1> QED
    BY <1>2, <1>3

\* What a turn of the loop drops has no reader, and so no record that has yet
\* to compute references it.
LEMMA DropNextKeeps ==
  ASSUME PromiseInv, NEW r \in Record, DropNext(r)
  PROVE  Promise!Forget
  <1>0. Types /\ Sound
    BY DEF PromiseInv, Sound
  <1>1. /\ UNCHANGED <<status, refs, omitted, store, at>>
        /\ memory' \subseteq memory
        /\ \A v \in memory \ memory' : readers[v] = 0
    BY DEF DropNext, history, running, Unread
  <1>2. State' = State /\ Live' \in SUBSET Live
    BY <1>1 DEF State, Live, Pending
  <1>3. ASSUME NEW x \in Record, State[x] = "pending", NEW v \in refs[x] \cap Live
        PROVE  v \in Live'
    <2>1. Pending(x) /\ at[x] # "writing"
      BY <1>0, <1>3, StateOf DEF Promise!Unfinished, Completed, Pending
    <2>2. v \in unread[x] \cup held[x] /\ v \in Value
      BY <1>0, <2>1 DEF PromiseInv, Retains, Types
    <2>3. readers[v] # 0
      BY <1>0, <2>2 DEF Sound
    <2> QED
      BY <1>1, <2>3 DEF Live
  <1> QED
    BY <1>1, <1>2, <1>3 DEF Promise!Forget

LEMMA ReturnKeeps ==
  ASSUME PromiseInv, NEW r \in Record, NEW names \in SUBSET Name, Return(r, names)
  PROVE  Promise!Compute(r) \/ UNCHANGED Promise!vars
  <1>0. Types /\ Sound
    BY DEF PromiseInv, Sound
  <1>1. /\ UNCHANGED <<status, refs, omitted, memory, store>>
        /\ at[r] = "computing" /\ at' = [at EXCEPT ![r] = "writing"]
    BY DEF Return, history, values
  <1>2. Live' = Live
    BY <1>1 DEF Live
  <1>3. CASE Pending(r)
    <2>1. State[r] = "pending" /\ held[r] = refs[r]
      BY <1>1, <1>3 DEF State, Pending, PromiseInv, Retains
    <2>2. \A v \in refs[r] : v \in Value /\ v[1] \in Record /\ status[v[1]] = "completed"
      BY <1>0, <2>1 DEF Sound, Waits, Types, Value
    <2>3. refs[r] \subseteq Live
      BY <2>1, <2>2 DEF Return, CanRead, Live
    <2>4. \A v \in refs[r] : State[v[1]] = "completed"
      BY <1>0, <2>2, StateOf DEF Completed
    <2>5. State' = [State EXCEPT ![r] = "computed"]
      BY <1>0, <1>1, <1>3 DEF State, Pending, Types
    <2> QED
      BY <1>1, <1>2, <2>1, <2>3, <2>4, <2>5 DEF Promise!Compute
  <1>4. CASE ~Pending(r)
    <2>1. State' = State
      BY <1>0, <1>1, <1>4 DEF State, Pending, Types
    <2> QED
      BY <1>1, <1>2, <2>1, Stutters
  <1> QED
    BY <1>3, <1>4

\* What the workflow of a record returned becomes live, and nothing else.
LEMMA CompleteKeeps ==
  ASSUME PromiseInv, PromiseInv', NEW r \in Record, Complete(r)
  PROVE  (\E names \in SUBSET Name : Promise!Complete(r, names)) \/ UNCHANGED Promise!vars
  <1>0. Types /\ Sound /\ Types'
    BY DEF PromiseInv, Sound
  <1>1. /\ UNCHANGED <<refs, store>>
        /\ at[r] = "writing" /\ at' = [at EXCEPT ![r] = "idle"]
    BY DEF Complete
  <1>2. CASE Pending(r)
    <2>1. /\ status' = [status EXCEPT ![r] = "completed"]
          /\ omitted' = [omitted EXCEPT ![r] = Name \ returned[r]]
          /\ memory' = memory \cup Retained(r)
      BY <1>2 DEF Complete
    <2>2. State[r] = "computed" /\ State' = [State EXCEPT ![r] = "completed"]
      BY <1>0, <1>1, <1>2, <2>1 DEF State, Pending, Types
    <2> DEFINE names == {n \in Name : <<r, n>> \in Live'}
    <2>3. \A v \in Value : v[1] # r => (v \in Live' <=> v \in Live)
      <3>1. \A v \in Retained(r) : v[1] = r
        BY DEF Retained, Outputs
      <3>2. \A v \in Value : v[1] # r =>
               status'[v[1]] = status[v[1]] /\ omitted'[v[1]] = omitted[v[1]]
        BY <1>0, <2>1 DEF Types, Value
      <3> QED
        BY <1>1, <2>1, <3>1, <3>2 DEF Live
    <2>4. \A v \in Live : v[1] # r
      BY <1>2 DEF Live, Pending
    <2>5. Live \subseteq Value /\ Live' \subseteq Value
      BY <1>0 DEF Live, Types
    <2>6. Live' = Live \cup ({r} \X names)
      <3>1. \A v \in Live' : v \in Live \/ v \in {r} \X names
        BY <2>3, <2>5 DEF Value
      <3>2. \A v \in Live \cup ({r} \X names) : v \in Live'
        BY <2>3, <2>4, <2>5
      <3> QED
        BY <3>1, <3>2
    <2>7. names \in SUBSET Name
      OBVIOUS
    <2> HIDE DEF names
    <2>8. Promise!Complete(r, names)
      BY <1>1, <2>2, <2>6 DEF Promise!Complete
    <2> QED
      BY <2>7, <2>8
  <1>3. CASE ~Pending(r)
    <2>1. UNCHANGED <<status, omitted, memory>>
      BY <1>3 DEF Complete
    <2>2. State' = State /\ Live' = Live
      BY <1>0, <1>1, <1>3, <2>1 DEF State, Live, Pending, Types
    <2> QED
      BY <1>1, <2>2, Stutters
  <1> QED
    BY <1>2, <1>3

\* A worker that takes a record, writes, or meets a failure.
LEMMA WorkerKeeps ==
  ASSUME PromiseInv, NEW r \in Record,
         Start(r) \/ Raise(r) \/ WriteFails(r) \/ \E n \in Name : Write(r, n)
  PROVE  Promise!End(r, "failed") \/ UNCHANGED Promise!vars
  <1>0. Types /\ Sound
    BY DEF PromiseInv, Sound
  <1>1. CASE Start(r)
    <2>1. UNCHANGED <<status, refs, omitted, memory, store>>
      BY <1>1 DEF Start, history, values
    <2>2. State' = State
      <3>1. at[r] = "idle"
        BY <1>0, <1>1 DEF Start, Sound, Places, Types
      <3>2. \A x \in Record : at'[x] = "writing" <=> at[x] = "writing"
        BY <1>0, <1>1, <3>1 DEF Start, Types
      <3> QED
        BY <2>1, <3>2 DEF State, Pending
    <2> QED
      BY <2>1, <2>2, Stutters DEF Live
  <1>2. CASE Raise(r) \/ WriteFails(r)
    <2>1. UNCHANGED <<refs, omitted, memory, store>> /\ at' = [at EXCEPT ![r] = "idle"] /\ Fail(r)
      BY <1>2 DEF Raise, WriteFails, values
    <2>2. CASE Pending(r)
      <3>1. status' = [status EXCEPT ![r] = "failed"]
        BY <2>1, <2>2 DEF Fail
      <3> QED
        BY <1>0, <2>1, <2>2, <3>1, EndsKeeps DEF Types
    <2>3. CASE ~Pending(r)
      <3>1. status' = status
        BY <2>1, <2>3 DEF Fail
      <3>2. State' = State /\ Live' = Live
        BY <1>0, <2>1, <2>3, <3>1 DEF State, Live, Pending, Types
      <3> QED
        BY <2>1, <3>2, Stutters
    <2> QED
      BY <2>2, <2>3
  <1>3. ASSUME NEW n \in Name, Write(r, n)
        PROVE  UNCHANGED Promise!vars
    <2>1. /\ UNCHANGED <<status, refs, omitted, memory, at>>
          /\ store' = store \cup {<<r, n>>} /\ at[r] = "writing"
      BY <1>3 DEF Write, history
    <2>2. status[r] # "completed"
      BY <2>1 DEF PromiseInv, Retains
    <2>3. Live' = Live
      BY <2>1, <2>2 DEF Live
    <2>4. State' = State
      BY <2>1 DEF State, Pending
    <2> QED
      BY <2>1, <2>3, <2>4, Stutters
  <1> QED
    BY <1>1, <1>2, <1>3

LEMMA StepKeeps == PromiseInv /\ PromiseInv' /\ [Next]_vars => [Promise!Next]_Promise!vars
  <1> SUFFICES ASSUME PromiseInv, PromiseInv', [Next]_vars
               PROVE  Promise!Next \/ UNCHANGED Promise!vars
    OBVIOUS
  <1>0. Types /\ Types'
    BY DEF PromiseInv, Sound
  <1> USE DEF Promise!Next
  <1>1. ASSUME NEW c \in Client, CallOf(c) PROVE Promise!Next \/ UNCHANGED Promise!vars
    <2>1. ASSUME NEW k \in 1..MaxBatch, count + k <= MaxRecords,
                 NEW reads \in Entries(k), NEW names \in SUBSET Name, Submit(c, k, reads, names)
          PROVE  Promise!Next
      <3>1. New(k) \in SUBSET Record
        BY <1>0, <2>1, RecordsAssumption DEF New, Record, Types
      <3> QED
        BY <1>0, <2>1, <3>1, SubmitKeeps
    <2> QED
      BY <1>1, <2>1, CallKeeps DEF CallOf
  <1>2. ASSUME NEW job \in todo, FinishNext(job[1], job[2])
        PROVE  Promise!Next \/ UNCHANGED Promise!vars
    <2>1. job[1] \in Record /\ job[2] \in {"failed", "cancelled"}
      BY <1>0 DEF Types
    <2> QED
      BY <1>2, <2>1, FinishNextKeeps
  <1>3. ASSUME NEW r \in drops, DropNext(r) PROVE Promise!Next
    BY <1>0, <1>3, DropNextKeeps DEF Types
  <1>4. ASSUME NEW r \in Record, WorkerStep(r) PROVE Promise!Next \/ UNCHANGED Promise!vars
    BY <1>4, ReturnKeeps, CompleteKeeps, WorkerKeeps DEF WorkerStep
  <1>5. CASE UNCHANGED vars
    BY <1>5 DEF vars, history, values, running, State, Live, Pending, Promise!vars
  <1> QED
    BY <1>1, <1>2, <1>3, <1>4, <1>5 DEF Next, Cascade

\* The backend keeps what protocol.py promises: records and values go through
\* the lifecycle of module Lifecycle, whatever the queue, the counter of
\* readers, the clients and the loops under the lock do meanwhile.
THEOREM Implements == Spec => KeepsPromise
  <1>1. Init => Retains /\ Promise!Init
    BY DEF Init, Retains, Pending, Promise!Init, State, Live
  <1>2. Inv /\ Retains /\ [Next]_vars => Inv' /\ Retains'
    BY StepInv, InvSound, RetainsStep
  <1>3. Inv /\ Retains => PromiseInv
    BY InvSound DEF PromiseInv
  <1> QED
    BY <1>1, <1>2, <1>3, InitInv, StepKeeps, PTL DEF Spec, KeepsPromise, Promise!Spec

=============================================================================
