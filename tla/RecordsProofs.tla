--------------------------- MODULE RecordsProofs ---------------------------
(***************************************************************************)
(* Theorems about the records of the backend, for any numbers of clients,  *)
(* records, names, requests of a submission, and workers.                  *)
(*                                                                         *)
(* The invariants of Records are not inductive alone: that a reader finds  *)
(* what it reads rests on the counter of readers being exact (DropNext     *)
(* looks only at the counter), on a worker starting only what waits for    *)
(* nothing, and on what is written before a record completes.  Inv says    *)
(* all of this at once.                                                    *)
(***************************************************************************)
EXTENDS Records, FiniteSetTheorems, TLAPS

\* The types, but for the counter of readers, which is known to stay natural
\* only once it is known to be exact.
Types ==
    /\ count \in 0..MaxRecords
    /\ status \in [Record -> Statuses]
    /\ refs \in [Record -> SUBSET Value]
    /\ persists \in [Record -> SUBSET Name]
    /\ omitted \in [Record -> SUBSET Name]
    /\ clients \subseteq Client
    /\ kept \in [Client -> SUBSET Record]
    /\ unread \in [Record -> SUBSET Value]
    /\ held \in [Record -> SUBSET Value]
    /\ readers \in [Value -> Int]
    /\ memory \subseteq Value
    /\ store \subseteq Value
    /\ waiting \in [Record -> SUBSET Record]
    /\ dependents \in [Record -> SUBSET Record]
    /\ queued \subseteq Record
    /\ at \in [Record -> {"idle", "computing", "writing"}]
    /\ returned \in [Record -> SUBSET Name]
    /\ unwritten \in [Record -> SUBSET Name]
    /\ todo \subseteq Record \X {"failed", "cancelled"}
    /\ drops \subseteq Record

\* What has not been submitted is nowhere.
Fresh ==
    \A r \in Record :
        /\ status[r] = "none" <=> r > count
        /\ r > count => unread[r] = {} /\ at[r] = "idle" /\ r \notin queued

\* Where a record holds what it reads: before it starts, in unread, and while
\* its workflow runs, in held.
Places ==
    \A r \in Record :
        /\ unread[r] # {} => status[r] = "pending" /\ at[r] = "idle"
        /\ held[r] # {} => at[r] = "computing"
        /\ at[r] # "idle" => r \notin queued

\* What a record has yet to read has completed, or the record waits for it.
Waits ==
    \A r \in Record :
        /\ \A v \in unread[r] : v[1] \in waiting[r] \/ status[v[1]] = "completed"
        /\ r \in queued => waiting[r] = {}
        /\ \A v \in held[r] : status[v[1]] = "completed"

\* What a record waits for will start it or fail it: it is a dependent of each
\* pending record it waits for, and is about to fail if one of them failed.
Scheduled ==
    \A r \in Record :
        /\ waiting[r] # {} => status[r] = "pending" /\ at[r] = "idle"
        /\ \A p \in Record : r \in dependents[p] => p \in waiting[r] /\ status[p] = "pending"
        /\ \A p \in waiting[r] : r \in dependents[p] \/ <<r, "failed">> \in todo
        /\ status[r] = "pending" => waiting[r] # {} \/ r \in queued \/ at[r] # "idle"

\* What a worker has to write is written before its record completes.
Written ==
    \A r \in Record :
        /\ at[r] = "writing" =>
              \A n \in returned[r] \cap persists[r] : n \in unwritten[r] \/ <<r, n>> \in store
        /\ status[r] = "completed" =>
              \A n \in persists[r] : n \in omitted[r] \/ <<r, n>> \in store

\* What a client keeps of a completed record is in memory.
Kept ==
    \A c \in clients : \A r \in kept[c] : status[r] = "completed" =>
        \A n \in Name : n \in omitted[r] \/ <<r, n>> \in memory

\* What a reader holds of a completed record is there.
Served ==
    \A r \in Record : \A v \in unread[r] \cup held[r] :
        status[v[1]] = "completed" =>
            v \in memory \cup store \/ v[2] \in omitted[v[1]]

Inv == /\ Types /\ Fresh /\ Places /\ Waits /\ Scheduled
       /\ Written /\ Kept /\ ReadersCounted /\ Served

\* The same where others than records read values too, others[v] of them a value
\* v, as stages do: the steps of records keep the counter exact beside them, and
\* leave to them what they read.
CountedBeside(others) ==
    \A v \in Value :
        readers[v] = Cardinality({r \in Record : v \in unread[r] \cup held[r]}) + others[v]
ServedBeside(others) ==
    \A v \in Value : others[v] # 0 /\ status[v[1]] = "completed" =>
        v \in memory \cup store \/ v[2] \in omitted[v[1]]
InvBeside(others) ==
    /\ Types /\ Fresh /\ Places /\ Waits /\ Scheduled
    /\ Written /\ Kept /\ CountedBeside(others) /\ Served /\ ServedBeside(others)

-----------------------------------------------------------------------------
(* Counting readers *)

ReadersOf(v) == {r \in Record : v \in unread[r] \cup held[r]}

LEMMA RecordFinite == IsFiniteSet(Record)
  BY FS_Interval, RecordsAssumption DEF Record

\* Sets of records are counted as expected when one leaves or others join.
LEMMA Counting ==
  ASSUME NEW S \in SUBSET Record
  PROVE  /\ Cardinality(S) \in Nat
         /\ Cardinality(S) = 0 <=> S = {}
         /\ \A x \in S : Cardinality(S \ {x}) = Cardinality(S) - 1
         /\ \A T \in SUBSET Record :
               S \cap T = {} => Cardinality(S \cup T) = Cardinality(S) + Cardinality(T)
  <1>1. IsFiniteSet(S) /\ \A T \in SUBSET Record : IsFiniteSet(T)
    BY RecordFinite, FS_Subset
  <1>2. Cardinality(S) \in Nat /\ (Cardinality(S) = 0 <=> S = {})
    BY <1>1, FS_CardinalityType, FS_EmptySet
  <1>3. \A x \in S : Cardinality(S \ {x}) = Cardinality(S) - 1
    BY <1>1, FS_RemoveElement
  <1>4. ASSUME NEW T \in SUBSET Record, S \cap T = {}
        PROVE  Cardinality(S \cup T) = Cardinality(S) + Cardinality(T)
    <2>1. Cardinality(S \cup T) = Cardinality(S) + Cardinality(T) - Cardinality(S \cap T)
      BY <1>1, FS_Union
    <2>2. Cardinality(S \cap T) = 0
      BY <1>4, FS_EmptySet
    <2>3. Cardinality(T) \in Nat
      BY <1>1, FS_CardinalityType
    <2> QED
      BY <1>2, <2>1, <2>2, <2>3
  <1> QED
    BY <1>2, <1>3, <1>4

\* A value without readers is held by no record.
LEMMA Unheld ==
  ASSUME ReadersCounted, NEW v \in Value
  PROVE  readers[v] = 0 <=> \A r \in Record : v \notin unread[r] \cup held[r]
  <1>1. ReadersOf(v) \in SUBSET Record
    BY DEF ReadersOf
  <1>2. readers[v] = Cardinality(ReadersOf(v))
    BY DEF ReadersCounted, ReadersOf
  <1> QED
    BY <1>1, <1>2, Counting DEF ReadersOf

\* Nor is it read by others.
LEMMA UnheldBeside ==
  ASSUME NEW others \in [Value -> Nat], CountedBeside(others), NEW v \in Value, readers[v] = 0
  PROVE  others[v] = 0 /\ \A r \in Record : v \notin unread[r] \cup held[r]
  <1>1. ReadersOf(v) \in SUBSET Record /\ others[v] \in Nat
    BY DEF ReadersOf
  <1>2. 0 = Cardinality(ReadersOf(v)) + others[v]
    BY DEF CountedBeside, ReadersOf
  <1>3. Cardinality(ReadersOf(v)) \in Nat /\ (Cardinality(ReadersOf(v)) = 0 <=> ReadersOf(v) = {})
    BY <1>1, Counting
  <1>4. others[v] = 0 /\ ReadersOf(v) = {}
    BY <1>1, <1>2, <1>3
  <1> QED
    BY <1>4 DEF ReadersOf

\* When one record lets go of values it holds, and nothing else changes, the
\* counter stays exact.
LEMMA LettingGoOf ==
  ASSUME NEW others \in [Value -> Nat], CountedBeside(others), NEW r \in Record, NEW vs \in SUBSET Value, LetGo(vs),
         \A v \in vs : v \in unread[r] \cup held[r],
         \A v \in vs : v \notin unread'[r] \cup held'[r],
         \A v \in Value \ vs : v \in unread'[r] \cup held'[r] <=> v \in unread[r] \cup held[r],
         \A x \in Record \ {r} : unread'[x] \cup held'[x] = unread[x] \cup held[x]
  PROVE  CountedBeside(others)'
  <1> SUFFICES ASSUME NEW v \in Value
               PROVE  readers'[v] = Cardinality(ReadersOf(v)') + others[v]
    BY DEF CountedBeside, ReadersOf
  <1>1. /\ ReadersOf(v) \in SUBSET Record /\ readers[v] = Cardinality(ReadersOf(v)) + others[v]
        /\ others[v] \in Nat
    BY DEF CountedBeside, ReadersOf
  <1>2. CASE v \in vs
    <2>1. r \in ReadersOf(v) /\ ReadersOf(v)' = ReadersOf(v) \ {r}
      BY <1>2 DEF ReadersOf
    <2>2. readers'[v] = readers[v] - 1
      BY <1>2 DEF LetGo
    <2>3. /\ Cardinality(ReadersOf(v) \ {r}) = Cardinality(ReadersOf(v)) - 1
          /\ Cardinality(ReadersOf(v)) \in Nat
      BY <1>1, <2>1, Counting
    <2> QED
      BY <1>1, <2>1, <2>2, <2>3
  <1>3. CASE v \notin vs
    <2>1. ReadersOf(v)' = ReadersOf(v)
      BY <1>3 DEF ReadersOf
    <2>2. readers'[v] = readers[v]
      BY <1>3 DEF LetGo
    <2> QED
      BY <1>1, <2>1, <2>2
  <1> QED
    BY <1>2, <1>3

-----------------------------------------------------------------------------
(* Each action preserves Inv, whoever reads beside the records. *)

LEMMA InitInv == Init => Inv
  <1> SUFFICES ASSUME Init PROVE Inv
    OBVIOUS
  <1>1. Types
    BY RecordsAssumption DEF Init, Types, Statuses, Record
  <1>2. Fresh /\ Places /\ Waits /\ Scheduled /\ Written /\ Kept /\ Served
    BY RecordsAssumption DEF Init, Fresh, Places, Waits, Scheduled, Written, Kept, Served, Record
  <1>3. ReadersCounted
    <2> SUFFICES ASSUME NEW v \in Value PROVE readers[v] = Cardinality(ReadersOf(v))
      BY DEF ReadersCounted, ReadersOf
    <2>1. ReadersOf(v) = {}
      BY DEF Init, ReadersOf
    <2> QED
      BY <2>1, FS_EmptySet DEF Init
  <1> QED
    BY <1>1, <1>2, <1>3 DEF Inv

\* Actions that touch neither records nor values, only what clients keep and
\* what the loops have to do.
LEMMA KeepingInv ==
  ASSUME NEW others \in [Value -> Nat], InvBeside(others), UNCHANGED <<history, unread, held, readers, values, running>>,
         clients' \subseteq Client, kept' \in [Client -> SUBSET Record],
         \A c \in clients' : kept'[c] = {} \/ (c \in clients /\ kept'[c] \subseteq kept[c]),
         todo \subseteq todo',
         todo' \subseteq Record \X {"failed", "cancelled"}, drops' \subseteq Record
  PROVE  InvBeside(others)'
  <1> USE DEF history, values, running
  <1>1. Types'
    BY DEF InvBeside, Types
  <1>2. Fresh' /\ Places' /\ Waits' /\ Written' /\ CountedBeside(others)' /\ Served' /\ ServedBeside(others)'
    BY DEF InvBeside, Fresh, Places, Waits, Written, CountedBeside, Served, ServedBeside
  <1>3. Kept' /\ Scheduled'
    BY DEF InvBeside, Types, Kept, Scheduled
  <1> QED
    BY <1>1, <1>2, <1>3 DEF InvBeside

LEMMA ClientInv ==
  ASSUME NEW others \in [Value -> Nat], InvBeside(others), NEW c \in Client,
         \/ OpenClient(c)
         \/ \E rs \in SUBSET Unended \ {{}} : Cancel(c, rs)
         \/ \E rs \in SUBSET kept[c] \ {{}} : Release(c, rs)
         \/ CloseClient(c)
  PROVE  InvBeside(others)'
  <1> USE DEF keeping, running, history, values
  <1>0. Types
    BY DEF InvBeside
  <1>1. CASE \E rs \in SUBSET Unended \ {{}} : Cancel(c, rs)
    <2>1. PICK rs \in SUBSET Unended : Cancel(c, rs)
      BY <1>1
    <2>2. Unended \subseteq Record
      BY <1>0, RecordsAssumption DEF Types, Unended, Existing, Record
    <2>3. todo' \subseteq Record \X {"failed", "cancelled"} /\ todo \subseteq todo'
      BY <2>1, <2>2 DEF Cancel, Locked
    <2>4. /\ UNCHANGED <<history, unread, held, readers, values, running>>
          /\ clients' = clients /\ kept' = kept /\ drops' = drops
      BY <2>1 DEF Cancel
    <2> QED
      BY <1>0, <2>3, <2>4, KeepingInv DEF Types
  <1>2. CASE \E rs \in SUBSET kept[c] \ {{}} : Release(c, rs)
    <2>1. PICK rs \in SUBSET kept[c] : Release(c, rs)
      BY <1>2
    <2>2. /\ UNCHANGED <<history, unread, held, readers, values, running>>
          /\ clients' = clients /\ todo' = todo
      BY <2>1 DEF Release
    <2>3. /\ kept' \in [Client -> SUBSET Record]
          /\ \A d \in Client : kept'[d] \subseteq kept[d]
          /\ drops' \subseteq Record
      BY <1>0, <2>1 DEF Types, Release
    <2> QED
      BY <1>0, <2>2, <2>3, KeepingInv DEF Types
  <1>3. CASE CloseClient(c)
    <2>1. /\ UNCHANGED <<history, unread, held, readers, values, running>>
          /\ clients' \subseteq clients /\ todo' = todo
      BY <1>3 DEF CloseClient
    <2>2. /\ kept' \in [Client -> SUBSET Record]
          /\ \A d \in Client : kept'[d] \subseteq kept[d]
          /\ drops' \subseteq Record
      BY <1>0, <1>3 DEF Types, CloseClient
    <2> QED
      BY <1>0, <2>1, <2>2, KeepingInv DEF Types
  <1>4. CASE OpenClient(c)
    <2>1. /\ UNCHANGED <<history, unread, held, readers, values, running>>
          /\ clients' = clients \cup {c} /\ todo' = todo /\ drops' = drops
          /\ kept' = [kept EXCEPT ![c] = {}]
      BY <1>4 DEF OpenClient, work
    <2>2. /\ kept' \in [Client -> SUBSET Record] /\ clients' \subseteq Client
          /\ \A d \in clients' : kept'[d] = {} \/ (d \in clients /\ kept'[d] \subseteq kept[d])
      BY <1>0, <2>1 DEF Types
    <2> QED
      BY <1>0, <2>1, <2>2, KeepingInv DEF Types
  <1> QED
    BY <1>1, <1>2, <1>3, <1>4

\* Requests are accepted, if what they read that has completed is there.
LEMMA AcceptInv ==
  ASSUME NEW others \in [Value -> Nat], InvBeside(others), NEW c \in Client, NEW k \in 1..MaxBatch,
         count + k <= MaxRecords, NEW reads \in [New(k) -> SUBSET (Existing \X Name)],
         NEW names \in SUBSET Name, Accept(c, k, reads, names),
         \A r \in New(k) : \A v \in reads[r] :
            /\ status[v[1]] \notin {"failed", "cancelled"}
            /\ status[v[1]] = "completed" => v \in memory \cup store \/ v[2] \in omitted[v[1]]
  PROVE  InvBeside(others)'
  <1> DEFINE new == New(k)
  <1>0. Types
    BY DEF InvBeside
  <1>1. /\ k \in Nat /\ count \in Nat /\ count' = count + k
        /\ new = (count + 1)..(count + k) /\ new \subseteq Record
    BY <1>0, RecordsAssumption DEF Types, New, Record, Accept
  <1>2. /\ Existing \subseteq Record
        /\ \A r \in Record : r > count' <=> r > count /\ r \notin new
    <2>1. count \in 0..MaxRecords /\ MaxRecords \in Nat
      BY <1>0, RecordsAssumption DEF Types
    <2>2. Existing \subseteq Record
      BY <2>1 DEF Existing, Record
    <2>3. \A r \in Record : r > count' <=> r > count /\ r \notin new
      BY <1>1, <2>1 DEF Record
    <2> QED
      BY <2>2, <2>3
  <1>3. \A r \in new : reads[r] \in SUBSET (Existing \X Name)
    OBVIOUS
  <1>4. \A r \in new : reads[r] \in SUBSET Value
    BY <1>2, <1>3 DEF Value
  <1>5. \A r \in new : status[r] = "none" /\ unread[r] = {} /\ held[r] = {} /\ at[r] = "idle"
    <2>1. \A r \in new : r > count /\ r \in Record
      BY <1>1
    <2> QED
      BY <1>0, <2>1 DEF InvBeside, Fresh, Places, Types
  <1>6. /\ status' = [r \in Record |-> IF r \in new THEN "pending" ELSE status[r]]
        /\ refs' = [r \in Record |-> IF r \in new THEN reads[r] ELSE refs[r]]
        /\ persists' = [r \in Record |-> IF r \in new THEN names ELSE persists[r]]
        /\ kept' = [kept EXCEPT ![c] = IF names = {} THEN @ \cup new ELSE @]
        /\ unread' = [r \in Record |-> IF r \in new THEN reads[r] ELSE unread[r]]
        /\ readers' = [v \in Value |->
                         readers[v] + Cardinality({r \in new : v \in reads[r]})]
        /\ waiting' = [r \in Record |->
                         IF r \in new THEN WaitsFor(reads[r]) ELSE waiting[r]]
        /\ dependents' = [p \in Record |->
                            dependents[p] \cup {r \in new : p \in WaitsFor(reads[r])}]
        /\ queued' = queued \cup {r \in new : WaitsFor(reads[r]) = {}}
    BY DEF Accept
  <1>7. /\ UNCHANGED <<omitted, clients, held, memory, store, at, returned, unwritten>>
        /\ UNCHANGED <<todo, drops>>
    BY DEF Accept, values, work
  <1>8. \A r \in new : WaitsFor(reads[r]) \subseteq Record
    BY <1>4 DEF WaitsFor, Producers, Value
  <1>9. \A r \in new : \A v \in reads[r] :
           /\ v \in Value
           /\ v[1] \in WaitsFor(reads[r]) \/ status[v[1]] = "completed"
           /\ status[v[1]] = "completed" =>
                 v \in memory \cup store \/ v[2] \in omitted[v[1]]
    <2> SUFFICES ASSUME NEW r \in new, NEW v \in reads[r]
                 PROVE  /\ v \in Value
                        /\ v[1] \in WaitsFor(reads[r]) \/ status[v[1]] = "completed"
                        /\ status[v[1]] = "completed" =>
                              v \in memory \cup store \/ v[2] \in omitted[v[1]]
      OBVIOUS
    <2>1. v \in Value /\ v[1] \in Existing /\ v[1] \in Record /\ v[2] \in Name
          /\ v = <<v[1], v[2]>>
      BY <1>2, <1>3 DEF Value
    <2>2. status[v[1]] \notin {"failed", "cancelled"}
      OBVIOUS
    <2>3. v[1] \in WaitsFor(reads[r]) \/ status[v[1]] = "completed"
      <3>1. status[v[1]] \in {"none", "pending", "completed"}
        BY <1>0, <2>1, <2>2 DEF Types, Statuses
      <3>2. status[v[1]] # "none"
        BY <2>1, <1>1 DEF InvBeside, Existing, Fresh
      <3> QED
        BY <3>1, <3>2 DEF WaitsFor, Producers, Pending
    <2>4. status[v[1]] = "completed" => v \in memory \cup store \/ v[2] \in omitted[v[1]]
      OBVIOUS
    <2> QED
      BY <2>1, <2>3, <2>4
  <1>10. Types'
    <2>1. readers' \in [Value -> Int]
      <3> SUFFICES ASSUME NEW v \in Value
                   PROVE  readers[v] + Cardinality({r \in new : v \in reads[r]}) \in Int
        BY <1>6
      <3>1. {r \in new : v \in reads[r]} \in SUBSET Record
        BY <1>1
      <3>2. Cardinality({r \in new : v \in reads[r]}) \in Nat
        BY <3>1, Counting
      <3> QED
        BY <1>0, <3>2 DEF Types
    <2>2. count' \in 0..MaxRecords
      BY <1>1, RecordsAssumption
    <2>3. /\ status' \in [Record -> Statuses] /\ refs' \in [Record -> SUBSET Value]
          /\ persists' \in [Record -> SUBSET Name] /\ unread' \in [Record -> SUBSET Value]
      BY <1>0, <1>4, <1>6 DEF Types, Statuses
    <2>4. kept' \in [Client -> SUBSET Record]
      BY <1>0, <1>1, <1>6 DEF Types
    <2>5. /\ waiting' \in [Record -> SUBSET Record] /\ dependents' \in [Record -> SUBSET Record]
          /\ queued' \subseteq Record
      BY <1>0, <1>1, <1>6, <1>8 DEF Types
    <2> QED
      BY <1>0, <1>7, <2>1, <2>2, <2>3, <2>4, <2>5 DEF Types
  <1>11. Fresh'
    BY <1>2, <1>6, <1>7, <1>0 DEF InvBeside, Fresh
  <1>12. Places'
    <2> SUFFICES ASSUME NEW r \in Record
                 PROVE  /\ unread'[r] # {} => status'[r] = "pending" /\ at'[r] = "idle"
                        /\ held'[r] # {} => at'[r] = "computing"
                        /\ at'[r] # "idle" => r \notin queued'
      BY DEF Places
    <2>1. CASE r \in new
      BY <1>5, <1>6, <1>7, <2>1
    <2>2. CASE r \notin new
      BY <1>6, <1>7, <2>2 DEF InvBeside, Places
    <2> QED
      BY <2>1, <2>2
  <1>13. \A r \in Record : status'[r] = "completed" <=> status[r] = "completed"
    BY <1>5, <1>6
  <1>14. Waits'
    <2> SUFFICES ASSUME NEW r \in Record
                 PROVE  /\ \A v \in unread'[r] :
                              v[1] \in waiting'[r] \/ status'[v[1]] = "completed"
                        /\ r \in queued' => waiting'[r] = {}
                        /\ \A v \in held'[r] : status'[v[1]] = "completed"
      BY DEF Waits
    <2>0. \A v \in Value : v[1] \in Record
      BY DEF Value
    <2>1. CASE r \in new
      <3>1. r \notin queued
        BY <1>0, <1>1, <1>5, <2>1 DEF InvBeside, Fresh
      <3>2. \A v \in unread'[r] : v[1] \in waiting'[r] \/ status'[v[1]] = "completed"
        BY <1>6, <1>9, <1>13, <2>0, <2>1
      <3>3. r \in queued' => waiting'[r] = {}
        BY <1>6, <2>1, <3>1
      <3>4. held'[r] = {}
        BY <1>5, <1>7, <2>1
      <3> QED
        BY <3>2, <3>3, <3>4
    <2>2. CASE r \notin new
      BY <1>0, <1>6, <1>7, <1>13, <2>0, <2>2 DEF InvBeside, Waits, Types
    <2> QED
      BY <2>1, <2>2
  <1>19. Scheduled'
    <2> SUFFICES ASSUME NEW r \in Record
        PROVE  /\ waiting'[r] # {} => status'[r] = "pending" /\ at'[r] = "idle"
               /\ \A p \in Record : r \in dependents'[p] =>
                     p \in waiting'[r] /\ status'[p] = "pending"
               /\ \A p \in waiting'[r] : r \in dependents'[p] \/ <<r, "failed">> \in todo'
               /\ status'[r] = "pending" =>
                     waiting'[r] # {} \/ r \in queued' \/ at'[r] # "idle"
      BY DEF Scheduled
    <2>1. \A p \in Record : r \in dependents'[p] <=>
             r \in dependents[p] \/ (r \in new /\ p \in WaitsFor(reads[r]))
      BY <1>6
    <2>2. \A p \in Record : status[p] = "pending" => status'[p] = "pending"
      BY <1>6
    <2>3. CASE r \in new
      <3>1. \A p \in Record : r \notin dependents[p]
        BY <1>0, <1>5, <2>3 DEF InvBeside, Scheduled
      <3>2. waiting'[r] = WaitsFor(reads[r]) /\ waiting'[r] \subseteq Record
        BY <1>6, <1>8, <2>3
      <3>3. \A p \in waiting'[r] : status[p] = "pending"
        BY <3>2 DEF WaitsFor, Pending
      <3>4. status'[r] = "pending" /\ at'[r] = "idle"
        BY <1>5, <1>6, <1>7, <2>3
      <3>5. waiting'[r] = {} => r \in queued'
        BY <1>6, <2>3, <3>2
      <3> QED
        BY <2>1, <2>2, <2>3, <3>1, <3>2, <3>3, <3>4, <3>5
    <2>4. CASE r \notin new
      <3>1. /\ waiting'[r] = waiting[r] /\ status'[r] = status[r] /\ at'[r] = at[r]
            /\ todo' = todo /\ queued \subseteq queued' /\ waiting[r] \subseteq Record
        BY <1>0, <1>6, <1>7, <2>4 DEF Types
      <3> QED
        BY <2>1, <2>2, <2>4, <3>1 DEF InvBeside, Scheduled
    <2> QED
      BY <2>3, <2>4
  <1>15. Written'
    BY <1>5, <1>6, <1>7, <1>13 DEF InvBeside, Written
  <1>16. Kept'
    <2> SUFFICES ASSUME NEW d \in clients, NEW r \in kept'[d], status'[r] = "completed"
                 PROVE  \A n \in Name : n \in omitted[r] \/ <<r, n>> \in memory
      BY <1>7 DEF Kept
    <2>1. r \in kept[d] \/ r \in new
      BY <1>0, <1>6 DEF Types
    <2>2. r \notin new
      BY <1>1, <1>6
    <2>3. r \in Record
      BY <1>0, <2>1, <2>2 DEF Types
    <2> QED
      BY <1>13, <2>1, <2>2, <2>3 DEF InvBeside, Kept
  <1>17. CountedBeside(others)'
    <2> SUFFICES ASSUME NEW v \in Value
                 PROVE  readers'[v] = Cardinality(ReadersOf(v)') + others[v]
      BY DEF CountedBeside, ReadersOf
    <2> DEFINE T == {r \in new : v \in reads[r]}
    <2>1. /\ ReadersOf(v) \in SUBSET Record /\ T \in SUBSET Record
          /\ readers[v] = Cardinality(ReadersOf(v)) + others[v]
      BY <1>1 DEF InvBeside, CountedBeside, ReadersOf
    <2>2. ReadersOf(v)' = ReadersOf(v) \cup T /\ ReadersOf(v) \cap T = {}
      BY <1>1, <1>5, <1>6, <1>7 DEF ReadersOf
    <2>3. readers'[v] = readers[v] + Cardinality(T)
      BY <1>6
    <2>4. Cardinality(ReadersOf(v) \cup T) = Cardinality(ReadersOf(v)) + Cardinality(T)
      <3> DEFINE R == ReadersOf(v)
      <3> HIDE DEF R, T
      <3>1. R \in SUBSET Record /\ T \in SUBSET Record /\ R \cap T = {}
        BY <2>1, <2>2 DEF R
      <3>2. Cardinality(R \cup T) = Cardinality(R) + Cardinality(T)
        BY <3>1, Counting
      <3> QED
        BY <3>2 DEF R
    <2>5. Cardinality(ReadersOf(v)) \in Nat /\ Cardinality(T) \in Nat /\ others[v] \in Nat
      BY <2>1, Counting
    <2> QED
      BY <2>1, <2>2, <2>3, <2>4, <2>5
  <1>18. Served'
    <2> SUFFICES ASSUME NEW r \in Record, NEW v \in unread'[r] \cup held'[r],
                        status'[v[1]] = "completed"
                 PROVE  v \in memory \cup store \/ v[2] \in omitted[v[1]]
      BY <1>7 DEF Served
    <2>1. v \in Value /\ v[1] \in Record
      BY <1>10 DEF Types, Value
    <2>2. CASE r \in new
      BY <1>5, <1>6, <1>7, <1>9, <1>13, <2>1, <2>2
    <2>3. CASE r \notin new
      BY <1>6, <1>7, <1>13, <2>1, <2>3 DEF InvBeside, Served
    <2> QED
      BY <2>2, <2>3
  <1>20. ServedBeside(others)'
    BY <1>7, <1>13 DEF InvBeside, ServedBeside, Value
  <1> QED
    BY <1>10, <1>11, <1>12, <1>14, <1>15, <1>16, <1>17, <1>18, <1>19, <1>20 DEF InvBeside

LEMMA SubmitInv ==
  ASSUME NEW others \in [Value -> Nat], InvBeside(others), NEW c \in Client, NEW k \in 1..MaxBatch,
         count + k <= MaxRecords, NEW reads \in Entries(k), NEW names \in SUBSET Name,
         Submit(c, k, reads, names)
  PROVE  InvBeside(others)'
  <1>1. reads \in [New(k) -> SUBSET (Existing \X Name)]
    BY DEF Entries
  <1>2. Accept(c, k, reads, names) /\ c \in clients
    BY DEF Submit
  <1>3. ASSUME NEW r \in New(k), NEW v \in reads[r]
        PROVE  /\ status[v[1]] \notin {"failed", "cancelled"}
               /\ status[v[1]] = "completed" => v \in memory \cup store \/ v[2] \in omitted[v[1]]
    <2>1. v[1] \in Existing /\ v[2] \in Name /\ v = <<v[1], v[2]>>
      BY <1>1
    <2>2. v[1] \in Record
      BY <2>1, RecordsAssumption DEF InvBeside, Types, Existing, Record
    <2>3. MayRead(c, v)
      BY <1>3 DEF Submit
    <2>4. CASE v[1] \in kept[c]
      BY <1>2, <2>1, <2>3, <2>4 DEF InvBeside, Kept, MayRead
    <2>5. CASE v[2] \in persists[v[1]]
      BY <2>1, <2>2, <2>3, <2>5 DEF InvBeside, Written, MayRead
    <2> QED
      BY <2>3, <2>4, <2>5 DEF MayRead
  <1> QED
    BY <1>1, <1>2, <1>3, AcceptInv

\* One turn of the loop of _finish.
LEMMA FinishNextInv ==
  ASSUME NEW others \in [Value -> Nat], InvBeside(others), NEW r \in Record, NEW how \in {"failed", "cancelled"}, FinishNext(r, how)
  PROVE  InvBeside(others)'
  <1>0. Types
    BY DEF InvBeside
  <1>1. /\ UNCHANGED <<count, refs, persists, omitted, clients, kept, held>>
        /\ UNCHANGED <<memory, store, queued, at, returned, unwritten>>
    BY DEF FinishNext, values
  <1>2. CASE Pending(r)
    <2>1. /\ status[r] = "pending"
          /\ status' = [status EXCEPT ![r] = how]
          /\ LetGo(unread[r])
          /\ unread' = [unread EXCEPT ![r] = {}]
          /\ waiting' = [waiting EXCEPT ![r] = {}]
      BY <1>2 DEF FinishNext, YetToRead, Pending
    <2>2. Types'
      <3>1. dependents' \in [Record -> SUBSET Record]
        BY <1>0, <1>2 DEF FinishNext, Types
      <3>2. todo' \subseteq Record \X {"failed", "cancelled"}
        BY <1>0, <1>2 DEF FinishNext, Types, Fails
      <3>3. readers' \in [Value -> Int] /\ drops' \subseteq Record
        BY <1>0, <2>1 DEF Types, LetGo, Producers, Value
      <3> QED
        BY <1>0, <1>1, <2>1, <3>1, <3>2, <3>3 DEF Types, Statuses
    <2>3. \A x \in Record : status'[x] = "completed" <=> status[x] = "completed"
      BY <1>0, <2>1 DEF Types
    <2>4. Fresh' /\ Places'
      BY <1>0, <1>1, <2>1 DEF InvBeside, Fresh, Places, Types
    <2>5. Waits'
      BY <1>0, <1>1, <2>1, <2>3 DEF InvBeside, Waits, Types, Value
    <2>6. Written' /\ Kept' /\ Served' /\ ServedBeside(others)'
      BY <1>0, <1>1, <2>1, <2>3 DEF InvBeside, Written, Kept, Served, ServedBeside, Types, Value
    <2>7. CountedBeside(others)'
      <3>1. unread[r] # {} => held[r] = {}
        BY DEF InvBeside, Places
      <3>2. unread'[r] = {} /\ held'[r] = held[r]
        BY <1>0, <1>1, <2>1 DEF Types
      <3>3. \A x \in Record \ {r} : unread'[x] = unread[x] /\ held'[x] = held[x]
        BY <1>0, <1>1, <2>1 DEF Types
      <3> QED
        BY <1>0, <2>1, <3>1, <3>2, <3>3, LettingGoOf DEF InvBeside, Types
    <2>8. Scheduled'
      <3>1. /\ dependents' = [p \in Record |-> IF p = r THEN {}
                               ELSE dependents[p] \ {d \in {r} : p \in waiting[d]}]
            /\ todo' = (todo \ {<<r, how>>}) \cup (dependents[r] \X {"failed"})
        BY <1>2 DEF FinishNext, Fails
      <3> SUFFICES ASSUME NEW x \in Record
          PROVE  /\ waiting'[x] # {} => status'[x] = "pending" /\ at'[x] = "idle"
                 /\ \A p \in Record : x \in dependents'[p] =>
                       p \in waiting'[x] /\ status'[p] = "pending"
                 /\ \A p \in waiting'[x] : x \in dependents'[p] \/ <<x, "failed">> \in todo'
                 /\ status'[x] = "pending" =>
                       waiting'[x] # {} \/ x \in queued' \/ at'[x] # "idle"
        BY DEF Scheduled
      <3>2. CASE x = r
        <4>1. waiting'[r] = {} /\ status'[r] # "pending"
          BY <1>0, <2>1 DEF Types
        <4>2. \A p \in Record : r \notin dependents'[p]
          BY <3>1 DEF InvBeside, Scheduled
        <4> QED
          BY <3>2, <4>1, <4>2
      <3>3. CASE x # r
        <4>1. waiting'[x] = waiting[x] /\ status'[x] = status[x] /\ waiting[x] \subseteq Record
          BY <1>0, <2>1, <3>3 DEF Types
        <4>2. \A p \in Record : x \in dependents'[p] <=> x \in dependents[p] /\ p # r
          BY <3>1, <3>3
        <4>3. <<x, "failed">> \in todo \/ x \in dependents[r] => <<x, "failed">> \in todo'
          BY <3>1, <3>3
        <4>4. \A p \in Record : p # r => status'[p] = status[p]
          BY <1>0, <2>1 DEF Types
        <4> QED
          BY <1>1, <4>1, <4>2, <4>3, <4>4 DEF InvBeside, Scheduled
      <3> QED
        BY <3>2, <3>3
    <2> QED
      BY <2>2, <2>4, <2>5, <2>6, <2>7, <2>8 DEF InvBeside
  <1>3. CASE ~Pending(r)
    <2>1. /\ UNCHANGED <<status, unread, readers, waiting, dependents, drops>>
          /\ todo' \subseteq todo
      BY <1>3 DEF FinishNext
    <2>2. Types'
      BY <1>0, <1>1, <2>1 DEF Types
    <2>3. /\ Fresh' /\ Places' /\ Waits' /\ Written' /\ Kept' /\ Served' /\ ServedBeside(others)' /\ CountedBeside(others)'
      BY <1>1, <2>1 DEF InvBeside, Fresh, Places, Waits, Written, Kept, Served, ServedBeside, CountedBeside
    <2>4. Scheduled'
      <3>1. \A x \in Record : waiting[x] # {} => x # r
        BY <1>3 DEF InvBeside, Scheduled, Pending
      <3>2. \A x \in Record : x # r /\ <<x, "failed">> \in todo => <<x, "failed">> \in todo'
        BY <1>3 DEF FinishNext
      <3>3. dependents' = dependents
        BY <2>1
      <3> QED
        BY <1>1, <2>1, <3>1, <3>2, <3>3 DEF InvBeside, Scheduled
    <2> QED
      BY <2>2, <2>3, <2>4 DEF InvBeside
  <1> QED
    BY <1>2, <1>3

\* One turn of the loop of _let_go: what leaves memory has neither a reader nor
\* a client that keeps it.
LEMMA DropNextInv ==
  ASSUME NEW others \in [Value -> Nat], InvBeside(others), NEW r \in Record, DropNext(r)
  PROVE  InvBeside(others)'
  <1>0. Types
    BY DEF InvBeside
  <1>1. /\ UNCHANGED <<count, status, refs, persists, omitted, clients, kept>>
        /\ UNCHANGED <<unread, held, readers, store, waiting, dependents>>
        /\ UNCHANGED <<queued, at, returned, unwritten>>
        /\ drops' \subseteq drops
    BY DEF DropNext, history, keeping, running
  <1>2. /\ memory' \subseteq memory
        /\ \A v \in memory \ memory' :
              v[1] = r /\ readers[v] = 0 /\ v \in Value /\ ~KeptBySome(r)
        /\ todo' \subseteq Record \X {"failed", "cancelled"} /\ todo \subseteq todo'
    BY <1>0 DEF DropNext, Types, Unread, Outputs, Value
  <1>3. Types'
    BY <1>0, <1>1, <1>2 DEF Types
  <1>4. Fresh' /\ Places' /\ Waits' /\ Scheduled' /\ Written' /\ CountedBeside(others)'
    BY <1>1, <1>2 DEF InvBeside, Scheduled, Fresh, Places, Waits, Written, CountedBeside
  <1>5. Kept'
    BY <1>1, <1>2 DEF InvBeside, Kept, KeptBySome
  <1>7. ServedBeside(others)'
    <2>1. \A v \in Value : others[v] # 0 => readers[v] # 0
      BY UnheldBeside DEF InvBeside
    <2> QED
      BY <1>1, <1>2, <2>1 DEF InvBeside, ServedBeside
  <1>6. Served'
    <2> SUFFICES ASSUME NEW x \in Record, NEW v \in unread[x] \cup held[x],
                        status[v[1]] = "completed"
                 PROVE  v \in memory' \cup store \/ v[2] \in omitted[v[1]]
      BY <1>1 DEF Served
    <2>1. v \in memory \cup store \/ v[2] \in omitted[v[1]]
      BY DEF InvBeside, Served
    <2>2. v \in Value
      BY <1>0 DEF Types
    <2>3. readers[v] # 0
      BY <2>2, UnheldBeside DEF InvBeside
    <2> QED
      BY <1>2, <2>1, <2>3
  <1> QED
    BY <1>3, <1>4, <1>5, <1>6, <1>7 DEF InvBeside

\* A worker takes a record: what it was to read passes from unread to held.
LEMMA StartInv ==
  ASSUME NEW others \in [Value -> Nat], InvBeside(others), NEW r \in Record, Start(r)
  PROVE  InvBeside(others)'
  <1>0. Types
    BY DEF InvBeside
  <1>1. /\ UNCHANGED <<count, status, refs, persists, omitted, clients, kept, readers>>
        /\ UNCHANGED <<memory, store, waiting, dependents, returned, unwritten>>
        /\ UNCHANGED <<todo, drops>>
        /\ r \in queued /\ queued' = queued \ {r}
    BY DEF Start, history, values, work
  <1>2. CASE Pending(r)
    <2>1. /\ at' = [at EXCEPT ![r] = "computing"]
          /\ held' = [held EXCEPT ![r] = unread[r]]
          /\ unread' = [unread EXCEPT ![r] = {}]
          /\ status[r] = "pending"
      BY <1>2 DEF Start, Pending
    <2>2. at[r] = "idle" /\ held[r] = {} /\ waiting[r] = {} /\ r <= count
      <3>1. Places /\ Waits /\ Fresh
        BY DEF InvBeside
      <3>2. at[r] = "idle" /\ held[r] = {} /\ waiting[r] = {}
        BY <1>0, <1>1, <2>1, <3>1 DEF Places, Waits, Types
      <3> QED
        BY <1>0, <2>1, <3>1, <3>2 DEF Fresh, Types, Record
    <2>3. \A x \in Record : unread'[x] \cup held'[x] = unread[x] \cup held[x]
      BY <1>0, <2>1, <2>2 DEF Types
    <2>4. Types'
      BY <1>0, <1>1, <2>1 DEF Types
    <2>5. Fresh' /\ Places'
      BY <1>0, <1>1, <2>1, <2>2 DEF InvBeside, Fresh, Places, Types, Record
    <2>6. Waits'
      <3>1. \A v \in unread[r] : status[v[1]] = "completed"
        BY <2>2 DEF InvBeside, Waits
      <3> QED
        BY <1>0, <1>1, <2>1, <3>1 DEF InvBeside, Waits, Types
    <2>7. Written' /\ Kept'
      BY <1>0, <1>1, <2>1 DEF InvBeside, Written, Kept, Types
    <2>8. CountedBeside(others)'
      BY <1>1, <2>3 DEF InvBeside, CountedBeside
    <2>9. Served' /\ ServedBeside(others)'
      BY <1>1, <2>3 DEF InvBeside, Served, ServedBeside
    <2>10. Scheduled'
      BY <1>0, <1>1, <2>1, <2>2 DEF InvBeside, Scheduled, Types
    <2> QED
      BY <2>4, <2>5, <2>6, <2>7, <2>8, <2>9, <2>10 DEF InvBeside
  <1>3. CASE ~Pending(r)
    <2>1. UNCHANGED <<at, held, unread>>
      BY <1>3 DEF Start
    <2>2. Types'
      BY <1>0, <1>1, <2>1 DEF Types
    <2>3. Fresh' /\ Places' /\ Waits' /\ Written' /\ Kept' /\ Served' /\ ServedBeside(others)' /\ CountedBeside(others)'
      BY <1>1, <2>1 DEF InvBeside, Fresh, Places, Waits, Written, Kept, Served, ServedBeside, CountedBeside
    <2>4. Scheduled'
      BY <1>0, <1>1, <1>3, <2>1 DEF InvBeside, Scheduled, Pending, Types
    <2> QED
      BY <2>2, <2>3, <2>4 DEF InvBeside
  <1> QED
    BY <1>2, <1>3

\* A workflow returns: the worker lets go of what it held.
LEMMA ReturnInv ==
  ASSUME NEW others \in [Value -> Nat], InvBeside(others), NEW r \in Record, NEW names \in SUBSET Name, Return(r, names)
  PROVE  InvBeside(others)'
  <1>0. Types
    BY DEF InvBeside
  <1>1. /\ UNCHANGED <<count, status, refs, persists, omitted, clients, kept, unread>>
        /\ UNCHANGED <<memory, store, waiting, dependents, queued, todo>>
        /\ at[r] = "computing" /\ at' = [at EXCEPT ![r] = "writing"]
        /\ returned' = [returned EXCEPT ![r] = names]
        /\ unwritten' = [unwritten EXCEPT ![r] = names \cap persists[r]]
        /\ LetGo(held[r]) /\ held' = [held EXCEPT ![r] = {}]
    BY DEF Return, history, values
  <1>2. readers' \in [Value -> Int] /\ drops' \subseteq Record
    BY <1>0, <1>1 DEF Types, LetGo, Producers, Value
  <1>3. Types'
    BY <1>0, <1>1, <1>2 DEF Types
  <1>4. unread[r] = {} /\ r <= count /\ r \notin queued
    BY <1>1, <1>0 DEF InvBeside, Places, Fresh, Types, Record
  <1>5. Fresh' /\ Places' /\ Waits' /\ Kept'
    <2>1. /\ \A x \in Record : x # r => at'[x] = at[x] /\ held'[x] = held[x]
          /\ at'[r] = "writing" /\ held'[r] = {}
      BY <1>0, <1>1 DEF Types
    <2>2. Fresh' /\ Places'
      BY <1>1, <1>4, <2>1 DEF InvBeside, Fresh, Places
    <2>3. Waits' /\ Kept'
      BY <1>1, <2>1 DEF InvBeside, Waits, Kept
    <2> QED
      BY <2>2, <2>3
  <1>6. Written'
    BY <1>0, <1>1 DEF InvBeside, Written, Types
  <1>7. CountedBeside(others)'
    <2>1. held'[r] = {} /\ unread'[r] = {}
      BY <1>0, <1>1, <1>4 DEF Types
    <2>2. \A x \in Record \ {r} : unread'[x] = unread[x] /\ held'[x] = held[x]
      BY <1>0, <1>1 DEF Types
    <2> QED
      BY <1>0, <1>1, <1>4, <2>1, <2>2, LettingGoOf DEF InvBeside, Types
  <1>8. Served' /\ ServedBeside(others)'
    BY <1>0, <1>1 DEF InvBeside, Served, ServedBeside, Types, Value
  <1>9. Scheduled'
    BY <1>0, <1>1 DEF InvBeside, Scheduled, Types
  <1> QED
    BY <1>3, <1>5, <1>6, <1>7, <1>8, <1>9 DEF InvBeside

\* A record that started fails, or was cancelled meanwhile.
LEMMA FailStatus ==
  ASSUME Types, NEW r \in Record, Fail(r), r <= count => status[r] # "none"
  PROVE  /\ status' \in [Record -> Statuses]
         /\ dependents' \in [Record -> SUBSET Record]
         /\ todo' \subseteq Record \X {"failed", "cancelled"}
         /\ \A x \in Record : status'[x] = "completed" <=> status[x] = "completed"
         /\ \A x \in Record : x # r => status'[x] = status[x]
         /\ r <= count => status'[r] # "none"
  BY DEF Types, Fail, Fails, Statuses, Pending

\* A record a worker was with has failed: what waited for it is to fail.
LEMMA FailScheduled ==
  ASSUME Types, Scheduled, NEW r \in Record, Fail(r), ~Locked, at[r] # "idle",
         at' = [at EXCEPT ![r] = "idle"], UNCHANGED <<waiting, queued>>
  PROVE  Scheduled'
  <1>1. waiting[r] = {}
    BY DEF Scheduled
  <1>2. \A p \in Record : r \notin dependents[p]
    BY <1>1 DEF Scheduled
  <1>3. \A x \in Record \ {r} : at'[x] = at[x] /\ status'[x] = status[x]
    BY DEF Types, Fail
  <1>4. status'[r] # "pending"
    BY DEF Types, Fail, Pending
  <1>5. \A p \in Record \ {r} : dependents'[p] = dependents[p]
    BY DEF Types, Fail
  <1>6. dependents'[r] = {} /\ \A x \in dependents[r] : <<x, "failed">> \in todo'
    <2>1. CASE Pending(r)
      BY <2>1 DEF Fail, Types, Fails
    <2>2. CASE ~Pending(r)
      <3>1. \A x \in Record : x \notin dependents[r]
        BY <2>2 DEF Scheduled, Pending
      <3>2. dependents[r] = {}
        BY <3>1 DEF Types
      <3> QED
        BY <2>2, <3>2 DEF Fail
    <2> QED
      BY <2>1, <2>2
  <1>7. \A x \in Record : <<x, "failed">> \notin todo
    BY DEF Locked
  <1> SUFFICES ASSUME NEW x \in Record
      PROVE  /\ waiting[x] # {} => status'[x] = "pending" /\ at'[x] = "idle"
             /\ \A p \in Record : x \in dependents'[p] => p \in waiting[x] /\ status'[p] = "pending"
             /\ \A p \in waiting[x] : x \in dependents'[p] \/ <<x, "failed">> \in todo'
             /\ status'[x] = "pending" => waiting[x] # {} \/ x \in queued \/ at'[x] # "idle"
    BY DEF Scheduled
  <1>8. CASE x = r
    BY <1>1, <1>2, <1>4, <1>5, <1>6, <1>8
  <1>9. CASE x # r
    <2>1. waiting[x] \subseteq Record
      BY DEF Types
    <2> QED
      BY <1>3, <1>5, <1>6, <1>7, <1>9, <2>1 DEF Scheduled
  <1> QED
    BY <1>8, <1>9

LEMMA RaiseInv ==
  ASSUME NEW others \in [Value -> Nat], InvBeside(others), NEW r \in Record, Raise(r)
  PROVE  InvBeside(others)'
  <1>0. Types
    BY DEF InvBeside
  <1>1. /\ UNCHANGED <<count, refs, persists, omitted, clients, kept, unread>>
        /\ UNCHANGED <<memory, store, waiting, queued, returned, unwritten>>
        /\ at[r] = "computing" /\ at' = [at EXCEPT ![r] = "idle"]
        /\ Fail(r) /\ LetGo(held[r]) /\ held' = [held EXCEPT ![r] = {}]
    BY DEF Raise, values
  <1>2. readers' \in [Value -> Int] /\ drops' \subseteq Record
    BY <1>0, <1>1 DEF Types, LetGo, Producers, Value
  <1>3. unread[r] = {} /\ r <= count /\ r \notin queued /\ status[r] # "none"
    BY <1>1, <1>0 DEF InvBeside, Places, Fresh, Types, Record
  <1>4. /\ status' \in [Record -> Statuses]
        /\ dependents' \in [Record -> SUBSET Record]
        /\ todo' \subseteq Record \X {"failed", "cancelled"}
        /\ \A x \in Record : status'[x] = "completed" <=> status[x] = "completed"
        /\ \A x \in Record : x # r => status'[x] = status[x]
        /\ status'[r] # "none"
    BY <1>0, <1>1, <1>3, FailStatus
  <1>5. Types'
    BY <1>0, <1>1, <1>2, <1>4 DEF Types
  <1>6. Fresh' /\ Places'
    BY <1>0, <1>1, <1>3, <1>4 DEF InvBeside, Fresh, Places, Types, Record
  <1>7. Waits'
    BY <1>0, <1>1, <1>4 DEF InvBeside, Waits, Types, Value
  <1>8. Written' /\ Kept'
    BY <1>0, <1>1, <1>4 DEF InvBeside, Written, Kept, Types
  <1>9. CountedBeside(others)'
    <2>1. held'[r] = {} /\ unread'[r] = {}
      BY <1>0, <1>1, <1>3 DEF Types
    <2>2. \A x \in Record \ {r} : unread'[x] = unread[x] /\ held'[x] = held[x]
      BY <1>0, <1>1 DEF Types
    <2> QED
      BY <1>0, <1>1, <1>3, <2>1, <2>2, LettingGoOf DEF InvBeside, Types
  <1>10. Served' /\ ServedBeside(others)'
    BY <1>0, <1>1, <1>4 DEF InvBeside, Served, ServedBeside, Types, Value
  <1>11. Scheduled'
    BY <1>0, <1>1, FailScheduled DEF InvBeside, Raise
  <1> QED
    BY <1>5, <1>6, <1>7, <1>8, <1>9, <1>10, <1>11 DEF InvBeside

LEMMA WriteInv ==
  ASSUME NEW others \in [Value -> Nat], InvBeside(others), NEW r \in Record, NEW n \in Name, Write(r, n)
  PROVE  InvBeside(others)'
  <1>0. Types
    BY DEF InvBeside
  <1>1. /\ UNCHANGED <<count, status, refs, persists, omitted, clients, kept, unread>>
        /\ UNCHANGED <<held, readers, memory, waiting, dependents, queued, at, returned>>
        /\ UNCHANGED <<todo, drops>>
        /\ store' = store \cup {<<r, n>>}
        /\ unwritten' = [unwritten EXCEPT ![r] = @ \ {n}]
    BY DEF Write, history, keeping, work
  <1>2. Types'
    BY <1>0, <1>1 DEF Types, Value
  <1>3. Fresh' /\ Places' /\ Waits' /\ Scheduled' /\ Kept' /\ CountedBeside(others)' /\ Served' /\ ServedBeside(others)'
    BY <1>1 DEF InvBeside, Fresh, Places, Waits, Scheduled, Kept, CountedBeside, Served, ServedBeside
  <1>4. Written'
    BY <1>0, <1>1 DEF InvBeside, Written, Types
  <1> QED
    BY <1>2, <1>3, <1>4 DEF InvBeside

LEMMA WriteFailsInv ==
  ASSUME NEW others \in [Value -> Nat], InvBeside(others), NEW r \in Record, WriteFails(r)
  PROVE  InvBeside(others)'
  <1>0. Types
    BY DEF InvBeside
  <1>1. /\ UNCHANGED <<count, refs, persists, omitted, clients, kept, unread, held>>
        /\ UNCHANGED <<readers, memory, store, waiting, queued, drops>>
        /\ at[r] = "writing" /\ at' = [at EXCEPT ![r] = "idle"]
        /\ unwritten' = [unwritten EXCEPT ![r] = {}]
        /\ returned' = [returned EXCEPT ![r] = {}]
        /\ Fail(r)
    BY DEF WriteFails, keeping, values
  <1>2. unread[r] = {} /\ held[r] = {} /\ r <= count /\ status[r] # "none"
    <2>1. Places /\ Fresh
      BY DEF InvBeside
    <2>2. unread[r] = {} /\ held[r] = {} /\ r \notin queued
      BY <1>0, <1>1, <2>1 DEF Places, Types
    <2> QED
      BY <1>0, <1>1, <2>1, <2>2 DEF Fresh, Types, Record
  <1>3. /\ status' \in [Record -> Statuses]
        /\ dependents' \in [Record -> SUBSET Record]
        /\ todo' \subseteq Record \X {"failed", "cancelled"}
        /\ \A x \in Record : status'[x] = "completed" <=> status[x] = "completed"
        /\ \A x \in Record : x # r => status'[x] = status[x]
        /\ status'[r] # "none"
    BY <1>0, <1>1, <1>2, FailStatus
  <1>4. Types'
    BY <1>0, <1>1, <1>3 DEF Types
  <1>5. Fresh' /\ Places'
    BY <1>0, <1>1, <1>2, <1>3 DEF InvBeside, Fresh, Places, Types, Record
  <1>6. Waits' /\ Served' /\ ServedBeside(others)'
    BY <1>0, <1>1, <1>3 DEF InvBeside, Waits, Served, ServedBeside, Types, Value
  <1>7. Written' /\ Kept'
    BY <1>0, <1>1, <1>3 DEF InvBeside, Written, Kept, Types
  <1>8. CountedBeside(others)'
    BY <1>1 DEF InvBeside, CountedBeside
  <1>9. Scheduled'
    BY <1>0, <1>1, FailScheduled DEF InvBeside, WriteFails
  <1> QED
    BY <1>4, <1>5, <1>6, <1>7, <1>8, <1>9 DEF InvBeside

\* A record completes: each of its outputs that something keeps is there.
LEMMA CompleteInv ==
  ASSUME NEW others \in [Value -> Nat], InvBeside(others), NEW r \in Record, Complete(r)
  PROVE  InvBeside(others)'
  <1>0. Types
    BY DEF InvBeside
  <1>1. /\ UNCHANGED <<count, refs, persists, clients, kept, unread, held, readers>>
        /\ UNCHANGED <<store, unwritten, todo, drops>>
        /\ at[r] = "writing" /\ at' = [at EXCEPT ![r] = "idle"]
        /\ unwritten[r] = {} /\ returned' = [returned EXCEPT ![r] = {}]
    BY DEF Complete, AllWritten, keeping, work
  <1>2. unread[r] = {} /\ held[r] = {} /\ r <= count /\ r \notin queued
    <2>1. Places /\ Fresh
      BY DEF InvBeside
    <2>2. unread[r] = {} /\ held[r] = {} /\ r \notin queued
      BY <1>0, <1>1, <2>1 DEF Places, Types
    <2> QED
      BY <1>0, <1>1, <2>1, <2>2 DEF Fresh, Types, Record
  <1>3. CASE Pending(r)
    <2>1. /\ status[r] = "pending" /\ status' = [status EXCEPT ![r] = "completed"]
          /\ omitted' = [omitted EXCEPT ![r] = Name \ returned[r]]
          /\ memory' = memory \cup Retained(r)
          /\ waiting' = [d \in Record |-> waiting[d] \ {p \in {r} : d \in dependents[p]}]
          /\ dependents' = [dependents EXCEPT ![r] = {}]
          /\ queued' = queued \cup {d \in dependents[r] : waiting[d] = {r}}
      BY <1>3 DEF Complete, Pending
    <2>2. /\ Retained(r) \subseteq Value
          /\ \A n \in returned[r] : KeptBySome(r) => <<r, n>> \in Retained(r)
          /\ \A n \in returned[r] : readers[<<r, n>>] # 0 => <<r, n>> \in Retained(r)
      BY <1>0 DEF Types, Retained, Outputs, Unread, Value
    <2>3. Types'
      BY <1>0, <1>1, <2>1, <2>2 DEF Types, Statuses
    <2>4. /\ \A d \in queued' : d \in queued \/ (waiting[d] = {r} /\ d \in dependents[r])
          /\ \A d \in queued' : d # r /\ d <= count /\ at[d] = "idle"
      <3> SUFFICES ASSUME NEW d \in queued'
                   PROVE  /\ d \in queued \/ (waiting[d] = {r} /\ d \in dependents[r])
                          /\ d # r /\ d <= count /\ at[d] = "idle"
        OBVIOUS
      <3>1. CASE d \in queued
        BY <1>0, <1>1, <3>1 DEF InvBeside, Places, Fresh, Types, Record
      <3>2. CASE d \in dependents[r] /\ waiting[d] = {r}
        <4>1. d \in Record
          BY <1>0, <3>2 DEF Types
        <4>2. status[d] = "pending" /\ at[d] = "idle"
          BY <3>2, <4>1 DEF InvBeside, Scheduled
        <4> QED
          BY <1>0, <1>1, <3>2, <4>1, <4>2 DEF InvBeside, Fresh, Types, Record
      <3> QED
        BY <2>1, <3>1, <3>2
    <2>5. Fresh' /\ Places'
      <3>1. \A x \in Record : x > count => x \notin queued'
        BY <1>0, <2>4 DEF Types, Record
      <3>2. \A x \in Record : at'[x] # "idle" => x \notin queued'
        BY <1>0, <1>1, <2>4 DEF Types
      <3>3. \A x \in Record : status'[x] = "none" <=> status[x] = "none"
        BY <1>0, <2>1 DEF Types
      <3>4. \A x \in Record : x > count => at'[x] = "idle"
        BY <1>0, <1>1 DEF InvBeside, Fresh, Types
      <3>5. \A x \in Record : x # r => status'[x] = status[x] /\ at'[x] = at[x]
        BY <1>0, <1>1, <2>1 DEF Types
      <3> QED
        BY <1>1, <1>2, <3>1, <3>2, <3>3, <3>4, <3>5 DEF InvBeside, Fresh, Places
    <2>6. \A x \in Record : status'[x] = "completed" <=> x = r \/ status[x] = "completed"
      BY <1>0, <2>1 DEF Types
    <2>7. Waits'
      <3> SUFFICES ASSUME NEW x \in Record
          PROVE  /\ \A v \in unread[x] : v[1] \in waiting'[x] \/ status'[v[1]] = "completed"
                 /\ x \in queued' => waiting'[x] = {}
                 /\ \A v \in held[x] : status'[v[1]] = "completed"
        BY <1>1 DEF Waits
      <3>1. \A v \in unread[x] \cup held[x] : v[1] \in Record
        BY <1>0 DEF Types, Value
      <3>2. /\ waiting'[x] \subseteq waiting[x] /\ waiting[x] \subseteq waiting'[x] \cup {r}
            /\ x \in dependents[r] => waiting'[x] = waiting[x] \ {r}
        BY <1>0, <2>1 DEF Types
      <3>3. x \in queued' => waiting'[x] = {}
        BY <2>4, <3>2 DEF InvBeside, Waits
      <3> QED
        BY <2>6, <3>1, <3>2, <3>3 DEF InvBeside, Waits
    <2>8. Scheduled'
      <3> SUFFICES ASSUME NEW x \in Record
          PROVE  /\ waiting'[x] # {} => status'[x] = "pending" /\ at'[x] = "idle"
                 /\ \A p \in Record : x \in dependents'[p] =>
                       p \in waiting'[x] /\ status'[p] = "pending"
                 /\ \A p \in waiting'[x] : x \in dependents'[p] \/ <<x, "failed">> \in todo'
                 /\ status'[x] = "pending" =>
                       waiting'[x] # {} \/ x \in queued' \/ at'[x] # "idle"
        BY DEF Scheduled
      <3>1. waiting[r] = {} /\ \A p \in Record : r \notin dependents[p]
        BY <1>1 DEF InvBeside, Scheduled
      <3>2. /\ waiting'[x] = waiting[x] \ {p \in {r} : x \in dependents[p]}
            /\ x \in dependents[r] /\ waiting[x] = {r} => x \in queued'
            /\ x \in queued => x \in queued'
            /\ \A p \in Record : x \in dependents'[p] <=> x \in dependents[p] /\ p # r
            /\ waiting[x] \subseteq Record
        BY <1>0, <2>1 DEF Types
      <3>3. CASE x = r
        <4>1. waiting'[r] = {} /\ status'[r] = "completed"
          BY <1>0, <2>1, <3>1, <3>2, <3>3 DEF Types
        <4> QED
          BY <3>1, <3>2, <3>3, <4>1
      <3>4. CASE x # r
        <4>1. status'[x] = status[x] /\ at'[x] = at[x]
          BY <1>0, <1>1, <2>1, <3>4 DEF Types
        <4>2. \A p \in Record : p # r => status'[p] = status[p]
          BY <1>0, <2>1 DEF Types
        <4>3. todo' = todo
          BY <1>1
        <4>4. CASE x \in dependents[r]
          BY <3>2, <4>1, <4>2, <4>3, <4>4 DEF InvBeside, Scheduled
        <4>5. CASE x \notin dependents[r]
          <5>1. waiting'[x] = waiting[x]
            BY <3>2, <4>5
          <5> QED
            BY <3>2, <4>1, <4>2, <4>3, <4>5, <5>1 DEF InvBeside, Scheduled
        <4> QED
          BY <4>4, <4>5
      <3> QED
        BY <3>3, <3>4
    <2>9. Written'
      <3>1. \A n \in persists[r] : n \in omitted'[r] \/ <<r, n>> \in store
        BY <1>0, <1>1, <2>1 DEF InvBeside, Written, Types
      <3>2. \A x \in Record : x # r => /\ status'[x] = status[x] /\ omitted'[x] = omitted[x]
                                       /\ at'[x] = at[x] /\ returned'[x] = returned[x]
        BY <1>0, <1>1, <2>1 DEF Types
      <3>3. at'[r] = "idle"
        BY <1>0, <1>1 DEF Types
      <3>4. store' = store /\ persists' = persists /\ unwritten' = unwritten
        BY <1>1
      <3> QED
        BY <3>1, <3>2, <3>3, <3>4 DEF InvBeside, Written
    <2>10. \A x \in Record : x # r => omitted'[x] = omitted[x]
      BY <1>0, <2>1 DEF Types
    <2>11. omitted'[r] = Name \ returned[r] /\ memory \subseteq memory'
      BY <1>0, <2>1 DEF Types
    <2>12. Kept'
      <3> SUFFICES ASSUME NEW c \in clients, NEW x \in kept[c], status'[x] = "completed",
                          NEW n \in Name
                   PROVE  n \in omitted'[x] \/ <<x, n>> \in memory'
        BY <1>1 DEF Kept
      <3>1. CASE x = r
        BY <2>1, <2>2, <2>11, <3>1 DEF KeptBySome
      <3>2. CASE x # r
        BY <1>0, <2>6, <2>10, <2>11, <3>2 DEF InvBeside, Kept, Types
      <3> QED
        BY <3>1, <3>2
    <2>15. ServedBeside(others)'
      <3> SUFFICES ASSUME NEW v \in Value, others[v] # 0, status'[v[1]] = "completed"
                   PROVE  v \in memory' \cup store \/ v[2] \in omitted'[v[1]]
        BY <1>1 DEF ServedBeside
      <3>1. v[1] \in Record /\ v[2] \in Name /\ v = <<v[1], v[2]>> /\ readers[v] # 0
        <4>1. readers[v] # 0
          BY UnheldBeside DEF InvBeside
        <4> QED
          BY <4>1 DEF Value
      <3>3. CASE v[1] = r
        BY <2>1, <2>2, <2>11, <3>1, <3>3
      <3>4. CASE v[1] # r
        BY <2>6, <2>10, <2>11, <3>1, <3>4 DEF InvBeside, ServedBeside
      <3> QED
        BY <3>3, <3>4
    <2>13. Served'
      <3> SUFFICES ASSUME NEW x \in Record, NEW v \in unread[x] \cup held[x],
                          status'[v[1]] = "completed"
                   PROVE  v \in memory' \cup store \/ v[2] \in omitted'[v[1]]
        BY <1>1 DEF Served
      <3>1. v \in Value /\ v[1] \in Record /\ v[2] \in Name /\ v = <<v[1], v[2]>>
        BY <1>0 DEF Types, Value
      <3>2. readers[v] # 0
        BY <3>1, UnheldBeside DEF InvBeside
      <3>3. CASE v[1] = r
        BY <2>1, <2>2, <2>11, <3>1, <3>2, <3>3
      <3>4. CASE v[1] # r
        BY <2>6, <2>10, <2>11, <3>1, <3>4 DEF InvBeside, Served
      <3> QED
        BY <3>3, <3>4
    <2>14. CountedBeside(others)'
      BY <1>1 DEF InvBeside, CountedBeside
    <2> QED
      BY <2>3, <2>5, <2>7, <2>8, <2>9, <2>12, <2>13, <2>14, <2>15 DEF InvBeside
  <1>4. CASE ~Pending(r)
    <2>1. UNCHANGED <<status, omitted, memory, waiting, dependents, queued>>
      BY <1>4 DEF Complete
    <2>2. Types'
      BY <1>0, <1>1, <2>1 DEF Types
    <2>3. Fresh' /\ Places' /\ Waits' /\ Kept' /\ CountedBeside(others)' /\ Served' /\ ServedBeside(others)'
      BY <1>0, <1>1, <1>2, <2>1 DEF InvBeside, Fresh, Places, Waits, Kept, CountedBeside, Served, ServedBeside, Types, Value
    <2>4. Written'
      BY <1>0, <1>1, <2>1 DEF InvBeside, Written, Types
    <2>5. Scheduled'
      BY <1>0, <1>1, <1>4, <2>1 DEF InvBeside, Scheduled, Pending, Types
    <2> QED
      BY <2>2, <2>3, <2>4, <2>5 DEF InvBeside
  <1> QED
    BY <1>3, <1>4

-----------------------------------------------------------------------------
(* The theorems *)

LEMMA StepBeside ==
  ASSUME NEW others \in [Value -> Nat], InvBeside(others), [Next]_vars
  PROVE  InvBeside(others)'
  <1>0. Types
    BY DEF InvBeside
  <1>1. CASE \E c \in Client : CallOf(c)
    <2>1. PICK c \in Client : CallOf(c)
      BY <1>1
    <2>2. CASE \E k \in 1..MaxBatch :
                 /\ count + k <= MaxRecords
                 /\ \E reads \in Entries(k), names \in SUBSET Name : Submit(c, k, reads, names)
      BY <2>2, SubmitInv
    <2>3. CASE \/ OpenClient(c)
               \/ \E rs \in SUBSET Unended \ {{}} : Cancel(c, rs)
               \/ \E rs \in SUBSET kept[c] \ {{}} : Release(c, rs)
               \/ CloseClient(c)
      BY <2>3, ClientInv
    <2> QED
      BY <2>1, <2>2, <2>3 DEF CallOf
  <1>2. CASE Cascade
    <2>1. CASE \E job \in todo : FinishNext(job[1], job[2])
      <3>1. PICK job \in todo : FinishNext(job[1], job[2])
        BY <2>1
      <3>2. job[1] \in Record /\ job[2] \in {"failed", "cancelled"}
        BY <1>0 DEF Types
      <3> QED
        BY <3>1, <3>2, FinishNextInv
    <2>2. CASE \E r \in drops : DropNext(r)
      <3>1. PICK r \in drops : DropNext(r)
        BY <2>2
      <3> QED
        BY <1>0, <3>1, DropNextInv DEF Types
    <2> QED
      BY <1>2, <2>1, <2>2 DEF Cascade
  <1>3. CASE \E r \in Record : WorkerStep(r)
    BY <1>3, StartInv, ReturnInv, RaiseInv, WriteInv, WriteFailsInv, CompleteInv DEF WorkerStep
  <1>4. CASE UNCHANGED vars
    <2>1. UNCHANGED <<history, keeping, values, running, work>>
      BY <1>4 DEF vars
    <2>2. UNCHANGED <<history, unread, held, readers, values, running>>
          /\ clients' = clients /\ kept' = kept /\ todo' = todo /\ drops' = drops
      BY <2>1 DEF keeping, work
    <2> QED
      BY <1>0, <2>2, KeepingInv DEF Types
  <1> QED
    BY <1>1, <1>2, <1>3, <1>4 DEF Next

\* Where records alone read, there are no others.
NoOthers == [v \in Value |-> 0]

LEMMA Alone == Inv <=> InvBeside(NoOthers)
  <1>1. \A v \in Value : NoOthers[v] = 0 /\ Cardinality(ReadersOf(v)) \in Nat
    <2>1. \A v \in Value : ReadersOf(v) \in SUBSET Record
      BY DEF ReadersOf
    <2> QED
      BY <2>1, Counting DEF NoOthers
  <1>2. ReadersCounted <=> CountedBeside(NoOthers)
    BY <1>1 DEF ReadersCounted, CountedBeside, ReadersOf
  <1>3. ServedBeside(NoOthers)
    BY <1>1 DEF ServedBeside
  <1> QED
    BY <1>2, <1>3 DEF Inv, InvBeside

LEMMA StepInv == Inv /\ [Next]_vars => Inv'
  <1>1. NoOthers \in [Value -> Nat]
    BY DEF NoOthers
  <1>2. InvBeside(NoOthers) /\ [Next]_vars => InvBeside(NoOthers)'
    BY <1>1, StepBeside
  <1>3. (Inv <=> InvBeside(NoOthers))'
    BY Alone, PTL
  <1> QED
    BY <1>2, <1>3, Alone

LEMMA InvHolds == Spec => []Inv
  BY InitInv, StepInv, PTL DEF Spec

\* Every variable stays within its type; in particular no count of readers
\* drops below zero, however finishes, releases and workers interleave.
THEOREM TypeCorrect == Spec => []TypeOK
  <1>1. Inv => TypeOK
    <2> SUFFICES ASSUME Inv PROVE TypeOK
      OBVIOUS
    <2>1. readers \in [Value -> Nat]
      <3>1. \A v \in Value : ReadersOf(v) \in SUBSET Record
        BY DEF ReadersOf
      <3>2. \A v \in Value : readers[v] = Cardinality(ReadersOf(v))
        BY DEF Inv, ReadersCounted, ReadersOf
      <3>3. \A v \in Value : readers[v] \in Nat
        BY <3>1, <3>2, Counting
      <3> QED
        BY <3>3 DEF Inv, Types
    <2> QED
      BY <2>1 DEF Inv, Types, TypeOK
  <1> QED
    BY <1>1, InvHolds, PTL

\* The counter of readers, kept by additions and subtractions in five places,
\* is always the number of records and workers that hold the value.
THEOREM CountsReaders == Spec => []ReadersCounted
  <1>1. Inv => ReadersCounted
    BY DEF Inv
  <1> QED
    BY <1>1, InvHolds, PTL

\* Whatever clients release, close and cancel, a record finds what it
\* references when its workflow runs, all of it completed.
THEOREM ServesReaders == Spec => []ReadsServed
  <1>1. Inv => ReadsServed
    BY DEF Inv, Served, Waits, ReadsServed
  <1> QED
    BY <1>1, InvHolds, PTL

\* A client never meets a missing value where the read rule lets it read: in
\* memory if it keeps the record, in the store if not.
THEOREM ReadsSucceed == Spec => []ReadableIsThere
  <1>1. Inv => ReadableIsThere
    <2> SUFFICES ASSUME Inv, NEW c \in clients, NEW v \in Value,
                        MayRead(c, v), status[v[1]] = "completed"
                 PROVE  IF v[1] \in kept[c] THEN v \in memory ELSE v \in store
      BY DEF ReadableIsThere
    <2>1. v[1] \in Record /\ v[2] \in Name /\ v = <<v[1], v[2]>>
      BY DEF Value
    <2>2. CASE v[1] \in kept[c]
      BY <2>1, <2>2 DEF Inv, Kept, MayRead
    <2>3. CASE v[1] \notin kept[c]
      BY <2>1, <2>3 DEF Inv, Written, MayRead
    <2> QED
      BY <2>2, <2>3
  <1> QED
    BY <1>1, InvHolds, PTL

LEMMA InvForgetsNone == Inv => NoneForgotten
  <1> SUFFICES ASSUME Inv, ~Locked, NEW r \in Existing, Pending(r)
               PROVE  /\ (waiting[r] # {}) = (r \notin queued /\ at[r] = "idle")
                      /\ ~(r \in queued /\ at[r] # "idle")
                      /\ \A p \in waiting[r] : Pending(p) /\ r \in dependents[p]
    BY DEF NoneForgotten
  <1>1. r \in Record
    BY RecordsAssumption DEF Inv, Types, Existing, Record
  <1>2. ~(r \in queued /\ at[r] # "idle")
    BY <1>1 DEF Inv, Places
  <1>3. (waiting[r] # {}) <=> (r \notin queued /\ at[r] = "idle")
    BY <1>1, <1>2 DEF Inv, Waits, Scheduled, Pending
  <1>4. \A p \in waiting[r] : Pending(p) /\ r \in dependents[p]
    <2> SUFFICES ASSUME NEW p \in waiting[r]
                 PROVE  Pending(p) /\ r \in dependents[p]
      OBVIOUS
    <2>1. p \in Record
      BY <1>1 DEF Inv, Types
    <2>2. r \in dependents[p]
      BY <1>1 DEF Inv, Scheduled, Locked
    <2> QED
      BY <1>1, <2>1, <2>2 DEF Inv, Scheduled, Pending
  <1> QED
    BY <1>2, <1>3, <1>4

\* No pending record is lost: whenever the lock is free it is queued, with a
\* worker, or waits for a pending record that has it among its dependents.
THEOREM ForgetsNone == Spec => []NoneForgotten
  BY InvForgetsNone, InvHolds, PTL

=============================================================================
