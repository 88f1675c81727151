------------------------------ MODULE Records ------------------------------
(***************************************************************************)
(* The backend's records: submission, scheduling, workers, writes,         *)
(* cancelling, and what clients keep (essapps, backend.py), for clients of *)
(* one proposal.  Stages and accumulators are in modules of their own.     *)
(*                                                                         *)
(* Every action but Write runs under the backend's lock.  Finishing a      *)
(* record, or letting go of a value, may finish other records and drop     *)
(* other values, which the code works through in loops without giving up   *)
(* the lock.  Each turn of these loops is an action here (FinishNext,      *)
(* DropNext); while work is left to them the lock is held (Locked), and no *)
(* other locked action runs.  The code takes the work off Python sets, so  *)
(* part of the order is arbitrary: here any order may happen.              *)
(***************************************************************************)
EXTENDS Integers, FiniteSets

CONSTANTS Client,      \* the clients
          Name,        \* the names of a record's outputs
          MaxRecords,  \* bound: records submitted in all
          MaxBatch,    \* bound: requests in one submission
          MaxReads,    \* bound: outputs one request references
          Workers      \* threads of the executor

ASSUME RecordsAssumption ==
    /\ MaxRecords \in Nat
    /\ MaxBatch \in Nat
    /\ MaxReads \in Nat
    /\ Workers \in Nat \ {0}

Record == 1..MaxRecords  \* in the order submitted
Value == Record \X Name  \* an output of a record
Producers(values) == {v[1] : v \in values}
Outputs(r, names) == {r} \X names

VARIABLES
    \* history, as views.py builds it from the log
    count,       \* records submitted so far
    status,      \* of each record
    refs,        \* the values its request references
    persists,    \* the names it persists
    omitted,     \* the names a completed record's workflow did not return
    \* keepers and readers
    clients,     \* the clients that are open
    kept,        \* the records each client keeps
    unread,      \* what a record that has not started holds as a reader
    held,        \* what a worker holds as a reader while the workflow runs
    readers,     \* the number of readers of each value
    memory,      \* the values held in memory
    store,       \* the values written
    \* scheduling
    waiting,     \* the records a record waits for
    dependents,  \* the records that wait for a record
    queued,      \* the records the executor has not started
    at,          \* how far a worker is with a record
    returned,    \* the names the workflow returned
    unwritten,   \* the names still to write
    \* work left to the loops under the lock
    todo,        \* finishes: <<record, status>>
    drops        \* records with a value whose last reader let go

history == <<count, status, refs, persists, omitted>>
keeping == <<clients, kept, unread, held, readers>>
values  == <<memory, store>>
running == <<waiting, dependents, queued, at, returned, unwritten>>
work    == <<todo, drops>>
vars    == <<history, keeping, values, running, work>>

Existing == 1..count
Pending(r) == status[r] = "pending"
Unended == {r \in Existing : Pending(r)}
Locked == todo # {} \/ drops # {}
Busy == {r \in Record : at[r] # "idle"}

Init ==
    /\ count = 0
    /\ status = [r \in Record |-> "none"]
    /\ refs = [r \in Record |-> {}]
    /\ persists = [r \in Record |-> {}]
    /\ omitted = [r \in Record |-> {}]
    /\ clients = {}
    /\ kept = [c \in Client |-> {}]
    /\ unread = [r \in Record |-> {}]
    /\ held = [r \in Record |-> {}]
    /\ readers = [v \in Value |-> 0]
    /\ memory = {}
    /\ store = {}
    /\ waiting = [r \in Record |-> {}]
    /\ dependents = [r \in Record |-> {}]
    /\ queued = {}
    /\ at = [r \in Record |-> "idle"]
    /\ returned = [r \in Record |-> {}]
    /\ unwritten = [r \in Record |-> {}]
    /\ todo = {}
    /\ drops = {}

-----------------------------------------------------------------------------
(* Keepers and readers *)

KeptBySome(r) == \E c \in clients : r \in kept[c]

\* What _drop finds without a reader.
\* Mutant: it does not look at the readers.
Unread_All(r) == Outputs(r, Name)
Unread(r) == {v \in Outputs(r, Name) : readers[v] = 0}

\* A pending record whose outputs nothing keeps.
Orphan(r) == ~KeptBySome(r) /\ persists[r] = {} /\ Unread(r) = Outputs(r, Name)

\* One reader less of each of vs; a value left without one is dropped later.
LetGo(vs) ==
    /\ readers' = [v \in Value |-> IF v \in vs THEN readers[v] - 1 ELSE readers[v]]
    /\ drops' = drops \cup Producers({v \in vs : readers[v] = 1})

\* The read rule: whether a client may reference an output.
MayRead(c, v) ==
    /\ status[v[1]] \notin {"failed", "cancelled"}
    /\ v[1] \in kept[c] \/ v[2] \in persists[v[1]]
    /\ v[2] \notin omitted[v[1]]

-----------------------------------------------------------------------------
(* Calls of clients *)

New(k) == (count + 1)..(count + k)

\* A client opens, and keeps nothing yet.  One that has ended never returns:
\* the same model value stands for a new client then.
OpenClient(c) ==
    /\ ~Locked
    /\ c \notin clients
    /\ clients' = clients \cup {c}
    /\ kept' = [kept EXCEPT ![c] = {}]
    /\ UNCHANGED <<history, unread, held, readers, values, running, work>>

\* The references of k new requests, and the records they wait for.
\* Mutant: a record waits also for what has finished.
Entries(k) ==
    [New(k) -> {vs \in SUBSET (Existing \X Name) : Cardinality(vs) <= MaxReads}]
WaitsFor_All(vs) == Producers(vs)
WaitsFor(vs) == {p \in Producers(vs) : Pending(p)}

\* Log and schedule k requests that read `reads`, by new record, each of which
\* persists the outputs `names`; the client keeps the records unless they
\* persist some.
Accept(c, k, reads, names) ==
    LET new == New(k) IN
    /\ count' = count + k
    /\ status' = [r \in Record |-> IF r \in new THEN "pending" ELSE status[r]]
    /\ refs' = [r \in Record |-> IF r \in new THEN reads[r] ELSE refs[r]]
    /\ persists' = [r \in Record |-> IF r \in new THEN names ELSE persists[r]]
    /\ kept' = [kept EXCEPT ![c] = IF names = {} THEN @ \cup new ELSE @]
    /\ unread' = [r \in Record |-> IF r \in new THEN reads[r] ELSE unread[r]]
    /\ readers' = [v \in Value |-> readers[v] + Cardinality({r \in new : v \in reads[r]})]
    /\ waiting' = [r \in Record |-> IF r \in new THEN WaitsFor(reads[r]) ELSE waiting[r]]
    /\ dependents' = [p \in Record |->
                        dependents[p] \cup {r \in new : p \in WaitsFor(reads[r])}]
    /\ queued' = queued \cup {r \in new : WaitsFor(reads[r]) = {}}
    /\ UNCHANGED <<omitted, clients, held, values, at, returned, unwritten, work>>

\* A client submits requests, which are refused whole if one is.
Submit(c, k, reads, names) ==
    /\ ~Locked
    /\ c \in clients
    /\ \A r \in New(k) : \A v \in reads[r] : MayRead(c, v)
    /\ Accept(c, k, reads, names)

\* Cancel records, of whichever client.
Cancel(c, rs) ==
    /\ ~Locked
    /\ c \in clients
    /\ todo' = rs \X {"cancelled"}
    /\ UNCHANGED <<history, keeping, values, running, drops>>

\* Release records the client keeps: each is dropped, or cancelled if pending.
\* Mutant: only pending records are looked at.
Release_Pending(c, rs) ==
    /\ ~Locked
    /\ c \in clients
    /\ kept' = [kept EXCEPT ![c] = @ \ rs]
    /\ drops' = {r \in rs : Pending(r)}
    /\ UNCHANGED <<history, clients, unread, held, readers, values, running, todo>>
Release(c, rs) ==
    /\ ~Locked
    /\ c \in clients
    /\ kept' = [kept EXCEPT ![c] = @ \ rs]
    /\ drops' = rs
    /\ UNCHANGED <<history, clients, unread, held, readers, values, running, todo>>

\* End a client, which releases all it keeps.
\* Mutant: the client's entry is deleted, and nothing is released.
CloseClient_Deletes(c) ==
    /\ ~Locked
    /\ c \in clients
    /\ clients' = clients \ {c}
    /\ kept' = [kept EXCEPT ![c] = {}]
    /\ UNCHANGED <<history, unread, held, readers, values, running, work>>
CloseClient(c) ==
    /\ ~Locked
    /\ c \in clients
    /\ clients' = clients \ {c}
    /\ kept' = [kept EXCEPT ![c] = {}]
    /\ drops' = kept[c]
    /\ UNCHANGED <<history, unread, held, readers, values, running, todo>>

-----------------------------------------------------------------------------
(* The loops under the lock *)

\* What a record that finishes before it starts lets go of.
\* Mutant: it lets go of all it references, which a worker may hold.
YetToRead_Refs(r) == refs[r]
YetToRead(r) == unread[r]

\* What waited for a record that did not complete fails with it.
\* Mutant: the dependents are popped and forgotten.
Fails_None(r) == {}
Fails(r) == dependents[r] \X {"failed"}

\* One turn of _finish: log the finish, let go of what the record had yet to
\* read, forget what it waited for, and fail what waited for it.
FinishNext(r, how) ==
    /\ <<r, how>> \in todo
    /\ IF Pending(r)
       THEN /\ status' = [status EXCEPT ![r] = how]
            /\ LetGo(YetToRead(r))
            /\ unread' = [unread EXCEPT ![r] = {}]
            /\ waiting' = [waiting EXCEPT ![r] = {}]
            /\ dependents' = [p \in Record |->
                                IF p = r THEN {}
                                ELSE dependents[p] \ {d \in {r} : p \in waiting[d]}]
            /\ todo' = (todo \ {<<r, how>>}) \cup Fails(r)
       ELSE /\ todo' = todo \ {<<r, how>>}
            /\ UNCHANGED <<status, unread, readers, waiting, dependents, drops>>
    /\ UNCHANGED <<count, refs, persists, omitted, clients, kept, held, values,
                   queued, at, returned, unwritten>>

\* One turn of _let_go's loop: _drop a record's outputs that nothing keeps,
\* or cancel the record if it is pending.
DropNext(r) ==
    /\ r \in drops
    /\ drops' = drops \ {r}
    /\ IF Pending(r)
       THEN /\ todo' = IF Orphan(r) THEN todo \cup {<<r, "cancelled">>} ELSE todo
            /\ UNCHANGED memory
       ELSE /\ memory' = IF KeptBySome(r) THEN memory ELSE memory \ Unread(r)
            /\ UNCHANGED todo
    /\ UNCHANGED <<history, keeping, store, running>>

-----------------------------------------------------------------------------
(* Workers *)

\* A worker takes a record: it starts the workflow, or returns at once if the
\* record finished before it started.
Start(r) ==
    /\ ~Locked
    /\ r \in queued
    /\ Cardinality(Busy) < Workers
    /\ queued' = queued \ {r}
    /\ IF Pending(r)
       THEN /\ at' = [at EXCEPT ![r] = "computing"]
            /\ held' = [held EXCEPT ![r] = unread[r]]
            /\ unread' = [unread EXCEPT ![r] = {}]
       ELSE UNCHANGED <<at, held, unread>>
    /\ UNCHANGED <<history, clients, kept, readers, values, waiting, dependents,
                   returned, unwritten, work>>

\* Whether the data a reference names can be read.
CanRead(v) == v \in memory \cup store /\ v[2] \notin omitted[v[1]]

\* The workflow returns outputs, having read all it references; the worker
\* lets go of what it read before it writes.
Return(r, names) ==
    /\ ~Locked
    /\ at[r] = "computing"
    /\ \A v \in held[r] : CanRead(v)
    /\ at' = [at EXCEPT ![r] = "writing"]
    /\ returned' = [returned EXCEPT ![r] = names]
    /\ unwritten' = [unwritten EXCEPT ![r] = names \cap persists[r]]
    /\ LetGo(held[r])
    /\ held' = [held EXCEPT ![r] = {}]
    /\ UNCHANGED <<history, clients, kept, unread, values, waiting, dependents,
                   queued, todo>>

\* A record that started fails, unless it was cancelled meanwhile: the first
\* turn of its _finish, with nothing left to read or to wait for.
Fail(r) ==
    IF Pending(r)
    THEN /\ status' = [status EXCEPT ![r] = "failed"]
         /\ dependents' = [dependents EXCEPT ![r] = {}]
         /\ todo' = Fails(r)
    ELSE UNCHANGED <<status, dependents, todo>>

\* The workflow raises, or a reference cannot be read; the worker lets go of
\* what it read once the record has failed.
Raise(r) ==
    /\ ~Locked
    /\ at[r] = "computing"
    /\ at' = [at EXCEPT ![r] = "idle"]
    /\ Fail(r)
    /\ LetGo(held[r])
    /\ held' = [held EXCEPT ![r] = {}]
    /\ UNCHANGED <<count, refs, persists, omitted, clients, kept, unread, values,
                   waiting, queued, returned, unwritten>>

\* One output is written, without the lock.
Write(r, n) ==
    /\ at[r] = "writing"
    /\ n \in unwritten[r]
    /\ store' = store \cup {<<r, n>>}
    /\ unwritten' = [unwritten EXCEPT ![r] = @ \ {n}]
    /\ UNCHANGED <<history, keeping, memory, waiting, dependents, queued, at,
                   returned, work>>

\* A write raises: the record fails, and what was written stays.
WriteFails(r) ==
    /\ ~Locked
    /\ at[r] = "writing"
    /\ unwritten[r] # {}
    /\ at' = [at EXCEPT ![r] = "idle"]
    /\ unwritten' = [unwritten EXCEPT ![r] = {}]
    /\ returned' = [returned EXCEPT ![r] = {}]
    /\ Fail(r)
    /\ UNCHANGED <<count, refs, persists, omitted, keeping, values, waiting,
                   queued, drops>>

\* The outputs a completing record leaves in memory: _complete holds them all,
\* and drops those that nothing keeps once the finish is logged.
\* Mutant: what a client keeps is dropped too.
Retained_Read(r) == Outputs(r, returned[r]) \ Unread(r)
Retained(r) ==
    Outputs(r, returned[r]) \ (IF KeptBySome(r) THEN {} ELSE Unread(r))

\* Whether all that the record persists is written.
AllWritten(r) == unwritten[r] = {}

\* The record completes and starts what waited for it alone, unless it was
\* cancelled meanwhile.
Complete(r) ==
    /\ ~Locked
    /\ at[r] = "writing"
    /\ AllWritten(r)
    /\ at' = [at EXCEPT ![r] = "idle"]
    /\ IF Pending(r)
       THEN /\ status' = [status EXCEPT ![r] = "completed"]
            /\ omitted' = [omitted EXCEPT ![r] = Name \ returned[r]]
            /\ memory' = memory \cup Retained(r)
            /\ waiting' = [d \in Record |->
                             waiting[d] \ {p \in {r} : d \in dependents[p]}]
            /\ dependents' = [dependents EXCEPT ![r] = {}]
            /\ queued' = queued \cup {d \in dependents[r] : waiting[d] = {r}}
       ELSE UNCHANGED <<status, omitted, memory, waiting, dependents, queued>>
    /\ returned' = [returned EXCEPT ![r] = {}]
    /\ UNCHANGED <<count, refs, persists, keeping, store, unwritten, work>>

-----------------------------------------------------------------------------
CallOf(c) ==
    \/ OpenClient(c)
    \/ \E k \in 1..MaxBatch : /\ count + k <= MaxRecords
                              /\ \E reads \in Entries(k), names \in SUBSET Name :
                                    Submit(c, k, reads, names)
    \/ \E rs \in SUBSET Unended \ {{}} : Cancel(c, rs)
    \/ \E rs \in SUBSET kept[c] \ {{}} : Release(c, rs)
    \/ CloseClient(c)

Cascade ==
    \/ \E job \in todo : FinishNext(job[1], job[2])
    \/ \E r \in drops : DropNext(r)

WorkerStep(r) ==
    \/ Start(r)
    \/ \E names \in SUBSET Name : Return(r, names)
    \/ Raise(r)
    \/ \E n \in Name : Write(r, n)
    \/ WriteFails(r)
    \/ Complete(r)

Next ==
    \/ \E c \in Client : CallOf(c)
    \/ Cascade
    \/ \E r \in Record : WorkerStep(r)

\* The loops under the lock end, and every worker goes on: a workflow returns
\* or raises, and a write ends.  Nothing makes a client call.
Fairness == WF_vars(Cascade) /\ \A r \in Record : WF_vars(WorkerStep(r))

Spec == Init /\ [][Next]_vars
FairSpec == Spec /\ Fairness

-----------------------------------------------------------------------------
(* What makes this correct *)

Statuses == {"none", "pending", "completed", "failed", "cancelled"}

TypeOK ==
    /\ count \in 0..MaxRecords
    /\ status \in [Record -> Statuses]
    /\ refs \in [Record -> SUBSET Value]
    /\ persists \in [Record -> SUBSET Name]
    /\ omitted \in [Record -> SUBSET Name]
    /\ clients \subseteq Client
    /\ kept \in [Client -> SUBSET Record]
    /\ unread \in [Record -> SUBSET Value]
    /\ held \in [Record -> SUBSET Value]
    /\ readers \in [Value -> Nat]
    /\ memory \subseteq Value
    /\ store \subseteq Value
    /\ waiting \in [Record -> SUBSET Record]
    /\ dependents \in [Record -> SUBSET Record]
    /\ queued \subseteq Record
    /\ at \in [Record -> {"idle", "computing", "writing"}]
    /\ returned \in [Record -> SUBSET Name]
    /\ unwritten \in [Record -> SUBSET Name]
    /\ todo \subseteq Record \X {"failed", "cancelled"}
    /\ drops \subseteq Record

\* The counter of readers agrees with what the records that have not started
\* and the workers hold, whatever was cancelled, failed or released between:
\* _readers is changed in five places and never recomputed.
ReadersCounted ==
    \A v \in Value :
        readers[v] = Cardinality({r \in Record : v \in unread[r] \cup held[r]})

\* Who holds a value as a reader finds it: once its record has completed it is
\* in memory or written, or the workflow did not return it.  A workflow runs
\* only once all it reads has completed.  So what the client's release, its
\* end, or a cancel did meanwhile never takes a value from a reader.
ReadsServed ==
    \A r \in Record :
        /\ \A v \in unread[r] \cup held[r] :
              status[v[1]] = "completed" =>
                  v \in memory \cup store \/ v[2] \in omitted[v[1]]
        /\ at[r] = "computing" => \A v \in held[r] : status[v[1]] = "completed"

\* What a client may read of a completed record is there, in memory if the
\* client keeps the record and written if not: _read indexes memory, and reads
\* the store, without looking.
ReadableIsThere ==
    \A c \in clients, v \in Value :
        MayRead(c, v) /\ status[v[1]] = "completed" =>
            IF v[1] \in kept[c] THEN v \in memory ELSE v \in store

\* Work nothing keeps is cancelled (protocol.py): once the lock is let go, a
\* pending record has a client, a store or a reader to compute for.
NoOrphans ==
    ~Locked => \A r \in Existing : Pending(r) => ~Orphan(r)

\* A value nothing keeps is dropped: once the lock is let go, what is in
\* memory has a client that keeps it or a reader.
NothingUnkept ==
    ~Locked => \A v \in memory : KeptBySome(v[1]) \/ readers[v] > 0

\* No record is forgotten: once the lock is let go, a pending record waits for
\* a pending record that will start or fail it, is queued, or is with a
\* worker, and only one of these.
NoneForgotten ==
    ~Locked =>
        \A r \in Existing : Pending(r) =>
            /\ (waiting[r] # {}) = (r \notin queued /\ at[r] = "idle")
            /\ ~(r \in queued /\ at[r] # "idle")
            /\ \A p \in waiting[r] : Pending(p) /\ r \in dependents[p]

-----------------------------------------------------------------------------
(* The promises of protocol.py *)

State == [r \in Record |->
            IF Pending(r) /\ at[r] = "writing" THEN "computed" ELSE status[r]]
Live == {v \in memory \cup store :
            status[v[1]] = "completed" /\ v[2] \notin omitted[v[1]]}

Promise == INSTANCE Lifecycle WITH state <- State, refs <- refs, live <- Live

\* Every step is one of the abstract lifecycle, or changes nothing in it:
\* a record computes only with all it references completed and there, it
\* finishes once, and a value that is gone does not come back.
KeepsPromise == Promise!Spec

\* Every pending record finishes, if workflows return or raise.
EveryRecordFinishes ==
    \A r \in Record : Pending(r) ~> status[r] \in {"completed", "failed", "cancelled"}

=============================================================================
