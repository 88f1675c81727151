--------------------------- MODULE RestartProofs ---------------------------
(***************************************************************************)
(* Theorems about crashes and restarts, for any number of crashes.         *)
(*                                                                         *)
(* While a backend runs, what RecordsProofs shows of each step applies.    *)
(* While one starts, nothing is scheduled: what holds then is the part of  *)
(* Inv that speaks of history and the store, and what the restart has      *)
(* decided so far (Decided).  Scheduling makes Inv whole again, because    *)
(* each record that runs reads only what other records that run, or the    *)
(* store, will give it.                                                    *)
(***************************************************************************)
EXTENDS Restart, PromiseProofs, WellFoundedInduction

\* What the log says, beyond Inv: a record reads earlier ones, and the store
\* holds only what a record persists.
Logged ==
    /\ \A r \in Record : \A v \in refs[r] : v[1] < r /\ status[v[1]] # "none"
    /\ \A v \in store : v[2] \in persists[v[1]] /\ v[1] <= count
    /\ \A r \in Record : /\ unwritten[r] \subseteq persists[r]
                         /\ unwritten[r] # {} => at[r] = "writing"

\* What holds of the records whether or not a backend is up.
Base == Types /\ Fresh /\ Places /\ Waits /\ Written /\ Kept /\ ReadersCounted /\ Served

\* All a backend holds beside history and the store is gone.
Lost ==
    /\ clients = {}
    /\ unread = [r \in Record |-> {}]
    /\ held = [r \in Record |-> {}]
    /\ waiting = [r \in Record |-> {}]
    /\ dependents = [r \in Record |-> {}]
    /\ queued = {}
    /\ at = [r \in Record |-> "idle"]
    /\ unwritten = [r \in Record |-> {}]
    /\ todo = {}
    /\ drops = {}

\* How far a restart is: each pending record is undecided or runs, and what
\* runs reads what runs too, or what is written.
Decided ==
    /\ undecided \subseteq Record
    /\ runs \subseteq Record
    /\ undecided \cap runs = {}
    /\ \A r \in Record : Pending(r) <=> r \in undecided \cup runs
    /\ \A r \in runs : \A v \in refs[r] :
          \/ v[1] \in runs
          \/ /\ status[v[1]] = "completed"
             /\ v[2] \notin omitted[v[1]]
             /\ v[2] \in persists[v[1]]

RestartInv ==
    /\ Base
    /\ Logged
    /\ restarting => Lost /\ Decided
    /\ ~restarting => Scheduled /\ undecided = {}

LEMMA BaseInv == Base /\ Scheduled <=> Inv
  BY DEF Base, Inv

-----------------------------------------------------------------------------
(* Steps of a backend that is up *)

LEMMA SubmitLogged ==
  ASSUME Inv, Logged, NEW c \in Client, NEW k \in 1..MaxBatch, count + k <= MaxRecords,
         NEW reads \in Entries(k), NEW names \in SUBSET Name, Submit(c, k, reads, names)
  PROVE  Logged'
  <1> DEFINE new == New(k)
  <1>0. Types
    BY DEF Inv
  <1>1. /\ k \in Nat /\ count \in Nat /\ count' = count + k
        /\ new = (count + 1)..(count + k) /\ new \subseteq Record
    BY <1>0, RecordsAssumption DEF Types, New, Record, Submit, Accept
  <1>2. /\ status' = [r \in Record |-> IF r \in new THEN "pending" ELSE status[r]]
        /\ refs' = [r \in Record |-> IF r \in new THEN reads[r] ELSE refs[r]]
        /\ persists' = [r \in Record |-> IF r \in new THEN names ELSE persists[r]]
        /\ UNCHANGED <<store, at, unwritten>>
    BY DEF Submit, Accept, values
  <1>3. \A r \in new : \A v \in reads[r] : v[1] \in Existing
    BY DEF Entries
  <1>4. \A p \in Existing : p \in Record /\ status[p] # "none" /\ \A r \in new : p < r
    BY <1>0, <1>1, RecordsAssumption DEF Inv, Fresh, Existing, Types, Record
  <1>5. \A r \in Record : \A v \in refs'[r] : v[1] < r /\ status'[v[1]] # "none"
    <2> SUFFICES ASSUME NEW r \in Record, NEW v \in refs'[r]
                 PROVE  v[1] < r /\ status'[v[1]] # "none"
      OBVIOUS
    <2>1. CASE r \in new
      BY <1>2, <1>3, <1>4, <2>1
    <2>2. CASE r \notin new
      <3>1. v \in refs[r] /\ v[1] \in Record
        BY <1>0, <1>2, <2>2 DEF Types, Value
      <3> QED
        BY <1>2, <3>1 DEF Logged
    <2> QED
      BY <2>1, <2>2
  <1>6. \A r \in new : unwritten[r] = {} /\ \A v \in store : v[1] # r
    <2>1. \A r \in new : r > count /\ r \in Record
      BY <1>1
    <2>2. \A r \in new : at[r] = "idle"
      BY <2>1 DEF Inv, Fresh
    <2>3. \A r \in new : \A v \in store : v[1] # r
      BY <1>0, <1>1, <2>1 DEF Logged, Types, Value, Record
    <2> QED
      BY <2>1, <2>2, <2>3 DEF Logged
  <1>7. \A v \in store' : v[2] \in persists'[v[1]] /\ v[1] <= count'
    <2> SUFFICES ASSUME NEW v \in store
                 PROVE  v[2] \in persists'[v[1]] /\ v[1] <= count'
      BY <1>2
    <2>1. v[1] \in Record /\ v[1] \in Nat /\ v[2] \in persists[v[1]] /\ v[1] <= count
      BY <1>0 DEF Logged, Types, Value, Record
    <2> QED
      BY <1>1, <1>2, <1>6, <2>1
  <1>8. \A r \in Record : /\ unwritten'[r] \subseteq persists'[r]
                          /\ unwritten'[r] # {} => at'[r] = "writing"
    BY <1>2, <1>6 DEF Logged
  <1> QED
    BY <1>5, <1>7, <1>8 DEF Logged

\* A step that logs no submission and writes nothing.
LEMMA SteadyLogged ==
  ASSUME Types, Logged, UNCHANGED <<count, refs, persists, store>>,
         \A r \in Record : status[r] # "none" => status'[r] # "none",
         \A r \in Record : /\ unwritten'[r] \subseteq persists[r]
                           /\ unwritten'[r] # {} => at'[r] = "writing"
  PROVE  Logged'
  BY DEF Logged, Types, Value

LEMMA NextLogged ==
  ASSUME Inv, Logged, Next
  PROVE  Logged'
  <1>0. Types
    BY DEF Inv
  <1>1. ASSUME NEW c \in Client, CallOf(c) PROVE Logged'
    <2>1. CASE \E k \in 1..MaxBatch :
                 /\ count + k <= MaxRecords
                 /\ \E reads \in Entries(k), names \in SUBSET Name : Submit(c, k, reads, names)
      BY <2>1, SubmitLogged
    <2>2. CASE ~\E k \in 1..MaxBatch :
                 /\ count + k <= MaxRecords
                 /\ \E reads \in Entries(k), names \in SUBSET Name : Submit(c, k, reads, names)
      <3>1. UNCHANGED <<count, status, refs, persists, store, unwritten, at>>
        BY <1>1, <2>2 DEF CallOf, OpenClient, Cancel, Release, CloseClient,
                          history, values, running
      <3> QED
        BY <1>0, <3>1, SteadyLogged DEF Logged
    <2> QED
      BY <2>1, <2>2
  <1>2. ASSUME Cascade PROVE Logged'
    <2>1. UNCHANGED <<count, refs, persists, store, unwritten, at>>
      BY <1>2 DEF Cascade, FinishNext, DropNext, history, keeping, values, running
    <2>2. \A r \in Record : status[r] # "none" => status'[r] # "none"
      <3>1. CASE \E job \in todo : FinishNext(job[1], job[2])
        <4>1. PICK job \in todo : FinishNext(job[1], job[2])
          BY <3>1
        <4>2. job[1] \in Record /\ job[2] \in {"failed", "cancelled"}
          BY <1>0 DEF Types
        <4> QED
          BY <1>0, <4>1, <4>2 DEF FinishNext, Types
      <3>2. CASE \E r \in drops : DropNext(r)
        BY <3>2 DEF DropNext, history
      <3> QED
        BY <1>2, <3>1, <3>2 DEF Cascade
    <2> QED
      BY <1>0, <2>1, <2>2, SteadyLogged DEF Logged
  <1>3. ASSUME NEW r \in Record, WorkerStep(r) PROVE Logged'
    <2>1. CASE Start(r)
      <3>1. UNCHANGED <<count, refs, persists, store, status, unwritten>>
        BY <2>1 DEF Start, history, values
      <3>2. at[r] = "idle" /\ \A x \in Record : x # r => at'[x] = at[x]
        BY <1>0, <2>1 DEF Start, Inv, Places, Types
      <3>3. \A x \in Record : unwritten[x] # {} => at'[x] = "writing"
        BY <3>2 DEF Logged
      <3> QED
        BY <1>0, <3>1, <3>3, SteadyLogged DEF Logged
    <2>2. CASE \E names \in SUBSET Name : Return(r, names)
      <3>1. PICK names \in SUBSET Name : Return(r, names)
        BY <2>2
      <3>2. /\ UNCHANGED <<count, refs, persists, store, status>>
            /\ at' = [at EXCEPT ![r] = "writing"]
            /\ unwritten' = [unwritten EXCEPT ![r] = names \cap persists[r]]
        BY <3>1 DEF Return, history, values
      <3>3. \A x \in Record : /\ unwritten'[x] \subseteq persists[x]
                              /\ unwritten'[x] # {} => at'[x] = "writing"
        BY <1>0, <3>2 DEF Logged, Types
      <3> QED
        BY <1>0, <3>2, <3>3, SteadyLogged
    <2>3. CASE Raise(r)
      <3>1. /\ UNCHANGED <<count, refs, persists, store, unwritten>>
            /\ at[r] = "computing" /\ at' = [at EXCEPT ![r] = "idle"] /\ Fail(r)
        BY <2>3 DEF Raise, values
      <3>2. \A x \in Record : status[x] # "none" => status'[x] # "none"
        BY <1>0, <3>1 DEF Fail, Types
      <3>3. \A x \in Record : unwritten[x] # {} => at'[x] = "writing"
        BY <1>0, <3>1 DEF Logged, Types
      <3> QED
        BY <1>0, <3>1, <3>2, <3>3, SteadyLogged DEF Logged
    <2>4. CASE \E n \in Name : Write(r, n)
      <3>1. PICK n \in Name : Write(r, n)
        BY <2>4
      <3>2. /\ UNCHANGED <<count, refs, persists, status, at>>
            /\ at[r] = "writing" /\ n \in unwritten[r]
            /\ store' = store \cup {<<r, n>>}
            /\ unwritten' = [unwritten EXCEPT ![r] = @ \ {n}]
        BY <3>1 DEF Write, history
      <3>3. r <= count /\ n \in persists[r]
        BY <1>0, <3>2 DEF Inv, Fresh, Logged, Types, Record
      <3>4. \A v \in store' : v[2] \in persists[v[1]] /\ v[1] <= count
        BY <3>2, <3>3 DEF Logged
      <3>5. \A x \in Record : /\ unwritten'[x] \subseteq persists[x]
                              /\ unwritten'[x] # {} => at[x] = "writing"
        BY <1>0, <3>2 DEF Logged, Types
      <3> QED
        BY <3>2, <3>4, <3>5 DEF Logged
    <2>5. CASE WriteFails(r)
      <3>1. /\ UNCHANGED <<count, refs, persists, store>>
            /\ at' = [at EXCEPT ![r] = "idle"] /\ Fail(r)
            /\ unwritten' = [unwritten EXCEPT ![r] = {}]
        BY <2>5 DEF WriteFails, values
      <3>2. \A x \in Record : status[x] # "none" => status'[x] # "none"
        BY <1>0, <3>1 DEF Fail, Types
      <3>3. \A x \in Record : /\ unwritten'[x] \subseteq persists[x]
                              /\ unwritten'[x] # {} => at'[x] = "writing"
        BY <1>0, <3>1 DEF Logged, Types
      <3> QED
        BY <1>0, <3>1, <3>2, <3>3, SteadyLogged
    <2>6. CASE Complete(r)
      <3>1. /\ UNCHANGED <<count, refs, persists, store, unwritten>>
            /\ unwritten[r] = {} /\ at' = [at EXCEPT ![r] = "idle"]
        BY <2>6 DEF Complete, AllWritten
      <3>2. \A x \in Record : status[x] # "none" => status'[x] # "none"
        BY <1>0, <2>6 DEF Complete, Types
      <3>3. \A x \in Record : unwritten[x] # {} => at'[x] = "writing"
        BY <1>0, <3>1 DEF Logged, Types
      <3> QED
        BY <1>0, <3>1, <3>2, <3>3, SteadyLogged DEF Logged
    <2> QED
      BY <1>3, <2>1, <2>2, <2>3, <2>4, <2>5, <2>6 DEF WorkerStep
  <1> QED
    BY <1>1, <1>2, <1>3 DEF Next

-----------------------------------------------------------------------------
(* Each step preserves RestartInv. *)

LEMMA InitRestartInv == InitRestart => RestartInv
  <1> SUFFICES ASSUME InitRestart PROVE RestartInv
    OBVIOUS
  <1>1. Base /\ Scheduled
    BY InitInv, BaseInv DEF InitRestart
  <1>2. Logged
    BY DEF InitRestart, Init, Logged
  <1> QED
    BY <1>1, <1>2 DEF RestartInv, InitRestart

LEMMA UpInv ==
  ASSUME RestartInv, Up(Next)
  PROVE  RestartInv'
  <1>1. Inv /\ Logged /\ Next /\ ~restarting /\ UNCHANGED restart
    BY BaseInv DEF RestartInv, Up
  <1>2. Inv'
    BY <1>1, StepInv
  <1>3. Logged'
    BY <1>1, NextLogged
  <1>4. (Base /\ Scheduled)'
    BY <1>2 DEF Inv, Base
  <1> QED
    BY <1>1, <1>3, <1>4 DEF RestartInv, restart

\* What a crash leaves behind is consistent, whatever the backend was doing.
LEMMA CrashInv ==
  ASSUME RestartInv, Crash
  PROVE  RestartInv'
  <1>0. Base /\ Types /\ Logged
    BY DEF RestartInv, Base
  <1>1. /\ UNCHANGED <<count, status, refs, persists, omitted, store>>
        /\ restarting' = TRUE /\ undecided' = Unended /\ runs' = {}
    BY DEF Crash, history, Undecided
  <1>2. Lost'
    BY DEF Crash, Lost
  <1>3. /\ kept' = [c \in Client |-> {}] /\ readers' = [v \in Value |-> 0]
        /\ memory' = {} /\ returned' = [r \in Record |-> {}]
    BY DEF Crash
  <1>4. Types'
    BY <1>0, <1>1, <1>2, <1>3 DEF Types, Lost
  <1>5. Fresh' /\ Places' /\ Waits' /\ Kept' /\ Served'
    BY <1>0, <1>1, <1>2 DEF Base, Fresh, Places, Waits, Kept, Served, Lost
  <1>6. Written'
    BY <1>0, <1>1, <1>2 DEF Base, Written, Lost
  <1>7. ReadersCounted'
    <2> SUFFICES ASSUME NEW v \in Value PROVE readers'[v] = Cardinality(ReadersOf(v)')
      BY DEF ReadersCounted, ReadersOf
    <2>1. ReadersOf(v)' = {}
      BY <1>2 DEF ReadersOf, Lost
    <2> QED
      BY <1>3, <2>1, FS_EmptySet
  <1>8. Logged'
    BY <1>0, <1>1, <1>2 DEF Logged, Lost
  <1>9. Decided'
    <2>1. \A r \in Record : Pending(r)' <=> r \in Unended
      <3> SUFFICES ASSUME NEW r \in Record PROVE status[r] = "pending" <=> r \in Unended
        BY <1>1 DEF Pending
      <3>1. r \in Existing <=> status[r] # "none"
        BY <1>0, RecordsAssumption DEF Base, Fresh, Existing, Types, Record
      <3> QED
        BY <3>1 DEF Unended, Pending
    <2>2. Unended \subseteq Record
      BY <1>0, RecordsAssumption DEF Unended, Existing, Types, Record
    <2> QED
      BY <1>1, <2>1, <2>2 DEF Decided
  <1> QED
    BY <1>1, <1>2, <1>4, <1>5, <1>6, <1>7, <1>8, <1>9 DEF RestartInv, Base

\* A record is cancelled, fails, or runs.
LEMMA DecideInv ==
  ASSUME RestartInv, NEW r \in Record, Decide(r)
  PROVE  RestartInv'
  <1>0. restarting /\ Base /\ Types /\ Logged /\ Lost /\ Decided
    BY DEF RestartInv, Base, Decide
  <1>1. /\ r \in undecided /\ undecided' = undecided \ {r}
        /\ UNCHANGED <<count, refs, persists, omitted, restarting>>
        /\ UNCHANGED <<clients, kept, unread, held, readers, memory, store>>
        /\ UNCHANGED <<waiting, dependents, queued, at, returned, unwritten, todo, drops>>
    BY DEF Decide, keeping, values, running, work
  <1>2. \/ status' = [status EXCEPT ![r] = "cancelled"] /\ runs' = runs
        \/ status' = [status EXCEPT ![r] = "failed"] /\ runs' = runs
        \/ status' = status /\ runs' = runs \cup {r} /\ ~Unreadable(r)
    BY DEF Decide
  <1>3. status[r] = "pending" /\ r \notin runs
    BY <1>0, <1>1 DEF Decided, Pending
  <1>4. /\ status' \in [Record -> Statuses]
        /\ \A x \in Record : status'[x] = "completed" <=> status[x] = "completed"
        /\ \A x \in Record : status'[x] = "none" <=> status[x] = "none"
        /\ \A x \in Record : x # r => status'[x] = status[x]
    BY <1>0, <1>2, <1>3 DEF Types, Statuses
  <1>5. Types'
    BY <1>0, <1>1, <1>4 DEF Types
  <1>6. Lost'
    BY <1>0, <1>1 DEF Lost
  <1>7. Fresh' /\ Places' /\ Waits' /\ Kept' /\ Served'
    BY <1>0, <1>1, <1>4, <1>6 DEF Base, Fresh, Places, Waits, Kept, Served, Lost
  <1>8. Written'
    BY <1>0, <1>1, <1>4, <1>6 DEF Base, Written, Lost
  <1>9. ReadersCounted'
    BY <1>0, <1>1 DEF Base, ReadersCounted
  <1>10. Logged'
    BY <1>0, <1>1, <1>4, SteadyLogged DEF Logged
  <1>11. Decided'
    <2>1. /\ undecided' \subseteq Record /\ runs' \subseteq Record
          /\ undecided' \cap runs' = {}
      BY <1>0, <1>1, <1>2 DEF Decided
    <2>2. \A x \in Record : Pending(x)' <=> x \in undecided' \cup runs'
      BY <1>0, <1>1, <1>2, <1>3 DEF Decided, Pending, Types
    <2>3. ASSUME NEW x \in runs', NEW v \in refs[x]
          PROVE  \/ v[1] \in runs'
                 \/ /\ status'[v[1]] = "completed"
                    /\ v[2] \notin omitted[v[1]]
                    /\ v[2] \in persists[v[1]]
      <3>1. x \in Record /\ v[1] \in Record
        BY <1>0, <2>1 DEF Types, Value
      <3>2. CASE x \in runs
        BY <1>0, <1>2, <1>4, <3>1, <3>2 DEF Decided
      <3>3. CASE x = r /\ ~Unreadable(r)
        BY <1>2, <1>4, <3>1, <3>3 DEF Unreadable
      <3> QED
        BY <1>2, <3>2, <3>3
    <2> QED
      BY <1>1, <2>1, <2>2, <2>3 DEF Decided
  <1> QED
    BY <1>0, <1>1, <1>5, <1>6, <1>7, <1>8, <1>9, <1>10, <1>11 DEF RestartInv, Base

\* What runs is scheduled: it waits for what runs too, and finds the rest in
\* the store.
LEMMA ScheduleInv ==
  ASSUME RestartInv, Schedule
  PROVE  RestartInv'
  <1>0. restarting /\ undecided = {} /\ Base /\ Types /\ Logged /\ Lost /\ Decided
    BY DEF RestartInv, Base, Schedule
  <1>1. /\ UNCHANGED <<count, status, refs, persists, omitted, clients, kept, held>>
        /\ UNCHANGED <<memory, store, at, returned, unwritten, todo, drops, undecided>>
        /\ unread' = [r \in Record |-> IF r \in runs THEN refs[r] ELSE {}]
        /\ readers' = [v \in Value |-> Cardinality({r \in runs : v \in refs[r]})]
        /\ waiting' = [r \in Record |-> IF r \in runs THEN RunsAfter(r) ELSE {}]
        /\ dependents' = [p \in Record |-> {r \in runs : p \in RunsAfter(r)}]
        /\ queued' = {r \in runs : RunsAfter(r) = {}}
        /\ restarting' = FALSE
    BY DEF Schedule, history, values, work
  <1>2. /\ runs \subseteq Record
        /\ \A r \in Record : status[r] = "pending" <=> r \in runs
    BY <1>0 DEF Decided, Pending
  <1>3. \A r \in runs : /\ refs[r] \in SUBSET Value
                        /\ RunsAfter(r) = {v[1] : v \in refs[r]} \cap runs
                        /\ RunsAfter(r) \subseteq Record
    <2> SUFFICES ASSUME NEW r \in runs
                 PROVE  /\ refs[r] \in SUBSET Value
                        /\ RunsAfter(r) = {v[1] : v \in refs[r]} \cap runs
                        /\ RunsAfter(r) \subseteq Record
      OBVIOUS
    <2>1. refs[r] \in SUBSET Value
      BY <1>0, <1>2 DEF Types
    <2>2. \A v \in refs[r] : v[1] \in Record
      BY <2>1 DEF Value
    <2>3. RunsAfter(r) = {p \in {v[1] : v \in refs[r]} : status[p] = "pending"}
      BY DEF RunsAfter, WaitsFor, Producers, Pending
    <2> QED
      BY <1>2, <2>1, <2>2, <2>3
  <1>4. \A r \in Record : held[r] = {} /\ at[r] = "idle"
    BY <1>0 DEF Lost
  <1>5. Types'
    <2>1. readers' \in [Value -> Int]
      <3> SUFFICES ASSUME NEW v \in Value
                   PROVE  Cardinality({r \in runs : v \in refs[r]}) \in Int
        BY <1>1
      <3>1. {r \in runs : v \in refs[r]} \in SUBSET Record
        BY <1>2
      <3> QED
        BY <3>1, Counting
    <2>2. unread' \in [Record -> SUBSET Value] /\ waiting' \in [Record -> SUBSET Record]
      BY <1>1, <1>3
    <2>3. dependents' \in [Record -> SUBSET Record] /\ queued' \subseteq Record
      BY <1>1, <1>2
    <2> QED
      BY <1>0, <1>1, <2>1, <2>2, <2>3 DEF Types
  <1>6. Fresh' /\ Places'
    <2>1. \A r \in Record : r > count => r \notin runs
      BY <1>0, <1>2 DEF Base, Fresh
    <2> QED
      BY <1>0, <1>1, <1>2, <1>4, <2>1 DEF Base, Fresh, Places
  <1>7. \A r \in runs : \A v \in refs[r] :
           \/ v[1] \in RunsAfter(r)
           \/ /\ status[v[1]] = "completed"
              /\ v[2] \notin omitted[v[1]] /\ v[2] \in persists[v[1]]
    BY <1>0, <1>3 DEF Decided
  <1>8. Waits'
    BY <1>1, <1>2, <1>4, <1>7 DEF Waits
  <1>9. Scheduled'
    <2> SUFFICES ASSUME NEW r \in Record
        PROVE  /\ waiting'[r] # {} => status[r] = "pending" /\ at[r] = "idle"
               /\ \A p \in Record : r \in dependents'[p] => p \in waiting'[r] /\ status[p] = "pending"
               /\ \A p \in waiting'[r] : r \in dependents'[p]
               /\ status[r] = "pending" => waiting'[r] # {} \/ r \in queued'
      BY <1>1 DEF Scheduled
    <2>1. waiting'[r] = IF r \in runs THEN RunsAfter(r) ELSE {}
      BY <1>1
    <2>2. \A p \in Record : r \in dependents'[p] <=> r \in runs /\ p \in RunsAfter(r)
      BY <1>1
    <2> QED
      BY <1>1, <1>2, <1>3, <1>4, <2>1, <2>2
  <1>10. Written' /\ Kept'
    BY <1>0, <1>1 DEF Base, Written, Kept
  <1>11. ReadersCounted'
    <2> SUFFICES ASSUME NEW v \in Value
                 PROVE  {r \in runs : v \in refs[r]} = {r \in Record : v \in unread'[r] \cup held[r]}
      BY <1>1 DEF ReadersCounted
    <2> QED
      BY <1>1, <1>2, <1>4
  <1>12. Served'
    <2> SUFFICES ASSUME NEW r \in Record, NEW v \in unread'[r], status[v[1]] = "completed"
                 PROVE  v \in store \/ v[2] \in omitted[v[1]]
      BY <1>1, <1>4 DEF Served
    <2>1. r \in runs /\ v \in refs[r]
      BY <1>1
    <2>2. v[1] \in Record /\ v = <<v[1], v[2]>>
      BY <1>3, <2>1 DEF Value
    <2>3. v[1] \notin runs
      BY <1>2
    <2>4. v[2] \in persists[v[1]] /\ v[2] \notin omitted[v[1]]
      BY <1>3, <1>7, <2>1, <2>3
    <2> QED
      BY <1>0, <2>2, <2>4 DEF Base, Written
  <1>13. Logged'
    BY <1>0, <1>1 DEF Logged
  <1> QED
    BY <1>0, <1>1, <1>5, <1>6, <1>8, <1>9, <1>10, <1>11, <1>12, <1>13 DEF RestartInv, Base

LEMMA RestartStepInv == RestartInv /\ [NextRestart]_allVars => RestartInv'
  <1> SUFFICES ASSUME RestartInv, [NextRestart]_allVars PROVE RestartInv'
    OBVIOUS
  <1>1. CASE UNCHANGED allVars
    <2>1. UNCHANGED <<history, keeping, values, running, work, restart>>
      BY <1>1 DEF allVars, vars
    <2> USE <2>1 DEF history, keeping, values, running, work, restart
    <2>2. Base'
      BY DEF RestartInv, Base, Types, Fresh, Places, Waits, Written, Kept, ReadersCounted, Served
    <2>3. Logged' /\ (restarting' => Lost' /\ Decided')
      BY DEF RestartInv, Logged, Lost, Decided, Pending
    <2>4. ~restarting' => Scheduled' /\ undecided' = {}
      BY DEF RestartInv, Scheduled
    <2> QED
      BY <2>2, <2>3, <2>4 DEF RestartInv
  <1> QED
    BY <1>1, UpInv, CrashInv, DecideInv, ScheduleInv DEF NextRestart

LEMMA RestartInvHolds == SpecRestart => []RestartInv
  BY InitRestartInv, RestartStepInv, PTL DEF SpecRestart

-----------------------------------------------------------------------------
(* What is needed *)

\* Both recursive functions over the records are least fixed points, so there
\* is a function that satisfies each of their definitions.
LEMMA IsNeededIs ==
  ASSUME count \in 0..MaxRecords
  PROVE  /\ DOMAIN IsNeeded = Record
         /\ \A r \in Record :
               IsNeeded[r] <=> /\ r \in Unended
                               /\ \/ persists[r] # {}
                                  \/ \E d \in (r + 1)..count :
                                        r \in Producers(refs[d]) /\ IsNeeded[d]
  <1> DEFINE By(r, f) == /\ r \in Unended
                         /\ \/ persists[r] # {}
                            \/ \E d \in (r + 1)..count : r \in Producers(refs[d]) /\ f[d]
             In(r, S) == /\ r \in Unended
                         /\ \/ persists[r] # {}
                            \/ \E d \in (r + 1)..count : r \in Producers(refs[d]) /\ d \in S
             Closed(S) == \A r \in Record : In(r, S) => r \in S
             Least == {r \in Record : \A S \in SUBSET Record : Closed(S) => r \in S}
             f0 == [r \in Record |-> r \in Least]
  <1>1. ASSUME NEW r \in Record, In(r, Least) PROVE r \in Least
    <2> SUFFICES ASSUME NEW S \in SUBSET Record, Closed(S) PROVE r \in S
      OBVIOUS
    <2>1. Least \subseteq S
      OBVIOUS
    <2>2. In(r, S)
      BY <1>1, <2>1
    <2> QED
      BY <2>2
  <1>2. ASSUME NEW r \in Least PROVE In(r, Least)
    <2> DEFINE S == {x \in Record : In(x, Least)}
    <2>1. S \subseteq Least
      BY <1>1
    <2>2. Closed(S)
      <3> SUFFICES ASSUME NEW x \in Record, In(x, S) PROVE In(x, Least)
        OBVIOUS
      <3> HIDE DEF S, Least
      <3> QED
        BY <2>1
    <2>3. r \in S
      BY <2>2
    <2> QED
      BY <2>3
  <1>3. \A r \in Record : \A d \in (r + 1)..count : d \in Record
    BY RecordsAssumption DEF Record
  <1>4. f0 = [r \in Record |-> By(r, f0)]
    <2>1. \A r \in Record : r \in Least <=> In(r, Least)
      BY <1>1, <1>2
    <2>2. \A r \in Record : \A d \in (r + 1)..count : f0[d] <=> d \in Least
      <3> HIDE DEF Least
      <3> QED
        BY <1>3
    <2>3. f0 = [r \in Record |-> r \in Least]
      OBVIOUS
    <2> HIDE DEF Least, f0
    <2>4. ASSUME NEW r \in Record PROVE r \in Least <=> By(r, f0)
      <3>1. (\E d \in (r + 1)..count : r \in Producers(refs[d]) /\ d \in Least)
            <=> \E d \in (r + 1)..count : r \in Producers(refs[d]) /\ f0[d]
        BY <2>2, Zenon
      <3> QED
        BY <2>1, <3>1, Zenon
    <2>5. ASSUME NEW r \in Record PROVE (r \in Least) = By(r, f0)
      <3>1. CASE r \in Least
        <4>1. By(r, f0) = TRUE /\ (r \in Least) = TRUE
          BY <2>4, <3>1
        <4> QED
          BY <4>1
      <3>2. CASE r \notin Least
        <4>1. By(r, f0) = FALSE /\ (r \in Least) = FALSE
          BY <2>4, <3>2
        <4> QED
          BY <4>1
      <3> QED
        BY <3>1, <3>2
    <2> HIDE DEF By
    <2> QED
      BY <2>3, <2>5
  <1>5. IsNeeded = [r \in Record |-> By(r, IsNeeded)]
    <2> HIDE DEF f0
    <2> QED
      BY <1>4 DEF IsNeeded
  <1> QED
    BY <1>5

LEMMA UpstreamIs ==
  ASSUME Types
  PROVE  \A d \in Record :
            Upstream[d] = IF d \in Unended
                          THEN Producers(refs[d]) \cup UNION {Upstream[p] : p \in Producers(refs[d])}
                          ELSE {}
  <1> DEFINE By(d, f) == IF d \in Unended
                         THEN Producers(refs[d]) \cup UNION {f[p] : p \in Producers(refs[d])}
                         ELSE {}
             Reads(d, r, R) == /\ d \in Unended
                               /\ \/ r \in Producers(refs[d])
                                  \/ \E p \in Producers(refs[d]) : <<p, r>> \in R
             Closed(R) == \A d, r \in Record : Reads(d, r, R) => <<d, r>> \in R
             Least == {e \in Record \X Record :
                          \A R \in SUBSET (Record \X Record) : Closed(R) => e \in R}
             f0 == [d \in Record |-> {r \in Record : <<d, r>> \in Least}]
  <1>0. \A d \in Record : Producers(refs[d]) \subseteq Record
    BY DEF Types, Producers, Value
  <1>1. ASSUME NEW d \in Record, NEW r \in Record, Reads(d, r, Least) PROVE <<d, r>> \in Least
    <2> SUFFICES ASSUME NEW R \in SUBSET (Record \X Record), Closed(R) PROVE <<d, r>> \in R
      OBVIOUS
    <2>1. Least \subseteq R
      OBVIOUS
    <2>2. Reads(d, r, R)
      <3> HIDE DEF Least, Closed
      <3> QED
        BY <1>1, <2>1
    <2> QED
      BY <2>2
  <1>2. ASSUME NEW d \in Record, NEW r \in Record, <<d, r>> \in Least PROVE Reads(d, r, Least)
    <2> DEFINE R == {e \in Record \X Record : Reads(e[1], e[2], Least)}
    <2>1. R \subseteq Least
      <3>1. ASSUME NEW e \in R PROVE e \in Least
        <4>1. PICK x \in Record, y \in Record : e = <<x, y>>
          BY <3>1
        <4> HIDE DEF Least
        <4>2. Reads(x, y, Least)
          BY <3>1, <4>1
        <4> QED
          BY <1>1, <4>1, <4>2
      <3> QED
        BY <3>1
    <2>2. Closed(R)
      <3> SUFFICES ASSUME NEW x \in Record, NEW y \in Record, Reads(x, y, R) PROVE Reads(x, y, Least)
        OBVIOUS
      <3> HIDE DEF R, Least
      <3> QED
        BY <2>1
    <2>3. <<d, r>> \in R
      <3>1. R \in SUBSET (Record \X Record)
        OBVIOUS
      <3> HIDE DEF R, Closed
      <3> QED
        BY <1>2, <2>2, <3>1
    <2> QED
      BY <2>3
  <1>3. f0 = [d \in Record |-> By(d, f0)]
    <2> SUFFICES ASSUME NEW d \in Record PROVE f0[d] = By(d, f0)
      OBVIOUS
    <2>1. \A p, r \in Record : r \in f0[p] <=> <<p, r>> \in Least
      <3> HIDE DEF Least
      <3> QED
        OBVIOUS
    <2>2. \A r \in Record : <<d, r>> \in Least <=> Reads(d, r, Least)
      BY <1>1, <1>2
    <2>3. \A p \in Record : f0[p] \subseteq Record
      OBVIOUS
    <2> HIDE DEF Least, f0
    <2>4. ASSUME NEW r PROVE r \in f0[d] <=> r \in By(d, f0)
      <3>1. r \in By(d, f0) => r \in Record
        BY <1>0, <2>3
      <3>2. CASE r \in Record
        <4>1. r \in f0[d] <=> Reads(d, r, Least)
          BY <2>1, <2>2, <3>2
        <4>2. \A p \in Producers(refs[d]) : r \in f0[p] <=> <<p, r>> \in Least
          BY <1>0, <2>1, <3>2
        <4> QED
          BY <4>1, <4>2
      <3> QED
        BY <2>3, <3>1, <3>2
    <2> QED
      BY <2>4
  <1>4. Upstream = [d \in Record |-> By(d, Upstream)]
    <2> HIDE DEF f0
    <2> QED
      BY <1>3 DEF Upstream
  <1> QED
    BY <1>4

\* While a backend starts, it holds for needed what persisted work needs: what
\* persists, and what is read by what is needed.
Wanted ==
    restarting =>
        /\ \A r \in Record : Pending(r) /\ persists[r] # {} => r \in needed
        /\ \A d \in Record : Pending(d) /\ d \in needed =>
              \A p \in Producers(refs[d]) : Pending(p) => p \in needed

LEMMA CrashWanted ==
  ASSUME RestartInv, Crash
  PROVE  Wanted'
  <1>1. Types /\ Fresh /\ Logged
    BY DEF RestartInv, Base
  <1>2. UNCHANGED <<count, status, refs, persists>> /\ needed' = Needed
    BY DEF Crash, history
  <1>3. count \in 0..MaxRecords /\ \A d \in Record : refs[d] \subseteq Value
    BY <1>1 DEF Types
  <1>4. \A r \in Record : r \in Needed <=> IsNeeded[r]
    BY DEF Needed
  <1>5. \A r \in Record : Pending(r) <=> r \in Unended
    BY <1>1, RecordsAssumption DEF Fresh, Existing, Types, Record, Unended, Pending
  <1>6. ASSUME NEW r \in Record, Pending(r), persists[r] # {} PROVE r \in Needed
    BY <1>3, <1>4, <1>5, <1>6, IsNeededIs
  <1>7. ASSUME NEW d \in Record, Pending(d), d \in Needed, NEW p \in Producers(refs[d]), Pending(p)
        PROVE  p \in Needed
    <2>1. p \in Record /\ p < d
      BY <1>1, <1>3 DEF Logged, Producers, Value
    <2>2. d \in (p + 1)..count
      BY <1>3, <1>5, <1>7, <2>1, RecordsAssumption DEF Unended, Existing, Record
    <2> QED
      BY <1>3, <1>4, <1>5, <1>7, <2>1, <2>2, IsNeededIs
  <1> QED
    BY <1>2, <1>6, <1>7 DEF Wanted, Pending

LEMMA StepWanted ==
  ASSUME RestartInv, Wanted, [NextRestart]_allVars
  PROVE  Wanted'
  <1>1. CASE UNCHANGED allVars
    BY <1>1 DEF allVars, vars, history, restart, Wanted, Pending
  <1>2. CASE Up(Next)
    BY <1>2 DEF Up, restart, Wanted
  <1>3. CASE Crash
    BY <1>3, CrashWanted
  <1>4. CASE \E r \in Record : Decide(r)
    <2>1. PICK r \in Record : Decide(r)
      BY <1>4
    <2>2. status \in [Record -> Statuses] /\ \A d \in Record : Producers(refs[d]) \subseteq Record
      BY DEF RestartInv, Base, Types, Producers, Value
    <2>3. UNCHANGED <<refs, persists, needed, restarting>>
      BY <2>1 DEF Decide
    <2>4. \A x \in Record : Pending(x)' => Pending(x)
      BY <2>1, <2>2 DEF Decide, Pending
    <2> QED
      BY <2>2, <2>3, <2>4 DEF Wanted
  <1>5. CASE Schedule
    BY <1>5 DEF Schedule, Wanted
  <1> QED
    BY <1>1, <1>2, <1>3, <1>4, <1>5 DEF NextRestart

\* What a record that is needed reads, however far upstream, is needed.
LEMMA UpstreamNeeded ==
  ASSUME RestartInv, Wanted, restarting, NEW r \in Record, Pending(r), r \notin needed
  PROVE  \A d \in Unended : d \in needed => r \notin Upstream[d]
  <1> DEFINE bad == {d \in Record : d \in Unended /\ d \in needed /\ r \in Upstream[d]}
             Less == {ss \in Nat \X Nat : ss[1] < ss[2]}
  <1>1. Types /\ Logged /\ Unended \subseteq Record /\ bad \subseteq Nat
    BY RecordsAssumption DEF RestartInv, Base, Types, Unended, Existing, Record
  <1>2. SUFFICES ASSUME bad # {} PROVE FALSE
    BY <1>1
  <1>3. PICK d \in bad : \A l \in bad : ~(l < d)
    <2>1. IsWellFoundedOn(Less, Nat)
      BY NatLessThanWellFounded, Zenon DEF OpToRel
    <2> HIDE DEF bad, Less
    <2>2. \E m \in bad : \A l \in bad : ~(<<l, m>> \in Less)
      BY <1>1, <1>2, <2>1, WFMin, Zenon
    <2> QED
      BY <1>1, <2>2 DEF Less
  <1>4. d \in Record /\ Pending(d) /\ d \in needed /\ d \in Unended
    BY DEF Unended
  <1>5. r \in Producers(refs[d]) \cup UNION {Upstream[p] : p \in Producers(refs[d])}
    BY <1>1, <1>4, UpstreamIs
  <1>6. r \notin Producers(refs[d])
    BY <1>4 DEF Wanted
  <1>7. PICK p \in Producers(refs[d]) : r \in Upstream[p]
    BY <1>5, <1>6
  <1>8. p \in Record /\ p < d
    BY <1>1, <1>4 DEF Logged, Types, Producers, Value
  <1>9. p \in Unended
    BY <1>1, <1>7, <1>8, UpstreamIs
  <1>10. p \in needed
    BY <1>4, <1>8, <1>9 DEF Wanted, Unended
  <1> QED
    BY <1>3, <1>7, <1>8, <1>9, <1>10

-----------------------------------------------------------------------------
(* The theorems *)

LEMMA StepRestart == SpecRestart => [][RestartInv /\ NextRestart]_allVars
  BY RestartInvHolds, PTL DEF SpecRestart

\* However often the backend crashes, a record finds what it references when
\* its workflow runs: what a restart lets run reads only what runs too, or
\* what was written.
THEOREM ServesReadersUp == SpecRestart => []ReadsServed
  <1>1. RestartInv => ReadsServed
    BY DEF RestartInv, Base, Served, Waits, ReadsServed
  <1> QED
    BY <1>1, RestartInvHolds, PTL

\* A client of the backend that restarted never meets a missing value where
\* the read rule lets it read.
THEOREM ReadsSucceedUp == SpecRestart => []ReadableIsThere
  <1>1. RestartInv => ReadableIsThere
    <2> SUFFICES ASSUME RestartInv, NEW c \in clients, NEW v \in Value,
                        MayRead(c, v), status[v[1]] = "completed"
                 PROVE  IF v[1] \in kept[c] THEN v \in memory ELSE v \in store
      BY DEF ReadableIsThere
    <2>1. v[1] \in Record /\ v[2] \in Name /\ v = <<v[1], v[2]>>
      BY DEF Value
    <2>2. Kept /\ Written
      BY DEF RestartInv, Base
    <2>3. CASE v[1] \in kept[c]
      BY <2>1, <2>2, <2>3 DEF Kept, MayRead
    <2>4. CASE v[1] \notin kept[c]
      BY <2>1, <2>2, <2>4 DEF Written, MayRead
    <2> QED
      BY <2>3, <2>4
  <1> QED
    BY <1>1, RestartInvHolds, PTL

\* A backend that is up after any number of crashes has forgotten no pending
\* record: each is queued, with a worker, or waits for a pending one.
THEOREM ForgetsNoneUp == SpecRestart => []NoneForgottenUp
  <1>1. RestartInv => NoneForgottenUp
    BY BaseInv, InvForgetsNone DEF RestartInv, NoneForgottenUp
  <1> QED
    BY <1>1, RestartInvHolds, PTL

\* A record finishes once over all crashes: no step of a worker, of a cancel
\* that races it, or of a restart says otherwise of one that has finished.
THEOREM FinishesOnceEver == SpecRestart => FinishesOnce
  <1> DEFINE Ended(r) == status[r] \in {"completed", "failed", "cancelled"}
  <1>1. ASSUME RestartInv, NextRestart, NEW r \in Record, Ended(r)
        PROVE  status'[r] = status[r] /\ omitted'[r] = omitted[r]
    <2>0. Types /\ Fresh
      BY <1>1 DEF RestartInv, Base
    <2>1. CASE Up(Next)
      <3>1. CASE \E c \in Client : CallOf(c)
        <4>1. PICK c \in Client : CallOf(c)
          BY <3>1
        <4>2. CASE \E k \in 1..MaxBatch :
                     /\ count + k <= MaxRecords
                     /\ \E reads \in Entries(k), names \in SUBSET Name :
                           Submit(c, k, reads, names)
          <5>1. PICK k \in 1..MaxBatch, names \in SUBSET Name :
                       \E reads \in Entries(k) : Submit(c, k, reads, names)
            BY <4>2
          <5>2. r \notin New(k)
            BY <1>1, <2>0, RecordsAssumption DEF Fresh, Types, New, Record
          <5> QED
            BY <5>1, <5>2 DEF Submit, Accept
        <4>3. CASE UNCHANGED history
          BY <4>3 DEF history
        <4> QED
          BY <4>1, <4>2, <4>3 DEF CallOf, OpenClient, Cancel, Release, CloseClient
      <3>2. CASE Cascade
        BY <1>1, <2>0, <3>2
           DEF Cascade, FinishNext, DropNext, Pending, Types, history
      <3>3. CASE \E x \in Record : WorkerStep(x)
        <4>1. PICK x \in Record : WorkerStep(x)
          BY <3>3
        <4>2. CASE Start(x) \/ (\E n \in Name : Write(x, n))
                     \/ \E names \in SUBSET Name : Return(x, names)
          BY <4>2 DEF Start, Write, Return, history
        <4>3. CASE Raise(x) \/ WriteFails(x)
          <5>1. Fail(x) /\ omitted' = omitted
            BY <4>3 DEF Raise, WriteFails
          <5> QED
            BY <1>1, <2>0, <5>1 DEF Fail, Pending, Types
        <4>4. CASE Complete(x)
          BY <1>1, <2>0, <4>4 DEF Complete, Pending, Types
        <4> QED
          BY <4>1, <4>2, <4>3, <4>4 DEF WorkerStep
      <3> QED
        BY <2>1, <3>1, <3>2, <3>3 DEF Up, Next
    <2>2. CASE Crash \/ Schedule
      BY <2>2 DEF Crash, Schedule, history
    <2>3. CASE \E x \in Record : Decide(x)
      <3>1. PICK x \in Record : Decide(x)
        BY <2>3
      <3>2. Pending(x)
        BY <1>1, <3>1 DEF RestartInv, Decided, Decide
      <3> QED
        BY <1>1, <2>0, <3>1, <3>2 DEF Decide, Pending, Types
    <2> QED
      BY <1>1, <2>1, <2>2, <2>3 DEF NextRestart
  <1>2. ASSUME [RestartInv /\ NextRestart]_allVars
        PROVE  [\A r \in Record :
                  status[r] \in {"completed", "failed", "cancelled"} =>
                      status'[r] = status[r] /\ omitted'[r] = omitted[r]]_allVars
    BY <1>1, <1>2
  <1> QED
    BY <1>2, StepRestart, PTL DEF FinishesOnce

\* A restart, which looks at the log alone, fails a record only if a value the
\* record reads is gone: what the log does not promise is in no store either.
THEOREM FailsOnlyLost == SpecRestart => FailsOnlyWhatIsLost
  <1>1. ASSUME RestartInv, NextRestart, NEW r \in Record,
               restarting, Pending(r), status'[r] = "failed"
        PROVE  \E v \in refs[r] : Gone(v)
    <2>0. Types /\ Logged /\ Decided
      BY <1>1 DEF RestartInv, Base
    <2>1. PICK x \in Record : Decide(x)
      BY <1>1 DEF NextRestart, Up, Crash, Schedule, history, Pending
    <2>2. x = r /\ Unreadable(r)
      BY <1>1, <2>0, <2>1 DEF Decide, Pending, Types
    <2>3. PICK v \in refs[r] : /\ v[1] \notin runs
                               /\ \/ status[v[1]] # "completed"
                                  \/ v[2] \in omitted[v[1]]
                                  \/ v[2] \notin persists[v[1]]
      BY <2>2 DEF Unreadable
    <2>4. v[1] \in Record /\ v[1] < r /\ status[v[1]] \in Statuses \ {"none"}
      BY <2>0 DEF Types, Logged, Value
    <2>5. v[1] \notin undecided
      BY <2>1, <2>2, <2>4 DEF Decide, Record
    <2>6. ~Pending(v[1])
      BY <2>0, <2>3, <2>4, <2>5 DEF Decided
    <2>7. v[2] \notin persists[v[1]] => v \notin store
      BY <2>0 DEF Logged
    <2> QED
      BY <2>3, <2>4, <2>6, <2>7 DEF Gone, Pending, Statuses
  <1>2. ASSUME [RestartInv /\ NextRestart]_allVars
        PROVE  [\A r \in Record :
                  restarting /\ Pending(r) /\ status'[r] = "failed" =>
                      \E v \in refs[r] : Gone(v)]_allVars
    BY <1>1, <1>2
  <1> QED
    BY <1>2, StepRestart, PTL DEF FailsOnlyWhatIsLost

\* A restart cancels no record that pending persisted work reads, however long the
\* chain of pending records between them, and whatever fails before it.
THEOREM CancelsOnlyWhatIsUnneeded == SpecRestart => CancelsOnlyUnneeded
  <1>1. ASSUME RestartInv, Wanted, NextRestart, NEW r \in Record,
               restarting, Pending(r), status'[r] = "cancelled"
        PROVE  /\ persists[r] = {}
               /\ \A d \in Unended : persists[d] # {} => r \notin Upstream[d]
    <2>0. Types /\ Decided /\ Unended \subseteq Record
      BY <1>1, RecordsAssumption DEF RestartInv, Base, Types, Unended, Existing, Record
    <2>1. PICK x \in Record : Decide(x)
      BY <1>1 DEF NextRestart, Up, Crash, Schedule, history, Pending
    <2>2. x = r /\ r \notin needed
      BY <1>1, <2>0, <2>1 DEF Decide, Pending, Types
    <2>3. persists[r] = {}
      BY <1>1, <2>2 DEF Wanted
    <2>4. \A d \in Unended : persists[d] # {} => d \in needed
      BY <1>1, <2>0 DEF Wanted, Unended
    <2> QED
      BY <1>1, <2>2, <2>3, <2>4, UpstreamNeeded
  <1>2. InitRestart => Wanted
    BY DEF InitRestart, Wanted
  <1>3. SpecRestart => []Wanted
    BY <1>2, StepWanted, RestartInvHolds, PTL DEF SpecRestart
  <1>4. ASSUME [RestartInv /\ NextRestart]_allVars, Wanted
        PROVE  [\A r \in Record :
                  restarting /\ Pending(r) /\ status'[r] = "cancelled" =>
                      /\ persists[r] = {}
                      /\ \A d \in Unended : persists[d] # {} => r \notin Upstream[d]]_allVars
    BY <1>1, <1>4
  <1> QED
    BY <1>3, <1>4, StepRestart, PTL DEF CancelsOnlyUnneeded

\* Values that nothing keeps are dropped by a backend that restarted as by any: a
\* crash leaves none in memory, and what runs again brings back none but those that
\* are kept or read.
THEOREM KeepsNothingUnkeptUp == SpecRestart => []NothingUnkept
  <1> DEFINE Emptied == restarting => memory = {}
  <1>1. InitRestart => ValuesInv /\ Emptied
    BY DEF InitRestart, Init, ValuesInv, MemoryCompleted, UnkeptDue
  <1>2. ASSUME RestartInv, RestartInv', ValuesInv, Emptied, [NextRestart]_allVars
        PROVE  ValuesInv' /\ Emptied'
    <2>1. CASE UNCHANGED allVars
      <3>1. UNCHANGED vars /\ restarting' = restarting
        BY <2>1 DEF allVars, restart
      <3>2. UNCHANGED <<status, clients, kept, readers, memory, drops>>
        BY <3>1 DEF vars, history, keeping, values, work
      <3>3. \A x : KeptBySome(x)' <=> KeptBySome(x)
        BY <3>2 DEF KeptBySome
      <3> QED
        BY <1>2, <3>1, <3>2, <3>3 DEF ValuesInv, MemoryCompleted, UnkeptDue
    <2>2. CASE Up(Next)
      <3>1. Inv /\ Next /\ ~restarting /\ ~restarting'
        BY <1>2, <2>2, BaseInv DEF RestartInv, Up, restart
      <3>2. Inv'
        BY <3>1, StepInv
      <3>3. (Inv => Numbered)'
        BY InvNumbered, PTL
      <3>4. DueKept
        BY <3>1, <3>2, <3>3, InvNumbered, KeepersStep
      <3> QED
        BY <1>2, <3>1, <3>4 DEF DueKept
    <2>3. CASE Crash
      BY <2>3 DEF Crash, ValuesInv, MemoryCompleted, UnkeptDue
    <2>4. CASE (\E r \in Record : Decide(r)) \/ Schedule
      <3>1. memory = {} /\ memory' = memory
        BY <1>2, <2>4 DEF Decide, Schedule, RestartInv, values, Decided
      <3> QED
        BY <3>1 DEF ValuesInv, MemoryCompleted, UnkeptDue
    <2> QED
      BY <1>2, <2>1, <2>2, <2>3, <2>4 DEF NextRestart
  <1>3. ValuesInv => NothingUnkept
    BY DEF ValuesInv, UnkeptDue, NothingUnkept, Locked
  <1> QED
    BY <1>1, <1>2, <1>3, RestartInvHolds, PTL DEF SpecRestart

=============================================================================
