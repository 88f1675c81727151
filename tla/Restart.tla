------------------------------ MODULE Restart ------------------------------
(***************************************************************************)
(* Crashes of the backend, and the restart of a new one from its log       *)
(* (essapps, backend.py, Backend.__init__ and Backend._restart).           *)
(*                                                                         *)
(* The history of module Records is what the log holds, one event for each *)
(* submission and each finish, so a crash may fall between any two finishes*)
(* of one cascade, or between two finishes of a restart.  The store        *)
(* survives as well; everything else is lost.  The backend that starts     *)
(* decides every record left pending, one after the other in the order     *)
(* submitted, and then schedules at once those that run.  It holds the     *)
(* lock from its first line to its last, so that nothing else happens.     *)
(***************************************************************************)
EXTENDS Records

CONSTANT MaxCrashes  \* bound: crashes in all

ASSUME RestartAssumption == MaxCrashes \in Nat

VARIABLES
    crashes,     \* crashes so far
    restarting,  \* whether a backend is starting
    undecided,   \* the pending records it has yet to decide
    needed,      \* those that persisted work needs
    runs         \* those that run

restart == <<crashes, restarting, undecided, needed, runs>>
allVars == <<vars, restart>>

InitRestart ==
    /\ Init
    /\ crashes = 0
    /\ restarting = FALSE
    /\ undecided = {}
    /\ needed = {}
    /\ runs = {}

\* The pending records that persist outputs, or that one that is needed reads:
\* one pass over the records, the last one first.
\* Mutant: only what persisted work reads directly.
Needed_Direct ==
    {r \in Unended : \/ persists[r] # {}
                     \/ \E d \in Unended : persists[d] # {} /\ r \in Producers(refs[d])}
IsNeeded[r \in Record] ==
    /\ r \in Unended
    /\ \/ persists[r] # {}
       \/ \E d \in (r + 1)..count : r \in Producers(refs[d]) /\ IsNeeded[d]
Needed == {r \in Record : IsNeeded[r]}

\* The records a restart decides.
\* Mutants: only what persists; every record.
Undecided_Persisted == {r \in Unended : persists[r] # {}}
Undecided_All == Existing
Undecided == Unended

\* The backend stops without warning, and a new one starts from its log.
Crash ==
    /\ crashes < MaxCrashes
    /\ crashes' = crashes + 1
    /\ clients' = {}
    /\ kept' = [c \in Client |-> {}]
    /\ unread' = [r \in Record |-> {}]
    /\ held' = [r \in Record |-> {}]
    /\ readers' = [v \in Value |-> 0]
    /\ memory' = {}
    /\ waiting' = [r \in Record |-> {}]
    /\ dependents' = [r \in Record |-> {}]
    /\ queued' = {}
    /\ at' = [r \in Record |-> "idle"]
    /\ returned' = [r \in Record |-> {}]
    /\ unwritten' = [r \in Record |-> {}]
    /\ todo' = {}
    /\ drops' = {}
    /\ restarting' = TRUE
    /\ undecided' = Undecided
    /\ needed' = Needed
    /\ runs' = {}
    /\ UNCHANGED <<history, store>>

\* Why a record cannot run: it reads what is neither persisted nor an output
\* of a record that runs.
\* Mutant: what a running record will return does not count.
Unreadable_Runs(r) ==
    \E v \in refs[r] :
        \/ status[v[1]] # "completed"
        \/ v[2] \in omitted[v[1]]
        \/ v[2] \notin persists[v[1]]
Unreadable(r) ==
    \E v \in refs[r] :
        /\ v[1] \notin runs
        /\ \/ status[v[1]] # "completed"
           \/ v[2] \in omitted[v[1]]
           \/ v[2] \notin persists[v[1]]

\* Decide the earliest record left: it is cancelled, fails, or runs.
Decide(r) ==
    /\ r \in undecided
    /\ \A d \in undecided : r <= d
    /\ undecided' = undecided \ {r}
    /\ \/ /\ r \notin needed
          /\ status' = [status EXCEPT ![r] = "cancelled"]
          /\ UNCHANGED runs
       \/ /\ r \in needed
          /\ Unreadable(r)
          /\ status' = [status EXCEPT ![r] = "failed"]
          /\ UNCHANGED runs
       \/ /\ r \in needed
          /\ ~Unreadable(r)
          /\ runs' = runs \cup {r}
          /\ UNCHANGED status
    /\ UNCHANGED <<count, refs, persists, omitted, keeping, values, running, work,
                   crashes, restarting, needed>>

\* Schedule the records that run; the backend is up.
RunsAfter(r) == WaitsFor(refs[r])
Schedule ==
    /\ restarting
    /\ undecided = {}
    /\ unread' = [r \in Record |-> IF r \in runs THEN refs[r] ELSE {}]
    /\ readers' = [v \in Value |-> Cardinality({r \in runs : v \in refs[r]})]
    /\ waiting' = [r \in Record |-> IF r \in runs THEN RunsAfter(r) ELSE {}]
    /\ dependents' = [p \in Record |-> {r \in runs : p \in RunsAfter(r)}]
    /\ queued' = {r \in runs : RunsAfter(r) = {}}
    /\ restarting' = FALSE
    /\ needed' = {}
    /\ runs' = {}
    /\ UNCHANGED <<history, clients, kept, held, values, at, returned, unwritten,
                   work, crashes, undecided>>

\* What the backend does once it is up.
Up(A) == ~restarting /\ A /\ UNCHANGED restart

NextRestart ==
    \/ Up(Next)
    \/ Crash
    \/ \E r \in Record : Decide(r)
    \/ Schedule

\* A backend that starts gets to its end.  Crashes are few (MaxCrashes), and
\* between them the fairness is that of Records.
FairnessRestart ==
    /\ WF_allVars(Up(Cascade))
    /\ \A r \in Record : WF_allVars(Up(WorkerStep(r)))
    /\ WF_allVars(Schedule \/ \E r \in Record : Decide(r))

SpecRestart == InitRestart /\ [][NextRestart]_allVars
FairSpecRestart == SpecRestart /\ FairnessRestart

-----------------------------------------------------------------------------
(* What makes this correct, beside the properties of Records *)

\* A backend that is up has forgotten no pending record, whatever the one
\* before it was doing when it crashed.
NoneForgottenUp == ~restarting => NoneForgotten

\* A record finishes once, over all crashes: what the log says of it is never
\* said again otherwise, though its workflow may run again.
FinishesOnce ==
    [][\A r \in Record :
          status[r] \in {"completed", "failed", "cancelled"} =>
              status'[r] = status[r] /\ omitted'[r] = omitted[r]]_allVars

\* A value that is never to be had again: its record ended without it, or it
\* is not in the store.
Gone(v) ==
    \/ status[v[1]] \in {"failed", "cancelled"}
    \/ status[v[1]] = "completed" /\ (v \notin store \/ v[2] \in omitted[v[1]])

\* A restart gives up only what is lost: it fails a record only if a value it
\* reads is gone, for which it looks at the log alone and not at the store.
FailsOnlyWhatIsLost ==
    [][\A r \in Record :
          restarting /\ Pending(r) /\ status'[r] = "failed" =>
              \E v \in refs[r] : Gone(v)]_allVars

\* The records a pending record waits for in the end, through others.
Upstream[d \in Record] ==
    IF d \in Unended
    THEN Producers(refs[d]) \cup UNION {Upstream[p] : p \in Producers(refs[d])}
    ELSE {}

\* A restart cancels no record that pending persisted work reads, however far
\* down a chain of pending records.
CancelsOnlyUnneeded ==
    [][\A r \in Record :
          restarting /\ Pending(r) /\ status'[r] = "cancelled" =>
              /\ persists[r] = {}
              /\ \A d \in Unended : persists[d] # {} => r \notin Upstream[d]]_allVars

\* Every record that stays pending over a restart finishes, as any other.
EveryRecordFinishesUp ==
    \A r \in Record : Pending(r) ~> status[r] \in {"completed", "failed", "cancelled"}

\* What protocol.py says of pending work (lines 37-38), for a backend that is
\* up: "Work that nothing would keep is cancelled".  A restart does not do so:
\* it looks for what needs a record before it fails what needed it.
NoOrphansUp == ~restarting => NoOrphans

=============================================================================
