------------------------------- MODULE Stages -------------------------------
(***************************************************************************)
(* Stages (essapps, backend.py: _Stage, open_stage, _staged): a template's *)
(* values, of which the first call to run makes a callable, once, outside  *)
(* the backend's lock and under a lock of the stage's own.                 *)
(*                                                                         *)
(* A stage keeps what its template references, as a reader, until it has   *)
(* staged, staging has failed, or its client releases it.  A call is a     *)
(* record of module Records: until the stage has staged it reads all its   *)
(* request references, and afterwards only what its blanks reference.      *)
(***************************************************************************)
EXTENDS Records

CONSTANTS Stage,       \* the stages; each is opened once
          Persistable  \* the outputs clients persist: none without a store

ASSUME StagesAssumption == IsFiniteSet(Stage) /\ Persistable \subseteq Name

VARIABLES
    stages,    \* the stages each client keeps
    fixed,     \* the values a stage's template references
    keeps,     \* those the stage keeps as a reader
    staged,    \* how far a stage is
    staging,   \* the record whose worker holds the stage's lock, if any
    through    \* the calls of a stage

stageVars == <<stages, fixed, keeps, staged, staging, through>>
allVars == <<vars, stageVars>>

InitStages ==
    /\ Init
    /\ stages = [c \in Client |-> {}]
    /\ fixed = [s \in Stage |-> {}]
    /\ keeps = [s \in Stage |-> {}]
    /\ staged = [s \in Stage |-> "unknown"]
    /\ staging = [s \in Stage |-> {}]
    /\ through = [s \in Stage |-> {}]

-----------------------------------------------------------------------------
(* Calls of clients *)

\* A client opens a stage with a template that references vs.
OpenStage(c, s, vs) ==
    /\ ~Locked
    /\ c \in clients
    /\ staged[s] = "unknown"
    /\ \A v \in vs : MayRead(c, v)
    /\ stages' = [stages EXCEPT ![c] = @ \cup {s}]
    /\ fixed' = [fixed EXCEPT ![s] = vs]
    /\ keeps' = [keeps EXCEPT ![s] = vs]
    /\ readers' = [v \in Value |-> IF v \in vs THEN readers[v] + 1 ELSE readers[v]]
    /\ staged' = [staged EXCEPT ![s] = "open"]
    /\ UNCHANGED <<history, clients, kept, unread, held, values, running, work,
                   staging, through>>

\* What a call reads for the template's sake.
\* Mutant: nothing, for the stage keeps it.
FixedPart_None(s) == {}
FixedPart(s) == IF staged[s] = "staged" THEN {} ELSE fixed[s]

\* The read rule for a call: what the stage keeps may be read as well.
\* Mutant: anything of the template may, whether the stage keeps it or not.
MayReadThrough_Fixed(c, s, v) == v \in fixed[s] \/ MayRead(c, v)
MayReadThrough(c, s, v) ==
    \/ MayRead(c, v)
    \/ /\ v \in keeps[s]
       /\ status[v[1]] \notin {"failed", "cancelled"}
       /\ v[2] \notin omitted[v[1]]

\* A client submits k calls of a stage, whose blanks reference `blanks`.
SubmitCalls(c, s, k, blanks, names) ==
    LET reads == [r \in New(k) |-> blanks[r] \cup FixedPart(s)] IN
    /\ ~Locked
    /\ c \in clients
    /\ s \in stages[c]
    /\ staged[s] # "failed"
    /\ \A r \in New(k) : \A v \in reads[r] : MayReadThrough(c, s, v)
    /\ Accept(c, k, reads, names)
    /\ through' = [through EXCEPT ![s] = @ \cup New(k)]
    /\ UNCHANGED <<stages, fixed, keeps, staged, staging>>

\* The stages in ss let go of their templates, once.
\* Mutant: a stage lets go of its template each time.
LettingGo_Again(ss, v) == {s \in ss : v \in fixed[s]}
LettingGo(ss, v) == {s \in ss : v \in keeps[s]}
LetGoOfTemplates(ss) ==
    /\ readers' = [v \in Value |-> readers[v] - Cardinality(LettingGo(ss, v))]
    /\ keeps' = [s \in Stage |-> IF s \in ss THEN {} ELSE keeps[s]]
NoLongerRead == Producers({v \in Value : readers[v] # 0 /\ readers'[v] = 0})

ReleaseStages(c, ss) ==
    /\ ~Locked
    /\ c \in clients
    /\ stages' = [stages EXCEPT ![c] = @ \ ss]
    /\ LetGoOfTemplates(ss)
    /\ drops' = NoLongerRead
    /\ UNCHANGED <<history, clients, kept, unread, held, values, running, todo,
                   fixed, staged, staging, through>>

\* End a client, which releases the stages and the records it keeps.
\* Mutant: its records only.
EndClient_Records(c) == CloseClient(c) /\ UNCHANGED stageVars
EndClient(c) ==
    /\ ~Locked
    /\ c \in clients
    /\ clients' = clients \ {c}
    /\ kept' = [kept EXCEPT ![c] = {}]
    /\ stages' = [stages EXCEPT ![c] = {}]
    /\ LetGoOfTemplates(stages[c])
    /\ drops' = kept[c] \cup NoLongerRead
    /\ UNCHANGED <<history, unread, held, values, running, todo,
                   fixed, staged, staging, through>>

-----------------------------------------------------------------------------
(* Workers *)

\* A worker with a call takes the stage's lock, and finds that no call has
\* staged yet.  One that finds the lock taken waits, and keeps its worker.
BeginStaging(r, s) ==
    /\ ~Locked
    /\ r \in through[s]
    /\ at[r] = "computing"
    /\ staged[s] = "open"
    /\ staging[s] = {}
    /\ staging' = [staging EXCEPT ![s] = {r}]
    /\ UNCHANGED <<vars, stages, fixed, keeps, staged, through>>

\* Staging ends one way or the other: the stage lets go of its template.
EndStaging(r, s, how) ==
    /\ ~Locked
    /\ staging[s] = {r}
    /\ staging' = [staging EXCEPT ![s] = {}]
    /\ staged' = [staged EXCEPT ![s] = how]
    /\ LetGoOfTemplates({s})
    /\ drops' = NoLongerRead
    /\ UNCHANGED <<history, clients, kept, unread, held, values, running, todo,
                   stages, fixed, through>>

\* The binding has made the callable of what the template references.
Staged(r, s) == (\A v \in fixed[s] : CanRead(v)) /\ EndStaging(r, s, "staged")
StagingFails(r, s) == EndStaging(r, s, "failed")

\* A call runs once its stage has staged, and fails once staging has failed.
MayReturn(r) == \A s \in Stage : r \in through[s] => staged[s] = "staged"
MayRaise(r) == \A s \in Stage : r \in through[s] => staged[s] \in {"staged", "failed"}

-----------------------------------------------------------------------------
CallOfStages(c) ==
    \/ OpenClient(c) /\ UNCHANGED stageVars
    \/ \E k \in 1..MaxBatch : /\ count + k <= MaxRecords
                              /\ \E reads \in Entries(k), names \in SUBSET Persistable :
                                    Submit(c, k, reads, names) /\ UNCHANGED stageVars
    \/ \E rs \in SUBSET Unended \ {{}} : Cancel(c, rs) /\ UNCHANGED stageVars
    \/ \E rs \in SUBSET kept[c] \ {{}} : Release(c, rs) /\ UNCHANGED stageVars
    \/ \E s \in Stage, vs \in SUBSET (Existing \X Name) :
          Cardinality(vs) <= MaxReads /\ OpenStage(c, s, vs)
    \/ \E k \in 1..MaxBatch, s \in stages[c] :
          /\ count + k <= MaxRecords
          /\ \E blanks \in Entries(k), names \in SUBSET Persistable :
                SubmitCalls(c, s, k, blanks, names)
    \/ \E ss \in SUBSET stages[c] \ {{}} : ReleaseStages(c, ss)
    \/ EndClient(c)

CascadeStages == Cascade /\ UNCHANGED stageVars

WorkerStepStages(r) ==
    \/ Start(r) /\ UNCHANGED stageVars
    \/ \E s \in Stage : BeginStaging(r, s)
    \/ \E s \in Stage : Staged(r, s)
    \/ \E s \in Stage : StagingFails(r, s)
    \/ MayReturn(r) /\ (\E names \in SUBSET Name : Return(r, names)) /\ UNCHANGED stageVars
    \/ MayRaise(r) /\ Raise(r) /\ UNCHANGED stageVars
    \/ (\E n \in Name : Write(r, n)) /\ UNCHANGED stageVars
    \/ WriteFails(r) /\ UNCHANGED stageVars
    \/ Complete(r) /\ UNCHANGED stageVars

NextStages ==
    \/ \E c \in Client : CallOfStages(c)
    \/ CascadeStages
    \/ \E r \in Record : WorkerStepStages(r)

\* As in module Records; what makes a stage's callable returns or raises, too.
FairnessStages ==
    /\ WF_allVars(CascadeStages)
    /\ \A r \in Record : WF_allVars(WorkerStepStages(r))

SpecStages == InitStages /\ [][NextStages]_allVars
FairSpecStages == SpecStages /\ FairnessStages

-----------------------------------------------------------------------------
(* What makes this correct *)

\* The counter of readers agrees with what records, workers and stages hold: a
\* stage lets go of its template once, though staging ends while the stage is
\* released, or its client ends, and the other way round.
StagesCounted ==
    \A v \in Value :
        readers[v] = Cardinality({r \in Record : v \in unread[r] \cup held[r]})
                     + Cardinality({s \in Stage : v \in keeps[s]})

\* Whoever makes the callable holds all of the template, completed, for as long
\* as it reads it: also if the stage was released since the call was submitted,
\* the call cancelled, or another call has waited for the lock longer.  And what
\* an open stage keeps of a completed record is there for the calls to come.
StagesServed ==
    \A s \in Stage :
        /\ \A r \in staging[s] : /\ fixed[s] \subseteq held[r]
                                 /\ \A v \in fixed[s] : status[v[1]] = "completed"
        /\ \A v \in keeps[s] :
              status[v[1]] = "completed" => v \in memory \cup store \/ v[2] \in omitted[v[1]]

\* Once every client has ended, memory empties and stays empty, unless a
\* workflow never returns: no stage is left that holds its template.
NothingOutlivesClients == <>[](clients = {}) => <>[](memory = {})

=============================================================================
