# Verification of essapps

TLA+ modules for `packages/essapps` (`ess.apps`) and for the types of
`packages/essspec` (`ess.spec`): what the backend promises about records and
output values, how it schedules, keeps, writes and drops them, how it starts
again from its log after a crash, what clients, listings, rules and the panel
application see of it, and what its checks of requests stand for. TLC checks the
modules on small instances; TLAPS proves the safety of the records (among stages
and over restarts too), that they implement an abstract lifecycle, the safety of
accumulators, of those who follow the feed, of the trigger loop, of the checks of
requests and of the panel, and that the log's file implements a log, for any
numbers of clients, records, stages, pushes, threads, workers, rows and crashes.

## The system

The repository holds three Python packages: `essspec` (specs of workflows, as
pydantic models, and the bindings that run them), `essapps` (a backend that runs
requests, a client, rules, and a panel application), and `essinstruments`
(specs of one instrument). State and concurrency are in the backend.

| part | state it keeps | operations | what makes it correct |
| --- | --- | --- | --- |
| records, values and clients (`backend.py`, `views.py`) | history (records, finishes), per client the records it keeps, a counter of readers per value, values in memory and in the store, what waits for what | open and end a client, submit, cancel, release, run, write, complete | no value goes while someone may read it; every value leaves memory once nobody keeps or reads it; every pending record finishes once; work that nothing keeps is cancelled |
| restart (`backend.py`) | what of the log is left pending | decide each record, schedule | persisted work goes on unless what it reads is lost; nothing finishes twice |
| accumulators (`backend.py`) | driver, steps not yet done, readers of states, freeze flag, check cache | open, push, pin, freeze, advance, stop, release | a state is read as it was pinned; no wait goes round in a circle |
| stages (`backend.py`) | template's reads, callable, failure, a lock of its own | open, stage once, call, release | staged once; the template's values stay until then |
| log file (`log.py`) | one JSON event per line | hold, recover, append, read, close | an append is whole or absent; one writer; no event is taken back |
| feed, `Client.wait`, `Listing` (`views.py`, `client.py`, `listing.py`) | positions in the feed, cached statuses | changes, wait, refresh | no finish is slept through; a listing is not stale |
| trigger loop (`rules.py`) | position in the feed, handled files | step, restart | each file is settled; submit is not called again for one that is |
| closing and stopping (`backend.py`) | stopped | close, failed append | what waits wakes; nothing is left scheduled; close ends |
| checks, files, batch (`checks.py`, `files.py`, `batch.py`) | none | checks of requests, templates, pushes, states | a state built of pushes is refused exactly if its request would be |
| spec types (`field_types.py`, `request_types.py`, `_workflow_spec.py`, `parameters.py`, `refs.py`) | none | derive request types, validate in two phases, locate errors | what the request phase takes the call phase takes too; errors name what was written |
| panel (`panel/`) | widgets, rows, selection, listing | edit rows, submit, poll, select, remove | a selection or a refresh takes no change from the editor but an output that is gone; what is selected is what is shown and removed; what became of a submission is shown |
| bindings (`binding.py`, `pipeline.py`) | none of their own | compute, stage, accumulate | (not modelled) |

The parts meet in one place: every call of a client and every worker takes the
backend's lock (`Backend._changed`), changes history by appending an event to
the log and applying it to the views, and changes what is not history (clients,
readers, waits) under the same lock. Workflows, writes and reads of the store run
outside the lock.

The hard behaviours are the windows in which a worker is without the lock (its
record may be cancelled, its inputs released), the two nested loops under the
lock (`_finish` fails what waits, `_let_go` drops what nobody reads, and each
runs the other), the counter of readers that five places change, a crash between
any two events, and states pinned under the lock and checked outside it. `PROJECT.json` lists each hazard at its line.

## Modules

| module | models |
| --- | --- |
| `Lifecycle` | what `protocol.py` promises of records and values, without queues, counters, clients or locks |
| `Records` | the backend's records, values and clients |
| `Stages` | extends `Records` with stages and the calls through them |
| `Restart` | extends `Records` with crashes and the restart from the log |
| `Accumulators` | accumulators, their workers, and the records that read their states |
| `Feed` | a backend whose appends may fail, with what follows it: threads in `Client.wait`, a `Listing`, and `Backend.close` |
| `EventLog` | what the log promises: a sequence that grows by whole events |
| `LogFile` | the log's file: lines written in pieces, failed writes, crashes, recovery, readers |
| `Trigger` | the trigger loop, over crashes, beside a person who submits |
| `FieldTypes` | the types of fields and how they are taken apart |
| `RequestTypes` | the request type of a field, the two phases that validate a value, the positions of errors |
| `SpecTypes` | the rules on the types of a spec |
| `Tables` | the checks of requests, templates, pushes and states |
| `Form` | the rows editor of the panel's form |
| `Fields` | the inputs of scalars, of lists of scalars, and of the choice of None |
| `Page` | the page: submit, poll, the table of outputs, its selection, the detail, Remove |
| `RecordsProofs`, `PromiseProofs` | theorems about `Records`: its safety; that it keeps the promises of `Lifecycle` |
| `StagesProofs`, `RestartProofs` | theorems about `Stages` and `Restart`, from those about `Records` |
| `AccumulatorsProofs`, `TellingProofs` | theorems about `Accumulators`: what is counted and read; what is told, dropped and waited for |
| `FeedProofs` | theorems about `Feed` |
| `PartsProofs` | theorems about `LogFile`, `Trigger`, `Tables`, `Form`, `Fields` and `Page` |
| `MC...` | for TLC: symmetry, the instances of the types (`MCTypeValues`), and `MCParts`, which runs the modules that share no state with the backend's |

### Records

State: `count`, `status`, `refs`, `persists`, `omitted` are what `Views` builds
from the log (`records`, `finished`, `persisted`). `clients`, `kept` are
`_clients` and `_Client.kept`; `unread` is `_unread`; `held` is the local
variable `reads` of `_run`; `readers` is `_readers`; `memory` is the keys of
`_outputs`; `store` is what the store holds. `waiting` and `dependents` are
`_waiting` and `_dependents`; `queued` is the executor's queue; `at`,
`returned` and `unwritten` say where a worker is within `_run`. `todo` is the
list of that name in `_finish`, and `drops` is `_unread_values` with what
`release` has still to drop.

Actions, one for each call of a client (`OpenClient`, `Submit`, `Cancel`,
`Release`, `CloseClient`) and each section of a worker between lock
operations (`Start`, `Return`, `Raise`, `Write`, `WriteFails`, `Complete`). The
loops of `_finish` and `_let_go` are taken turn by turn (`FinishNext`,
`DropNext`) while the lock is held (`Locked`): no other locked action runs, but
`Write`, which needs no lock, does.

Abstractions, and why they keep what the properties speak of:

- The clients are of one proposal. Calls check that the records they name are
  of the caller's proposal, and nothing else crosses proposals.
- A record's number stands for its ID; records are numbered as submitted. A
  client's model value stands for a new client each time it opens.
- What a submission is refused for is the read rule (`_refusal`). Checks of
  values against fields need no state; a refused submission changes nothing, so
  it is no step.
- References are sets: a request that names one output twice counts as a reader
  twice in the code and lets go of both at once.
- The code takes dependents and clients from Python sets, and interleaves the
  two loops by recursion; the model takes turns of both in any order, which
  includes the code's.
- `Release` and `CloseClient` take all IDs from `kept` at once and then drop
  them; the code does so one by one under one lock, and a drop of one record looks
  only at whether that record is kept.
- The executor's queue is a set. Its order matters only for how long a record
  waits, and every record of it is started in the end.
- `Raise` and `WriteFails` include the first turn of the `_finish` they call, as
  a record that has started waits for nothing.
- Reading the store does not fail; writing does, after any part of the outputs.
- Nothing is taken from the store, as the code never does. `NothingUnkept` is about
  memory alone.

### Restart

`Crash` may happen between any two steps, so between two finishes of one cascade
and within a restart. It keeps history and the store, and loses the rest. The
records left pending are decided one by one (`Decide`, one logged finish or
none), then those that run are scheduled at once (`Schedule`); the backend is not
reachable before. `IsNeeded` is the pass over the pending records from the last
to the first. A torn write of one event is the log file's: the event is there or
not.

### Accumulators

State: `steps`, `added`, `busy`, `stopped`, `released`, `freezing`, `frozen` are
the fields of `_Accumulator` of these names (a step is reduced to the records
its values reference; `stopped` and `frozen` hold no text and no ID). `driver` is
the number of pushes in the driver, `Changing` while a worker makes it or pushes
into it, and `computed` the state that `_computed` is of; both are tracked to tell
what a reader would see. `call` is where each thread of the client is in
`submit`, `freeze` or `accumulator_outputs`, with what it pinned. `stateOf` is
the keys of `_state_of`. `readers`, `waiting` and `dependents` are as in
`Records`, over outputs and states; `ready` and `leaving` hold the calls of
`_advance` and the accumulators that a release has still to make.

`Open` and `Push` are one section of the lock each. The other calls are several:
`PinStates`, then `Create` or `Refuse`, then `EndCall`; `BeginFreeze`, then
`Freeze` or `Refuse`, then `EndCall`; `BeginRead`, `StopWaiting`, `Copy`,
`EndCall`. Between these sections anything else may happen. `AdvanceNext`
is `_advance`, `DropState` the branch of `_let_go` for a state, `Stop` is
`_stop`. Workers take `StepDone` or `StepFails`, and for records `Start`,
`Return` or `ReturnState`, `Raise`, `Complete`.

Abstractions:

- Records have one output, and none is persisted: `Records` covers these. The
  rows of a push and the checks of a state are a choice: a read, a submission or
  a freeze may be refused, or not. Repeated rows are refused without a change of
  state.
- One client, of which several threads may be in calls. Two clients share no
  accumulator, and share records as in `Records`.
- The cache `checked` of a state's check is in module `Tables`.
- A driver computes its outputs in one step of the model, but `ReadsAsPinned` speaks
  of all the time from when a reader may call it until it is done.
- A submission of several requests that pin one state logs one record of it, as
  the code does; the states pinned are logged in any order.
- A call that is refused in its first section changes nothing, so it is no step.
- The docstring of `backend.py` (lines 134-136) says that what a push waits for was
  all logged before the push. A push may be logged between the section that pins a
  state and the one that logs the records, so it may wait for records logged after
  it. `NoCircularWait` holds all the same: what rules a circle out is the order of
  pins.

### Stages

`fixed` and `keeps` are the references of a stage's template and those it has not
let go of (`_Stage.reads`); `staged` is whether it has its callable or its
failure; `staging` is the worker inside the stage's lock; `through` tells a call
from a plain record. `OpenStage`, `SubmitCalls`, `ReleaseStages` and `EndClient`
are calls of a client; `BeginStaging`, `Staged` and `StagingFails` are `_staged`,
which runs without the backend's lock and takes it to let go of the template.
All else is `Records`: a call is a record that reads its blanks and, until the
stage has staged, the template's references as well. A worker that waits for the
stage's lock holds its worker. An accumulator's states are no part of a template
here. A call restarted from the log is a plain request, as `Restart` has it.

### Feed

One backend and one of three observers. `feed` is the sequence of records that
`Views` keeps; `kept`, `persists`, `input` are what decides which records finish
with another; each record reads at most one other. `LogFinishes` appends the
finishes of one cascade one after the other, failures in the order submitted and
cancellations from the last (`Finishes`), and any append may fail, which leaves
those before it and stops the backend (`Stop`). `Submit` starts nothing once the executor is shut
down, and fails once `close` has let go of the log.

- Waiting: `TakePosition`, `AskStatuses`, `AskChanges`, `Wake`, `TimeIsUp` are the
  steps of `Client.wait` and `Backend.changes`. `position` is `Client._position`,
  which all threads of a client share: `OtherReplies` is another thread that has
  been answered, perhaps long ago, and sets it to any position so far.
- Listing: `BeginRefresh`, `ListStatuses`, `ListReadable` are the three calls of
  `Listing.__init__` that read what may change. `released` is kept for the property: a
  release is no event.
- Closing: `BeginClose`, `LookAgain`, `Shutdown`, `LetGoOfLog` are `Backend.close`, which
  shuts the executor down without the lock. Between what it found and that,
  clients may still submit; `late` holds these.

### Log file

A line is a number of pieces, the last with the end of the line. `Hold` takes the
file's lock, `Recover` drops a last line cut short, `BeginAppend`, `WritePiece`,
`EndAppend` and `WriteFails` are one `append`, and `Crash` may happen at any of
them. `Read` is what `Log.read` gives someone who does not hold the file.
`EventLog` speaks of the log alone: its events and which process has them.

### Trigger

One action for each point at which `step` may be left: `BeginStep` (`_read`),
`Submits`, `Returns`, `Skips`, `EndRule`. A submission and its return are two
steps, so that the process may end between. What a rule's function
submits before the record that settles its file is left out, as nothing reads
it; that this one is submitted last is the contract of `Rule`. The record may hold
any other files as its rows, new ones, which it settles too, and handled ones, as
the function `stitch` of `docs/developer/automatic-reduction.md` submits: what the
loop promises is for which files `submit` is called, not what it submits. Rules of
one label have one parameter.

### Types

A type is a tree of records, a group is named and its fields are looked up, and
metadata are sets. `Unwrapped`, `Split`, `FileMarker`, `HoldsIn`, `Fits`, and
`AlternativesProblem` are the functions of `field_types.py`; `TypeOf`, `Sources`,
`Tagged`, `GroupType` derive the request type; `Errors` is what pydantic refuses
at a type, external to the repository, with the locations that pydantic gives;
`Located` and `Explained` are how the two phases turn these into positions.
`TypeProblems` is `_type_problems`. Aliases, decorators, defaults, and validators
of groups are left out.

### Tables

`OpenTables` and `PushTables` are `open_accumulator` and `push`, with the checks
they make; `BeginCheck` and `EndCheck` are `_check_state`, whose cache threads
read and write without the lock. Files are named by a path or a run and have one
identity; metadata are looked up in a folder's table.

### Form and Page

`Form` is one list of a form (`_Rows`) with the editor of a row (`_Choice`), in
which a row is a group of one field, a file or an output. A step is one callback.
A file that the editor holds as the files are listed is offered though it is not
listed, until they are listed again (`Unlisted`).
`Fields` is one field of a form: a scalar, a list of scalars, or the choice
between a scalar and None. `Set` is the form set to params or unset; `Give`,
`Choose`, `AddElement` and `RemoveElement` are what the user does. A picker of
times shows no fraction of a second and keeps its zone in the label, so both
are held beside it (`ScalarSet`, `ScalarValue`), and an empty text is told from
one that is not given (`Missing`). `given` is tracked for the property. `Page` is `App`, `Outputs` and `Table` with one output per record; a
step is one callback too, but for `submit`, between whose calls of the backend a
record may finish. `news` is the feed, `listed` the page's listing. A record that the
backend cancels, as nothing keeps it, is "dropped" and one that a client cancels
"cancelled": both have the one status `cancelled`, but `failure` has a reason for
the first alone. The message of `poll` goes by that reason (`Outcome`): "Failed"
for one that failed or was dropped, "Computed" for any other that finished.

## What is checked

| run | instance | shows |
| --- | --- | --- |
| `records_sharing` | 2 clients, 3 records with 1 output, batches of 2, 2 references each, 2 workers | `TypeOK`, `ReadersCounted`, `ReadsServed`, `ReadableIsThere`, `NoOrphans`, `NothingUnkept`, `NoneForgotten` |
| `stages_live` | 1 client, 1 stage, 2 records with 2 outputs, one of them persisted, 2 workers, fairness | `StagesCounted`, `StagesServed`, `KeepsPromise` (it implements `Lifecycle`), `EveryRecordFinishes`, `NothingOutlivesClients` |
| `restart_safety` | 1 client, 3 records, 2 workers, 2 crashes | `NoneForgottenUp`, `FinishesOnce`, `FailsOnlyWhatIsLost`, `CancelsOnlyUnneeded` |
| `restart_live` | 2 records with 2 outputs, 2 crashes, fairness | `EveryRecordFinishesUp` |
| `restart_orphans` | 3 records, 1 crash | a finding: see below |
| `accumulators_readers` | 1 accumulator, 1 push, 2 records, 1 thread | `ReadersCounted`, `ReadsAsPinned`, `NoneForgotten`, `NoCircularWait`, `NothingHeld` |
| `accumulators_threads` | 1 accumulator, 2 pushes, 1 record, 2 threads | `FrozenAtLast`, with calls at once |
| `accumulators_live` | 1 accumulator, 2 pushes, 1 record, 1 thread, fairness | `EveryRecordFinishes`, `EveryStepEnds` |
| `feed` | 2 records, 1 waiting thread beside others, 1 push | `NotSleptThrough`, `ListingCurrent`, `ClosedClean`, `Closes` |
| `parts` | one of: a log of 3 lines by 2 processes, 2 crashes; 2 rules of one label, 2 files, 1 record by a person, 2 crashes; the field types and values of `MCTypeValues`; 2 tables, 2 pushes, 2 threads; 3 types of rows, 2 rows; each kind of scalar, 2 elements; 2 submissions | `ImplementsLog`; `SettledOnce`, `EachSettled`; `PhasesAgree`, `ErrorsLocated`; `StateAsRequest`; `EditorShowsRow`, `ChangesKept`; `GivesBack`; `SelectionStays`, `OutcomeShown` |
| `form_texts` | the inputs of `Fields`, alone | a finding: see below |
| `types_tagged` | a union by tag of two references | a finding: see below |

Bounds. Three records are the fewest with a chain, a join (one record reads two)
and a fan (two read one), so a value with two readers, a cascade of two turns,
and a drop that cancels a record that lets go of another value all happen. Two
clients suffice for a value that one keeps and the other released, or that is
read from the store by the one who does not keep it. Two outputs tell a record
kept for one output from one kept for the other. Two crashes let a restart be
interrupted by the next. `MaxRecords` bounds submissions, `MaxCrashes` crashes,
`MaxBatch` and `MaxReads` the size of one submission; nothing else is cut.

For accumulators, two records are the fewest for a state's record with the
request that reads it, for a push that reads a record while a state's record
waits, and for a freeze after a freeze that failed. One push gives a state
before and after it, so a push that a reader holds back; two let a push wait
behind a push, and a release drop one and keep the other. One accumulator
suffices for all properties but `NoCircularWait`: an instance with two
accumulators and two records is beyond TLC here, and `NeverInCircles` of
`TellingProofs` proves the property for any number of them. Two threads
are the fewest for a freeze that waits for another, or for a read at the time of
a freeze; a push needs no thread, as it holds nothing between its sections.

Fairness. `Cascade` is weakly fair: the loops run in one thread under the lock.
Each `WorkerStep(r)` is weakly fair: a thread of the executor goes on, and a
workflow returns or raises. A workflow that never returns keeps its worker, as
in the code. No call of a client is fair. For restarts, `Decide` and `Schedule`
are weakly fair too. One step is fair per record rather than per worker: the
executor's queue is first in, first out, so a queued record is started once a
worker is free. For accumulators the fairness of workers and calls is strong,
because a client may take the lock over and over with reads that are refused: who
waits for the lock gets it in the end. That a waiting push is never starved by
new readers is no assumption but what `EveryStepEnds` shows: a read pins the state
after all pushes logged, so only readers from before a push hold it back.

For stages, two records are a record whose output the template references with a
call, or two calls of a template without references: two workers let one wait for
the stage's lock while the other stages. Of two outputs one may be persisted
(`Persistable`). A reference with two calls, several stages or several clients need
more than TLC can do here with fairness; `StagesProofs` proves the safety for any
number of these.

For the feed, two records are the fewest for a finish that makes another, in one
cascade that an append may cut short, and for news of a record that a thread
does not wait for. Beside the one thread that is followed step by step, the
others do what matters to it, which is to move the position. One observer at a time: the
three share nothing but the backend.

In `parts` each module is checked alone, chosen in the initial state, since none
shares state with another. Two pieces are the fewest for a line cut short, and three
lines let a line follow one that was recovered. Two rules under one label are
those that may have submit called for one file twice; two crashes let a restarted loop
crash. The field types are all that nest a union of two, `None`, a marker, a
discriminator and a list up to the depth that the rules tell apart; the groups hold
a file, a reference, each kind of union, and themselves. Two rows tell the row
selected from another. The fields are each kind of scalar alone, as a list, and
with None, with and without a default; two seconds, with and without a fraction,
with and without a zone, tell a time that was edited from one that was not. Two
submissions of the page are a last one and one before.

Fairness of these parts. The executor's threads and the thread in `close` go on
once notified (`FairnessFeed`); appends may fail, and clients need do nothing. The
trigger loop steps for ever, and a rule's function does not leave a file for ever
(strong fairness of `Submits`: a condition on the application, without which no
loop could settle it). The page's server calls `poll` for ever, and records
finish.

### Findings

`restart_orphans`: `_restart` finds what persisted work needs before it fails
what cannot run, so a pending record that only a failing record needs runs to
its end though nothing keeps its outputs. `protocol.py` says such work is
cancelled. Nothing is lost by it but the time of a worker: `NothingUnkept` still
holds.

`types_tagged`: a field typed `Annotated[Referenced[A] | Referenced[B],
Field(discriminator='kind')]` is allowed in a spec, though the rules of
`params.md` keep a discriminator to the union written inline: `_type_problems`
returns before it looks (lines 395-401 of `_workflow_spec.py`). The request phase
takes a reference there, and the call phase, which is given a union by tag, finds no
tag in the reference. So every request for such a field is accepted and fails.

`form_texts`: the docstring of `form.py` (lines 38-40) says that an empty text is the
value `''` where the field has a default. A text field with None is a choice whose
input is made without the field's default (line 156), so its empty text is taken
for nothing given (line 263): the form refuses its own default where that is `''`,
and a request that holds `''` cannot be submitted again. `GivesBack` leaves this
one case out.

Two more observations, which no document of the repository contradicts:

- `close` finds nothing pending and shuts the executor down without the lock. A
  request submitted between is logged, its submission raises, and its record
  stays pending for the next backend to run. `ClosedClean` therefore speaks of the
  records that were there when `close` looked.
- With several rows selected, the editor is empty, and Remove discards what is
  typed there as a new row with the rows selected. `ChangesKept` counts this as
  the user's own.

A third is at odds with a comment but is not a run of its own: the page says
"Computed" of a submission that a client cancelled elsewhere, as it looks for a
reason only (`app.py:101-106`) and `cancel` gives none (`backend.py:1860-1865`),
though a comment (`app.py:38-40`) has the message show the outcome. `OutcomeShown`
says what the page does show: "Failed" where there is a reason, "Computed" where
there is none, the cancelled ones among them.

## What is proved

Each theorem is `Spec => []` of the property a run checks, or `Spec` implying an
action property or the abstract specification, for every value of the constants
that the named assumption of its module allows. These say that bounds and sizes
are natural numbers, that there is a worker, that the accumulators, threads and
stages that may be counted as readers are finite sets, that model values that tell
kinds apart are no members of those sets, that a rule comes once in the list of
rules, that the files of a folder have names and runs of their own and tables hold
names, and that a field's default is a value of the field.
None of the invariants below is inductive alone; each module joins them with
what they rest on, and has a lemma for each action with a step for each part the
action can disturb.

### Records

`RecordsProofs`, from `RecordsAssumption`: `TypeCorrect`, `CountsReaders`,
`ServesReaders`, `ReadsSucceed`, `ForgetsNone` (`TypeOK`, `ReadersCounted`,
`ReadsServed`, `ReadableIsThere`, `NoneForgotten`).

`DropNext` drops a value because its counter is zero, so what a reader finds rests
on the counter being exact; the counter is exact only if what a record lets go of
is what it holds, which depends on where the record is; a workflow finds its
values completed only because it was started by the last of what it waited for.
`Inv` joins these:

- `Types`: the types, with the counter only an integer;
- `Fresh`: what has not been submitted is nowhere;
- `Places`: a record holds its reads in `unread` before it starts, in `held`
  while it computes, and nowhere else;
- `Waits`: what a record has yet to read has completed or is waited for; what is
  queued waits for nothing;
- `Scheduled`: each wait has its dependents entry, or the failure is in `todo`;
- `Written`: what a record persists is written before it completes;
- `Kept`, `Served`: what a client keeps, or a reader holds, of a completed record is
  there;
- `ReadersCounted`.

`Counting` and `LettingGo` carry the arithmetic of the counter over finite sets. The
lemmas are stated with others who read beside the records (`InvBeside`: the
counter is the records' readers and theirs); without others it is `Inv`, and
with stages as the others it serves `StagesProofs`.

### Promises

`PromiseProofs`, from the same assumption: `LeavesNoOrphans`, `KeepsNothingUnkept`
(`NoOrphans`, `NothingUnkept`) and `Implements`, `Spec => KeepsPromise`, the
refinement of `Lifecycle`.

The first two speak of when the lock is free. `KeepersInv` says what they become
while it is held: memory holds values of completed records (`MemoryCompleted`), a
pending record without a keeper is in `drops` or `todo` (`OrphansDue`), and the record of
a value that nobody keeps is in `drops` (`UnkeptDue`). Each step keeps what is said of
values and what is said of pending records each by itself (`DueKept`), from types
and a counter that is never negative (`Numbered`) alone: so the same lemmas serve
among stages, whose counter has other readers, and over restarts, which keep only the
first.

For the refinement, each action is shown to be a step of `Lifecycle` or to leave
what it speaks of alone. A workflow's return needs its inputs to be live, and a
drop must take nothing from a record that has yet to compute. Both follow from
`Retains` (a record that has yet to compute holds all it references) and `Sound`,
which is what `Inv` says without the schedule and of the counter only that at zero
no record holds the value; so the same lemmas serve among stages, whose
counter has other readers.

### Stages

`StagesProofs`, from `StagesAssumption` too: `CountsStages`, `ServesStages`,
`ServesCalls`, `ImplementsAmongStages`, `LeavesNoOrphansAmongStages`,
`KeepsNothingUnkeptAmongStages` (`StagesCounted`, `StagesServed`, `ReadsServed`,
`KeepsPromise`, `NoOrphans` and `NothingUnkept` of `SpecStages`).

Stages are the others of `InvBeside`, so `RecordsProofs` covers what records do, and
what remains is the steps of stages. `StagesInv` adds to the records' invariant

- `KeptThere`: what a stage keeps of a completed record is there;
- `Opened`: a template references values of records there are, and a stage keeps
  no more than these;
- `CallsRead`: until a stage has staged, its calls read the template themselves;
- `Making`: who stages is a call of the stage, alone at it, while its workflow runs.

`CallsRead` is why staging finds its template after the stage has been released or
its client has ended: the call holds the values then.

`StepAmongStages` sorts the steps: a step of the records, calls accepted, an opened
stage, and whatever makes a stage let go of its template. For `KeepersInv`, only the
last three are new to `PromiseProofs`: what a stage lets go of goes to `drops`.

### Restart

`RestartProofs`, from `RestartAssumption` too: `ServesReadersUp`, `ReadsSucceedUp`,
`ForgetsNoneUp`, `KeepsNothingUnkeptUp` (`ReadsServed`, `ReadableIsThere`,
`NoneForgottenUp`, `NothingUnkept` of `SpecRestart`) and `FinishesOnceEver`,
`FailsOnlyLost`, `CancelsOnlyWhatIsUnneeded` (the action properties `FinishesOnce`,
`FailsOnlyWhatIsLost` and `CancelsOnlyUnneeded`).

`Inv` does not hold while a backend starts: pending records are scheduled
nowhere. `RestartInv` therefore keeps `Base`, which is `Inv` without
`Scheduled`, at all times, and adds

- `Logged`: a record reads earlier ones, and the store holds only what a record
  persists;
- `Lost` and `Decided` while a backend starts: all but history and the store is
  empty, each pending record is undecided or runs, and what runs reads what runs
  too, or what is written;
- `Scheduled` once it is up.

`Logged` is what `FailsOnlyLost` rests on: a restart decides in the order
submitted, so what a record reads has been decided before it, and what the log
does not say is persisted is in no store. Steps of a backend that is up are
those of `Records`, so `StepInv` of `RecordsProofs` applies to them.

`CancelsOnlyWhatIsUnneeded` speaks of two recursive functions over the records:
`IsNeeded`, by which the restart decides, and `Upstream`, by which the property says
what it should have. `IsNeededIs` and `UpstreamIs` show that each satisfies its
definition: the least relation on records that is closed under it is such a function.
`Wanted` says that what is needed is closed: what persists is needed, and what is read
by what is needed. A record cancelled is not needed; of the needed records that have it
upstream, the first submitted would read one that is needed and earlier
(`UpstreamNeeded`).

`KeepsNothingUnkeptUp` adds to `ValuesInv` that memory is empty until the backend is up.

### Accumulators

`AccumulatorsProofs`, from `AccumulatorsAssumption`: `CountsReaders`, `ReadsPinned`,
`FreezesLast` (`ReadersCounted`, `ReadsAsPinned`, `FrozenAtLast`).

A worker changes a driver only when the counter says that nobody reads its state,
and five kinds of holders are counted: records that wait and that run, steps,
calls, and outputs of a state in memory. `CoreInv` is the part about the counter:
where a record holds what it reads (`Places`), which steps an accumulator has
(`Progress`), what calls hold and that a freeze keeps pushes away (`InCalls`,
`Frozen`). `ReadInv` adds what readers find:

- `Reached`: a state with a reader is the driver's, or comes by the steps left;
- `Drivers`: a driver is changed only while nobody reads its state;
- `Waits`, `Served`, `Given`: what a record has yet to read is there or waited for,
  and what it was given is what was computed of its state.

`TellingProofs` has `ForgetsNone`, `HoldsNothing` and `NeverInCircles` (`NoneForgotten`,
`NothingHeld`, `NoCircularWait`). `TellInv` adds to `ReadInv` what each turn of a
loop leaves to a later one: a wait has its dependents entry (`Scheduled`), a step
that nothing holds back is in `ready` (`Told`), and what nobody needs is in
`drops` (`DriversGo`, `StepsGo`, `HoldsGo`).

That waits never form a circle is proved by times. Waits do not follow the order
of the log, as a push may be logged between a call's pins and its record.
`WaitInv` says that times can be given to calls and to pushes (`Ordered`): each
state was pinned after the pushes up to it and before the next, and what a step
or a record reads is of an earlier time. No variable holds such times; they
exist, and each step that pins or logs is shown to extend them. A wait then goes
to an earlier time, or within one call to an earlier record, and a circle would
have an earliest member. `Lasts` keeps out the one wait that could go the other
way: a push that reads a state's record which still holds its state. Of the records
of states, a client keeps only those of freezes, which hold no state once they
complete.

### Feed

`FeedProofs`, from `FeedAssumption`: `SleepsThroughNothing`, `StaysCurrent`, `ClosesClean` (`NotSleptThrough`,
`ListingCurrent`, `ClosedClean`), for any number of waiting threads.

`BackendStep` is the one lemma on the backend: whatever it does, a record whose
status changes is in the part of the feed just appended, and whoever sleeps is
notified. `FeedInv` then holds the observers' side: a thread that asks has
something to wait for (`Awaits`), one that sleeps unnotified would have no reply
(`Sleeps`), what a refresh has looked up is current or will be news (`LookedUp`),
and what is unfinished once `close` has looked came later (`Found`).

### Trigger loop

`PartsProofs`, from `TriggerAssumption`: `SettlesOnce` (the action property
`SettledOnce`), for any rules, labels, files and crashes: `submit` is not called for a
file that a record read by the step settled, nor for one that any loop submitted
under the label before. `TriggerInv` says that the
loop knows what the step read (`ReadTaken`) and, within a step, all that any process
submitted before but for the record about to return (`SubmittedTaken`); a process
that crashed between a submission and its return left a record that the next
one reads before it submits (`BetweenSteps`).

### Log file

`PartsProofs`, from `LogFileAssumption`: `FileImplementsLog`, the refinement of
`EventLog` (`ImplementsLog`), for any processes, any number of lines and any number of
pieces of a line. The events of a file are those of its last pieces in their order,
so the lemmas before it are about the rank of a number in a finite set: the events of
a file that ends in part of a line are those before that line, a last piece adds
one, and a file cut at the end of a line has the events of its lines (`LineEndsAre` and
what follows). `LogInv` says that one process at most holds the file and has all its
events (`HoldsLog`), and that an unfinished line follows a whole one and is all that
does (`Writes`): without the second a piece written would alter a line that is read.

### Checks of requests

`PartsProofs`, from `TablesAssumption`: `JudgedAtOnce` (`StateAsRequest`), for any
folder, limits, tables, threads and pushes. `RowsAfter` is recursive in the pushes;
`RowsPushed` says what one more push does and `RowsSteady` that later ones do not
matter. A request is refused first for its names and then for its numbers of rows
and for repeats (`RequestIs`). Rows seen so far and rows added have a repeat exactly if
the rows added do, among themselves or with those seen (`RepeatsConcat`), and this is
said of the files' identities, as `Stored` takes rows to them one by one
(`StoredConcat`). `TablesInv` joins: after each push so far the rows of a table fit, none
comes twice, and the log holds them by identity (`RowsFit`); `seen` is what the log
gives; an answer kept or given is of the state it names (`AnswersStand`), which pushes
do not change.

### Form, fields and page

`PartsProofs`, from `FormAssumption`: `EditorShows` and `FormChangesKept`
(`EditorShowsRow`, `ChangesKept`). A change ends by an edit, a write, a discard, a
removal of rows selected or a form set anew; a refresh ends one only where the
output picked is gone, and makes none. `FormInv` says what `shown` is: the one row selected,
or nothing, or an output that is not listed any more.

From `FieldsAssumption`: `FormGivesBack` (`GivesBack`), for any texts, times and zones
and lists of any length. `FieldsInv` says that an input that was set to a time still
keeps it beside what it shows, and that what was never touched is as it was when
unset.

From `PageAssumption`: `SelectionIsKept` (`SelectionStays`). `TableInv` says that the
selection is a row there is and that the detail and the drawing are of its record;
that a refresh finds the record again rests on each record being one row
(`NewestFirst` lists a finite set by rank).

## What is only model-checked

- Liveness (`EveryRecordFinishes`, `NothingOutlivesClients`, `EveryRecordFinishesUp`,
  `EveryStepEnds`, `Closes`, `EachSettled`, `OutcomeShown`): out of the prover's reach.
- `PhasesAgree` and `ErrorsLocated`, whose operators recurse over types of any depth:
  the prover accepts no `RECURSIVE` operator.
- `NoOrphans` over restarts does not hold (`restart_orphans`).

## What is not modelled

- Bindings (`pipeline.py`, most of `binding.py`): what they compute is sciline's, and a
  workflow is a step that returns or raises. `conversions.py`, units and ranges
  are arithmetic of one line.
- Of specs: aliases, decorators, defaults, outputs, JSON schemas and serialization,
  which are declarations checked once when a spec is imported. Validators of
  groups, which are an author's code.
- Of the panel: the graph's layout, labels and plots.
- Reading the store, metadata and descriptions of values (`_read`, `describe`),
  which change nothing: `CanRead` and `ReadableIsThere` say when a value is there.
- Declarations (instrument specs, protocol data types, errors) and helpers for
  tests have no behaviour to model.

## Plan

1. Proofs: `PhasesAgree`, with the derivation of request types written as functions on
   a set of types that is closed under taking them apart.
2. Bounded algorithms left: the graph's layout, and the grouping of a
   pipeline's parameters.
