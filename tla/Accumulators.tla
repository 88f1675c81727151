---------------------------- MODULE Accumulators ----------------------------
(***************************************************************************)
(* Accumulators (essapps, backend.py): a client opens one, pushes rows into*)
(* it, and reads its states, while workers add the pushes one at a time.   *)
(*                                                                         *)
(* A driver only moves forward, and a reader may share memory with it.  So *)
(* a read pins the state after the pushes logged so far, and the next push *)
(* is added only once all who pinned the state before it are done.  A      *)
(* submission or a freeze pins under the lock, checks the state without it,*)
(* and logs under the lock again: other calls come between.                *)
(*                                                                         *)
(* The records here are those of states, and plain requests with one output*)
(* each that read them; a client keeps what it submits, and nothing is     *)
(* written to the store (see Records).  As there, the loops under the lock *)
(* are taken turn by turn, while it is held (Locked).                      *)
(***************************************************************************)
EXTENDS Integers, FiniteSets, Sequences, FiniteSetsExt

CONSTANTS Acc,         \* the accumulators
          Thread,      \* threads of the client, each in one call at a time
          MaxRecords,  \* bound: records logged in all
          MaxPushes,   \* bound: pushes into one accumulator
          MaxBatch,    \* bound: requests in one submission
          MaxReads     \* bound: outputs and states one request references

ASSUME AccumulatorsAssumption ==
    /\ IsFiniteSet(Acc) /\ "output" \notin Acc
    /\ IsFiniteSet(Thread)
    /\ MaxRecords \in Nat
    /\ MaxPushes \in Nat
    /\ MaxBatch \in Nat
    /\ MaxReads \in Nat

Record == 1..MaxRecords           \* in the order logged
State == Acc \X (0..MaxPushes)    \* an accumulator after a number of pushes
Out(r) == <<"output", r>>         \* the output of a record
Key == State \cup {Out(r) : r \in Record}  \* what is read, and waited for
Sources(outs) == {Out(r) : r \in outs}

None == -1      \* no driver, no outputs computed, not opened
Changing == -2  \* a worker changes the driver

VARIABLES
    \* history
    count,       \* records logged so far
    status,      \* of each record
    refs,        \* what each record references: outputs, or one state
    pushes,      \* the pushes logged of each accumulator, None before it opens
    \* the client
    alive,       \* whether it has not ended
    kept,        \* the records it keeps
    open,        \* the accumulators it keeps
    call,        \* the call each of its threads is in
    \* readers and values
    unread,      \* what a record that has not started holds as a reader
    held,        \* what a record that has started still holds
    readers,     \* the number of readers of each output and state
    stateOf,     \* the records that let go of a state when dropped
    memory,      \* the records with outputs in memory
    \* scheduling
    waiting,     \* what a record waits for
    dependents,  \* the records that wait for an output or a state
    queued,      \* the records the executor has not started
    at,          \* how far a worker is with a record
    \* accumulators
    steps,       \* steps not yet done, each the records it reads
    added,       \* pushes in the driver, None until it is made
    busy,        \* whether a worker does a step
    stopped,     \* whether it takes no more pushes or readers
    released,    \* whether the client let go of it
    freezing,    \* whether a freeze is being checked
    frozen,      \* the record of its last freeze, 0 if none
    driver,      \* the pushes its driver holds, Changing, or None
    computed,    \* the state whose outputs are computed, or None
    \* work left to the loops under the lock
    todo,        \* finishes: <<record, status>>
    drops,       \* outputs and states whose last reader let go
    ready,       \* accumulators to advance
    leaving      \* accumulators to release

history  == <<count, status, refs, pushes>>
client   == <<alive, kept, open, call>>
reading  == <<unread, held, readers, stateOf, memory>>
running  == <<waiting, dependents, queued, at>>
progress == <<steps, added, busy, driver, computed>>
flags    == <<stopped, released, freezing, frozen>>
work     == <<todo, drops, ready, leaving>>
vars     == <<history, client, reading, running, progress, flags, work>>

Existing == 1..count
Pending(r) == status[r] = "pending"
Locked == todo # {} \/ drops # {} \/ ready # {} \/ leaving # {}
Idle == [op |-> "none", phase |-> "idle", pins |-> {}, requests |-> <<>>]

Init ==
    /\ count = 0
    /\ status = [r \in Record |-> "none"]
    /\ refs = [r \in Record |-> {}]
    /\ pushes = [a \in Acc |-> None]
    /\ alive = TRUE
    /\ kept = {}
    /\ open = {}
    /\ call = [t \in Thread |-> Idle]
    /\ unread = [r \in Record |-> {}]
    /\ held = [r \in Record |-> {}]
    /\ readers = [k \in Key |-> 0]
    /\ stateOf = {}
    /\ memory = {}
    /\ waiting = [r \in Record |-> {}]
    /\ dependents = [k \in Key |-> {}]
    /\ queued = {}
    /\ at = [r \in Record |-> "idle"]
    /\ steps = [a \in Acc |-> <<>>]
    /\ added = [a \in Acc |-> None]
    /\ busy = [a \in Acc |-> FALSE]
    /\ stopped = [a \in Acc |-> FALSE]
    /\ released = [a \in Acc |-> FALSE]
    /\ freezing = [a \in Acc |-> FALSE]
    /\ frozen = [a \in Acc |-> 0]
    /\ driver = [a \in Acc |-> None]
    /\ computed = [a \in Acc |-> None]
    /\ todo = {}
    /\ drops = {}
    /\ ready = {}
    /\ leaving = {}

-----------------------------------------------------------------------------
(* Readers *)

\* How often each key is let go of: once each of ks, or once for each of some
\* steps, named <<accumulator, index>>.
Once(ks) == [k \in Key |-> IF k \in ks THEN 1 ELSE 0]
OfSteps(some) ==
    [k \in Key |-> Cardinality({s \in some : k \in Sources(steps[s[1]][s[2]])})]

\* As many readers less; what is left without one is dropped later.
LetGo(less) == readers' = [k \in Key |-> readers[k] - less[k]]
Emptied(less) == {k \in Key : less[k] > 0 /\ readers[k] = less[k]}

\* Whether no reader holds the current state of an accumulator.
\* Mutant: a push does not wait for the readers of the state before it.
Unread_Always(a) == TRUE
Unread(a) == added[a] # None => readers[<<a, added[a]>>] = 0

\* Accumulators with steps to do, which each finish advances.
\* Mutant: a finish advances none.
HasSteps_None == {}
HasSteps == {a \in Acc : steps[a] # <<>>}

\* What the client may read, and sets of at most n of it.
MayRead(r) == status[r] \notin {"failed", "cancelled"} /\ r \in kept
Readable(n) == {outs \in SUBSET {r \in Existing : MayRead(r)} : Cardinality(outs) <= n}

\* The steps of a released accumulator that its readers need: up to the last
\* state pinned, and the one a worker does.
Needed(a) ==
    Min({Len(steps[a])} \cup
        {i \in 0..Len(steps[a]) :
            /\ busy[a] => i >= 1
            /\ \A n \in 0..MaxPushes : readers[<<a, n>>] > 0 => n - added[a] <= i})

-----------------------------------------------------------------------------
(* Calls of the client *)

\* Open an accumulator; its first step makes the driver, from the records outs.
Open(a, outs) ==
    /\ ~Locked
    /\ alive
    /\ pushes[a] = None
    /\ \A r \in outs : MayRead(r)
    /\ pushes' = [pushes EXCEPT ![a] = 0]
    /\ open' = open \cup {a}
    /\ steps' = [steps EXCEPT ![a] = <<outs>>]
    /\ readers' = [k \in Key |-> readers[k] + Once(Sources(outs))[k]]
    /\ ready' = {a}
    /\ UNCHANGED <<count, status, refs, alive, kept, call, unread, held, stateOf,
                   memory, running, added, busy, driver, computed, flags, todo,
                   drops, leaving>>

\* Whether a push may be logged: no freeze is being checked.
\* Mutant: a push does not wait for the check.
Settled_Always(a) == TRUE
Settled(a) == ~freezing[a]

\* Log a push of rows that reference the records outs.
Push(a, outs) ==
    /\ ~Locked
    /\ alive
    /\ a \in open
    /\ ~stopped[a]
    /\ Settled(a)
    /\ frozen[a] = 0
    /\ pushes[a] < MaxPushes
    /\ \A r \in outs : MayRead(r)
    /\ pushes' = [pushes EXCEPT ![a] = @ + 1]
    /\ steps' = [steps EXCEPT ![a] = Append(@, outs)]
    /\ readers' = [k \in Key |-> readers[k] + Once(Sources(outs))[k]]
    /\ ready' = {a}
    /\ UNCHANGED <<count, status, refs, client, unread, held, stateOf, memory,
                   running, added, busy, driver, computed, flags, todo, drops,
                   leaving>>

\* The states a call pins: the current ones of the client's accumulators that
\* take readers.
Pins(accs) == {<<a, pushes[a]>> : a \in {b \in accs \cap open : ~stopped[b]}}

\* Enter a call that pins states, and holds them as a reader until it ends.
Enter(t, op, phase, pins, requests) ==
    /\ ~Locked
    /\ alive
    /\ call[t] = Idle
    /\ call' = [call EXCEPT ![t] = [op |-> op, phase |-> phase, pins |-> pins,
                                    requests |-> requests]]
    /\ readers' = [k \in Key |-> readers[k] + Once(pins)[k]]
    /\ UNCHANGED <<history, alive, kept, open, unread, held, stateOf, memory,
                   running, progress, stopped, released, frozen, work>>

\* The first section of submit: pin what the requests reference.  The requests
\* name records by IDs the client has, so of records logged before; those it
\* may not read now it may not read later.
Requests(k) ==
    [1..k -> {q \in [outs : Readable(MaxReads), accs : SUBSET Acc] :
                 Cardinality(q.outs) + Cardinality(q.accs) <= MaxReads}]
PinStates(t, requests) ==
    /\ Enter(t, "submit", "checking",
             Pins(UNION {requests[i].accs : i \in DOMAIN requests}), requests)
    /\ UNCHANGED freezing

\* Log new records, each with what it references, and schedule them: a record
\* waits for what it references to finish, or for the state to be reached.
LogRecords(new) ==
    LET made == DOMAIN new
        waits(r) == {k \in new[r] : IF k \in State THEN added[k[1]] # k[2]
                                    ELSE status[k[2]] \in {"none", "pending"}}
    IN
    /\ count' = count + Cardinality(made)
    /\ status' = [r \in Record |-> IF r \in made THEN "pending" ELSE status[r]]
    /\ refs' = [r \in Record |-> IF r \in made THEN new[r] ELSE refs[r]]
    /\ unread' = [r \in Record |-> IF r \in made THEN new[r] ELSE unread[r]]
    /\ readers' = [k \in Key |-> readers[k] + Cardinality({r \in made : k \in new[r]})]
    /\ stateOf' = stateOf \cup {r \in made : new[r] \cap State # {}}
    /\ waiting' = [r \in Record |-> IF r \in made THEN waits(r) ELSE waiting[r]]
    /\ dependents' = [k \in Key |-> dependents[k] \cup {r \in made : k \in waits(r)}]
    /\ queued' = queued \cup {r \in made : waits(r) = {}}
    /\ UNCHANGED <<pushes, held, memory, at, alive, open, progress, stopped, released,
                   freezing, work>>

\* Whether a request of a submission is not refused.
Accepted(q, pins) ==
    /\ \A r \in q.outs : MayRead(r)
    /\ \A a \in q.accs : a \in open /\ ~stopped[a] /\ \E p \in pins : p[1] = a

\* The second section of submit: log a record for each state pinned, then the
\* requests, which reference these records.
Create(t) ==
    LET pins == call[t].pins
        requests == call[t].requests
        first == count + Cardinality(pins)
    IN
    /\ ~Locked
    /\ alive
    /\ call[t].op = "submit" /\ call[t].phase = "checking"
    /\ \A i \in DOMAIN requests : Accepted(requests[i], pins)
    /\ first + Len(requests) <= MaxRecords
    /\ \E stateRecord \in Bijection(pins, (count + 1)..first) :
          LogRecords([r \in (count + 1)..(first + Len(requests)) |->
              IF r <= first
              THEN {p \in pins : stateRecord[p] = r}
              ELSE Sources(requests[r - first].outs \cup
                           {stateRecord[p] : p \in {s \in pins :
                               s[1] \in requests[r - first].accs}})])
    /\ kept' = kept \cup ((first + 1)..(first + Len(requests)))
    /\ call' = [call EXCEPT ![t].phase = "ending"]
    /\ UNCHANGED frozen

\* The first section of freeze.
BeginFreeze(t, a) ==
    /\ a \in open
    /\ ~stopped[a]
    /\ ~freezing[a]
    /\ frozen[a] # 0 => ~Pending(frozen[a])
    /\ Enter(t, "freeze", "checking", {<<a, pushes[a]>>}, <<>>)
    /\ freezing' = [freezing EXCEPT ![a] = TRUE]

\* The second section of freeze: log the record of the state.
Freeze(t) ==
    \E p \in call[t].pins :
        /\ ~Locked
        /\ alive
        /\ call[t].op = "freeze" /\ call[t].phase = "checking"
        /\ p[1] \in open
        /\ ~stopped[p[1]]
        /\ count < MaxRecords
        /\ LogRecords([r \in {count + 1} |-> {p}])
        /\ kept' = kept \cup {count + 1}
        /\ frozen' = [frozen EXCEPT ![p[1]] = count + 1]
        /\ call' = [call EXCEPT ![t].phase = "ending"]

\* A submission or a freeze is refused, for what changed since its first
\* section, or for what its requests or the rows of the state hold.
Refuse(t) ==
    /\ ~Locked
    /\ call[t].phase = "checking"
    /\ call' = [call EXCEPT ![t].phase = "ending"]
    /\ UNCHANGED <<history, alive, kept, open, reading, running, progress, flags, work>>

\* A read of an accumulator's outputs pins its state; if it is not refused, it
\* waits for the state.
BeginRead(t, a) ==
    /\ a \in open
    /\ ~stopped[a]
    /\ \E phase \in {"waiting", "ending"} :
          Enter(t, "read", phase, {<<a, pushes[a]>>}, <<>>)
    /\ UNCHANGED freezing

\* The state is reached, or the wait is given up, as the client ended or the
\* accumulator stopped.
WaitIsOver(s) == ~alive \/ stopped[s[1]] \/ added[s[1]] = s[2]
StopWaiting(t) ==
    \E p \in call[t].pins :
        /\ ~Locked
        /\ call[t].phase = "waiting"
        /\ WaitIsOver(p)
        /\ call' = [call EXCEPT ![t].phase =
                      IF alive /\ added[p[1]] = p[2] THEN "copying" ELSE "ending"]
        /\ UNCHANGED <<history, alive, kept, open, reading, running, progress, flags, work>>

\* The outputs of the current state, computed once: whatever the driver holds.
Compute(a) == computed' = [computed EXCEPT ![a] = IF @ = None THEN driver[a] ELSE @]

\* The outputs are computed if they are not yet, and copied, without the lock;
\* the driver may raise.
Copy(t) ==
    \E p \in call[t].pins :
        /\ call[t].phase = "copying"
        /\ Compute(p[1]) \/ UNCHANGED computed
        /\ call' = [call EXCEPT ![t].phase = "ending"]
        /\ UNCHANGED <<history, alive, kept, open, reading, running, steps, added,
                       busy, driver, flags, work>>

\* The last section of a call lets go of what it pinned.
EndCall(t) ==
    /\ ~Locked
    /\ call[t].phase = "ending"
    /\ call' = [call EXCEPT ![t] = Idle]
    /\ LetGo(Once(call[t].pins))
    /\ drops' = Emptied(Once(call[t].pins))
    /\ freezing' = [a \in Acc |->
          freezing[a] /\ ~(call[t].op = "freeze" /\ \E p \in call[t].pins : p[1] = a)]
    /\ UNCHANGED <<history, alive, kept, open, unread, held, stateOf, memory,
                   running, progress, stopped, released, frozen, todo, ready, leaving>>

\* Cancel a record; a call that names several does so one after the other.
Cancel(r) ==
    /\ ~Locked
    /\ alive
    /\ todo' = {<<r, "cancelled">>}
    /\ UNCHANGED <<history, client, reading, running, progress, flags, drops, ready,
                   leaving>>

\* Let go of records and accumulators, or end the client, which lets go of all.
Release(rs, accs) ==
    /\ ~Locked
    /\ alive
    /\ kept' = kept \ rs
    /\ drops' = Sources(rs)
    /\ leaving' = accs
    /\ UNCHANGED <<history, open, call, reading, running, progress, flags, todo, ready>>
ReleaseOne ==
    /\ \/ \E r \in kept : Release({r}, {})
       \/ \E a \in open : Release({}, {a})
    /\ UNCHANGED alive
CloseClient == Release(kept, open) /\ alive' = FALSE

-----------------------------------------------------------------------------
(* The loops under the lock *)

\* What waited for k waits for it no more, and is given to the executor if
\* it waits for nothing else.
Satisfy(k) ==
    /\ waiting' = [r \in Record |-> waiting[r] \ {x \in {k} : r \in dependents[x]}]
    /\ dependents' = [dependents EXCEPT ![k] = {}]
    /\ queued' = queued \cup {r \in dependents[k] : waiting[r] = {k}}

Fails(r) == dependents[Out(r)] \X {"failed"}

\* One turn of _finish (see Records); then it advances every accumulator that
\* has steps, as one may wait for the record.
FinishNext(r, how) ==
    /\ <<r, how>> \in todo
    /\ IF Pending(r)
       THEN /\ status' = [status EXCEPT ![r] = how]
            /\ LetGo(Once(unread[r]))
            /\ drops' = drops \cup Emptied(Once(unread[r]))
            /\ unread' = [unread EXCEPT ![r] = {}]
            /\ stateOf' = stateOf \ {r}
            /\ waiting' = [waiting EXCEPT ![r] = {}]
            /\ dependents' = [k \in Key |->
                                IF k = Out(r) THEN {}
                                ELSE dependents[k] \ {d \in {r} : k \in waiting[d]}]
            /\ todo' = (todo \ {<<r, how>>}) \cup Fails(r)
            /\ ready' = ready \cup HasSteps
       ELSE /\ todo' = todo \ {<<r, how>>}
            /\ UNCHANGED <<status, readers, drops, unread, stateOf, waiting,
                           dependents, ready>>
    /\ UNCHANGED <<count, refs, pushes, client, held, memory, queued, at, progress,
                   flags, leaving>>

\* What a record lets go of once its outputs are dropped: the state it is of.
\* Mutants: it goes on holding the state; any record lets go of what it read.
LeavesState_Never(r) == {}
LeavesState_Again(r) == refs[r]
LeavesState(r) == IF r \in stateOf THEN held[r] ELSE {}

\* A record's output without a reader is dropped, unless the client keeps it;
\* a pending record whose output would be is cancelled.
DropRecord(r) ==
    /\ Out(r) \in drops
    /\ LET unkept == r \notin kept /\ readers[Out(r)] = 0
           gone == unkept /\ ~Pending(r)
           less == Once(IF gone THEN LeavesState(r) ELSE {})
       IN  /\ todo' = todo \cup {<<d, "cancelled">> : d \in {x \in {r} : unkept /\ Pending(x)}}
           /\ memory' = IF gone THEN memory \ {r} ELSE memory
           /\ stateOf' = IF gone THEN stateOf \ {r} ELSE stateOf
           /\ held' = [held EXCEPT ![r] = IF gone THEN @ \ LeavesState(r) ELSE @]
           /\ LetGo(less)
           /\ drops' = (drops \ {Out(r)}) \cup Emptied(less)
    /\ UNCHANGED <<history, client, unread, running, progress, flags, ready, leaving>>

\* What comes after the first i steps is dropped, and lets go of what it reads.
Rest(a, i) == {<<a, j>> : j \in (i + 1)..Len(steps[a])}
Cut(a, i) ==
    /\ steps' = [steps EXCEPT ![a] = SubSeq(@, 1, i)]
    /\ LetGo(OfSteps(Rest(a, i)))

\* Whether a state is the last there will be, as its accumulator is frozen.
\* Mutant: a frozen accumulator is treated as any other.
IsLast_Never(a, n) == FALSE
IsLast(a, n) == frozen[a] # 0 /\ steps[a] = <<>> /\ n = added[a]

\* A state without a reader: an accumulator that stopped drops its driver, one
\* that is frozen what it computed, one that is released the steps it does not
\* need; else the next step may start.
DropState(a, n) ==
    /\ <<a, n>> \in drops
    /\ IF stopped[a] \/ IsLast(a, n)
       THEN /\ driver' = [driver EXCEPT ![a] = IF stopped[a] /\ n = added[a] THEN None ELSE @]
            /\ computed' = [computed EXCEPT ![a] = IF n = added[a] THEN None ELSE @]
            /\ drops' = drops \ {<<a, n>>}
            /\ UNCHANGED <<steps, readers, ready>>
       ELSE LET i == IF released[a] THEN Needed(a) ELSE Len(steps[a]) IN
            /\ Cut(a, i)
            /\ drops' = (drops \ {<<a, n>>}) \cup Emptied(OfSteps(Rest(a, i)))
            /\ ready' = ready \cup {a}
            /\ UNCHANGED <<driver, computed>>
    /\ UNCHANGED <<history, client, unread, held, stateOf, memory, running, added,
                   busy, flags, todo, leaving>>

\* The client lets go of an accumulator.
ReleaseNext(a) ==
    /\ a \in leaving
    /\ leaving' = leaving \ {a}
    /\ open' = open \ {a}
    /\ released' = [released EXCEPT ![a] = TRUE]
    /\ Cut(a, Needed(a))
    /\ drops' = drops \cup Emptied(OfSteps(Rest(a, Needed(a))))
    /\ ready' = ready \cup {a}
    /\ UNCHANGED <<history, alive, kept, call, unread, held, stateOf, memory, running,
                   added, busy, driver, computed, stopped, freezing, frozen, todo>>

\* Stop an accumulator: its steps are dropped, the records that wait for its
\* states fail, and its driver goes unless a reader holds the current state.
\* Mutant: the records are left waiting.
FailsOf_None(a) == {}
FailsOf(a) == (UNION {dependents[<<a, n>>] : n \in 0..MaxPushes}) \X {"failed"}
Stop(a) ==
    /\ stopped' = [stopped EXCEPT ![a] = TRUE]
    /\ busy' = [busy EXCEPT ![a] = FALSE]
    /\ Cut(a, 0)
    /\ drops' = drops \cup Emptied(OfSteps(Rest(a, 0)))
    /\ todo' = todo \cup FailsOf(a)
    /\ dependents' = [k \in Key |-> IF k[1] = a THEN {} ELSE dependents[k]]
    /\ driver' = [driver EXCEPT ![a] = IF Unread(a) THEN None ELSE @]
    /\ computed' = [computed EXCEPT ![a] = IF Unread(a) THEN None ELSE @]
    /\ UNCHANGED <<history, client, unread, held, stateOf, memory, waiting, queued, at,
                   added, released, freezing, frozen, leaving>>

\* Whether an accumulator has a step that no reader holds back.
MayStep(a) == ~busy[a] /\ ~stopped[a] /\ steps[a] # <<>> /\ Unread(a)

\* Advance an accumulator: its next step waits for a record it reads, stops the
\* accumulator if one did not complete, or is given to a worker.
AdvanceNext(a) ==
    /\ a \in ready
    /\ ready' = ready \ {a}
    /\ \/ /\ MayStep(a) => \E r \in Head(steps[a]) : Pending(r)
          /\ UNCHANGED <<history, client, reading, running, progress, flags, todo,
                         drops, leaving>>
       \/ /\ MayStep(a)
          /\ \E r \in Head(steps[a]) : status[r] \in {"failed", "cancelled"}
          /\ Stop(a)
       \/ /\ MayStep(a)
          /\ \A r \in Head(steps[a]) : status[r] = "completed"
          /\ busy' = [busy EXCEPT ![a] = TRUE]
          /\ computed' = [computed EXCEPT ![a] = None]
          /\ driver' = [driver EXCEPT ![a] = Changing]
          /\ UNCHANGED <<history, client, reading, running, steps, added, flags, todo,
                         drops, leaving>>

-----------------------------------------------------------------------------
(* Workers *)

\* A worker takes a record, unless it finished before.
Start(r) ==
    /\ ~Locked
    /\ r \in queued
    /\ queued' = queued \ {r}
    /\ IF Pending(r)
       THEN /\ at' = [at EXCEPT ![r] = "computing"]
            /\ held' = [held EXCEPT ![r] = unread[r]]
            /\ unread' = [unread EXCEPT ![r] = {}]
       ELSE UNCHANGED <<at, held, unread>>
    /\ UNCHANGED <<history, client, readers, stateOf, memory, waiting, dependents,
                   progress, flags, work>>

\* A workflow returns, having read what it references, and lets go of it.
Return(r) ==
    /\ ~Locked
    /\ at[r] = "computing"
    /\ refs[r] \cap State = {}
    /\ \A k \in held[r] : k[2] \in memory
    /\ at' = [at EXCEPT ![r] = "returned"]
    /\ LetGo(Once(held[r]))
    /\ drops' = Emptied(Once(held[r]))
    /\ held' = [held EXCEPT ![r] = {}]
    /\ UNCHANGED <<history, client, unread, stateOf, memory, waiting, dependents, queued,
                   progress, flags, todo, ready, leaving>>

\* The record of a state gets what the driver gives, without the lock.
ReturnState(r) ==
    \E k \in held[r] \cap State :
        /\ at[r] = "computing"
        /\ at' = [at EXCEPT ![r] = "returned"]
        /\ Compute(k[1])
        /\ UNCHANGED <<history, client, reading, waiting, dependents, queued, steps,
                       added, busy, driver, flags, work>>

\* A workflow or a driver raises: the record fails, with the first turn of its
\* _finish, and then lets go of what it read.
Raise(r) ==
    /\ ~Locked
    /\ at[r] = "computing"
    /\ at' = [at EXCEPT ![r] = "idle"]
    /\ IF Pending(r)
       THEN /\ status' = [status EXCEPT ![r] = "failed"]
            /\ stateOf' = stateOf \ {r}
            /\ dependents' = [dependents EXCEPT ![Out(r)] = {}]
            /\ todo' = Fails(r)
            /\ ready' = HasSteps
       ELSE UNCHANGED <<status, stateOf, dependents, todo, ready>>
    /\ LetGo(Once(held[r]))
    /\ drops' = Emptied(Once(held[r]))
    /\ held' = [held EXCEPT ![r] = {}]
    /\ UNCHANGED <<count, refs, pushes, client, unread, memory, waiting, queued,
                   progress, flags, leaving>>

\* The accumulator a record is the freeze of, if any.
FreezeOf(r) == {a \in Acc : frozen[a] = r}

\* What a record lets go of as its run ends: the record of a state that
\* completed holds it further, until its outputs are dropped.
\* Mutant: it lets go at once, as any record does.
LeavesAtEnd_All(r) == held[r]
LeavesAtEnd(r) == IF Pending(r) /\ FreezeOf(r) = {} THEN {} ELSE held[r]

\* A record completes, unless it was cancelled meanwhile.  Once the record of
\* a freeze has completed, its accumulator takes no readers.
Complete(r) ==
    /\ ~Locked
    /\ at[r] = "returned"
    /\ at' = [at EXCEPT ![r] = "idle"]
    /\ IF Pending(r)
       THEN /\ status' = [status EXCEPT ![r] = "completed"]
            /\ memory' = memory \cup {r}
            /\ Satisfy(Out(r))
            /\ ready' = HasSteps
            /\ stopped' = [a \in Acc |-> stopped[a] \/ a \in FreezeOf(r)]
       ELSE UNCHANGED <<status, memory, waiting, dependents, queued, ready, stopped>>
    /\ stateOf' = IF FreezeOf(r) = {} THEN stateOf ELSE stateOf \ {r}
    /\ LetGo(Once(LeavesAtEnd(r)))
    /\ held' = [held EXCEPT ![r] = @ \ LeavesAtEnd(r)]
    /\ drops' = Emptied(Once(LeavesAtEnd(r))) \cup {Out(d) : d \in {x \in {r} : Pending(x)}}
    /\ UNCHANGED <<count, refs, pushes, client, unread, progress, released, freezing,
                   frozen, todo, leaving>>

\* A step is done: the driver is made, or has added the push.
StepDone(a) ==
    /\ ~Locked
    /\ busy[a]
    /\ Head(steps[a]) \subseteq memory
    /\ steps' = [steps EXCEPT ![a] = Tail(@)]
    /\ added' = [added EXCEPT ![a] = @ + 1]
    /\ driver' = [driver EXCEPT ![a] = added[a] + 1]
    /\ busy' = [busy EXCEPT ![a] = FALSE]
    /\ LetGo(Once(Sources(Head(steps[a]))))
    /\ drops' = Emptied(Once(Sources(Head(steps[a]))))
    /\ Satisfy(<<a, added[a] + 1>>)
    /\ ready' = {a}
    /\ UNCHANGED <<history, client, unread, held, stateOf, memory, at, computed, flags,
                   todo, leaving>>

\* The binding refuses the values or the rows, or what they read is not there.
StepFails(a) ==
    /\ ~Locked
    /\ busy[a]
    /\ Stop(a)
    /\ UNCHANGED ready

-----------------------------------------------------------------------------
CallOf(t) ==
    \/ \E k \in 1..MaxBatch : \E requests \in Requests(k) : PinStates(t, requests)
    \/ \E a \in Acc : BeginFreeze(t, a) \/ BeginRead(t, a)

\* What goes on in a call once it has begun.
CallStep(t) ==
    Create(t) \/ Freeze(t) \/ Refuse(t) \/ StopWaiting(t) \/ Copy(t) \/ EndCall(t)

Cascade ==
    \/ \E job \in todo : FinishNext(job[1], job[2])
    \/ \E r \in Record : DropRecord(r)
    \/ \E s \in State : DropState(s[1], s[2])
    \/ \E a \in Acc : AdvanceNext(a) \/ ReleaseNext(a)

RecordStep(r) == Start(r) \/ Return(r) \/ ReturnState(r) \/ Raise(r) \/ Complete(r)
AccStep(a) == StepDone(a) \/ StepFails(a)

Next ==
    \/ \E a \in Acc : \E outs \in Readable(MaxReads) : Open(a, outs) \/ Push(a, outs)
    \/ \E t \in Thread : CallOf(t) \/ CallStep(t)
    \/ \E r \in Existing : Cancel(r)
    \/ ReleaseOne
    \/ CloseClient
    \/ Cascade
    \/ \E r \in Record : RecordStep(r)
    \/ \E a \in Acc : AccStep(a)

\* The loops under the lock end, workers go on (workflows, drivers and copies
\* return or raise), and a call that has begun ends unless it waits.  Who waits
\* for the lock gets it, though others take it over and over: so the fairness is
\* strong.  Nothing makes a client call.
Fairness ==
    /\ WF_vars(Cascade)
    /\ \A r \in Record : SF_vars(RecordStep(r))
    /\ \A a \in Acc : SF_vars(AccStep(a))
    /\ \A t \in Thread : SF_vars(CallStep(t))

Spec == Init /\ [][Next]_vars
FairSpec == Spec /\ Fairness

-----------------------------------------------------------------------------
(* What makes this correct *)

\* The counter of readers agrees with what records, steps and calls hold: a
\* state's record hands its hold over from its run to its outputs, and no
\* cancel, stop, freeze or release in between counts twice or never.
ReadersCounted ==
    \A k \in Key :
        readers[k] =
            Cardinality({r \in Record : k \in unread[r] \cup held[r]})
          + Cardinality({s \in Acc \X (1..(MaxPushes + 1)) :
                            s[2] <= Len(steps[s[1]]) /\ k \in Sources(steps[s[1]][s[2]])})
          + Cardinality({t \in Thread : k \in call[t].pins})

\* Who reads a state finds it as pinned, and as long as it reads: a record that
\* computes or whose outputs are in memory (they may share memory with the
\* driver) and a call that copies.  No push is added, none has begun, and the
\* driver is not gone.  And a request runs only on outputs that are there.
ReadsAsPinned ==
    /\ \A r \in Record : at[r] = "computing" =>
          \A x \in Record : Out(x) \in held[r] => x \in memory
    /\ \A r \in Record : \A s \in held[r] \cap State :
          driver[s[1]] = s[2] /\ computed[s[1]] \in {None, s[2]}
    /\ \A r \in memory : \A s \in refs[r] \cap State :
          frozen[s[1]] # r => driver[s[1]] = s[2] /\ computed[s[1]] = s[2]
    /\ \A t \in Thread : call[t].phase = "copying" =>
          \A s \in call[t].pins : driver[s[1]] = s[2] /\ computed[s[1]] \in {None, s[2]}

\* No record waits for what never comes: once the lock is let go, what it waits
\* for is an output of a pending record, or a state that its accumulator will
\* reach with the steps it has, and it is told of it.  Nor is a step forgotten:
\* one that no worker does is held back by a reader of the state before it, or
\* by a pending record.
NoneForgotten ==
    ~Locked =>
        /\ \A r \in Existing : Pending(r) =>
              /\ (waiting[r] # {}) = (r \notin queued /\ at[r] = "idle")
              /\ \A k \in waiting[r] : r \in dependents[k]
              /\ \A x \in Record : Out(x) \in waiting[r] => Pending(x)
              /\ \A s \in waiting[r] \cap State :
                    /\ ~stopped[s[1]]
                    /\ s[2] \in (added[s[1]] + 1)..(added[s[1]] + Len(steps[s[1]]))
        /\ \A a \in Acc : steps[a] # <<>> /\ ~busy[a] =>
              ~Unread(a) \/ \E r \in Head(steps[a]) : Pending(r)

\* The record of a freeze is of the last state: no push is logged between the
\* freeze's pin and its record, nor later.
FrozenAtLast ==
    \A a \in Acc : frozen[a] # 0 => refs[frozen[a]] = {<<a, pushes[a]>>}

\* Nothing is held for nobody, once the lock is let go: an accumulator that
\* stopped and has no reader left has dropped its driver, one that is frozen
\* what it computed (unless it is released: nothing refers to it then), one that
\* is released the steps it does not need; and the record of a state holds the
\* state only while something keeps its outputs.
NothingHeld ==
    ~Locked =>
        /\ \A a \in Acc : Unread(a) =>
              /\ stopped[a] => driver[a] = None /\ computed[a] = None
              /\ frozen[a] # 0 /\ steps[a] = <<>> /\ ~released[a] => computed[a] = None
        /\ \A a \in Acc : released[a] => Len(steps[a]) = Needed(a)
        /\ \A r \in Existing : held[r] \cap State # {} /\ at[r] = "idle" =>
              r \in kept \/ readers[Out(r)] > 0

\* Waits never go round in a circle, though a push may be logged between the pin
\* of a state and its record, and then waits for a record logged after it: when
\* no loop, worker or call has anything to do but wait, no record is pending, no
\* step is left, and no call waits.
Quiet ==
    /\ ~Locked
    /\ queued = {}
    /\ \A r \in Record : at[r] = "idle"
    /\ \A a \in Acc : ~busy[a]
    /\ \A t \in Thread :
          \/ call[t].phase = "idle"
          \/ call[t].phase = "waiting" /\ \A p \in call[t].pins : ~WaitIsOver(p)
NoCircularWait ==
    Quiet => /\ \A r \in Record : ~Pending(r)
             /\ \A a \in Acc : steps[a] = <<>>
             /\ \A t \in Thread : call[t] = Idle

\* Every record finishes, whatever it waits for: records, a state that pushes
\* must lead to, or these pushes' wait for readers.
EveryRecordFinishes ==
    \A r \in Record : Pending(r) ~> status[r] \in {"completed", "failed", "cancelled"}

\* Every push that is logged is added, or dropped as its accumulator stopped or
\* is released: readers do not hold it back for ever.
EveryStepEnds == \A a \in Acc : steps[a] # <<>> ~> steps[a] = <<>>

=============================================================================
