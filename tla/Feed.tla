-------------------------------- MODULE Feed --------------------------------
(***************************************************************************)
(* What follows the backend's history, and how it ends: the feed of        *)
(* changes (views.py), Client.wait (client.py), a Listing refreshed from   *)
(* the one before (listing.py), appends that fail, and Backend.close.      *)
(*                                                                         *)
(* All who wait do so on one condition of the backend: each looks again    *)
(* only when it is notified, so a change that notifies nobody is slept     *)
(* through.  Records are reduced to the order of their events: a record    *)
(* waits for at most one other, and the client is one, of several threads. *)
(* Threads in wait and listings change nothing in the backend, and none of *)
(* them sees another: so each behaviour has one kind of observer.          *)
(***************************************************************************)
EXTENDS Integers, Sequences, FiniteSets, SequencesExt

CONSTANTS MaxRecords,  \* bound: records submitted in all
          Waiter       \* threads of the client that call Client.wait

ASSUME FeedAssumption == MaxRecords \in Nat /\ "closer" \notin Waiter

Record == 1..MaxRecords
Finals == {"completed", "failed", "cancelled"}

VARIABLES
    observer,    \* who follows the backend: "waiters", "listing", or "close"
    \* the backend
    feed,        \* the record of each event that submits or finishes one
    status,      \* of each record
    input,       \* the record each one waits for, or 0
    kept,        \* the records the client keeps
    persists,    \* the records that persist their outputs
    ended,       \* whether the client has ended
    steps,       \* an accumulator's step: none, to do, or done
    stopped,     \* whether an append has failed
    \* the executor
    queued,      \* the records it has not started
    running,     \* the records whose workflow runs
    \* closing
    closer,      \* how far close is
    late,        \* the records submitted since close found nothing pending
    notified,    \* who was notified since it last looked
    \* waiting
    pc,          \* how far each thread is in wait
    wanted,      \* the records it waits for
    from,        \* the position it asks from
    position,    \* the position the client's threads share
    \* listing
    cursor,      \* the position the listing is up to date with
    changed,     \* the records a refresh has still to look up
    stage,       \* what it looks up next
    shown,       \* the status the listing has of each record
    offered,     \* the records the listing has as readable
    released     \* the records released since the listing looked

backend == <<feed, status, input, kept, persists, ended, steps, stopped>>
executor == <<queued, running>>
closing == <<closer, late>>
waiting == <<pc, wanted, from, position>>
listing == <<cursor, changed, stage, shown, offered>>
feedVars == <<observer, backend, executor, closing, notified, waiting, listing, released>>

InitFeed ==
    /\ observer \in {"waiters", "listing", "close"}
    /\ feed = <<>>
    /\ status = [r \in Record |-> "none"]
    /\ input = [r \in Record |-> 0]
    /\ kept = {}
    /\ persists = {}
    /\ ended = FALSE
    /\ steps = "none"
    /\ stopped = FALSE
    /\ queued = {}
    /\ running = {}
    /\ closer = "none"
    /\ late = {}
    /\ notified = {}
    /\ pc = [t \in Waiter |-> "idle"]
    /\ wanted = [t \in Waiter |-> {}]
    /\ from = [t \in Waiter |-> 0]
    /\ position = 0
    /\ cursor = 0
    /\ changed = {}
    /\ stage = "idle"
    /\ shown = [r \in Record |-> "none"]
    /\ offered = {}
    /\ released = {}

Existing == {r \in Record : status[r] # "none"}
Pending(r) == status[r] = "pending"
Unfinished == {r \in Record : Pending(r)}
Running == ~stopped /\ ~ended  \* what _client checks

\* The records with an event since a position.
Changes(after) == {feed[i] : i \in (after + 1)..Len(feed)}

\* Whether the client may reference the record's outputs.
Readable(r) == r \in kept \cup persists /\ status[r] \notin {"failed", "cancelled"}

-----------------------------------------------------------------------------
(* The backend *)

\* notify_all: everyone who waits on the condition.
NotifyAll == notified' = {t \in Waiter : pc[t] = "blocked"} \cup {c \in {"closer"} : closer = "waiting"}

\* An append fails: the backend stops, and wakes what waits.
\* Mutant: it wakes nobody.
Stop_Quietly == stopped' = TRUE /\ UNCHANGED notified
Stop == stopped' = TRUE /\ NotifyAll

\* The executor takes no more records once it was shut down: its submit raises,
\* and the record, which is logged, is never started.
IsShut == closer \in {"shut", "closed"}
Enqueued(rs) == IF IsShut THEN {} ELSE rs

\* A request is logged, and started unless it waits for p; or the append fails,
\* as every append does once close has let go of the log.
Submit(r, p, persist) ==
    /\ Running
    /\ r = Cardinality(Existing) + 1
    /\ p # 0 => Readable(p)
    /\ \/ /\ closer # "closed"
          /\ feed' = Append(feed, r)
          /\ status' = [status EXCEPT ![r] = "pending"]
          /\ IF persist THEN persists' = persists \cup {r} /\ UNCHANGED kept
                        ELSE kept' = kept \cup {r} /\ UNCHANGED persists
          /\ input' = [input EXCEPT ![r] = IF p # 0 /\ Pending(p) THEN p ELSE 0]
          /\ queued' = queued \cup (IF input'[r] = 0 THEN Enqueued({r}) ELSE {})
          /\ late' = IF closer \in {"none", "waiting"} THEN late ELSE late \cup {r}
          /\ NotifyAll
          /\ UNCHANGED stopped
       \/ Stop /\ UNCHANGED <<feed, status, kept, persists, input, queued, late>>
    /\ UNCHANGED <<observer, ended, steps, running, closer, waiting, listing, released>>

\* The records of a set in the order submitted, and in the reverse order.
InOrder(rs) == {f \in [1..Cardinality(rs) -> rs] : \A i, j \in DOMAIN f : i < j => f[i] < f[j]}
Backwards(rs) == {f \in [1..Cardinality(rs) -> rs] : \A i, j \in DOMAIN f : i < j => f[i] > f[j]}

\* The records that fail with one that does not complete.
FailsWith(r) ==
    LET Fails[d \in Record] == \/ d = r
                               \/ Pending(d) /\ input[d] # 0 /\ Fails[input[d]]
    IN {d \in Record \ {r} : Fails[d]}

\* The pending records without a keeper once the client keeps k and the records
\* `gone` have finished: no store, no client, and no record that waits for them.
Orphans(k, gone) ==
    LET Waits(r) == {d \in Record : Pending(d) /\ d \notin gone /\ input[d] = r}
        Kept[r \in Record] == r \in persists \cup k \/ \E d \in Waits(r) : Kept[d]
    IN {r \in Unfinished \ gone : ~Kept[r]}

\* How a record's finish goes on: what waits for it fails, in the order submitted,
\* and what only these waited for is cancelled; those that wait are cancelled
\* before those they wait for.
With(rs, how) == [i \in DOMAIN rs |-> <<rs[i], how>>]
Cancels(rs) == {With(f, "cancelled") : f \in Backwards(rs)}
Finishes(r, how) ==
    IF ~Pending(r) THEN {<<>>}
    ELSE IF how = "completed" THEN {<< <<r, how>> >>}
    ELSE LET fails == FailsWith(r)
         IN {<< <<r, how>> >> \o With(f, "failed") \o c :
                f \in InOrder(fails), c \in Cancels(Orphans(kept, {r} \cup fails))}

\* The finishes are appended one after the other, until an append fails.  What
\* waited for a record that completes is started.
LogFirst(n, ends) ==
    LET done == {ends[i] : i \in 1..n}
        next == {d \in Unfinished : <<input[d], "completed">> \in done}
    IN /\ closer = "closed" => n = 0
       /\ feed' = feed \o [i \in 1..n |-> ends[i][1]]
       /\ status' = [r \in Record |-> IF \E how \in Finals : <<r, how>> \in done
                                      THEN CHOOSE how \in Finals : <<r, how>> \in done
                                      ELSE status[r]]
       /\ queued' = queued \cup Enqueued(next)
       /\ input' = [d \in Record |-> IF d \in next THEN 0 ELSE input[d]]
       /\ IF n < Len(ends) THEN Stop ELSE NotifyAll /\ UNCHANGED stopped
       /\ UNCHANGED <<persists, steps>>
LogFinishes(cascades) == \E ends \in cascades : \E n \in 0..Len(ends) : LogFirst(n, ends)

\* A worker takes a record, and finishes it.
Start(r) ==
    /\ r \in queued
    /\ queued' = queued \ {r}
    /\ running' = IF Pending(r) THEN running \cup {r} ELSE running
    /\ UNCHANGED <<observer, backend, closing, notified, waiting, listing, released>>
End(r, how) ==
    /\ r \in running
    /\ running' = running \ {r}
    /\ LogFinishes(Finishes(r, how))
    /\ UNCHANGED <<observer, kept, ended, closing, waiting, listing, released>>

Cancel(r) ==
    /\ Running
    /\ Pending(r)
    /\ LogFinishes(Finishes(r, "cancelled"))
    /\ UNCHANGED <<observer, kept, ended, running, closing, waiting, listing, released>>

\* Release a record: no event tells of it, but what it leaves without a keeper
\* is cancelled.
Release(r) ==
    /\ Running
    /\ r \in kept
    /\ kept' = kept \ {r}
    /\ released' = released \cup {r}
    /\ LogFinishes(Cancels(Orphans(kept', {})))
    /\ UNCHANGED <<observer, ended, running, closing, waiting, listing>>

\* The client ends, and so releases all it keeps.  It has not ended if an append
\* fails meanwhile.
EndClient ==
    /\ Running
    /\ kept' = {}
    /\ released' = released \cup kept
    /\ LogFinishes(Cancels(Orphans({}, {})))
    /\ ended' = ~stopped'
    /\ UNCHANGED <<observer, running, closing, waiting, listing>>

\* A push is logged, which is in no feed, and later its step is done.  One push
\* is the bound.
Push ==
    /\ Running
    /\ steps = "none"
    /\ ~IsShut
    /\ steps' = "todo"
    /\ NotifyAll
    /\ UNCHANGED <<observer, feed, status, input, kept, persists, ended, stopped, executor,
                   closing, waiting, listing, released>>
StepDone ==
    /\ steps = "todo"
    /\ steps' = "done"
    /\ NotifyAll
    /\ UNCHANGED <<observer, feed, status, input, kept, persists, ended, stopped, executor,
                   closing, waiting, listing, released>>

-----------------------------------------------------------------------------
(* Closing *)

\* What close waits for.
\* Mutant: that the executor's queue is empty.
NothingToDo_Queued == stopped \/ (queued = {} /\ steps # "todo")
NothingToDo == stopped \/ (Unfinished = {} /\ steps # "todo")

\* close looks, and waits until it is notified to look again.
BeginClose ==
    /\ observer = "close"
    /\ closer = "none"
    /\ closer' = "waiting"
    /\ notified' = notified \cup {"closer"}
    /\ UNCHANGED <<observer, backend, executor, late, waiting, listing, released>>
LookAgain ==
    /\ closer = "waiting"
    /\ "closer" \in notified
    /\ notified' = notified \ {"closer"}
    /\ closer' = IF NothingToDo THEN "found" ELSE closer
    /\ UNCHANGED <<observer, backend, executor, late, waiting, listing, released>>

\* The executor is shut down, without the lock; a backend that has stopped drops
\* the work not yet started.
Shutdown ==
    /\ closer = "found"
    /\ closer' = "shut"
    /\ queued' = IF stopped THEN {} ELSE queued
    /\ UNCHANGED <<observer, backend, running, late, notified, waiting, listing, released>>

\* Its workers have ended: close lets go of the log.
LetGoOfLog ==
    /\ closer = "shut"
    /\ queued = {}
    /\ running = {}
    /\ steps # "todo"
    /\ closer' = "closed"
    /\ UNCHANGED <<observer, backend, executor, late, notified, waiting, listing, released>>

-----------------------------------------------------------------------------
(* Client.wait, by a thread t *)

BeginWait(t, rs) ==
    /\ observer = "waiters"
    /\ pc[t] = "idle"
    /\ pc' = [pc EXCEPT ![t] = "top"]
    /\ wanted' = [wanted EXCEPT ![t] = rs]
    /\ UNCHANGED <<observer, backend, executor, closing, notified, from, position, listing, released>>

\* The position comes first, then the statuses.
TakePosition(t) ==
    /\ pc[t] = "top"
    /\ pc' = [pc EXCEPT ![t] = "statuses"]
    /\ from' = [from EXCEPT ![t] = position]
    /\ UNCHANGED <<observer, backend, executor, closing, notified, wanted, position, listing, released>>

\* wait returns, or raises as the client has ended or the backend has stopped.
Return(t) ==
    /\ pc' = [pc EXCEPT ![t] = "idle"]
    /\ wanted' = [wanted EXCEPT ![t] = {}]
    /\ from' = [from EXCEPT ![t] = 0]

AskStatuses(t) ==
    /\ pc[t] = "statuses"
    /\ IF Running /\ \E r \in wanted[t] : Pending(r)
       THEN pc' = [pc EXCEPT ![t] = "asking"] /\ UNCHANGED <<wanted, from>>
       ELSE Return(t)
    /\ UNCHANGED <<observer, backend, executor, closing, notified, position, listing, released>>

\* Backend.changes: it replies at once if there is a change, and otherwise waits
\* on the condition.
\* Mutant: it waits for what comes after the last event.
NewsFor_Last(t) == ~Running
NewsFor(t) == ~Running \/ Changes(from[t]) # {}
Reply(t) ==
    /\ IF Running THEN position' = Len(feed) /\ pc' = [pc EXCEPT ![t] = "top"]
                       /\ UNCHANGED <<wanted, from>>
       ELSE Return(t) /\ UNCHANGED position
AskChanges(t) ==
    /\ pc[t] = "asking"
    /\ IF NewsFor(t) THEN Reply(t)
       ELSE pc' = [pc EXCEPT ![t] = "blocked"] /\ UNCHANGED <<wanted, from, position>>
    /\ UNCHANGED <<observer, backend, executor, closing, notified, listing, released>>

\* It wakes when notified, and replies or waits again; or its time is up.
Wake(t) ==
    /\ pc[t] = "blocked"
    /\ t \in notified
    /\ notified' = notified \ {t}
    /\ IF NewsFor(t) THEN Reply(t) ELSE UNCHANGED waiting
    /\ UNCHANGED <<observer, backend, executor, closing, listing, released>>
TimeIsUp(t) ==
    /\ pc[t] = "blocked"
    /\ notified' = notified \ {t}
    /\ Reply(t)
    /\ UNCHANGED <<observer, backend, executor, closing, listing, released>>

\* Another thread of the client, also in wait, has had a reply, perhaps a while
\* ago, and sets the position to what it was then.
OtherReplies ==
    /\ observer = "waiters"
    /\ position' \in 0..Len(feed) \ {position}
    /\ UNCHANGED <<observer, backend, executor, closing, notified, pc, wanted, from, listing, released>>

-----------------------------------------------------------------------------
(* A listing, refreshed by another thread of the client *)

\* The position and what changed since the listing's, in one call.  A refresh of
\* all, as after a release, starts from no listing.
\* Mutant: a position in the feed as it is once the refresh is done.
NewCursor_Late == IF stage = "readable" THEN Len(feed) ELSE cursor
NewCursor == IF stage = "idle" THEN Len(feed) ELSE cursor

BeginRefresh(full) ==
    /\ Running
    /\ observer = "listing"
    /\ stage = "idle"
    /\ stage' = "status"
    /\ cursor' = NewCursor
    /\ changed' = Changes(IF full THEN 0 ELSE cursor)
    /\ UNCHANGED <<observer, backend, executor, closing, notified, waiting, shown, offered, released>>

\* Then their statuses, and then which are readable.
ListStatuses ==
    /\ Running
    /\ stage = "status"
    /\ stage' = "readable"
    /\ cursor' = NewCursor
    /\ shown' = [r \in Record |-> IF r \in changed THEN status[r] ELSE shown[r]]
    /\ UNCHANGED <<observer, backend, executor, closing, notified, waiting, changed, offered, released>>
ListReadable ==
    /\ Running
    /\ stage = "readable"
    /\ stage' = "idle"
    /\ cursor' = NewCursor
    /\ offered' = (offered \ changed) \cup {r \in changed : Readable(r)}
    /\ released' = released \ changed
    /\ changed' = {}
    /\ UNCHANGED <<observer, backend, executor, closing, notified, waiting, shown>>

-----------------------------------------------------------------------------
WorkerOrClose ==
    \/ \E r \in Record : Start(r)
    \/ \E r \in Record, how \in {"completed", "failed"} : End(r, how)
    \/ StepDone
    \/ LookAgain
    \/ Shutdown
    \/ LetGoOfLog

WaitStep(t) == TakePosition(t) \/ AskStatuses(t) \/ AskChanges(t) \/ Wake(t)

\* No push matters to a listing, and neither a release nor what persists to a
\* wait: bounds.
NextFeed ==
    \/ \E r \in Record, p \in 0..MaxRecords : Submit(r, p, FALSE)
    \/ \E r \in Record : Cancel(r)
    \/ EndClient
    \/ observer # "listing" /\ Push
    \/ observer # "waiters" /\ \E r \in Record, p \in 0..MaxRecords : Submit(r, p, TRUE)
    \/ observer # "waiters" /\ \E r \in Record : Release(r)
    \/ WorkerOrClose
    \/ BeginClose
    \/ \E t \in Waiter : \E rs \in SUBSET Existing \ {{}} : BeginWait(t, rs)
    \/ \E t \in Waiter : WaitStep(t)
    \/ \E t \in Waiter : TimeIsUp(t)
    \/ OtherReplies
    \/ \E full \in BOOLEAN : BeginRefresh(full)
    \/ ListStatuses
    \/ ListReadable

\* Workers go on, and so does the thread in close once it is notified.
FairnessFeed ==
    /\ \A r \in Record : WF_feedVars(Start(r) \/ \E how \in Finals : End(r, how))
    /\ WF_feedVars(StepDone)
    /\ WF_feedVars(LookAgain)
    /\ WF_feedVars(Shutdown)
    /\ WF_feedVars(LetGoOfLog)

SpecFeed == InitFeed /\ [][NextFeed]_feedVars /\ FairnessFeed

-----------------------------------------------------------------------------
(* What makes this correct *)

\* A thread that sleeps in wait, and was not notified since it last looked, has
\* nothing to wake for: the client and the backend go on, what it waits for
\* includes a pending record, and nothing happened after the position it asked
\* from.  Threads of one client share that position, and any of them may move
\* it between the steps of another.
NotSleptThrough ==
    \A t \in Waiter : pc[t] = "blocked" /\ t \notin notified =>
        /\ Running
        /\ \E r \in wanted[t] : Pending(r)
        /\ Changes(from[t]) = {}

\* A listing is up to date with its position: whatever happens between the calls
\* of a refresh, a record it shows with another status than it has comes in the
\* next refresh, and so does one it offers wrongly, unless the record was
\* released since.
ListingCurrent ==
    \A r \in Record :
        /\ shown[r] # status[r] => r \in changed \cup Changes(cursor)
        /\ (r \in offered) # Readable(r) => r \in changed \cup Changes(cursor) \cup released

\* close lets go of a backend that has not stopped only with every record
\* finished, but for those submitted after it found nothing pending.
ClosedClean == closer = "closed" /\ ~stopped => Unfinished \subseteq late

\* Once called, close ends: also if an append fails while it waits, or leaves
\* records pending for good.
Closes == closer = "waiting" ~> closer = "closed"

=============================================================================
