----------------------------- MODULE FeedProofs -----------------------------
(***************************************************************************)
(* Theorems about what follows the backend, for any number of records and  *)
(* of threads in Client.wait: no thread sleeps through a finish, no        *)
(* listing stays stale, and close leaves nothing that it found behind.     *)
(*                                                                         *)
(* All rest on what any step of the backend does (BackendStep): a record   *)
(* whose status changes is in the news, which is the part of the feed that *)
(* the step appends, and whoever sleeps is notified of it.                 *)
(***************************************************************************)
EXTENDS Feed, FiniteSetTheorems, SequenceTheorems, TLAPS

Statuses == {"none", "pending"} \cup Finals

FeedTypes ==
    /\ feed \in Seq(Record)
    /\ status \in [Record -> Statuses]
    /\ stopped \in BOOLEAN
    /\ ended \in BOOLEAN
    /\ kept \subseteq Record
    /\ persists \subseteq Record
    /\ late \subseteq Record
    /\ pc \in [Waiter -> {"idle", "top", "statuses", "asking", "blocked"}]
    /\ wanted \in [Waiter -> SUBSET Record]
    /\ position \in 0..Len(feed)
    /\ from \in [Waiter -> 0..Len(feed)]
    /\ cursor \in 0..Len(feed)
    /\ changed \subseteq Record
    /\ shown \in [Record -> Statuses]
    /\ offered \subseteq Record
    /\ released \subseteq Record

\* A thread that asks for changes has a record to wait for, or will have a reply.
Awaits ==
    \A t \in Waiter : pc[t] \in {"asking", "blocked"} =>
        ~Running \/ Changes(from[t]) # {} \/ \E r \in wanted[t] : Pending(r)

\* One that sleeps has been notified, or would have no reply.
Sleeps ==
    \A t \in Waiter : pc[t] = "blocked" /\ t \notin notified => Running /\ Changes(from[t]) = {}

\* What a refresh has looked up of a record that has not changed again since.
LookedUp ==
    /\ stage = "idle" => changed = {}
    /\ stage = "readable" => \A r \in changed : shown[r] # status[r] => r \in Changes(cursor)

\* What close found holds but for what came later.
Found == closer \in {"found", "shut", "closed"} /\ ~stopped => Unfinished \subseteq late

FeedInv == FeedTypes /\ Awaits /\ Sleeps /\ LookedUp /\ ListingCurrent /\ Found

\* The records of the events that a step appends.
News == {feed'[i] : i \in (Len(feed) + 1)..Len(feed')}

\* What a step of the backend may do to what others see of it.
BackendStep ==
    /\ feed' \in Seq(Record) /\ Len(feed) <= Len(feed') /\ \A i \in 1..Len(feed) : feed'[i] = feed[i]
    /\ status' \in [Record -> Statuses]
    /\ \A r \in Record : status'[r] # status[r] => r \in News
    /\ \A r \in Record : Readable(r)' # Readable(r) => r \in News \cup released'
    /\ \A r \in Record : Pending(r)' => Pending(r) \/ closer \in {"none", "waiting"} \/ r \in late'
    /\ kept' \subseteq Record /\ persists' \subseteq Record
    /\ late \subseteq late' /\ late' \subseteq Record
    /\ released \subseteq released' /\ released' \subseteq Record
    /\ stopped' \in BOOLEAN /\ ended' \in BOOLEAN
    /\ stopped => stopped'
    /\ ended => ended'
    /\ {t \in Waiter : pc[t] = "blocked"} \subseteq notified' \/ UNCHANGED <<feed, stopped, ended, notified>>
    /\ UNCHANGED <<closer, waiting, listing>>

-----------------------------------------------------------------------------
(* The feed *)

\* What changed since a position stays changed since it, and the news joins it.
LEMMA ChangesGrow ==
  ASSUME FeedTypes, BackendStep, NEW after \in 0..Len(feed)
  PROVE  Changes(after)' = Changes(after) \cup News
  <1>1. Len(feed) \in Nat /\ Len(feed') \in Nat /\ Len(feed) <= Len(feed')
    BY DEF FeedTypes, BackendStep
  <1>2. \A i \in (after + 1)..Len(feed) : feed'[i] = feed[i]
    BY <1>1 DEF BackendStep
  <1>3. (after + 1)..Len(feed') = ((after + 1)..Len(feed)) \cup ((Len(feed) + 1)..Len(feed'))
    BY <1>1
  <1> QED
    BY <1>2, <1>3 DEF Changes, News

LEMMA BackendStepInv == ASSUME FeedInv, BackendStep PROVE FeedInv'
  <1>0. FeedTypes /\ Len(feed) \in Nat /\ Len(feed') \in Nat /\ Len(feed) <= Len(feed')
    BY DEF FeedInv, FeedTypes, BackendStep
  <1>1. FeedTypes'
    BY <1>0 DEF FeedTypes, BackendStep, waiting, listing
  <1>2. Awaits'
    <2> SUFFICES ASSUME NEW t \in Waiter, pc[t] \in {"asking", "blocked"}, Running',
                        \A r \in wanted[t] : ~Pending(r)'
                 PROVE  Changes(from[t])' # {}
      BY DEF Awaits, BackendStep, waiting
    <2>1. Running
      BY DEF Running, BackendStep
    <2>2. from[t] \in 0..Len(feed) /\ from'[t] = from[t]
      BY <1>0 DEF FeedTypes, BackendStep, waiting
    <2>3. Changes(from[t])' = Changes(from[t]) \cup News
      BY <1>0, <2>2, ChangesGrow
    <2>4. \A r \in wanted[t] : Pending(r) => r \in News
      BY <1>0 DEF Pending, BackendStep, FeedTypes
    <2> QED
      BY <2>1, <2>3, <2>4 DEF FeedInv, Awaits
  <1>3. Sleeps'
    <2>1. /\ {t \in Waiter : pc[t] = "blocked"} \subseteq notified'
             \/ UNCHANGED <<feed, stopped, ended, notified>>
          /\ UNCHANGED <<pc, from>>
      BY DEF BackendStep, waiting
    <2>2. CASE {t \in Waiter : pc[t] = "blocked"} \subseteq notified'
      BY <2>1, <2>2 DEF Sleeps
    <2>3. CASE UNCHANGED <<feed, stopped, ended, notified>>
      BY <2>1, <2>3 DEF FeedInv, Sleeps, Running, Changes
    <2> QED
      BY <2>1, <2>2, <2>3
  <1>4. cursor \in 0..Len(feed) /\ Changes(cursor)' = Changes(cursor) \cup News
    BY <1>0, ChangesGrow DEF FeedTypes, BackendStep, listing
  <1>5. LookedUp'
    BY <1>0, <1>4 DEF FeedInv, LookedUp, BackendStep, listing, FeedTypes
  <1>6. ListingCurrent'
    <2> SUFFICES ASSUME NEW r \in Record
                 PROVE  /\ shown[r] # status'[r] => r \in changed \cup Changes(cursor)'
                        /\ (r \in offered) # Readable(r)' =>
                              r \in changed \cup Changes(cursor)' \cup released'
      BY DEF ListingCurrent, BackendStep, listing
    <2> QED
      BY <1>4 DEF FeedInv, ListingCurrent, BackendStep
  <1>7. Found'
    BY DEF FeedInv, Found, BackendStep, Unfinished
  <1> QED
    BY <1>1, <1>2, <1>3, <1>5, <1>6, <1>7 DEF FeedInv

-----------------------------------------------------------------------------
(* The finishes of a cascade *)

Cascade == Seq(Record \X Finals)

LEMMA RecordsFinite ==
  ASSUME NEW rs \in SUBSET Record
  PROVE  IsFiniteSet(rs) /\ Cardinality(rs) \in Nat
  <1>1. IsFiniteSet(Record)
    BY FS_Interval, FeedAssumption DEF Record
  <1> QED
    BY <1>1, FS_Subset, FS_CardinalityType

LEMMA WithCascade ==
  ASSUME NEW n \in Nat, NEW f \in [1..n -> Record], NEW how \in Finals
  PROVE  With(f, how) \in Cascade
  <1>1. DOMAIN f = 1..n
    OBVIOUS
  <1>2. With(f, how) \in [1..n -> Record \X Finals]
    BY <1>1 DEF With
  <1> QED
    BY <1>2, IsASeq DEF Cascade

LEMMA OrderedRecords ==
  ASSUME NEW rs \in SUBSET Record
  PROVE  /\ Cardinality(rs) \in Nat
         /\ InOrder(rs) \cup Backwards(rs) \subseteq [1..Cardinality(rs) -> Record]
  BY RecordsFinite DEF InOrder, Backwards

LEMMA CancelsCascade == ASSUME NEW rs \in SUBSET Record PROVE Cancels(rs) \subseteq Cascade
  BY OrderedRecords, WithCascade DEF Cancels, Finals

LEMMA FinishesCascade ==
  ASSUME NEW r \in Record, NEW how \in Finals
  PROVE  Finishes(r, how) \subseteq Cascade
  <1>1. <<>> \in Cascade /\ << <<r, how>> >> \in Cascade
    BY DEF Cascade
  <1>2. \A f \in InOrder(FailsWith(r)) : With(f, "failed") \in Cascade
    <2>1. FailsWith(r) \in SUBSET Record
      BY DEF FailsWith
    <2> QED
      BY <2>1, OrderedRecords, WithCascade DEF Finals
  <1>3. Cancels(Orphans(kept, {r} \cup FailsWith(r))) \subseteq Cascade
    <2>1. Orphans(kept, {r} \cup FailsWith(r)) \in SUBSET Record
      BY DEF Orphans, Unfinished
    <2> QED
      BY <2>1, CancelsCascade
  <1>4. \A a, b, c \in Cascade : a \o b \o c \in Cascade
    BY DEF Cascade
  <1> DEFINE first == InOrder(FailsWith(r))
             then == Cancels(Orphans(kept, {r} \cup FailsWith(r)))
             both == {<< <<r, how>> >> \o With(f, "failed") \o c : f \in first, c \in then}
  <1>5. \A f \in first, c \in then : << <<r, how>> >> \o With(f, "failed") \o c \in Cascade
    BY <1>1, <1>2, <1>3, <1>4
  <1>6. Finishes(r, how) = IF ~Pending(r) THEN {<<>>}
                           ELSE IF how = "completed" THEN {<< <<r, how>> >>} ELSE both
    BY DEF Finishes
  <1> HIDE DEF first, then
  <1>7. ASSUME NEW x \in both PROVE x \in Cascade
    <2>1. \E f \in first, c \in then : x = << <<r, how>> >> \o With(f, "failed") \o c
      BY <1>7
    <2> HIDE DEF both
    <2>2. PICK f \in first, c \in then : x = << <<r, how>> >> \o With(f, "failed") \o c
      BY <2>1
    <2>3. << <<r, how>> >> \o With(f, "failed") \o c \in Cascade
      BY <1>5
    <2> QED
      BY <2>2, <2>3
  <1> HIDE DEF both
  <1> QED
    BY <1>1, <1>6, <1>7

\* What any part of a cascade does to the backend, whether or not all of it is
\* appended.
Finished ==
    /\ feed' \in Seq(Record) /\ Len(feed) <= Len(feed') /\ \A i \in 1..Len(feed) : feed'[i] = feed[i]
    /\ status' \in [Record -> Statuses]
    /\ \A r \in Record : status'[r] # status[r] => r \in News /\ status'[r] \in Finals
    /\ stopped' \in BOOLEAN
    /\ stopped => stopped'
    /\ {t \in Waiter : pc[t] = "blocked"} \subseteq notified'
    /\ UNCHANGED persists

LEMMA CascadeFinishes ==
  ASSUME FeedTypes, NEW cascades \in SUBSET Cascade, LogFinishes(cascades)
  PROVE  Finished
  <1>e. PICK ends \in cascades : \E n \in 0..Len(ends) : LogFirst(n, ends)
    BY DEF LogFinishes
  <1>n. PICK n \in 0..Len(ends) : LogFirst(n, ends)
    BY <1>e
  <1>1. /\ feed' = feed \o [i \in 1..n |-> ends[i][1]]
        /\ status' = [r \in Record |->
              IF \E how \in Finals : <<r, how>> \in {ends[i] : i \in 1..n}
              THEN CHOOSE how \in Finals : <<r, how>> \in {ends[i] : i \in 1..n}
              ELSE status[r]]
        /\ IF n < Len(ends) THEN Stop ELSE NotifyAll /\ UNCHANGED stopped
        /\ UNCHANGED persists
    BY <1>n DEF LogFirst
  <1> DEFINE new == [i \in 1..n |-> ends[i][1]]
  <1>2. Len(ends) \in Nat /\ n \in Nat /\ \A i \in 1..n : ends[i] \in Record \X Finals
    BY <1>1 DEF Cascade
  <1>3. new \in Seq(Record) /\ Len(new) = n /\ DOMAIN new = 1..n
    <2>1. new \in [1..n -> Record]
      BY <1>2
    <2> QED
      BY <1>2, <2>1, IsASeq
  <1>4. feed \in Seq(Record) /\ Len(feed) \in Nat
    BY DEF FeedTypes
  <1> HIDE DEF new
  <1>5. /\ feed' \in Seq(Record)
        /\ Len(feed') = Len(feed) + n
        /\ \A i \in 1..Len(feed) : feed'[i] = feed[i]
        /\ \A i \in 1..n : feed'[Len(feed) + i] = new[i]
    BY <1>1, <1>2, <1>3, <1>4 DEF new
  <1>6. \A r \in Record : status'[r] # status[r] => r \in News /\ status'[r] \in Finals
    <2> SUFFICES ASSUME NEW r \in Record, status'[r] # status[r]
                 PROVE  r \in News /\ status'[r] \in Finals
      OBVIOUS
    <2>1. \E how \in Finals : <<r, how>> \in {ends[i] : i \in 1..n}
      BY <1>1
    <2>2. status'[r] \in Finals
      BY <1>1, <2>1
    <2>3. PICK i \in 1..n : ends[i][1] = r
      BY <2>1
    <2>4. feed'[Len(feed) + i] = r
      BY <1>5, <2>3 DEF new
    <2>5. Len(feed) + i \in (Len(feed) + 1)..Len(feed')
      BY <1>2, <1>4, <1>5
    <2> QED
      BY <2>2, <2>4, <2>5 DEF News
  <1>7. status' \in [Record -> Statuses]
    <2>1. \A r \in Record : status'[r] \in Statuses
      BY <1>6 DEF FeedTypes, Statuses
    <2> QED
      BY <1>1, <2>1
  <1>8. /\ stopped' \in BOOLEAN
        /\ stopped => stopped'
        /\ {t \in Waiter : pc[t] = "blocked"} \subseteq notified'
    BY <1>1 DEF Stop, NotifyAll, FeedTypes
  <1> QED
    <2>1. Len(feed) <= Len(feed')
      BY <1>2, <1>4, <1>5
    <2> QED
      BY <1>1, <1>5, <1>6, <1>7, <1>8, <2>1, Zenon DEF Finished

-----------------------------------------------------------------------------
(* The steps of the backend *)

LEMMA SubmitStep ==
  ASSUME FeedInv, NEW r \in Record, NEW p \in 0..MaxRecords, NEW persist \in BOOLEAN,
         Submit(r, p, persist)
  PROVE  BackendStep
  <1>0. FeedTypes /\ feed \in Seq(Record) /\ Len(feed) \in Nat
    BY DEF FeedInv, FeedTypes
  <1>1. ended' = ended /\ closer' = closer /\ released' = released /\ UNCHANGED <<waiting, listing>>
    BY DEF Submit
  <1>2. CASE Stop /\ UNCHANGED <<feed, status, kept, persists, input, queued, late>>
    <2>1. {t \in Waiter : pc[t] = "blocked"} \subseteq notified' /\ stopped'
      BY <1>2 DEF Stop, NotifyAll
    <2>2. feed' = feed /\ status' = status /\ kept' = kept /\ persists' = persists /\ late' = late
      BY <1>2
    <2>3. \A q \in Record : Readable(q)' = Readable(q)
      BY <2>2 DEF Readable
    <2>4. \A q \in Record : Pending(q)' <=> Pending(q)
      BY <2>2 DEF Pending
    <2>5. UNCHANGED <<feed, status, kept, persists, late, ended, closer, released>>
      BY <1>1, <2>2
    <2>6. /\ \A q \in Record : Readable(q)' # Readable(q) => q \in News \cup released'
          /\ \A q \in Record : Pending(q)' => Pending(q) \/ closer \in {"none", "waiting"} \/ q \in late'
      BY <2>3, <2>4
    <2>7. /\ feed' \in Seq(Record) /\ Len(feed) <= Len(feed') /\ \A i \in 1..Len(feed) : feed'[i] = feed[i]
          /\ status' \in [Record -> Statuses]
          /\ \A q \in Record : status'[q] # status[q] => q \in News
      BY <1>0, <2>5 DEF FeedTypes
    <2>8. /\ kept' \subseteq Record /\ persists' \subseteq Record
          /\ late \subseteq late' /\ late' \subseteq Record
          /\ released \subseteq released' /\ released' \subseteq Record
          /\ stopped' \in BOOLEAN /\ ended' \in BOOLEAN
          /\ stopped => stopped'
          /\ ended => ended'
      BY <1>0, <2>1, <2>5 DEF FeedTypes
    <2> QED
      BY <1>1, <2>1, <2>6, <2>7, <2>8 DEF BackendStep
  <1>3. CASE /\ feed' = Append(feed, r)
             /\ status' = [status EXCEPT ![r] = "pending"]
             /\ IF persist THEN persists' = persists \cup {r} /\ UNCHANGED kept
                           ELSE kept' = kept \cup {r} /\ UNCHANGED persists
             /\ late' = IF closer \in {"none", "waiting"} THEN late ELSE late \cup {r}
             /\ NotifyAll
             /\ UNCHANGED stopped
    <2>1. /\ feed' \in Seq(Record) /\ Len(feed') = Len(feed) + 1
          /\ \A i \in 1..Len(feed) : feed'[i] = feed[i]
          /\ feed'[Len(feed) + 1] = r
      BY <1>0, <1>3
    <2>2. r \in News
      BY <1>0, <2>1 DEF News
    <2>3. status' \in [Record -> Statuses] /\ \A q \in Record \ {r} : status'[q] = status[q]
      BY <1>0, <1>3 DEF FeedTypes, Statuses
    <2>4. kept' \subseteq Record /\ persists' \subseteq Record
          /\ \A q \in Record \ {r} : (q \in kept \cup persists)' <=> q \in kept \cup persists
      BY <1>0, <1>3 DEF FeedTypes
    <2>5. \A q \in Record : Readable(q)' # Readable(q) => q \in News
      BY <2>2, <2>3, <2>4 DEF Readable
    <2>6. \A q \in Record : Pending(q)' => Pending(q) \/ closer \in {"none", "waiting"} \/ q \in late'
      BY <1>3, <2>3 DEF Pending
    <2>7. {t \in Waiter : pc[t] = "blocked"} \subseteq notified'
      BY <1>3 DEF NotifyAll
    <2>8. late \subseteq late' /\ late' \subseteq Record
      BY <1>0, <1>3 DEF FeedTypes
    <2> QED
      BY <1>0, <1>1, <1>3, <2>1, <2>2, <2>3, <2>4, <2>5, <2>6, <2>7, <2>8 DEF BackendStep, FeedTypes
  <1> QED
    BY <1>2, <1>3 DEF Submit

\* A cascade, and what the client keeps of the records it does not release.
LEMMA CascadeStep ==
  ASSUME FeedInv, Finished, kept' \subseteq kept, released' = released \cup (kept \ kept'),
         ended' \in BOOLEAN, ended => ended', UNCHANGED <<closer, late, waiting, listing>>
  PROVE  BackendStep
  <1>1. FeedTypes /\ Len(feed) \in Nat
    BY DEF FeedInv, FeedTypes
  <1>2. \A r \in Record : Readable(r)' # Readable(r) => r \in News \cup released'
    BY DEF Readable, Finished
  <1>3. \A r \in Record : Pending(r)' => Pending(r)
    BY DEF Finished, Pending, Finals
  <1> QED
    BY <1>1, <1>2, <1>3 DEF BackendStep, Finished, FeedTypes

LEMMA EndStep ==
  ASSUME FeedInv, NEW r \in Record, NEW how \in Finals, End(r, how)
  PROVE  BackendStep
  <1>1. Finished
    BY FinishesCascade, CascadeFinishes DEF End, FeedInv
  <1> QED
    BY <1>1, CascadeStep DEF End, closing, FeedInv, FeedTypes

LEMMA CancelStep == ASSUME FeedInv, NEW r \in Record, Cancel(r) PROVE BackendStep
  <1>1. Finished
    BY FinishesCascade, CascadeFinishes DEF Cancel, FeedInv, Finals
  <1> QED
    BY <1>1, CascadeStep DEF Cancel, closing, FeedInv, FeedTypes

LEMMA ReleaseStep == ASSUME FeedInv, NEW r \in Record, Release(r) PROVE BackendStep
  <1>1. Orphans(kept', {}) \in SUBSET Record
    BY DEF Orphans, Unfinished
  <1>2. Finished
    BY <1>1, CancelsCascade, CascadeFinishes DEF Release, FeedInv
  <1> QED
    BY <1>2, CascadeStep DEF Release, closing, FeedInv, FeedTypes

LEMMA EndClientStep == ASSUME FeedInv, EndClient PROVE BackendStep
  <1>1. Orphans({}, {}) \in SUBSET Record
    BY DEF Orphans, Unfinished
  <1>2. Finished
    BY <1>1, CancelsCascade, CascadeFinishes DEF EndClient, FeedInv
  <1>3. ended' \in BOOLEAN /\ ~ended
    BY DEF EndClient, Running, FeedInv, FeedTypes
  <1> QED
    BY <1>2, <1>3, CascadeStep DEF EndClient, closing, FeedInv, FeedTypes

\* Those that change nothing a thread in wait or a listing sees.
LEMMA InnerStep ==
  ASSUME FeedInv, Push \/ StepDone \/ (\E r \in Record : Start(r)) \/ UNCHANGED feedVars
  PROVE  BackendStep
  <1>1. UNCHANGED <<feed, status, kept, persists, ended, stopped, closing, waiting, listing, released>>
    BY DEF Push, StepDone, Start, backend, feedVars
  <1>2. {t \in Waiter : pc[t] = "blocked"} \subseteq notified' \/ UNCHANGED notified
    BY DEF Push, StepDone, Start, NotifyAll, feedVars
  <1> QED
    BY <1>1, <1>2 DEF BackendStep, FeedInv, FeedTypes, closing, Readable, Pending

-----------------------------------------------------------------------------
(* The steps of close, of the threads in wait, and of a refresh *)

LEMMA InitFeedInv == InitFeed => FeedInv
  <1> SUFFICES ASSUME InitFeed PROVE FeedInv
    OBVIOUS
  <1>1. feed = <<>> /\ Len(feed) = 0 /\ status = [r \in Record |-> "none"]
    BY DEF InitFeed
  <1>2. FeedTypes
    <2>1. feed \in Seq(Record) /\ 0 \in 0..Len(feed)
      BY <1>1
    <2> QED
      BY <2>1 DEF InitFeed, FeedTypes, Statuses
  <1>3. Awaits /\ Sleeps
    BY DEF InitFeed, Awaits, Sleeps
  <1>4. LookedUp /\ Found
    BY DEF InitFeed, LookedUp, Found
  <1>5. ListingCurrent
    BY DEF InitFeed, ListingCurrent, Readable
  <1> QED
    BY <1>2, <1>3, <1>4, <1>5 DEF FeedInv

\* What none of these steps changes.
SameBackend == UNCHANGED <<feed, status, kept, persists, ended, stopped, late>>

LEMMA ClosingInv ==
  ASSUME FeedInv, BeginClose \/ LookAgain \/ Shutdown \/ LetGoOfLog
  PROVE  FeedInv'
  <1>1. SameBackend /\ UNCHANGED <<waiting, listing, released>>
    BY DEF BeginClose, LookAgain, Shutdown, LetGoOfLog, SameBackend, backend
  <1>2. FeedTypes' /\ Awaits' /\ LookedUp' /\ ListingCurrent'
    <2>1. /\ UNCHANGED <<feed, status, stopped, ended, kept, persists, late, released>>
          /\ UNCHANGED <<pc, wanted, position, from>>
          /\ UNCHANGED listing
      BY <1>1 DEF SameBackend, waiting
    <2>2. UNCHANGED <<cursor, changed, shown, offered, stage>>
      BY <2>1 DEF listing
    <2>3. FeedTypes'
      BY <2>1, <2>2 DEF FeedInv, FeedTypes
    <2>4. Awaits'
      BY <2>1 DEF FeedInv, Awaits, Running, Changes, Pending
    <2>5. LookedUp'
      BY <2>1, <2>2 DEF FeedInv, LookedUp, Changes
    <2>6. ListingCurrent'
      BY <2>1, <2>2 DEF FeedInv, ListingCurrent, Readable, Changes
    <2> QED
      BY <2>3, <2>4, <2>5, <2>6
  <1>3. \A t \in Waiter : t \notin notified' => t \notin notified
    BY FeedAssumption DEF BeginClose, LookAgain, Shutdown, LetGoOfLog
  <1>4. Sleeps'
    BY <1>1, <1>3 DEF FeedInv, Sleeps, Running, Changes, SameBackend, waiting
  <1>5. closer' \in {"found", "shut", "closed"} => closer \in {"found", "shut", "closed"} \/ NothingToDo
    BY DEF BeginClose, LookAgain, Shutdown, LetGoOfLog
  <1>6. Found'
    BY <1>1, <1>5 DEF FeedInv, Found, Unfinished, Pending, NothingToDo, SameBackend
  <1> QED
    BY <1>2, <1>4, <1>6 DEF FeedInv

\* A step of a thread in wait: it goes to sleep, is woken or asks again, and never
\* loses what it has to wake for.
LEMMA WaitingInv ==
  ASSUME FeedInv, NEW t \in Waiter,
         WaitStep(t) \/ TimeIsUp(t) \/ \E rs \in SUBSET Existing : BeginWait(t, rs)
  PROVE  FeedInv'
  <1>0. FeedTypes /\ Len(feed) \in Nat
    BY DEF FeedInv, FeedTypes
  <1>1. SameBackend /\ UNCHANGED <<closer, listing, released>>
    BY DEF WaitStep, TakePosition, AskStatuses, AskChanges, Wake, TimeIsUp, BeginWait, SameBackend,
           backend, closing
  <1>2. /\ pc' \in [Waiter -> {"idle", "top", "statuses", "asking", "blocked"}]
        /\ wanted' \in [Waiter -> SUBSET Record]
        /\ position' \in 0..Len(feed)
        /\ from' \in [Waiter -> 0..Len(feed)]
    <2> USE <1>0 DEF FeedTypes
    <2>r. Return(t) => /\ pc' \in [Waiter -> {"idle", "top", "statuses", "asking", "blocked"}]
                       /\ wanted' \in [Waiter -> SUBSET Record]
                       /\ from' \in [Waiter -> 0..Len(feed)]
      BY DEF Return
    <2>p. Reply(t) => /\ pc' \in [Waiter -> {"idle", "top", "statuses", "asking", "blocked"}]
                      /\ wanted' \in [Waiter -> SUBSET Record]
                      /\ position' \in 0..Len(feed)
                      /\ from' \in [Waiter -> 0..Len(feed)]
      <3>1. CASE Running
        BY <3>1 DEF Reply
      <3>2. CASE ~Running
        BY <3>2, <2>r DEF Reply
      <3> QED
        BY <3>1, <3>2
    <2>1. CASE \E rs \in SUBSET Existing : BeginWait(t, rs)
      BY <2>1 DEF BeginWait, Existing
    <2>2. CASE TakePosition(t)
      BY <2>2 DEF TakePosition
    <2>3. CASE AskStatuses(t)
      BY <2>3, <2>r DEF AskStatuses
    <2>4. CASE AskChanges(t)
      BY <2>4, <2>p DEF AskChanges
    <2>5. CASE Wake(t) \/ TimeIsUp(t)
      BY <2>5, <2>p DEF Wake, TimeIsUp, waiting
    <2> QED
      BY <2>1, <2>2, <2>3, <2>4, <2>5 DEF WaitStep
  <1>3. FeedTypes' /\ LookedUp' /\ ListingCurrent' /\ Found'
    BY <1>0, <1>1, <1>2 DEF FeedInv, FeedTypes, LookedUp, ListingCurrent, Found, Readable, Pending,
                Unfinished, Changes, SameBackend, listing
  <1>4. \A u \in Waiter \ {t} :
            /\ pc'[u] = pc[u] /\ wanted'[u] = wanted[u] /\ from'[u] = from[u]
            /\ u \in notified' <=> u \in notified
    BY <1>0 DEF FeedTypes, WaitStep, TakePosition, AskStatuses, AskChanges, Wake, TimeIsUp, BeginWait,
                Return, Reply, waiting
  <1>5. pc'[t] \in {"asking", "blocked"} =>
            /\ wanted'[t] = wanted[t] /\ from'[t] = from[t]
            /\ pc[t] \in {"asking", "blocked"} \/ \E r \in wanted[t] : Pending(r)
    BY <1>0 DEF FeedTypes, WaitStep, TakePosition, AskStatuses, AskChanges, Wake, TimeIsUp, BeginWait,
                Return, Reply, waiting
  <1>6. pc'[t] = "blocked" /\ t \notin notified' =>
            ~NewsFor(t) \/ (pc[t] = "blocked" /\ t \notin notified)
    BY <1>0 DEF FeedTypes, WaitStep, TakePosition, AskStatuses, AskChanges, Wake, TimeIsUp, BeginWait,
                Return, Reply, waiting
  <1>7. Awaits'
    BY <1>1, <1>4, <1>5 DEF FeedInv, Awaits, Pending, Running, Changes, SameBackend
  <1>8. Sleeps'
    <2>1. Running' = Running
      BY <1>1 DEF Running, SameBackend
    <2>2. \A u \in Waiter : from'[u] = from[u] => Changes(from[u])' = Changes(from[u])
      BY <1>1 DEF Changes, SameBackend
    <2>3. ASSUME NEW u \in Waiter \ {t}, pc'[u] = "blocked", u \notin notified'
          PROVE  Running' /\ Changes(from[u])' = {}
      BY <1>4, <2>1, <2>2, <2>3 DEF FeedInv, Sleeps
    <2>4. ASSUME pc'[t] = "blocked", t \notin notified'
          PROVE  Running' /\ Changes(from[t])' = {}
      BY <1>5, <1>6, <2>1, <2>2, <2>4 DEF FeedInv, Sleeps, NewsFor
    <2> QED
      BY <2>3, <2>4 DEF Sleeps
  <1> QED
    BY <1>3, <1>7, <1>8 DEF FeedInv

LEMMA OtherRepliesInv == ASSUME FeedInv, OtherReplies PROVE FeedInv'
  <1>1. SameBackend /\ UNCHANGED <<closer, notified, pc, wanted, from, listing, released>>
        /\ position' \in 0..Len(feed)
    BY DEF OtherReplies, SameBackend, backend, closing
  <1>2. FeedTypes'
    BY <1>1 DEF FeedInv, FeedTypes, SameBackend, listing
  <1>3. Awaits' /\ Sleeps'
    <2>1. \A t \in Waiter : Changes(from[t])' = Changes(from[t])
      BY <1>1 DEF Changes, SameBackend
    <2>2. Running' = Running /\ \A r \in Record : Pending(r)' = Pending(r)
      BY <1>1 DEF Running, Pending, SameBackend
    <2>3. \A t \in Waiter : wanted[t] \subseteq Record
      BY DEF FeedInv, FeedTypes
    <2>4. Awaits'
      BY <1>1, <2>1, <2>2, <2>3 DEF FeedInv, Awaits
    <2> QED
      BY <1>1, <2>1, <2>2, <2>4 DEF FeedInv, Sleeps
  <1>4. LookedUp' /\ ListingCurrent' /\ Found'
    BY <1>1 DEF FeedInv, LookedUp, ListingCurrent, Found, Readable, Pending, Unfinished, Changes,
                SameBackend, listing
  <1> QED
    BY <1>2, <1>3, <1>4 DEF FeedInv

\* A step of a refresh: what it has looked up is current, or in the feed since.
LEMMA RefreshInv ==
  ASSUME FeedInv, (\E full \in BOOLEAN : BeginRefresh(full)) \/ ListStatuses \/ ListReadable
  PROVE  FeedInv'
  <1>0. FeedTypes /\ Len(feed) \in Nat
    BY DEF FeedInv, FeedTypes
  <1>1. SameBackend /\ UNCHANGED <<closer, notified, waiting>>
    BY DEF BeginRefresh, ListStatuses, ListReadable, SameBackend, backend, closing
  <1>2. \A after \in 0..Len(feed) : Changes(after) \subseteq Record
    BY <1>0 DEF FeedTypes, Changes
  <1>3. /\ cursor' \in 0..Len(feed) /\ changed' \subseteq Record
        /\ shown' \in [Record -> Statuses]
        /\ offered' \subseteq Record /\ released' \subseteq Record
    BY <1>0, <1>2 DEF FeedTypes, BeginRefresh, ListStatuses, ListReadable, NewCursor
  <1>4. FeedTypes'
    BY <1>0, <1>1, <1>3 DEF FeedTypes, SameBackend, waiting
  <1>5. Awaits' /\ Sleeps' /\ Found'
    <2>1. Awaits'
      BY <1>1 DEF FeedInv, Awaits, Pending, Running, Changes, SameBackend, waiting
    <2>2. Sleeps'
      BY <1>1 DEF FeedInv, Sleeps, Running, Changes, SameBackend, waiting
    <2>3. Found'
      BY <1>1 DEF FeedInv, Found, Pending, Unfinished, SameBackend
    <2> QED
      BY <2>1, <2>2, <2>3
  <1>6. LookedUp'
    BY <1>0, <1>1 DEF FeedInv, LookedUp, BeginRefresh, ListStatuses, ListReadable, NewCursor,
                      Changes, SameBackend, FeedTypes
  <1>7. ListingCurrent'
    <2>1. CASE \E full \in BOOLEAN : BeginRefresh(full)
      <3>1. PICK full \in BOOLEAN : BeginRefresh(full)
        BY <2>1
      <3>2. changed = {} /\ cursor \in 0..Len(feed)
        BY <3>1 DEF BeginRefresh, FeedInv, LookedUp, FeedTypes
      <3>3. Changes(cursor) \subseteq changed'
        BY <1>0, <3>1, <3>2 DEF BeginRefresh, Changes
      <3> QED
        BY <1>1, <3>1, <3>2, <3>3 DEF FeedInv, ListingCurrent, BeginRefresh, Readable, SameBackend
    <2>2. CASE ListStatuses
      BY <1>1, <2>2 DEF FeedInv, ListingCurrent, ListStatuses, NewCursor, Readable, Changes, SameBackend
    <2>3. CASE ListReadable
      BY <1>1, <2>3 DEF FeedInv, ListingCurrent, LookedUp, ListReadable, NewCursor, Readable, Changes,
                        SameBackend
    <2> QED
      BY <2>1, <2>2, <2>3
  <1> QED
    BY <1>4, <1>5, <1>6, <1>7 DEF FeedInv

LEMMA FeedInvNext == FeedInv /\ [NextFeed]_feedVars => FeedInv'
  <1> SUFFICES ASSUME FeedInv, [NextFeed]_feedVars PROVE FeedInv'
    OBVIOUS
  <1>1. ASSUME NEW r \in Record, NEW p \in 0..MaxRecords, NEW persist \in BOOLEAN, Submit(r, p, persist)
        PROVE  FeedInv'
    BY <1>1, SubmitStep, BackendStepInv
  <1>2. ASSUME NEW r \in Record, Cancel(r) \/ Release(r) \/ \E how \in Finals : End(r, how)
        PROVE  FeedInv'
    BY <1>2, CancelStep, ReleaseStep, EndStep, BackendStepInv
  <1>3. ASSUME EndClient \/ Push \/ StepDone \/ (\E r \in Record : Start(r)) \/ UNCHANGED feedVars
        PROVE  FeedInv'
    BY <1>3, EndClientStep, InnerStep, BackendStepInv
  <1>4. \A how \in {"completed", "failed"} : how \in Finals
    BY DEF Finals
  <1> QED
    BY <1>1, <1>2, <1>3, <1>4, ClosingInv, WaitingInv, OtherRepliesInv, RefreshInv
       DEF NextFeed, WorkerOrClose

LEMMA FeedInvariant == SpecFeed => []FeedInv
  BY InitFeedInv, FeedInvNext, PTL DEF SpecFeed

-----------------------------------------------------------------------------
\* A thread that sleeps in Client.wait and was not notified has nothing to wake
\* for (Backend.changes and notify_all), however many threads move the position
\* they share between its steps.
THEOREM SleepsThroughNothing == SpecFeed => []NotSleptThrough
  <1>1. FeedInv => NotSleptThrough
    BY DEF FeedInv, Awaits, Sleeps, NotSleptThrough
  <1> QED
    BY <1>1, FeedInvariant, PTL

\* Whatever a listing shows or offers wrongly comes in its next refresh
\* (listing.refresh), unless the record was released, whatever happens between
\* the calls of a refresh.
THEOREM StaysCurrent == SpecFeed => []ListingCurrent
  <1>1. FeedInv => ListingCurrent
    BY DEF FeedInv
  <1> QED
    BY <1>1, FeedInvariant, PTL

\* Backend.close lets go of a backend that has not stopped with nothing pending
\* but what was submitted since it looked.
THEOREM ClosesClean == SpecFeed => []ClosedClean
  <1>1. FeedInv => ClosedClean
    BY DEF FeedInv, Found, ClosedClean
  <1> QED
    BY <1>1, FeedInvariant, PTL

==============================================================================
