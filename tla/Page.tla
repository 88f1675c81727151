-------------------------------- MODULE Page --------------------------------
(***************************************************************************)
(* The page of the application (panel/app.py): submissions, the poll that  *)
(* lists what changed, and the table of outputs with the detail of the row *)
(* selected (panel/outputs.py, panel/table.py), beside a backend whose     *)
(* records finish and clients that submit and release elsewhere.           *)
(*                                                                         *)
(* A record has one output.  A record that the backend cancels, as nothing *)
(* keeps it, is "dropped" here, and one that a client cancels "cancelled": *)
(* both have the one status, but only the first has a reason in failure.   *)
(* A listing is one step here: what changes between its calls is in module *)
(* Feed.  Left out: the table of records (the same Table), the views but   *)
(* the plot, and figures and wording.                                      *)
(***************************************************************************)
EXTENDS Integers, Sequences, FiniteSets, SequencesExt

CONSTANT MaxSubmitted   \* bound: records

ASSUME PageAssumption == MaxSubmitted \in Nat

Submitted == 1..MaxSubmitted   \* records, in the order submitted
Nothing == 0
NoDetail == <<Nothing, "none">>
Said(what) == <<Nothing, what>>   \* a message that tells of no outcome

VARIABLES
    state,      \* the status of each record in the backend
    news,       \* the records in the order they changed
    readable,   \* the records whose output the client may read, once there is one
    listed,     \* the listing: its cursor, and the records, statuses, readable outputs
    keys,       \* the keys of the table's rows, newest first
    selected,   \* the row selected, or Nothing
    detail,     \* the key and the status that the detail shows, or NoDetail
    drawn,      \* the record whose value is drawn, or Nothing
    removed,    \* the records the user has removed
    awaited,    \* the last submission of the page, until its outcome is shown
    message,    \* the last message: what it says of a record's outcome, or else
    calling     \* how far a call of submit is

backendOfPage == <<state, news, readable>>
table == <<keys, selected, detail, drawn>>
pageVars == <<backendOfPage, listed, table, removed, awaited, message, calling>>

InitPage ==
    /\ state = [r \in Submitted |-> "none"]
    /\ news = <<>>
    /\ readable = {}
    /\ listed = [cursor |-> 0, state |-> state, readable |-> {}]
    /\ keys = <<>>
    /\ selected = Nothing
    /\ detail = NoDetail
    /\ drawn = Nothing
    /\ removed = {}
    /\ awaited = Nothing
    /\ message = Said("none")
    /\ calling = "no"

-----------------------------------------------------------------------------
(* The backend *)

Fresh == {r \in Submitted : state[r] = "none"}
NewRecord == CHOOSE r \in Fresh : \A s \in Fresh : r <= s

\* The backend logs a submission of the client, which keeps its record.
LogsSubmission ==
    /\ Fresh # {}
    /\ state' = [state EXCEPT ![NewRecord] = "pending"]
    /\ news' = Append(news, NewRecord)
    /\ readable' = readable \cup {NewRecord}

SubmitsElsewhere ==
    /\ LogsSubmission
    /\ UNCHANGED <<listed, table, removed, awaited, message, calling>>

EndsAs(r, how) ==
    /\ state[r] = "pending"
    /\ state' = [state EXCEPT ![r] = how]
    /\ news' = Append(news, r)
    /\ readable' = IF how = "completed" THEN readable ELSE readable \ {r}

Ends(r, how) ==
    /\ EndsAs(r, how)
    /\ UNCHANGED <<listed, table, removed, awaited, message, calling>>

\* A record is released: what is pending may be dropped, as nothing keeps it.
\* A release is no news.
Releases(r) ==
    \/ EndsAs(r, "dropped")
    \/ readable' = readable \ {r} /\ UNCHANGED <<state, news>>
    \/ UNCHANGED backendOfPage    \* its output is persisted

ReleasedElsewhere(r) ==
    /\ r \in readable
    /\ Releases(r)
    /\ UNCHANGED <<listed, table, removed, awaited, message, calling>>

-----------------------------------------------------------------------------
(* The table *)

KeyOf(rows, i) == IF i = Nothing THEN Nothing ELSE rows[i]
NewestFirst(S) == [i \in 1..Cardinality(S) |-> CHOOSE r \in S : Cardinality({s \in S : s >= r}) = i]
RowsOf(l, without) ==
    NewestFirst((l.readable \cup {r \in Submitted : l.state[r] = "failed"}) \ without)

\* The row of a key stays selected as rows come and go.
\* Mutant: the row at the same place does.
SelectedIn_Place(rows) == IF selected \in DOMAIN rows THEN selected ELSE Nothing
SelectedIn(rows) ==
    LET key == KeyOf(keys, selected)
    IN IF key \in ToSet(rows) THEN CHOOSE i \in DOMAIN rows : rows[i] = key ELSE Nothing

\* The detail follows the row selected, and reads the value of a completed record
\* if it can, when the row's key or values are others than those it shows.
Follow(rows, i, l) ==
    LET key == KeyOf(rows, i)
        shown == IF key = Nothing THEN NoDetail ELSE <<key, l.state[key]>>
    IN IF shown = detail THEN UNCHANGED <<detail, drawn>>
       ELSE /\ detail' = shown
            /\ drawn' = IF key # Nothing /\ l.state[key] = "completed" /\ key \in readable'
                        THEN key ELSE Nothing

\* The rows of a listing are set.
SetRows(l, without) ==
    /\ listed' = l
    /\ keys' = RowsOf(l, without)
    /\ selected' = SelectedIn(keys')
    /\ Follow(keys', selected', l)

SelectRow(i) ==
    /\ calling = "no"
    /\ i \in DOMAIN keys \cup {Nothing}
    /\ UNCHANGED backendOfPage
    /\ selected' = i
    /\ Follow(keys, i, listed)
    /\ UNCHANGED <<listed, keys, removed, awaited, message, calling>>

-----------------------------------------------------------------------------
(* The page *)

\* A listing from scratch, and one of what changed since the last.
ListAll == [cursor |-> Len(news'), state |-> state', readable |-> readable']
ListChanged ==
    LET changed == {news[i] : i \in listed.cursor + 1..Len(news)}
    IN [cursor |-> Len(news),
        state |-> [r \in Submitted |-> IF r \in changed THEN state[r] ELSE listed.state[r]],
        readable |-> (listed.readable \ changed) \cup (readable \cap changed)]

\* The page submits, or its submission is refused.
SubmitHere ==
    /\ calling = "no"
    /\ LogsSubmission
    /\ awaited' = NewRecord
    /\ calling' = "list"
    /\ UNCHANGED <<listed, table, removed, message>>
RefusedHere ==
    /\ calling = "no"
    /\ message' = Said("refused")
    /\ UNCHANGED <<backendOfPage, listed, table, removed, awaited, calling>>

ListSubmission ==
    /\ calling = "list"
    /\ UNCHANGED <<backendOfPage, removed, awaited>>
    /\ SetRows(ListChanged, removed)
    /\ message' = Said("submitted")
    /\ calling' = "poll"

\* What the page says of a record that has finished: why it failed or was
\* dropped, or else that it was computed, also when a client cancelled it.
Reason == {"failed", "dropped"}
Outcome(how) == IF how \in Reason THEN "Failed" ELSE "Computed"

\* The page polls: it lists what changed, and says what became of the last
\* submission once that is listed finished.
\* Mutant: it looks no further when nothing changed.
HasOutcome_New(l) == listed.cursor < Len(news) /\ awaited # Nothing /\ l.state[awaited] # "pending"
HasOutcome(l) == awaited # Nothing /\ l.state[awaited] # "pending"
Poll ==
    /\ calling \in {"no", "poll"}
    /\ UNCHANGED <<backendOfPage, removed>>
    /\ IF listed.cursor < Len(news) THEN SetRows(ListChanged, removed)
       ELSE UNCHANGED <<listed, table>>
    /\ IF HasOutcome(listed')
       THEN awaited' = Nothing /\ message' = <<awaited, Outcome(state[awaited])>>
       ELSE UNCHANGED <<awaited, message>>
    /\ calling' = "no"

\* The user removes the output selected: its record is released, and all is
\* listed again, as a release is no news.
RemoveOutput ==
    /\ calling = "no"
    /\ selected # Nothing
    /\ LET r == keys[selected]
       IN /\ IF r \in readable THEN Releases(r) ELSE UNCHANGED backendOfPage
          /\ removed' = removed \cup {r}
          /\ SetRows(ListAll, removed')
    /\ UNCHANGED <<awaited, message, calling>>

EndOf(r) == \E how \in {"completed", "failed", "cancelled"} : Ends(r, how)

NextPage ==
    \/ SubmitsElsewhere
    \/ \E r \in Submitted : EndOf(r)
    \/ \E r \in Submitted : ReleasedElsewhere(r)
    \/ \E i \in 0..MaxSubmitted : SelectRow(i)
    \/ SubmitHere
    \/ RefusedHere
    \/ ListSubmission
    \/ Poll
    \/ RemoveOutput

\* Records finish, submit returns, and the page's server calls poll for ever.
FairnessPage ==
    /\ \A r \in Submitted : WF_pageVars(EndOf(r))
    /\ WF_pageVars(ListSubmission)
    /\ WF_pageVars(Poll)

SpecPage == InitPage /\ [][NextPage]_pageVars /\ FairnessPage

-----------------------------------------------------------------------------
\* The output selected stays the one the user selected, though newer ones are
\* listed above it, until the user selects another or it is not listed any more;
\* and the detail is of it, with the status listed.  So Remove releases what the
\* user looks at.
SelectionStays ==
    [][LET before == KeyOf(keys, selected)
           after == KeyOf(keys', selected')
       IN /\ after # before =>
                \/ \E i \in DOMAIN keys \cup {Nothing} : SelectRow(i)
                \/ after = Nothing /\ before \notin ToSet(keys')
          /\ detail' = IF after = Nothing THEN NoDetail ELSE <<after, listed'.state[after]>>
          /\ drawn' \in {Nothing, after}
          /\ removed' # removed => removed' \ removed = {before}]_pageVars

\* What becomes of the last submission is shown, unless the page submits again
\* before, also if it finished while submit listed it, or another was refused
\* meanwhile: that it failed, or that it was dropped as it was released, and
\* never so for one that has no reason.  One that a client cancelled is shown as
\* one that completed: the page tells the two apart by nothing.
OutcomeShown ==
    \A r \in Submitted :
        awaited = r ~>
            \/ awaited \notin {r, Nothing}
            \/ message = <<r, "Failed">> /\ state[r] \in {"failed", "dropped"}
            \/ message = <<r, "Computed">> /\ state[r] \in {"completed", "cancelled"}

=============================================================================
