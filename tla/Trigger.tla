------------------------------ MODULE Trigger ------------------------------
(***************************************************************************)
(* The trigger loop (rules.py): rules that submit for each new file, one   *)
(* function call at a time, beside a person who submits under the same     *)
(* labels, over crashes of the loop's process at any step.                 *)
(*                                                                         *)
(* A record is what the loop reads of it: the files it holds at a rule's   *)
(* parameter, under the rule's label; rules of one label have one          *)
(* parameter.  What the application submits for a file before the record   *)
(* that settles it is left out, as no rule reads it; that this one is the  *)
(* last, and is what submit returns, is the contract of Rule.  The changes *)
(* of records that finish are left out too: to read a record again adds no *)
(* file.                                                                   *)
(***************************************************************************)
EXTENDS Integers, Sequences, FiniteSets, SequencesExt

CONSTANTS
    Files,         \* the files that may arrive
    Rules,         \* the rules, in the order given
    Label,         \* the label of each rule
    MaxPeople,     \* bound: records that a person submits
    MaxStops       \* bound: crashes of the loop's process

ASSUME TriggerAssumption ==
    /\ Rules \in Seq(ToSet(Rules))
    /\ MaxPeople \in Nat
    /\ MaxStops \in Nat

VARIABLES
    arrived,   \* the files the file source lists
    feed,      \* the records in the order submitted: label, files, for which rule and file
    settling,  \* the record that a call of submit has made and not yet returned, or 0
    position,  \* the loop's position in the feed
    handled,   \* the files each rule has handled, as the loop knows
    rule,      \* the rule being stepped, by its number; 0 between two steps
    new,       \* the files it has yet to go through
    read,      \* the length of the feed when the step read it
    stops      \* crashes so far

triggerVars == <<arrived, feed, settling, position, handled, rule, new, read, stops>>

InitTrigger ==
    /\ arrived = {}
    /\ feed = <<>>
    /\ settling = 0
    /\ position = 0
    /\ handled = [r \in ToSet(Rules) |-> {}]
    /\ rule = 0
    /\ new = {}
    /\ read = 0
    /\ stops = 0

\* The files a record settles for a rule.
FilesAt(record, r) == IF record.label = Label[r] THEN record.files ELSE {}

\* The handled files with those of some records.
Take(records) ==
    [r \in ToSet(Rules) |-> handled[r] \cup UNION {FilesAt(x, r) : x \in records}]

Arrive(f) ==
    /\ f \notin arrived
    /\ arrived' = arrived \cup {f}
    /\ UNCHANGED <<feed, settling, position, handled, rule, new, read, stops>>

\* A person submits under a label of a rule, as from a notebook.
PersonSubmits(r, f) ==
    /\ Cardinality({i \in DOMAIN feed : feed[i].loop = FALSE}) < MaxPeople
    /\ f \in arrived
    /\ feed' = Append(feed, [label |-> Label[r], files |-> {f}, loop |-> FALSE])
    /\ UNCHANGED <<arrived, settling, position, handled, rule, new, read, stops>>

\* The new files of a rule, as its turn comes.
NewFiles(i, known) == IF i \in DOMAIN Rules THEN arrived \ known[Rules[i]] ELSE {}

\* A step reads what changed, and turns to the first rule.
BeginStep ==
    /\ rule = 0
    /\ position' = Len(feed)
    /\ read' = Len(feed)
    /\ handled' = Take({feed[i] : i \in position + 1..Len(feed)})
    /\ rule' = 1
    /\ new' = NewFiles(1, handled')
    /\ UNCHANGED <<arrived, feed, settling, stops>>

\* A file that a record settled meanwhile, as a row, is left out.
StillNew(f) == f \in new /\ f \notin handled[Rules[rule]]

\* submit is called for a file, and submits the record that settles it, perhaps
\* with others of the files as its rows, also files that are handled.
Submits(f, rows) ==
    /\ rule # 0
    /\ settling = 0
    /\ StillNew(f)
    /\ rows \subseteq arrived
    /\ feed' = Append(feed, [label |-> Label[Rules[rule]], files |-> rows \cup {f}, loop |-> TRUE])
    /\ settling' = Len(feed')
    /\ new' = new \ {f}
    /\ UNCHANGED <<arrived, position, handled, rule, read, stops>>

\* It returns the record, which the loop takes.
\* Mutant: the loop waits for the next step to read it.
Returns_Later ==
    /\ settling # 0
    /\ settling' = 0
    /\ UNCHANGED <<arrived, feed, position, handled, rule, new, read, stops>>
Returns ==
    /\ settling # 0
    /\ handled' = Take({feed[settling]})
    /\ settling' = 0
    /\ UNCHANGED <<arrived, feed, position, rule, new, read, stops>>

\* submit leaves the file for the next step, or the file was settled meanwhile.
\* Mutant: the file counts as handled.
Skips_Handled(f) ==
    /\ rule # 0
    /\ settling = 0
    /\ f \in new
    /\ new' = new \ {f}
    /\ handled' = [handled EXCEPT ![Rules[rule]] = @ \cup {f}]
    /\ UNCHANGED <<arrived, feed, settling, position, rule, read, stops>>
Skips(f) ==
    /\ rule # 0
    /\ settling = 0
    /\ f \in new
    /\ new' = new \ {f}
    /\ UNCHANGED <<arrived, feed, settling, position, handled, rule, read, stops>>

\* The rule has gone through its files: the next one has its turn.
EndRule ==
    /\ rule # 0
    /\ settling = 0
    /\ new = {}
    /\ rule' = IF rule >= Len(Rules) THEN 0 ELSE rule + 1
    /\ new' = NewFiles(rule + 1, handled)
    /\ UNCHANGED <<arrived, feed, settling, position, handled, read, stops>>

\* The loop's process ends at any step, also as submit returns what does not
\* settle the file, and starts again from the start of the feed.
StopsAndStarts ==
    /\ stops < MaxStops
    /\ stops' = stops + 1
    /\ position' = 0
    /\ handled' = [r \in ToSet(Rules) |-> {}]
    /\ rule' = 0
    /\ new' = {}
    /\ settling' = 0
    /\ read' = 0
    /\ UNCHANGED <<arrived, feed>>

NextTrigger ==
    \/ \E f \in Files : Arrive(f)
    \/ \E r \in ToSet(Rules), f \in Files : PersonSubmits(r, f)
    \/ BeginStep
    \/ \E f \in Files, rows \in SUBSET Files : Submits(f, rows)
    \/ Returns
    \/ \E f \in Files : Skips(f)
    \/ EndRule
    \/ StopsAndStarts

\* The loop steps for ever, and the application does not skip a file for ever.
FairnessTrigger ==
    /\ WF_triggerVars(BeginStep)
    /\ \A f \in Files : SF_triggerVars(\E rows \in SUBSET Files : Submits(f, rows))
    /\ WF_triggerVars(Returns)
    /\ WF_triggerVars(\E f \in Files : Skips(f))
    /\ WF_triggerVars(EndRule)

SpecTrigger == InitTrigger /\ [][NextTrigger]_triggerVars /\ FairnessTrigger

-----------------------------------------------------------------------------
\* Whether a record among the first n of the feed settles a file for a rule.
SettledIn(n, r, f) == \E i \in 1..n : f \in FilesAt(feed[i], r)

\* What submit is called for: no file that a record which the step has read of
\* holds, and none that any loop has submitted before under the label, be it as
\* the file that submit was called for or as a row.
SubmitsNew ==
    \A f \in Files :
        (\E rows \in SUBSET Files : Submits(f, rows)) =>
            LET r == Rules[rule]
            IN /\ ~SettledIn(read, r, f)
               /\ \A i \in DOMAIN feed : feed[i].loop => f \notin FilesAt(feed[i], r)

\* No file has submit submit for it once it is settled: where the loop has
\* submitted a file under a rule's label, no rule of that label is called for it
\* again, whatever crashed between the submission and the loop taking it; nor for
\* what a person had submitted before the step.  As a row of another's record it
\* may be submitted again.
SettledOnce == [][SubmitsNew]_triggerVars

\* Every file that arrives is settled for every rule, over crashes of the loop.
EachSettled ==
    \A r \in ToSet(Rules), f \in Files :
        f \in arrived ~> SettledIn(Len(feed), r, f)

=============================================================================
