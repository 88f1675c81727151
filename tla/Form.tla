-------------------------------- MODULE Form --------------------------------
(***************************************************************************)
(* The table of a list of a form and the editor of its rows                *)
(* (panel/form.py), while the files and the records listed change.         *)
(*                                                                         *)
(* A row is a group with one field, a file, or an output of a record, as   *)
(* the type of the list has it; a step is one callback of the page, with   *)
(* those that it calls.  Left out: layout, labels and the columns of the   *)
(* table; scalars of other types; tables within a row.                     *)
(***************************************************************************)
EXTENDS Integers, Sequences, FiniteSets, SequencesExt

CONSTANTS
    WaysTaken,     \* the ways to give a row, of each type of the list
    Entered,       \* what may be entered in the field of a group
    FileChoices,   \* the files of the file source
    OutputChoices, \* the outputs of records that fit
    NotGiven,      \* UNSET: nothing given
    MaxTableRows   \* bound: rows

\* What a row may be; nothing given is no way, nothing to give, no row, and no rows.
RowWays == {"Given", "A file", "From a record"}
Row == [way : RowWays, what : Entered \cup FileChoices \cup OutputChoices]

ASSUME FormAssumption ==
    /\ MaxTableRows \in Nat
    /\ WaysTaken \subseteq SUBSET RowWays
    /\ NotGiven \notin Entered \cup FileChoices \cup OutputChoices
    /\ NotGiven \notin RowWays /\ NotGiven \notin Row /\ NotGiven \notin Seq(Row)

VARIABLES
    ways,        \* the ways to give a row
    listing,     \* the files and the outputs listed
    rows,        \* the rows as a request writes them, or NotGiven
    selection,   \* the rows selected
    editor,      \* the way chosen, what the widget of each way holds, and a file
                 \* that is offered though not listed
    shown        \* what the editor held as it showed the selection

formVars == <<ways, listing, rows, selection, editor, shown>>

-----------------------------------------------------------------------------
(* The widget of a row: a choice of ways *)

\* A value of a row: its way, and what is given by it.
RowOf(way, what) == [way |-> way, what |-> what]

\* What is offered beside the files listed: the file held as they were last offered.
Offered(file, listed) == IF file \in listed.files THEN NotGiven ELSE file

\* The editor as it shows a value, among some files and outputs: the ways not
\* chosen are as they start; an output not listed is not picked, a file is.
ChoiceSet(value, listed) ==
    LET way == IF value # NotGiven THEN value.way
               ELSE IF Cardinality(ways) = 1 THEN CHOOSE w \in ways : TRUE ELSE NotGiven
        given(w) == IF value # NotGiven /\ w = way THEN value.what ELSE NotGiven
    IN [way |-> way,
        Given |-> given("Given"),
        File |-> given("A file"),
        Unlisted |-> Offered(given("A file"), listed),
        Record |-> IF given("From a record") \in listed.outputs
                   THEN given("From a record") ELSE NotGiven]

\* The editor with the files and outputs listed anew: an output gone is not
\* picked any more, a file picked stays.
ChoiceRefreshed(e, listed) ==
    [e EXCEPT !.Record = IF @ \in listed.outputs THEN @ ELSE NotGiven,
              !.Unlisted = Offered(e.File, listed)]

\* What the editor holds: the value, and what is missing in it.
Holds(e) ==
    LET what == CASE e.way = "Given" -> e.Given
                  [] e.way = "A file" -> e.File
                  [] e.way = "From a record" -> e.Record
                  [] OTHER -> NotGiven
    IN [value |-> IF e.way = NotGiven \/ (e.way # "Given" /\ what = NotGiven)
                  THEN NotGiven ELSE RowOf(e.way, what),
        missing |-> e.way # NotGiven /\ what = NotGiven]

Changed == Holds(editor) # shown

\* The rows, none before one is added or removed.
TheRows == IF rows = NotGiven THEN <<>> ELSE rows

\* The one row selected shows in the editor, or nothing.
Loaded(table, selected, listed) ==
    ChoiceSet(IF Cardinality(selected) = 1 THEN table[CHOOSE i \in selected : TRUE] ELSE NotGiven,
              listed)
Load(table, selected) ==
    /\ editor' = Loaded(table, selected, listing)
    /\ shown' = Holds(editor')

-----------------------------------------------------------------------------
InitForm ==
    /\ ways \in WaysTaken
    /\ listing = [files |-> FileChoices, outputs |-> OutputChoices]
    /\ rows = NotGiven
    /\ selection = {}
    /\ editor = ChoiceSet(NotGiven, listing)
    /\ shown = Holds(editor)

\* The user changes the editor: the way, or what the widget of the way holds.
ChooseWay(w) ==
    /\ w \in ways
    /\ editor' = [editor EXCEPT !.way = w]
    /\ UNCHANGED <<ways, listing, rows, selection, shown>>
Enter(what) ==
    /\ editor.way = "Given"
    /\ editor' = [editor EXCEPT !.Given = what]
    /\ UNCHANGED <<ways, listing, rows, selection, shown>>
PickFile(f) ==
    /\ editor.way = "A file"
    /\ f \in listing.files \cup {editor.Unlisted, NotGiven}
    /\ editor' = [editor EXCEPT !.File = f]
    /\ UNCHANGED <<ways, listing, rows, selection, shown>>
PickRecord(o) ==
    /\ editor.way = "From a record"
    /\ o \in listing.outputs \cup {NotGiven}
    /\ editor' = [editor EXCEPT !.Record = o]
    /\ UNCHANGED <<ways, listing, rows, selection, shown>>

Edits ==
    \/ \E w \in ways : ChooseWay(w)
    \/ \E what \in Entered \cup {NotGiven} : Enter(what)
    \/ \E f \in FileChoices \cup {NotGiven} : PickFile(f)
    \/ \E o \in OutputChoices \cup {NotGiven} : PickRecord(o)

\* The user selects rows: the selection stays while the editor holds changes.
\* Mutant: the selection moves.
MaySelect_Always == TRUE
MaySelect == ~Changed
Select(selected) ==
    /\ selected # selection
    /\ selected \subseteq DOMAIN TheRows
    /\ MaySelect
    /\ selection' = selected
    /\ Load(TheRows, selected)
    /\ UNCHANGED <<ways, listing, rows>>

\* The editor may be written to a row: nothing is missing in it.
Complete == Holds(editor).value # NotGiven /\ ~Holds(editor).missing

AddRow ==
    /\ Complete
    /\ Len(TheRows) < MaxTableRows
    /\ rows' = Append(TheRows, Holds(editor).value)
    /\ selection' = {Len(rows')}
    /\ Load(rows', selection')
    /\ UNCHANGED <<ways, listing>>

UpdateRow ==
    /\ Complete
    /\ Cardinality(selection) = 1
    /\ rows' = [i \in DOMAIN rows |-> IF i \in selection THEN Holds(editor).value ELSE rows[i]]
    /\ shown' = Holds(editor)
    /\ UNCHANGED <<ways, listing, selection, editor>>

\* The rows selected are removed, with any changes to them in the editor.
\* Mutant: the selection stays.
Remaining == [i \in 1..Len(TheRows) - Cardinality(selection) |->
                 TheRows[CHOOSE j \in DOMAIN TheRows \ selection :
                            Cardinality({k \in DOMAIN TheRows \ selection : k <= j}) = i]]
RemoveRows_Selected ==
    /\ rows' = Remaining
    /\ UNCHANGED <<ways, listing, selection, editor, shown>>
RemoveRows ==
    /\ rows' = Remaining
    /\ IF selection = {} THEN UNCHANGED <<selection, editor, shown>>
       ELSE /\ selection' = {}
            /\ Load(Remaining, {})
    /\ UNCHANGED <<ways, listing>>

Discard ==
    /\ Load(TheRows, selection)
    /\ UNCHANGED <<ways, listing, rows, selection>>

\* The form is set to params, as a record holds them, with what is listed now: a
\* row that the editor cannot show whole is kept as it is given.
SetForm(given, listed) ==
    /\ listing' = listed
    /\ rows' = IF given = NotGiven THEN NotGiven
               ELSE [i \in DOMAIN given |->
                        LET made == Holds(ChoiceSet(given[i], listed))
                        IN IF made.missing THEN given[i] ELSE made.value]
    /\ selection' = {}
    /\ editor' = ChoiceSet(NotGiven, listed)
    /\ shown' = Holds(editor')
    /\ UNCHANGED ways

\* The files and the outputs are listed anew: this is no change of the user's.
ShownAfter(e) == IF Changed THEN shown ELSE Holds(e)
Refresh(listed) ==
    /\ listing' = listed
    /\ editor' = ChoiceRefreshed(editor, listed)
    /\ shown' = ShownAfter(editor')
    /\ UNCHANGED <<ways, rows, selection>>

Listed == [files : SUBSET FileChoices, outputs : SUBSET OutputChoices]
RowsBy(way, from) == {RowOf(w, x) : w \in ways \cap {way}, x \in from}
GivenRows ==
    RowsBy("Given", Entered) \cup RowsBy("A file", FileChoices)
    \cup RowsBy("From a record", OutputChoices)

NextForm ==
    \/ Edits
    \/ \E selected \in SUBSET (1..MaxTableRows) : Select(selected)
    \/ AddRow
    \/ UpdateRow
    \/ RemoveRows
    \/ Discard
    \/ \E given \in {NotGiven} \cup {<<a>> : a \in GivenRows}, listed \in Listed : SetForm(given, listed)
    \/ \E listed \in Listed : Refresh(listed)

SpecForm == InitForm /\ [][NextForm]_formVars

-----------------------------------------------------------------------------
\* What the params give of the list: they refuse it unset, or while the editor
\* holds changes.
ListGiven == IF rows = NotGiven \/ Changed THEN NotGiven ELSE rows

\* An editor without changes shows what the params give: the one row selected,
\* or nothing, or no output where the row's is not listed.  So what a user sees
\* as they submit is in the request, over any updates, removals, and refreshes.
EditorShowsRow ==
    ListGiven # NotGiven =>
        /\ selection \subseteq DOMAIN rows
        /\ Cardinality(selection) = 1 =>
              \A i \in selection :
                  \/ Holds(editor).value = rows[i]
                  \/ rows[i].way = "From a record" /\ Holds(editor).missing
        /\ Cardinality(selection) # 1 => Holds(editor) = Holds(ChoiceSet(NotGiven, listing))

\* The output picked is the way chosen, and is not listed any more.
PickedIsGone(listed) ==
    editor.way = "From a record" /\ editor.Record # NotGiven /\ editor.Record \notin listed.outputs

\* A change in the editor ends only as the user edits it back, writes it to a row,
\* discards it, removes the rows selected, or has the form set: no selection ends
\* it, and a refresh does only where the change is to pick an output that is gone.
\* And a refresh makes no change.
KeepsChange ==
    /\ Changed /\ ~Changed' =>
          \/ Edits
          \/ (AddRow \/ UpdateRow) /\ Holds(editor).value \in ToSet(TheRows')
          \/ Discard
          \/ selection # {} /\ RemoveRows
          \/ \E given \in {NotGiven} \cup {<<a>> : a \in GivenRows} : SetForm(given, listing')
          \/ \E listed \in Listed : Refresh(listed) /\ PickedIsGone(listed)
    /\ ~Changed /\ (\E listed \in Listed : Refresh(listed)) => ~Changed'
ChangesKept == [][KeepsChange]_formVars

=============================================================================
