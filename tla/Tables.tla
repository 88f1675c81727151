------------------------------- MODULE Tables -------------------------------
(***************************************************************************)
(* The checks of requests, templates and pushes (checks.py), of files      *)
(* against the fields that take them (files.py), and the cached checks of  *)
(* the states of an accumulator (backend.py).                              *)
(*                                                                         *)
(* A spec here has tables of files, with limits to their rows, and one     *)
(* other parameter, with a default.  Left out: references to outputs in    *)
(* rows, and other types of rows, which RequestTypes takes apart.          *)
(***************************************************************************)
EXTENDS Integers, Sequences, FiniteSets, SequencesExt

CONSTANTS
    Folder,        \* the rows of the folder's table: a path, a run, and metadata
    Marker,        \* the marker of the file fields: the kind, and the role
    Proposal,      \* the proposal of the client
    TableNames,    \* the tables of the spec
    MinRows,       \* the fewest rows of each table
    MaxRows,       \* the most
    Unset,         \* stands for a key that metadata lack, and for None
    Given,         \* the params that a template may be opened with
    Rows,          \* the rows that a push may give one table, as written
    Thread,        \* threads that check states
    MaxPushes      \* bound: pushes

ASSUME TablesAssumption ==
    /\ MaxPushes \in Nat
    /\ \A i, j \in DOMAIN Folder : i # j => Folder[i].path # Folder[j].path /\ Folder[i].run # Folder[j].run
    /\ "bins" \notin TableNames    \* the other parameter
    /\ \A p \in Given : \A t \in DOMAIN p \cap TableNames : p[t] \in Seq(STRING)
    /\ Rows \subseteq Seq(STRING)

VARIABLES
    template,    \* the params and blanks of the accumulator's template, or Unset
    opened,      \* the params of its opening, as the log holds them
    pushed,      \* its pushes, as the log holds them
    asked,       \* its pushes, as they were written
    seen,        \* the rows of each blank table so far
    checked,     \* the last state checked and its problems, or Unset
    checks       \* what each thread checks, and what it was answered

tablesVars == <<template, opened, pushed, asked, seen, checked, checks>>

Unchecked == [upto |-> 0, step |-> "idle", problems |-> {}]

InitTables ==
    /\ template = Unset
    /\ opened = <<>>
    /\ pushed = <<>>
    /\ asked = <<>>
    /\ seen = [t \in TableNames |-> <<>>]
    /\ checked = Unset
    /\ checks = [t \in Thread |-> Unchecked]

-----------------------------------------------------------------------------
(* Files *)

\* A file is identified by its path, and named by its path or its run.
FileNamed(name) == {i \in DOMAIN Folder : name \in {Folder[i].path, Folder[i].run}}
Identity(name) == Folder[CHOOSE i \in FileNamed(name) : TRUE].path

\* The metadata a fitting file has: the role of a raw file only narrows what is offered.
Selector == IF Marker.kind = "raw" THEN [Marker EXCEPT !.role = Unset] ELSE Marker
Matches(file) ==
    /\ (IF file.kind = Unset THEN "raw" ELSE file.kind) = Selector.kind
    /\ Selector.role # Unset => file.role = Selector.role
Readable(file) == file.proposal \in {Unset, Proposal}

FileProblems(name) ==
    CASE FileNamed(name) = {} -> {"unknown file"}
      [] \E i \in FileNamed(name) : ~Readable(Folder[i]) -> {"of another proposal"}
      [] \E i \in FileNamed(name) : ~Matches(Folder[i]) -> {"does not fit"}
      [] OTHER -> {}

-----------------------------------------------------------------------------
(* The checks *)

Defaults == [bins |-> 1]
Parameters == TableNames \cup DOMAIN Defaults

\* Values with others for the names they lack: @@, which the provers do not expand.
OrElse(values, others) ==
    [n \in DOMAIN values \cup DOMAIN others |-> IF n \in DOMAIN values THEN values[n] ELSE others[n]]

\* The values given, with the defaults of the others, or why there are none.
FixedProblems(params, blanks) ==
    (IF DOMAIN params \cup blanks \subseteq Parameters THEN {} ELSE {"not a parameter"})
    \cup (IF DOMAIN params \cap blanks = {} THEN {} ELSE {"both fixed and blank"})
    \cup (IF TableNames \subseteq DOMAIN params \cup blanks THEN {} ELSE {"required"})
FixedValues(params, blanks) == OrElse(params, [n \in DOMAIN Defaults \ blanks |-> Defaults[n]])

\* Each value against its own field, and as the record holds it.
ValueProblems(params) ==
    UNION {IF n \notin TableNames THEN {}
           ELSE UNION {FileProblems(params[n][i]) : i \in DOMAIN params[n]} : n \in DOMAIN params}
StoredValues(params) ==
    [n \in DOMAIN params |->
        IF n \in TableNames THEN [i \in DOMAIN params[n] |-> Identity(params[n][i])] ELSE params[n]]

LengthProblems(params, tables) ==
    IF \E t \in tables : Len(params[t]) < MinRows[t] \/ Len(params[t]) > MaxRows[t]
    THEN {"number of rows"} ELSE {}

\* Rows of a table are distinct, as the record holds them: a file may be named in
\* two ways.
Repeats(rows, before) ==
    \E j \in DOMAIN rows : rows[j] \in ToSet(before) \/ \E i \in 1..j - 1 : rows[i] = rows[j]
RepeatProblems(stored, before, tables) ==
    IF \E t \in tables : Repeats(stored[t], before[t]) THEN {"a row repeated"} ELSE {}
NoRows == [t \in TableNames |-> <<>>]

\* The problems of values with some blanks: those of a request, and of a template.
ParamsProblems(params, blanks) ==
    LET fixed == FixedValues(params, blanks)
        tables == TableNames \ blanks
    IN IF FixedProblems(params, blanks) # {} THEN FixedProblems(params, blanks)
       ELSE IF ValueProblems(fixed) # {} THEN ValueProblems(fixed)
       ELSE LengthProblems(fixed, tables) \cup RepeatProblems(StoredValues(fixed), NoRows, tables)
RequestProblems(params) == ParamsProblems(params, {})
TemplateProblems(params, blanks) == ParamsProblems(params, blanks)

\* The problems of a push: of its rows, and then of rows that its tables hold.
PushProblems(rows) ==
    CASE DOMAIN rows = {} -> {"no rows"}
      [] ~(DOMAIN rows \subseteq template.blanks) -> {"not a blank table"}
      [] \E t \in DOMAIN rows : rows[t] = <<>> -> {"no rows"}
      [] ValueProblems(rows) # {} -> ValueProblems(rows)
      [] OTHER -> RepeatProblems(StoredValues(rows), seen, DOMAIN rows)

-----------------------------------------------------------------------------
(* An accumulator *)

\* It is opened with a template whose blanks are tables.
OpenTables(params, blanks) ==
    /\ template = Unset
    /\ blanks # {}
    /\ blanks \subseteq TableNames
    /\ TemplateProblems(params, blanks) = {}
    /\ template' = [params |-> params, blanks |-> blanks]
    /\ opened' = OrElse(StoredValues(FixedValues(params, blanks)), [t \in blanks |-> <<>>])
    /\ UNCHANGED <<pushed, asked, seen, checked, checks>>

\* The rows that a push adds to those seen.
RowsSeen(rows, t) == StoredValues(rows)[t]

PushTables(rows) ==
    /\ template # Unset
    /\ Len(pushed) < MaxPushes
    /\ PushProblems(rows) = {}
    /\ pushed' = Append(pushed, StoredValues(rows))
    /\ asked' = Append(asked, rows)
    /\ seen' = [t \in TableNames |-> IF t \in DOMAIN rows THEN seen[t] \o RowsSeen(rows, t) ELSE seen[t]]
    /\ UNCHANGED <<template, opened, checked, checks>>

\* Each table with the rows that the first pushes give it after those it has.
RowsAfter(before, pushes, n, upto) ==
    LET rows[k \in 0..upto] ==
            IF k = 0 THEN before
            ELSE IF n \in DOMAIN pushes[k] THEN rows[k - 1] \o pushes[k][n] ELSE rows[k - 1]
    IN rows[upto]
WithRows(params, pushes, upto) ==
    [n \in DOMAIN params |-> RowsAfter(params[n], pushes, n, upto)]

\* The plain request of a state.
PlainOf(upto) == WithRows(opened, pushed, upto)

\* A thread checks a state, outside the lock: the answer for the last state
\* checked is kept, and a thread may overwrite that of another.
\* Mutant: the answer for a later state is taken for that of an earlier one.
Answers_Later(upto) == checked # Unset /\ checked.upto >= upto
Answers(upto) == checked # Unset /\ checked.upto = upto

BeginCheck(t, upto) ==
    /\ template # Unset
    /\ checks[t].step # "checks"
    /\ upto \in 0..Len(pushed)
    /\ checks' = [checks EXCEPT ![t] =
                     IF Answers(upto)
                     THEN [upto |-> upto, step |-> "answered", problems |-> checked.problems]
                     ELSE [upto |-> upto, step |-> "checks", problems |-> {}]]
    /\ UNCHANGED <<template, opened, pushed, asked, seen, checked>>

EndCheck(t) ==
    /\ checks[t].step = "checks"
    /\ LET found == LengthProblems(PlainOf(checks[t].upto), template.blanks)
       IN /\ checked' = [upto |-> checks[t].upto, problems |-> found]
          /\ checks' = [checks EXCEPT ![t].step = "answered", ![t].problems = found]
    /\ UNCHANGED <<template, opened, pushed, asked, seen>>

\* Some rows for each of some tables.
RowsOfTables(rows) == UNION {[ts -> rows] : ts \in SUBSET TableNames}

NextTables ==
    \/ \E params \in Given, blanks \in SUBSET TableNames : OpenTables(params, blanks)
    \/ \E rows \in RowsOfTables(Rows) : PushTables(rows)
    \/ \E t \in Thread, upto \in 0..MaxPushes : BeginCheck(t, upto)
    \/ \E t \in Thread : EndCheck(t)

SpecTables == InitTables /\ [][NextTables]_tablesVars

-----------------------------------------------------------------------------
\* The request that gives at once what the template and the first pushes gave,
\* as they were written.
AtOnce(upto) ==
    WithRows(OrElse(template.params, [t \in template.blanks |-> <<>>]), asked, upto)

\* Rows pushed bit by bit are checked as one request that gives them all: a
\* state is refused exactly if that request is, by whichever thread it is
\* checked, and a push of rows exactly if, with these, that request has another
\* problem than their number.  (The tables do not depend on the checks of states,
\* so what is said of them is said where no state has been checked.)
StatesAsRequests ==
    \A n \in 0..Len(pushed) :
        /\ PlainOf(n) = StoredValues(FixedValues(AtOnce(n), {}))
        /\ RequestProblems(AtOnce(n)) = LengthProblems(PlainOf(n), TableNames)
PushesAsRequests ==
    \A t \in template.blanks, a, b \in Rows :
        LET rows == [x \in {t} |-> a \o b]
        IN a \o b # <<>> =>
              (PushProblems(rows) = {} <=>
                  RequestProblems(WithRows(AtOnce(Len(pushed)), <<rows>>, 1)) \subseteq {"number of rows"})
StateAsRequest ==
    template # Unset =>
        /\ checked = Unset /\ (\A t \in Thread : checks[t] = Unchecked) =>
              StatesAsRequests /\ PushesAsRequests
        /\ \A t \in Thread :
              checks[t].step = "answered" =>
                  checks[t].problems = RequestProblems(AtOnce(checks[t].upto))

=============================================================================
