------------------------------- MODULE MCParts -------------------------------
(***************************************************************************)
(* The modules that share no state with the backend's, for TLC: one of     *)
(* them takes its steps, chosen at the start, and the others stand still.  *)
(***************************************************************************)
EXTENDS LogFile, Trigger, MCTypeValues, Tables, Form, MCFields, Page

VARIABLE part

partVars == <<part, logVars, triggerVars, field, tablesVars, formVars, fieldsVars, pageVars>>

\* Two rules under one label.
RulesGiven == <<"a", "b">>
LabelGiven == [r \in {"a", "b"} |-> "x"]

\* A folder with a file without metadata, a run of the proposal, a mask and a
\* run of another proposal; a field for raw files; two tables, one required.
File(p, r, k, o) == [path |-> p, run |-> r, kind |-> k, role |-> Unset, proposal |-> o]
FolderGiven == <<File("path a", "run 1", Unset, Unset), File("path b", "run 2", "raw", "mine"),
                 File("path c", "run 3", "mask", Unset), File("path d", "run 4", "raw", "theirs")>>
MarkerGiven == [kind |-> "raw", role |-> "sample"]
MinGiven == [runs |-> 1, cans |-> 0]
MaxGiven == [runs |-> 2, cans |-> 1]
RowsGiven == {<<n>> : n \in {"path a", "run 1", "run 2", "run 3", "run 4", "run 5"}}
ParamsGiven ==
    {<<>>, [bins |-> 2], [other |-> 1], [runs |-> <<"run 1">>], [runs |-> <<"run 1", "path a">>],
     [cans |-> <<>>], [cans |-> <<"run 1">>, bins |-> 2], [cans |-> <<"run 3">>]}

WaysGiven == {{"Given", "From a record"}, {"A file", "From a record"}, {"Given"}}

InitParts ==
    /\ part \in {"log file", "trigger", "types", "tables", "form", "fields", "page"}
    /\ InitLogFile
    /\ InitTrigger
    /\ InitSpecTypes
    /\ InitTables
    /\ InitForm
    /\ part # "form" => ways = {"Given"}
    /\ InitFields
    /\ part # "fields" => param = PlainField
    /\ InitPage

NextParts ==
    /\ UNCHANGED part
    /\ \/ /\ part = "log file"
          /\ NextLogFile
          /\ UNCHANGED <<triggerVars, field, tablesVars, formVars, fieldsVars, pageVars>>
       \/ /\ part = "trigger"
          /\ NextTrigger
          /\ UNCHANGED <<logVars, field, tablesVars, formVars, fieldsVars, pageVars>>
       \/ /\ part = "types"
          /\ NextSpecTypes
          /\ UNCHANGED <<logVars, triggerVars, tablesVars, formVars, fieldsVars, pageVars>>
       \/ /\ part = "tables"
          /\ NextTables
          /\ UNCHANGED <<logVars, triggerVars, field, formVars, fieldsVars, pageVars>>
       \/ /\ part = "form"
          /\ NextForm
          /\ UNCHANGED <<logVars, triggerVars, field, tablesVars, fieldsVars, pageVars>>
       \/ /\ part = "fields"
          /\ NextFields
          /\ UNCHANGED <<logVars, triggerVars, field, tablesVars, formVars, pageVars>>
       \/ /\ part = "page"
          /\ NextPage
          /\ UNCHANGED <<logVars, triggerVars, field, tablesVars, formVars, fieldsVars>>

SpecParts ==
    /\ InitParts
    /\ [][NextParts]_partVars
    /\ part = "trigger" => FairnessTrigger
    /\ FairnessPage

=============================================================================
