------------------------------- MODULE Fields -------------------------------
(***************************************************************************)
(* The inputs of a form (panel/form.py): a scalar, a list of scalars, or   *)
(* the choice between a scalar and None, which a form is set to as a       *)
(* record holds it and the user edits, so that the request can be          *)
(* submitted again.                                                        *)
(*                                                                         *)
(* The page steps through one field, a step being one callback.  A time is *)
(* its second, the fraction of it, and its zone; the other kinds of        *)
(* scalars are told apart only as far as their inputs are: a picker, and   *)
(* the input of a number, may be empty, and that of a text may not.        *)
(***************************************************************************)
EXTENDS Integers, Sequences

CONSTANTS
    Field,        \* the fields: kind, whether a list, whether it may be None, default
    Texts,        \* what may be given of each kind
    Numbers,
    Seconds,      \* of a time
    Zones,
    UNSET,        \* nothing given
    NoValue,      \* None
    MaxElements   \* bound: elements of a list

VARIABLES
    param,     \* the field
    way,       \* the way chosen: "Given", "None", or UNSET
    inputs,    \* the input of each element, UNSET if the list is unset
    given,     \* what each input was last set to, and not by the user
    touched    \* whether anything was given since the field was last unset

fieldsVars == <<param, way, inputs, given, touched>>

-----------------------------------------------------------------------------
(* A scalar *)

Kinds == {"text", "number", "time", "aware time"}
IsTime(kind) == kind \in {"time", "aware time"}
Times == [second : Seconds, fraction : {0, 5}, zone : Zones]

\* The input set to a value, or to the default.  A picker of a time shows it
\* without its fraction, and has its zone in the label; both are kept beside it.
ScalarSet(kind, default, value) ==
    LET v == IF value = UNSET THEN default ELSE value IN
    IF IsTime(kind) /\ v # UNSET
    THEN [holds |-> v.second, zone |-> v.zone, time |-> v]
    ELSE [holds |-> IF v = UNSET /\ kind = "text" THEN "" ELSE v,
          zone |-> IF kind = "aware time" THEN "UTC" ELSE "no time zone",
          time |-> UNSET]

\* Whether an input has nothing given.
Missing(kind, default, input) ==
    input.holds = UNSET \/ (kind = "text" /\ input.holds = "" /\ default = UNSET)

\* The value it gives.  A time gets its zone back, and its fraction unless the
\* user changed the second.
\* Mutant: the fraction is lost.
ScalarValue_Shown(kind, input) ==
    IF ~IsTime(kind) THEN input.holds
    ELSE [second |-> input.holds, fraction |-> 0, zone |-> input.zone]
ScalarValue(kind, input) ==
    IF ~IsTime(kind) THEN input.holds
    ELSE LET shown == [second |-> input.holds, fraction |-> 0, zone |-> input.zone]
         IN IF input.time # UNSET /\ shown = [input.time EXCEPT !.fraction = 0]
            THEN input.time ELSE shown

-----------------------------------------------------------------------------
(* The field *)

\* The default of each input: a text added to a list is a text, and the field's
\* default belongs to the choice where there is one.
DefaultOf(f) == IF f.list THEN IF f.kind = "text" THEN "" ELSE UNSET
                ELSE IF f.optional THEN UNSET ELSE f.default

\* The widget of a field set to a value.
WayOf(f, value) ==
    LET v == IF value = UNSET THEN f.default ELSE value
    IN IF ~f.optional THEN "Given"
       ELSE IF v = UNSET THEN UNSET ELSE IF v = NoValue THEN "None" ELSE "Given"
InputsOf(f, value) ==
    LET v == IF value = UNSET THEN f.default ELSE value
    IN IF ~f.list THEN <<ScalarSet(f.kind, DefaultOf(f), IF v = NoValue THEN UNSET ELSE v)>>
       ELSE IF v = UNSET THEN UNSET
       ELSE [i \in DOMAIN v |-> ScalarSet(f.kind, DefaultOf(f), v[i])]

\* What the params give of the field; it is left out, UNSET and not refused, only
\* if no way is chosen.
LacksValue ==
    way = "Given" /\ (inputs = UNSET \/
                      \E i \in DOMAIN inputs : Missing(param.kind, DefaultOf(param), inputs[i]))
ParamGiven ==
    IF way = UNSET \/ LacksValue THEN UNSET
    ELSE IF way = "None" THEN NoValue
    ELSE LET values == [i \in DOMAIN inputs |-> ScalarValue(param.kind, inputs[i])]
         IN IF param.list THEN values ELSE values[1]

\* The form is set to params, or the field to how it starts.
Set(value) ==
    LET v == IF value = UNSET THEN param.default ELSE value IN
    /\ way' = WayOf(param, value)
    /\ inputs' = InputsOf(param, value)
    /\ given' = IF param.list THEN IF v = UNSET THEN <<>> ELSE v ELSE <<v>>
    /\ touched' = (value # UNSET)
    /\ UNCHANGED param

\* The user gives a value at an input, or chooses a way.
Give(i, what) ==
    /\ way = "Given" /\ inputs # UNSET
    /\ i \in DOMAIN inputs
    /\ inputs' = [inputs EXCEPT ![i].holds = what]
    /\ touched' = TRUE
    /\ UNCHANGED <<param, way, given>>
Choose(w) ==
    /\ param.optional
    /\ way' = w
    /\ touched' = TRUE
    /\ UNCHANGED <<param, inputs, given>>

\* The user adds an element, or removes the last: of a list without any, which
\* is then empty and no longer unset.
Elements == IF inputs = UNSET THEN <<>> ELSE inputs
AddElement ==
    /\ param.list
    /\ Len(Elements) < MaxElements
    /\ inputs' = Append(Elements, ScalarSet(param.kind, DefaultOf(param), UNSET))
    /\ given' = Append(given, DefaultOf(param))
    /\ touched' = TRUE
    /\ UNCHANGED <<param, way>>
RemoveElement ==
    /\ param.list
    /\ inputs' = SubSeq(Elements, 1, Len(Elements) - 1)
    /\ given' = SubSeq(given, 1, Len(given) - 1)
    /\ touched' = TRUE
    /\ UNCHANGED <<param, way>>

\* What a request may hold of a scalar, and what its input may.
ScalarsOf(kind) ==
    CASE kind = "text" -> Texts
      [] kind = "number" -> Numbers
      [] kind = "time" -> Times
      [] kind = "aware time" -> {t \in Times : t.zone # "no time zone"}
HeldBy(kind) ==
    IF kind = "text" THEN Texts ELSE {UNSET} \cup (IF IsTime(kind) THEN Seconds ELSE Numbers)
ParamsOf(f) ==
    IF f.list THEN UNION {[1..n -> ScalarsOf(f.kind)] : n \in 0..MaxElements}
    ELSE ScalarsOf(f.kind) \cup (IF f.optional THEN {NoValue} ELSE {})

\* The input of a scalar; UNSET is no inputs, no text and no second.
InputOf(kind) == [holds : HeldBy(kind), zone : Zones \cup {"UTC", "no time zone"},
                  time : Times \cup {UNSET}]

ASSUME FieldsAssumption ==
    /\ MaxElements \in Nat
    /\ "" \in Texts
    /\ UNSET \notin Texts /\ UNSET \notin Seconds
    /\ \A kind \in Kinds : UNSET \notin Seq(InputOf(kind))
    /\ \A f \in Field :
          /\ f.kind \in Kinds
          /\ f.list => ~f.optional
          /\ f.default = UNSET \/ f.default \in ParamsOf(f)

InitFields ==
    /\ param \in Field
    /\ way = WayOf(param, UNSET)
    /\ inputs = InputsOf(param, UNSET)
    /\ given = IF param.list THEN IF param.default = UNSET THEN <<>> ELSE param.default
               ELSE <<param.default>>
    /\ touched = FALSE

NextFields ==
    \/ \E value \in {UNSET} \cup ParamsOf(param) : Set(value)
    \/ \E i \in 1..MaxElements, what \in HeldBy(param.kind) : Give(i, what)
    \/ \E w \in {"Given", "None"} : Choose(w)
    \/ AddElement
    \/ RemoveElement

SpecFields == InitFields /\ [][NextFields]_fieldsVars

-----------------------------------------------------------------------------
\* A record's request comes back as it was: an input that shows what it was set
\* to gives exactly that, also what it cannot show, after any edits in between.
\* And a field without a default gives nothing until someone gave something,
\* whatever it held before it was unset.  An empty text is the next property's.
GivesBack ==
    /\ way = "Given" /\ inputs # UNSET =>
          \A i \in DOMAIN inputs :
              LET set == ScalarSet(param.kind, DefaultOf(param), given[i])
              IN /\ given[i] \notin {UNSET, NoValue}
                 /\ inputs[i].holds = set.holds /\ inputs[i].zone = set.zone
                 /\ param.kind = "text" /\ ~param.list => given[i] # ""
                 => /\ ~Missing(param.kind, DefaultOf(param), inputs[i])
                    /\ ScalarValue(param.kind, inputs[i]) = given[i]
    /\ ~touched /\ param.default = UNSET => ParamGiven = UNSET

\* The module's docstring: an empty text is a value where the field has a default,
\* and nothing given where it has none.
EmptyTextGiven ==
    param.kind = "text" /\ ~param.list /\ way = "Given" /\ inputs[1].holds = "" =>
        (ParamGiven = "") = (param.default # UNSET)

=============================================================================
