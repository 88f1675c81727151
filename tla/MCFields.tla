------------------------------ MODULE MCFields ------------------------------
(***************************************************************************)
(* The fields of a form for TLC: each kind of scalar, alone with and       *)
(* without a default, as a list, and with None.                            *)
(***************************************************************************)
EXTENDS Fields

FieldOf(kind, list, optional, default) ==
    [kind |-> kind, list |-> list, optional |-> optional, default |-> default]

SomeOf(kind) == CHOOSE v \in ScalarsOf(kind) : kind = "text" => v = ""
FieldGiven ==
    UNION {{FieldOf(kind, FALSE, FALSE, UNSET), FieldOf(kind, FALSE, FALSE, SomeOf(kind)),
            FieldOf(kind, FALSE, TRUE, UNSET), FieldOf(kind, FALSE, TRUE, NoValue),
            FieldOf(kind, FALSE, TRUE, SomeOf(kind))} : kind \in Kinds}
    \cup UNION {{FieldOf(kind, TRUE, FALSE, UNSET), FieldOf(kind, TRUE, FALSE, <<SomeOf(kind)>>)} :
                kind \in Kinds \ {"time"}}
PlainField == FieldOf("number", FALSE, FALSE, UNSET)

ZonesGiven == {"no time zone", "UTC+02:00"}
TextsGiven == {"", "a"}

=============================================================================
