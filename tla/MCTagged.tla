------------------------------ MODULE MCTagged ------------------------------
(***************************************************************************)
(* Unions by tag of references alone.  docs/developer/README.md:149 says   *)
(* that a request that cannot run is refused, and _workflow_spec.py:426    *)
(* that a discriminator is on a union written inline, since a reference    *)
(* has no tag; a spec with such a field is made all the same.              *)
(***************************************************************************)
EXTENDS MCTypeValues

GroupsTagged == GroupsGiven @@ [A2 |-> [kind |-> Literal("a2"), inline |-> Scalar]]
TagTagged == TagGiven @@ [A2 |-> "a2"]
SupersTagged == SupersGiven @@ [A2 |-> {"A2"}]
Choice == Union(<<Referenced("A"), Referenced("A2")>>)
FieldTypeTagged == {Choice, Annotated(Choice, {"by tag"})}
ValueTagged == ValueGiven \cup {Output("A2")}

SpecTagged == InitSpecTypes /\ [][NextSpecTypes]_field

=============================================================================
