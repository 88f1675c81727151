------------------------------ MODULE SpecTypes ------------------------------
(***************************************************************************)
(* The types that a spec may give its params (_workflow_spec.py), and what *)
(* its rules are for: that the two phases of a request agree, and that     *)
(* errors name positions in what was written.                              *)
(*                                                                         *)
(* A problem is named in short.  Left out: aliases of types and of fields, *)
(* decorators, defaults, and the types of outputs but those referred to.   *)
(***************************************************************************)
EXTENDS RequestTypes

CONSTANTS
    FieldType,    \* the types that may be given to a field
    Value         \* the values that may be written at it

VARIABLE field    \* the type given to the field of a spec, or NoType

\* A marker of a file, here or in the metadata of a type inside, marks X | None.
RECURSIVE MarksOptional(_, _)
MarksOptional(t, meta) ==
    CASE IsUnion(t) /\ NoneType \in ToSet(t.members) ->
            \/ meta \cap FileMarkers # {}
            \/ MarksOptional(UnionOf(WithoutNone(t.members)), meta)
      [] IsUnion(t) -> \E m \in ToSet(t.members) : MarksOptional(m, meta)
      [] t.is = "annotated" -> MarksOptional(t.of, meta \cup t.meta)
      [] OTHER -> FALSE

MarkerProblem(t, meta) ==
    meta \cap FileMarkers # {} /\ (t # PathType \/ Cardinality(meta \cap FileMarkers) > 1)

\* Whether the data of an output would hold a Path.
RECURSIVE HoldsPath(_, _)
HoldsPath(t, seen) ==
    CASE t = PathType -> TRUE
      [] t.is \in {"annotated", "list"} -> HoldsPath(t.of, seen)
      [] t.is = "union" -> \E m \in ToSet(t.members) : HoldsPath(m, seen)
      [] t.is = "group" ->
            t.group \notin seen
            /\ \E f \in DOMAIN Groups[t.group] : HoldsPath(Groups[t.group][f], seen \cup {t.group})
      [] OTHER -> FALSE

ReferencedProblems(data) ==
    IF ~IsGroup(Plain(data)) THEN {"not a group"}
    ELSE (IF HoldsPath(Plain(data), {}) THEN {"a path in an output"} ELSE {})
         \cup (IF HoldsRef(Plain(data)) THEN {"a reference in an output"} ELSE {})

\* A list is not None, its elements are not None, and it is not of lists.
ListProblems(list, none) ==
    LET item == Unwrapped(list.of, {})
    IN (IF none THEN {"list or None"} ELSE {})
       \cup (IF item.none THEN {"element or None"} ELSE {})
       \cup (IF item.type.is = "list" THEN {"list of lists"} ELSE {})

\* The discriminator of a union is on the part written inline, as a reference has
\* no tag.  Mutant: only a reference among the inline members counts.
InlineMembers(split) == IF IsUnion(split.inline) THEN ToSet(split.inline.members) ELSE {}
TagsReference_Inline(split, meta) == \E m \in InlineMembers(split) : IsReferenced(m)
TagsReference(split, meta) ==
    \/ split.referenced # <<>> /\ Discriminates(meta)
    \/ \E m \in InlineMembers(split) : IsReferenced(m)

\* The problems of the part that a request writes, before those of its groups.
WrittenProblems(split, meta) ==
    LET t == split.inline
    IN CASE TagsReference(split, meta) -> {"a reference by tag"}
         [] MarkerProblem(t, split.meta) -> {"a marker of no file"}
         [] FileMarker(t, split.meta) # {} ->
                IF split.meta \cap Constraints = {} THEN {} ELSE {"a constraint of a file"}
         [] \E m \in InlineMembers(split) : IsFile(m) -> {"a union of files"}
         [] AlternativesProblem(t, split.meta) -> {"a union without tags"}
         [] IsAlternatives(t, split.meta) \/ IsGroup(t) \/ t.is \in {"scalar", "literal"} -> {}
         [] OTHER -> {"not a field type"}

\* The groups in the part that a request writes.
WrittenGroups(split) ==
    LET t == split.inline
        members == IF IsUnion(t) THEN {Plain(m) : m \in ToSet(t.members)} ELSE {t}
    IN {m.group : m \in {x \in members : IsGroup(x)}}

RECURSIVE TypeProblems(_, _, _)
GroupProblems(g, stack) ==
    IF g \in stack THEN {"a group contains itself"}
    ELSE UNION {TypeProblems(Groups[g][f], {}, stack \cup {g}) : f \in DOMAIN Groups[g]}

TypeProblems(t, meta, stack) ==
    LET u == Unwrapped(t, meta)
        split == Split(u.type, u.meta)
        referenced == UNION {ReferencedProblems(d) : d \in ToSet(split.referenced)}
        written == WrittenProblems(split, u.meta)
    IN CASE MarksOptional(t, meta) -> {"a marker of None"}
         [] MarkerProblem(u.type, u.meta) -> {"a marker of no file"}
         [] "referenced" \notin u.meta /\ u.type.is = "list" ->
                IF ListProblems(u.type, u.none) # {} THEN ListProblems(u.type, u.none)
                ELSE TypeProblems(u.type.of, {}, stack)
         [] split.inline = NoType -> referenced
         [] written # {} \/ FileMarker(split.inline, split.meta) # {} -> referenced \cup written
         [] OTHER ->
                referenced \cup UNION {GroupProblems(g, stack) : g \in WrittenGroups(split)}

-----------------------------------------------------------------------------
InitSpecTypes == field = NoType

\* A spec is made with a field of some type, if its rules allow it.
MakeSpec(t) ==
    /\ TypeProblems(t, {}, {}) = {}
    /\ field' = t

NextSpecTypes == field = NoType /\ \E t \in FieldType : MakeSpec(t)

-----------------------------------------------------------------------------
\* The phases agree: what the request phase takes, with references to outputs
\* that fit, the call phase takes too, so that no request is accepted and
\* then fails for how its params are written, and the request phase refuses
\* nothing else but the files of other kinds.
PhasesAgree ==
    field # NoType =>
        \A v \in Value :
            /\ Held(field, v) /\ ReadsFit(field, v) => Validated(field, v)
            /\ Validated(field, v) =>
                  Held(field, v) \/ \E e \in Errors(TypeOf(field, {}), v) : e.kind = "file"

\* Every error names a position in what was written, or a field missing or
\* unknown there, and every value refused has one, in both phases.
AtPosition(at, v) ==
    \E p \in Positions(<<>>, v) :
        \/ p.at = at
        \/ at # <<>> /\ p.at = Front(at) /\ p.value.is = "object"
ErrorsLocated ==
    field # NoType =>
        \A v \in Value :
            LET request == Located(TypeOf(field, {}), v)
                call == Explained(field, v)
            IN /\ \A at \in request \cup call : AtPosition(at, v)
               /\ request = {} <=> Takes(TypeOf(field, {}), v)
               /\ call = {} <=> Validated(field, v)

=============================================================================
