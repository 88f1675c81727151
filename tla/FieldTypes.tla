----------------------------- MODULE FieldTypes -----------------------------
(***************************************************************************)
(* The types of fields, and how the framework takes them apart             *)
(* (field_types.py): what a request writes at a field is read from its     *)
(* type alone.                                                             *)
(*                                                                         *)
(* A type is a record: a scalar, a Path, a group by its name, a list, a    *)
(* union of members in order, or a type with metadata (Annotated).         *)
(* Metadata are the marker of Referenced[T], markers of files, the         *)
(* discriminator "by tag", and constraints.  A group is a function from    *)
(* its fields to their types.                                              *)
(***************************************************************************)
EXTENDS Integers, Sequences, FiniteSets, SequencesExt

CONSTANTS
    Groups,      \* the fields of each group, by name
    TagOf,       \* the tag of each group that has one, its literal field `kind`
    Supers       \* the groups that each group is a subclass of, itself among them

Scalar == [is |-> "scalar"]
PathType == [is |-> "path"]
NoneType == [is |-> "none"]
Literal(tag) == [is |-> "literal", tag |-> tag]
Group(g) == [is |-> "group", group |-> g]
List(t) == [is |-> "list", of |-> t]
Union(ts) == [is |-> "union", members |-> ts]
Annotated(t, meta) == [is |-> "annotated", of |-> t, meta |-> meta]

FileMarkers == {"raw file", "mask file"}
Constraints == {"at least 1"}

\* A union of what is left of some members: one member is no union.
UnionOf(ts) == IF Len(ts) = 1 THEN ts[1] ELSE Union(ts)

With(t, meta) == IF meta = {} THEN t ELSE Annotated(t, meta)

IsGroup(t) == t.is = "group"
IsUnion(t) == t.is = "union"
IsReferenced(t) == t.is = "annotated" /\ "referenced" \in t.meta
IsFile(t) == t.is = "annotated" /\ t.meta \cap FileMarkers # {}

\* A type without metadata, in a list or a union too.
RECURSIVE Plain(_)
Plain(t) ==
    CASE t.is = "annotated" -> Plain(t.of)
      [] t.is = "list" -> List(Plain(t.of))
      [] t.is = "union" -> Union([i \in DOMAIN t.members |-> Plain(t.members[i])])
      [] OTHER -> t

\* A type without its outer metadata and None, up to the marker of Referenced.
RECURSIVE Unwrapped(_, _)
Unwrapped(t, meta) ==
    IF "referenced" \in meta THEN [type |-> t, none |-> FALSE, meta |-> meta]
    ELSE IF t.is = "annotated" THEN Unwrapped(t.of, meta \cup t.meta)
    ELSE IF IsUnion(t) /\ NoneType \in ToSet(t.members)
    THEN [Unwrapped(UnionOf(SelectSeq(t.members, LAMBDA m : m # NoneType)), meta)
             EXCEPT !.none = TRUE]
    ELSE [type |-> t, none |-> FALSE, meta |-> meta]

Discriminates(meta) == "by tag" \in meta
NoType == [is |-> "no type"]

\* The part of a field that a request writes, with its metadata, and the types
\* whose data a reference fills it with.
Split(t, meta) ==
    LET members == IF IsUnion(t) THEN t.members ELSE <<t>>
        data(m) == With(m.of, m.meta \ {"referenced"})
        referenced == SelectSeq(members, IsReferenced)
        written == SelectSeq(members, LAMBDA m : ~IsReferenced(m))
        inline == UnionOf(written)
        kept == IF Len(written) = 1 THEN meta \ {"by tag"} ELSE meta
    IN IF "referenced" \in meta
       THEN [inline |-> NoType, meta |-> {}, referenced |-> <<With(t, meta \ {"referenced"})>>]
       ELSE IF referenced = <<>> THEN [inline |-> t, meta |-> meta, referenced |-> <<>>]
       ELSE [inline |-> IF written = <<>> THEN NoType
                        ELSE IF inline.is = "annotated" THEN inline.of ELSE inline,
             meta |-> IF written = <<>> THEN {}
                      ELSE IF inline.is = "annotated" THEN kept \cup inline.meta ELSE kept,
             referenced |-> [i \in DOMAIN referenced |-> data(referenced[i])]]

\* The marker of a file field, of the part that a request writes.
FileMarker(t, meta) == IF t = PathType THEN meta \cap FileMarkers ELSE {}

\* Whether a type holds one marked so, at any depth, in the fields of groups too.
RECURSIVE HoldsIn(_, _, _)
HoldsIn(t, marked, seen) ==
    CASE t.is = "annotated" -> t.meta \cap marked # {} \/ HoldsIn(t.of, marked, seen)
      [] t.is = "list" -> HoldsIn(t.of, marked, seen)
      [] t.is = "union" -> \E i \in DOMAIN t.members : HoldsIn(t.members[i], marked, seen)
      [] t.is = "group" ->
            /\ t.group \notin seen
            /\ \E f \in DOMAIN Groups[t.group] :
                   HoldsIn(Groups[t.group][f], marked, seen \cup {t.group})
      [] OTHER -> FALSE
HoldsRef(t) == HoldsIn(t, {"referenced"}, {})
HoldsFile(t) == HoldsIn(t, FileMarkers, {})
HoldsMarker(t) == HoldsRef(t) \/ HoldsFile(t)

\* A union of groups with a discriminator: its members, told apart by their tags.
\* The problem of a union that breaks a rule is for the checks of a spec.
IsTagged(m) == IsGroup(m) /\ m.group \in DOMAIN TagOf
AlternativesProblem(t, meta) ==
    LET members == {Plain(t.members[i]) : i \in DOMAIN t.members}
    IN /\ IsUnion(t)
       /\ \E m \in members : IsGroup(m)
       /\ \/ \E m \in members : ~IsTagged(m)
          \/ ~Discriminates(meta)
IsAlternatives(t, meta) ==
    /\ IsUnion(t)
    /\ \E i \in DOMAIN t.members : IsGroup(Plain(t.members[i]))
    /\ ~AlternativesProblem(t, meta)

\* Whether data of one type can be the value of a field of another.
Fits(data, field) ==
    LET f == Plain(Unwrapped(field, {}).type)
        d == Plain(Unwrapped(data, {}).type)
        one(m) == IF IsGroup(d) /\ IsGroup(m) THEN m.group \in Supers[d.group] ELSE d = m
    IN IF IsUnion(f) THEN \E i \in DOMAIN f.members : one(f.members[i]) ELSE one(f)

=============================================================================
