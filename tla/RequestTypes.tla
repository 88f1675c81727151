---------------------------- MODULE RequestTypes ----------------------------
(***************************************************************************)
(* The two types of a field (request_types.py): what a request writes      *)
(* there, and what the workflow takes, from the same params model.         *)
(*                                                                         *)
(* Values are in JSON's form: a number, null, a tag, an object of a        *)
(* group's fields, a list, a file, or a reference to an output with the    *)
(* group its data are of.  Left out: validators of groups, what the file   *)
(* source knows, and values that JSON does not hold.                       *)
(***************************************************************************)
EXTENDS FieldTypes, TLC

\* What only request types hold: a file, a reference to an output that fits a
\* type, and a union told apart by the source of a value.
FileType(marker) == [is |-> "file", marker |-> marker]
OutputType(data) == [is |-> "output", data |-> data]
BySource(sources) == [is |-> "by source", sources |-> sources]
DerivedGroup(g, fields) == [is |-> "derived group", group |-> g, fields |-> fields]

Number(n) == [is |-> "number", n |-> n]
Null == [is |-> "null"]
Tag(tag) == [is |-> "tag", tag |-> tag]
Object(fields) == [is |-> "object", fields |-> fields]
ListOf(items) == [is |-> "list", items |-> items]
FileOf(marker) == [is |-> "file", marker |-> marker]
Output(g) == [is |-> "output", group |-> g]

\* The source of a value, known from the value alone.
SourceOf(v) == IF v.is \in {"file", "output"} THEN v.is ELSE "inline"

\* The request type of a field: of a list, a list of what its element's is; of
\* another type, its sources; and of a group that holds a marker, a group of its
\* fields' request types.
RECURSIVE TypeOf(_, _)
GroupType(g) ==
    IF ~HoldsMarker(Group(g)) THEN Group(g)
    ELSE DerivedGroup(g, [f \in DOMAIN Groups[g] |->
            IF HoldsMarker(Groups[g][f]) THEN TypeOf(Groups[g][f], {}) ELSE Groups[g][f]])

InlineSource(t, meta) ==
    IF IsAlternatives(t, meta)
    THEN Annotated(Union([i \in DOMAIN t.members |-> GroupType(Plain(t.members[i]).group)]),
                   {"by tag"})
    ELSE With(IF IsGroup(t) THEN GroupType(t.group) ELSE t, meta)

Sources(t, meta) ==
    LET split == Split(t, meta)
        marker == FileMarker(split.inline, split.meta)
        written == IF marker # {} THEN "file" ELSE "inline"
        tags == (IF split.inline = NoType THEN {} ELSE {written})
                \cup (IF split.referenced = <<>> THEN {} ELSE {"output"})
    IN [s \in tags |->
           CASE s = "file" -> FileType(CHOOSE m \in marker : TRUE)
             [] s = "inline" -> InlineSource(split.inline, split.meta)
             [] s = "output" -> OutputType(UnionOf(split.referenced))]

\* The type of a field that takes some sources.
Tagged(sources, none) ==
    LET source == IF Cardinality(DOMAIN sources) = 1
                  THEN sources[CHOOSE s \in DOMAIN sources : TRUE]
                  ELSE BySource(sources)
    IN IF none THEN Union(<<source, NoneType>>) ELSE source

\* Of a list of elements that hold a marker, only the length constraints stay.
ListMeta(element, meta) == IF HoldsMarker(element) THEN meta \cap Constraints ELSE meta

TypeOf(t, meta) ==
    LET u == Unwrapped(t, meta)
        list == With(List(TypeOf(u.type.of, {})), ListMeta(u.type.of, u.meta))
    IN IF "referenced" \notin u.meta /\ u.type.is = "list"
       THEN IF u.none THEN Union(<<list, NoneType>>) ELSE list
       ELSE Tagged(Sources(u.type, u.meta), u.none)

-----------------------------------------------------------------------------
(* External: the errors of pydantic where it does not take a value at a type, *)
(* each with its location: the fields, indices, tags and labels of members    *)
(* that lead to it, as strings.  In the call phase a marked type takes only a *)
(* reference that fits, or a file, and its data or its path pass on.          *)

Problem(kind) == {[at |-> <<>>, kind |-> kind]}
Under(part, errors) == {[e EXCEPT !.at = <<part>> \o @] : e \in errors}

FieldsOf(t) == IF t.is = "group" THEN Groups[t.group] ELSE t.fields
HasFields(t) == t.is \in {"group", "derived group"}
WithoutNone(ts) == SelectSeq(ts, LAMBDA m : m # NoneType)

\* What tells a value's member apart in a union by tag: its field `kind`.
TagOfValue(v) ==
    IF v.is = "object" /\ "kind" \in DOMAIN v.fields /\ v.fields["kind"].is = "tag"
    THEN v.fields["kind"].tag ELSE "no tag"
HasTag(m, tag) == HasFields(Plain(m)) /\ Plain(m).group \in DOMAIN TagOf /\ TagOf[Plain(m).group] = tag

Allowed(v, meta) ==
    "at least 1" \in meta => /\ v.is = "number" => v.n >= 1
                             /\ v.is = "list" => Len(v.items) >= 1

RECURSIVE Errors(_, _)
ErrorsOfObject(fields, v) ==
    IF v.is # "object" THEN Problem("type")
    ELSE LET given == DOMAIN v.fields
             missing == {f \in DOMAIN fields \ given : fields[f].is # "literal"}
         IN UNION {Under(f, Problem("missing")) : f \in missing}
            \cup UNION {Under(f, Problem("extra")) : f \in given \ DOMAIN fields}
            \cup UNION {Under(f, Errors(fields[f], v.fields[f])) : f \in given \cap DOMAIN fields}

ErrorsByTag(t, v) ==
    LET tag == TagOfValue(v)
        members == {m \in ToSet(t.members) : HasTag(m, tag)}
    IN IF v = Null /\ NoneType \in ToSet(t.members) THEN {}
       ELSE IF members = {} THEN Problem("type")
       ELSE UNION {Under(tag, Errors(m, v)) : m \in members}

\* The label of a member that a location names.
LabelOf(m) == IF Plain(m).is = "group" THEN Plain(m).group ELSE Plain(m).is

ErrorsOfUnion(t, v) ==
    LET members == ToSet(WithoutNone(t.members))
    IN IF v = Null /\ NoneType \in ToSet(t.members) THEN {}
       ELSE IF Cardinality(members) = 1 THEN UNION {Errors(m, v) : m \in members}
       ELSE IF \E m \in members : Errors(m, v) = {} THEN {}
       ELSE UNION {Under(LabelOf(m), Errors(m, v)) : m \in members}

ErrorsOfList(t, v) ==
    IF v.is # "list" THEN Problem("type")
    ELSE UNION {Under(ToString(i), Errors(t.of, v.items[i])) : i \in DOMAIN v.items}

ErrorsOfMarked(t, v) ==
    IF "referenced" \in t.meta
    THEN IF v.is # "output" THEN Problem("not its source")
         ELSE IF Fits(Group(v.group), t.of) THEN {} ELSE Problem("type")
    ELSE IF v.is = "file" THEN {} ELSE Problem("not its source")

ErrorsOfConstrained(t, v) ==
    IF Errors(t.of, v) # {} THEN Errors(t.of, v)
    ELSE IF Allowed(v, t.meta) THEN {} ELSE Problem("type")

ErrorsBySource(t, v) ==
    IF SourceOf(v) \notin DOMAIN t.sources THEN Problem("type")
    ELSE Under(SourceOf(v), Errors(t.sources[SourceOf(v)], v))

Refused(taken, kind) == IF taken THEN {} ELSE Problem(kind)

Errors(t, v) ==
    CASE t.is = "scalar" -> Refused(v.is = "number", "type")
      [] t.is = "none" -> Refused(v = Null, "type")
      [] t.is = "literal" -> Refused(v = Tag(t.tag), "type")
      [] t.is \in {"group", "derived group"} -> ErrorsOfObject(FieldsOf(t), v)
      [] t.is = "list" -> ErrorsOfList(t, v)
      [] t.is = "annotated" ->
            CASE t.meta \cap ({"referenced"} \cup FileMarkers) # {} -> ErrorsOfMarked(t, v)
              [] "by tag" \in t.meta /\ IsUnion(t.of) -> ErrorsByTag(t.of, v)
              [] OTHER -> ErrorsOfConstrained(t, v)
      [] t.is = "union" -> ErrorsOfUnion(t, v)
      [] t.is = "file" ->
            IF v.is = "file" THEN Refused(v.marker = t.marker, "file") ELSE Problem("not its source")
      [] t.is = "output" -> Refused(v.is = "output", "not its source")
      [] t.is = "by source" -> ErrorsBySource(t, v)
      [] OTHER -> Problem("type")

Takes(t, v) == Errors(t, v) = {}

-----------------------------------------------------------------------------
(* The two phases *)

\* The references to outputs in a value of a request type, each with the type
\* its data must fit.
RECURSIVE Reads(_, _)
Reads(t, v) ==
    CASE t.is = "output" -> {<<v, t.data>>}
      [] t.is = "by source" -> Reads(t.sources[SourceOf(v)], v)
      [] t.is = "annotated" -> Reads(t.of, v)
      [] t.is = "list" -> UNION {Reads(t.of, v.items[i]) : i \in DOMAIN v.items}
      [] t.is = "derived group" ->
            UNION {Reads(t.fields[f], v.fields[f]) : f \in DOMAIN v.fields}
      [] t.is = "union" -> UNION {Reads(m, v) : m \in {x \in ToSet(t.members) : Takes(x, v)}}
      [] OTHER -> {}

\* The call phase: the params model takes what the record stores.
Validated(t, v) == Takes(t, v)

\* The request phase: the request type takes the value; a field that holds a file
\* and no reference is validated by the params model too.  Then each reference
\* is checked against the record that has the output.
Held(t, v) ==
    /\ Takes(TypeOf(t, {}), v)
    /\ HoldsFile(t) /\ ~HoldsRef(t) => Validated(t, v)
ReadsFit(t, v) == \A read \in Reads(TypeOf(t, {}), v) : Fits(Group(read[1].group), read[2])

-----------------------------------------------------------------------------
(* The positions of errors *)

\* The members by tag, of a union by source or by tag; NoMembers of another type.
NoMembers == [is |-> "no members"]
TaggedMembers(t, meta) ==
    CASE t.is = "by source" -> t.sources
      [] IsUnion(t) /\ Discriminates(meta) ->
            LET groups == {m \in ToSet(t.members) : Plain(m) # NoneType}
            IN [tag \in {TagOf[Plain(m).group] : m \in groups} |->
                   CHOOSE m \in groups : HasTag(m, tag)]
      [] OTHER -> NoMembers

\* The type one step further along a location, and whether the step is into the
\* value: a field or an index, but no tag and no label of a member.
\* Mutant: a tag is told from a field by its name alone.
IntoValue_ByName(members, t, part) == part \notin {"inline", "file", "output", "a", "b"}
IntoValue(members, t, part) == members = NoMembers /\ ~IsUnion(t)
AlongLoc(t, part) ==
    LET u == Unwrapped(t, {})
        members == TaggedMembers(u.type, u.meta)
        split == Split(u.type, {})
        next == CASE members # NoMembers -> IF part \in DOMAIN members THEN members[part] ELSE NoType
                  [] IsUnion(u.type) -> With(split.inline, split.meta)
                  [] HasFields(u.type) -> IF part \in DOMAIN FieldsOf(u.type)
                                          THEN FieldsOf(u.type)[part] ELSE u.type
                  [] u.type.is = "list" -> u.type.of
                  [] OTHER -> u.type
    IN [type |-> next, into |-> IntoValue(members, u.type, part)]

RECURSIVE Position(_, _)
Position(t, loc) ==
    IF loc = <<>> THEN <<>>
    ELSE LET step == AlongLoc(t, Head(loc))
         IN (IF step.into THEN <<Head(loc)>> ELSE <<>>) \o Position(step.type, Tail(loc))

\* Each position in a value, with what is there (refs.py).
RECURSIVE Positions(_, _)
Positions(at, v) ==
    {[at |-> at, value |-> v]} \cup
    CASE v.is = "object" -> UNION {Positions(Append(at, f), v.fields[f]) : f \in DOMAIN v.fields}
      [] v.is = "list" -> UNION {Positions(Append(at, ToString(i)), v.items[i]) : i \in DOMAIN v.items}
      [] OTHER -> {}

Found(t, v) == {[e EXCEPT !.at = Position(t, @)] : e \in Errors(t, v)}

\* The request phase's errors: one at each reference or file that the field does
\* not take, and the others where they are.
Located(t, v) ==
    LET found == Found(t, v)
        kinds(at) == {e.kind : e \in {x \in found : IsPrefix(at, x.at)}}
        refs == {p.at : p \in {x \in Positions(<<>>, v) : SourceOf(x.value) # "inline"}}
        wrong == {at \in refs : ~(kinds(at) \subseteq {"file"})}
    IN {e.at : e \in {x \in found : \A at \in wrong : ~IsPrefix(at, x.at)}} \cup wrong

\* The call phase's: that a value is not of a source is left out where another
\* error explains it.
Explained(t, v) ==
    LET found == Found(t, v)
        inside(at) == \E e \in found : IsPrefix(at, e.at) /\ e.kind # "not its source"
    IN {e.at : e \in {x \in found : x.kind # "not its source" \/ ~inside(x.at)}}

=============================================================================
