---------------------------- MODULE MCTypeValues ----------------------------
(* Groups, types of fields and values for the modules of types. *)
EXTENDS SpecTypes

RawFile == Annotated(PathType, {"raw file"})
Referenced(g) == Annotated(Group(g), {"referenced"})
GroupsGiven ==
    [S |-> [n |-> Scalar], D |-> [n |-> Scalar, m |-> Scalar],
     F |-> [file |-> RawFile, n |-> Annotated(Scalar, {"at least 1"})],
     R |-> [ref |-> Referenced("S"), n |-> Scalar],
     A |-> [kind |-> Literal("a"), inline |-> Scalar],
     B |-> [kind |-> Literal("b"), a |-> Union(<<Referenced("S"), NoneType>>)],
     N |-> [files |-> List(RawFile), either |-> Union(<<Group("S"), Referenced("S")>>)],
     L |-> [next |-> List(Group("L"))]]
TagGiven == [A |-> "a", B |-> "b"]
SupersGiven == [g \in DOMAIN GroupsGiven |-> IF g = "D" THEN {"D", "S"} ELSE {g}]

Single == {Scalar, PathType, RawFile, Annotated(PathType, {"mask file"}), Annotated(PathType, FileMarkers),
           Annotated(PathType, {"raw file", "at least 1"}), Annotated(Scalar, {"at least 1"}),
           Annotated(Scalar, {"raw file"}), Referenced("S"), Referenced("D"), Referenced("F"), Referenced("R"),
           Annotated(Scalar, {"referenced"})} \cup {Group(g) : g \in DOMAIN GroupsGiven}
AB == Annotated(Union(<<Group("A"), Group("B")>>), {"by tag"})
InUnion == {RawFile, Scalar, Group("S"), Group("A"), Group("B"), Group("R"), Referenced("S"), Referenced("D"), Referenced("A"), AB}
Pairs == {Union(<<a, b>>) : a, b \in InUnion} \ {Union(<<a, a>>) : a \in InUnion}
\* pydantic makes a union by tag of groups with tags only, and here one of them is written inline.
TaggedPairs == {u \in Pairs : (\A i \in {1, 2} : IsTagged(Plain(u.members[i]))) /\ \E i \in {1, 2} : ~IsReferenced(u.members[i])}
Unions == Pairs \cup {Annotated(u, {"by tag"}) : u \in TaggedPairs}
Ones == Single \cup Unions \cup {AB}
OrNone(t) == IF IsUnion(t) THEN Union(Append(t.members, NoneType)) ELSE Union(<<t, NoneType>>)
MaybeNone == Ones \cup {OrNone(t) : t \in Ones} \cup {Annotated(OrNone(t), {"by tag"}) : t \in TaggedPairs}
             \cup {Annotated(Union(<<PathType, NoneType>>), {"raw file"})}
Lists == {List(t) : t \in MaybeNone}
FieldTypeGiven == MaybeNone \cup Lists \cup {Annotated(l, {"at least 1"}) : l \in Lists} \cup {List(List(Scalar)), OrNone(List(Scalar))}

Leaves == {Number(0), Number(1), Null, Tag("a"), FileOf("raw file"), FileOf("mask file"),
           Output("S"), Output("D"), Output("F"), Output("A")}
Objects == {Object([n |-> x]) : x \in {Number(1), Null, Output("S")}}
   \cup {Object([kind |-> Tag("a"), inline |-> x]) : x \in {Number(1), Null, FileOf("raw file")}}
   \cup {Object([kind |-> Tag("b"), a |-> x]) : x \in {Number(1), Null, Output("S"), Output("F")}}
   \cup {Object([file |-> f, n |-> Number(n)]) : f \in {FileOf("raw file"), Output("S")}, n \in {0, 1}}
   \cup {Object([ref |-> r, n |-> Number(1)]) : r \in {Output("S"), Output("D"), Object([n |-> Number(1)])}}
   \cup {Object([files |-> ListOf(<<f>>), either |-> e]) : f \in {FileOf("raw file"), Null}, e \in {Output("S"), Object([n |-> Null])}}
   \cup {Object([kind |-> Tag("a")]), Object([kind |-> Tag("c")])}
Items == {Number(1), Output("S"), FileOf("raw file"), Object([n |-> Number(1)]), Object([kind |-> Tag("b"), a |-> Output("D")]), Object([kind |-> Tag("a"), inline |-> Null])}
ValueGiven == Leaves \cup Objects \cup {ListOf(<<>>)} \cup {ListOf(<<x>>) : x \in Items} \cup {ListOf(<<x, Number(1)>>) : x \in Items}

=============================================================================
