------------------------------ MODULE MatchValues ------------------------------
(***************************************************************************)
(* src/transon_authoring/_tags.py and match.py: how a value of the engine  *)
(* is encoded, how the expectation of a sample is decoded, and the walk    *)
(* over the two that yields the diff.  An exception is a result of its own *)
(* and passes up through the values around it.                             *)
(*                                                                         *)
(* A value is a record with its type.  Numbers, booleans and strings carry *)
(* a small number, so that TRUE, 1 and 1.0 differ by their type alone; of  *)
(* the strings, 0 is "NO_CONTENT" and 1 is "lit".  An object has a part   *)
(* for every key, which is Absent where it has no such member.             *)
(* The key of the tags, "$transon_authoring", is called "tag".             *)
(*                                                                         *)
(* The recursive functions take a number of levels first: at n they are    *)
(* defined on what is nested no more than n levels deep.                   *)
(***************************************************************************)
EXTENDS Naturals, Sequences

CONSTANT Keys   \* the keys of objects
ASSUME KeysAssumption == {"tag", "value"} \subseteq Keys

Scalar(type, n) == [type |-> type, is |-> n]
Array(items)    == [type |-> "array", items |-> items]
Object(members) == [type |-> "object", members |-> members]
Sentinel        == [type |-> "sentinel"]     \* Transformer.NO_CONTENT
Opaque          == [type |-> "opaque"]       \* NaN, a non-JSON object, ...
Absent          == [type |-> "absent"]       \* no member
Exception       == [type |-> "exception"]    \* raised instead of a value

Scalars == [type : {"null", "boolean", "int", "float", "string"}, is : Nat]
Maps(S) == [Keys -> S \cup {Absent}]
Nested(S) == [type : {"array"}, items : Seq(S)] \cup [type : {"object"}, members : Maps(S)]
Trees(leaves) == LET t[n \in Nat] == IF n = 0 THEN leaves ELSE leaves \cup Nested(t[n - 1])
                 IN  t

\* The documents of JSON, and the values of the engine.
Json   == Trees(Scalars)
Values == Trees(Scalars \cup {Sentinel, Opaque})

NoContent == Scalar("string", 0)
Lit       == Scalar("string", 1)
Only(members) == [key \in Keys |-> IF key \in DOMAIN members THEN members[key] ELSE Absent]
NoContentRef  == Object(Only([tag |-> NoContent]))
LitRef(v)     == Object(Only([tag |-> Lit, value |-> v]))

-----------------------------------------------------------------------------
Parts(v)       == IF v.type = "array" THEN v.items ELSE v.members
Present(parts) == {key \in DOMAIN parts : parts[key] # Absent}
Has(v, keys)   == v.type = "object" /\ Present(v.members) = keys

IsNoContentRef(v) == Has(v, {"tag"}) /\ v.members["tag"] = NoContent
IsLitRef(v)       == Has(v, {"tag", "value"}) /\ v.members["tag"] = Lit
IsUnknownTag(v)   == /\ v.type = "object" /\ "tag" \in Present(v.members)
                     /\ ~IsNoContentRef(v) /\ ~IsLitRef(v)

Each(f, parts) == [key \in DOMAIN parts |-> IF parts[key] = Absent THEN Absent ELSE f[parts[key]]]

\* Something is made of the parts, unless the work on one of them has raised.
Unless(parts, whole) == IF \E key \in DOMAIN parts : parts[key] = Exception THEN Exception ELSE whole

EncodeNode(encode, v) ==
  CASE v.type = "sentinel" -> NoContentRef
    [] v.type = "opaque"   -> Exception
    [] v.type = "array"    -> LET items == Each(encode, v.items) IN Unless(items, Array(items))
    [] v.type = "object"   ->
         LET members == Each(encode, v.members)
         IN  Unless(members, IF "tag" \in Present(v.members) THEN LitRef(Object(members))
                                                             ELSE Object(members))
    [] OTHER -> v
Encode[n \in Nat] == [v \in Values[n] |-> EncodeNode(Encode[n - 1], v)]

\* An unknown tag raises.  Inside a LitRef nothing is a tag.
DecodeNode(decode, encode, e) ==
  CASE IsNoContentRef(e) -> NoContentRef
    [] IsLitRef(e)       -> encode[e.members["value"]]
    [] IsUnknownTag(e)   -> Exception
    [] e.type = "array"  -> LET items == Each(decode, e.items) IN Unless(items, Array(items))
    [] e.type = "object" /\ "tag" \notin Present(e.members) ->
         LET members == Each(decode, e.members) IN Unless(members, Object(members))
    [] OTHER -> e
DecodeExpected[n \in Nat] ==
  [e \in Json[n] |-> DecodeNode(DecodeExpected[n - 1], Encode[n - 1], e)]

-----------------------------------------------------------------------------
\* Mutation: a boolean is an int, as it is in Python.
TypeOf_BoolIsInt(v) == IF IsNoContentRef(v) THEN "no_content"
                       ELSE IF v.type = "boolean" THEN "int" ELSE v.type
TypeOf(v) == IF IsNoContentRef(v) THEN "no_content" ELSE v.type

Entry(path, kind) == [path |-> path, kind |-> kind]
Below(key, entries) == {Entry(<<key>> \o entry.path, entry.kind) : entry \in entries}

\* The entries of the diff, without their order; an entry ends its branch.
WalkNode(walk, expected, actual) ==
  LET e == Parts(expected)
      a == Parts(actual)
  IN  IF TypeOf(expected) # TypeOf(actual) THEN {Entry(<<>>, "type_mismatch")}
      ELSE CASE TypeOf(expected) = "no_content" -> {}
             [] TypeOf(expected) \in {"array", "object"} ->
                  {Entry(<<key>>, "missing") : key \in Present(e) \ Present(a)}
                    \cup {Entry(<<key>>, "extra") : key \in Present(a) \ Present(e)}
                    \cup UNION {Below(key, walk[e[key]][a[key]]) : key \in Present(e) \cap Present(a)}
             [] OTHER -> IF expected.is = actual.is THEN {} ELSE {Entry(<<>>, "value_mismatch")}
Walk[n \in Nat] ==
  [expected \in Json[n] |-> [actual \in Json[n] |-> WalkNode(Walk[n - 1], expected, actual)]]
=============================================================================
