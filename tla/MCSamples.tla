------------------------------ MODULE MCSamples ------------------------------
(***************************************************************************)
(* SampleEditing for TLC: up to three items over two obligation ids and    *)
(* one pointer, with an obligation kind of each sort (met by absence, met  *)
(* by shape, met by a claim alone).  SampleMatching: values built from 1,  *)
(* TRUE and the strings of the two tags, up to two items or members wide.  *)
(***************************************************************************)
EXTENDS SampleMatching, FiniteSets, TLC

MCKinds  == {"optional_absent", "list_many", "custom"}
MCShapes == {"missing", "many"}
MCSymmetry == Permutations(Ids)

MCKeys   == {"k", "tag", "value"}
Atoms    == {Scalar("int", 1), Scalar("boolean", 1), NoContent, Lit}
MapsOf(S) == {Only(m) : m \in UNION {[keys -> S] : keys \in {keys \in SUBSET MCKeys : Cardinality(keys) <= 2}}}
Lists(S)  == UNION {[1..n -> S] : n \in 0..2}
Flat      == Atoms \cup {Array(items) : items \in Lists(Atoms)}
                   \cup {Object(members) : members \in MapsOf(Atoms)}
Within(S) == S \cup {Array(<<v>>) : v \in S} \cup {Object(Only([k |-> v])) : v \in S}
NoWrites  == [key \in MCKeys |-> Absent]

MCCases ==
  [output: Within(Flat \cup {LitRef(v) : v \in Flat}), writes: {NoWrites},
   result: Within({Sentinel, Opaque} \cup Flat), captured: {NoWrites}]
  \cup [output: {NoContentRef}, writes: MapsOf(Atoms \cup {NoContentRef}),
          result: {Sentinel}, captured: MapsOf(Atoms \cup {Sentinel, Opaque})]
=============================================================================
