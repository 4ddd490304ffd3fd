--------------------------- MODULE MCSchemaRegistry ---------------------------
(***************************************************************************)
(* The instance of SchemaRegistry: every type is required by some schema,   *)
(* two versions of one topic compete, one schema requires a field twice and *)
(* one requires nothing.  Integers have three bits, and the literals lie on *)
(* both sides of both limits.                                              *)
(***************************************************************************)
EXTENDS SchemaRegistry

Require(field, type) == [field |-> field, type |-> type]

SomeSchemas ==
  {[topic |-> "t", version |-> 1, required |-> <<Require("a", "integer"), Require("b", "number")>>],
   [topic |-> "t", version |-> 2, required |-> <<Require("a", "integer"), Require("b", "number")>>],
   [topic |-> "t", version |-> 3, required |-> <<Require("b", "string"), Require("a", "boolean")>>],
   [topic |-> "u", version |-> 1, required |-> <<Require("a", "object"), Require("a", "array")>>],
   [topic |-> "u", version |-> 2, required |-> <<Require("b", "array")>>],
   [topic |-> "u", version |-> 3, required |-> <<>>]}

SomeLiterals ==
  {[whole |-> TRUE, n |-> n] : n \in {-5, -4, -1, 0, 3, 4, 7, 8}} \cup
  {[whole |-> FALSE, n |-> 1]}
=============================================================================
