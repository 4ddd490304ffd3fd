---------------------------- MODULE SchemaRegistry ----------------------------
(***************************************************************************)
(* SchemaRegistry (crates/station-schema): one schema per topic, read from  *)
(* files, the hash of its schema on every event, and the validation of      *)
(* payloads, as the last steps of PolicyEngine::admit_event use them.       *)
(* A hash is the schema it is computed from: no collisions.                 *)
(***************************************************************************)
EXTENDS Integers, Sequences, FiniteSets

CONSTANTS
  Schemas,    \* the schemas some build of the station knows
  Fields,     \* field names of payloads
  Literals,   \* number literals of payloads
  Width,      \* bits of serde_json's integers (64 in the code)
  MaxAdmitted \* bound: events admitted

FieldTypes == {"integer", "number", "string", "boolean", "object", "array"}

\* A literal: whether it is written without fraction and exponent, and its
\* integer part.
Literal == [whole : BOOLEAN, n : Int]

Value == [kind : {"null", "boolean", "string", "array", "object"}] \cup
         [kind : {"number"}, literal : Literals]

\* The fields a payload has; one that is no object has none to get.
Payload == UNION {[given -> Value] : given \in SUBSET Fields}

FieldSpec == [field : Fields, type : FieldTypes]

\* A schema is a record, and equal when these parts of it are.
ASSUME SchemaAssumption ==
  /\ Width \in Nat \ {0} /\ Literals \subseteq Literal /\ MaxAdmitted \in Nat
  /\ \A s \in Schemas :
       /\ s = [part \in {"topic", "version", "required"} |-> s[part]]
       /\ s.required \in Seq(FieldSpec)

Topics == {s.topic : s \in Schemas}

\* schema_hash is optional: the set of the one hash an event has, or of none.
NoHash == {}
HashOf(schema) == {schema}

Event == [topic : Topics, payload : Payload,
          schema_hash : {NoHash} \cup {HashOf(s) : s \in Schemas}]

VARIABLES
  by_topic, \* the registered schemas, one for a topic
  admitted  \* the events the policy admitted, as it left them

vars == <<by_topic, admitted>>

Init == by_topic = {} /\ admitted = {}

-----------------------------------------------------------------------------
(* Values and types.                                                       *)

\* What the JSON parser makes of a literal: an integer literal that fits in
\* neither u64 nor i64 becomes a float.
NumberKind(l) ==
  IF l.whole /\ l.n >= 0 /\ l.n < 2^Width THEN "u64"
  ELSE IF l.whole /\ l.n < 0 /\ l.n >= -(2^(Width - 1)) THEN "i64"
  ELSE "f64"

\* Faulty variant: is_i64 only.
MatchesType_SignedOnly(value, type) ==
  IF type = "integer"
  THEN /\ value.kind = "number"
       /\ value.literal.whole
       /\ value.literal.n < 2^(Width - 1) /\ value.literal.n >= -(2^(Width - 1))
  ELSE value.kind = type

MatchesType(value, type) ==
  IF type = "integer"
  THEN value.kind = "number" /\ NumberKind(value.literal) \in {"i64", "u64"}
  ELSE value.kind = type

\* What is wrong with a required field of a payload, if anything is.
FieldFault(payload, spec) ==
  CASE spec.field \notin DOMAIN payload -> <<"MissingRequiredField", spec.field>>
    [] spec.field \in DOMAIN payload ->
         IF MatchesType(payload[spec.field], spec.type) THEN <<>>
         ELSE <<"WrongFieldType", spec.field>>

-----------------------------------------------------------------------------
(* The registry.                                                           *)

Known(topic) == \E s \in by_topic : s.topic = topic
SchemaFor(topic) == CHOOSE s \in by_topic : s.topic = topic

\* Faulty variant: the hash is not compared.
Validate_NoHash(e) ==
  IF ~Known(e.topic) THEN <<"MissingSchema">>
  ELSE LET required == SchemaFor(e.topic).required
           faults == {i \in DOMAIN required : FieldFault(e.payload, required[i]) # <<>>}
       IN IF faults = {} THEN <<"Ok">>
          ELSE FieldFault(e.payload, required[CHOOSE i \in faults : \A j \in faults : i <= j])

\* validate: the topic, the hash, then the fields in the order of the schema.
Validate(e) ==
  IF ~Known(e.topic) THEN <<"MissingSchema">>
  ELSE IF e.schema_hash # HashOf(SchemaFor(e.topic)) THEN <<"SchemaHashMismatch">>
  ELSE LET required == SchemaFor(e.topic).required
           faults == {i \in DOMAIN required : FieldFault(e.payload, required[i]) # <<>>}
       IN IF faults = {} THEN <<"Ok">>
          ELSE FieldFault(e.payload, required[CHOOSE i \in faults : \A j \in faults : i <= j])

\* attach_schema_hash, called for an event that has none.
AttachSchemaHash(e) ==
  IF e.schema_hash = NoHash /\ Known(e.topic)
  THEN [e EXCEPT !.schema_hash = HashOf(SchemaFor(e.topic))]
  ELSE e

\* The names of the types in a schema file.
TypeNames == [integer |-> "Integer", number |-> "Number", string |-> "String",
              boolean |-> "Boolean", object |-> "Object", array |-> "Array"]

WriteSchema(s) ==
  [s EXCEPT !.required =
     [i \in DOMAIN @ |-> [field |-> @[i].field, type_name |-> TypeNames[@[i].type]]]]

\* Faulty variant: the loader knows one numeric type.
TypeNamed_OneNumber(name) ==
  IF name = "Integer" THEN "number" ELSE CHOOSE t \in FieldTypes : TypeNames[t] = name

TypeNamed(name) == CHOOSE t \in FieldTypes : TypeNames[t] = name

\* A file that names an unknown type is refused.
Loadable(file) ==
  \A i \in DOMAIN file.required :
    \E t \in FieldTypes : TypeNames[t] = file.required[i].type_name

LoadSchema(file) ==
  [file EXCEPT !.required =
     [i \in DOMAIN @ |-> [field |-> @[i].field, type |-> TypeNamed(@[i].type_name)]]]

\* Faulty variant: a second schema for a topic replaces the first.
Register_Replaces(schema) ==
  /\ by_topic' = {s \in by_topic : s.topic # schema.topic} \cup {schema}
  /\ UNCHANGED admitted

\* register: a second schema for a topic is refused.
Register(schema) ==
  /\ ~Known(schema.topic)
  /\ by_topic' = by_topic \cup {schema}
  /\ UNCHANGED admitted

\* Steps 4 to 6 of admit_event.
Admit(e) ==
  /\ Cardinality(admitted) < MaxAdmitted
  /\ Known(e.topic)
  /\ Validate(AttachSchemaHash(e)) = <<"Ok">>
  /\ admitted' = admitted \cup {AttachSchemaHash(e)}
  /\ UNCHANGED by_topic

Files == {WriteSchema(s) : s \in Schemas}

\* A schema comes from code that builds it, or from a file.
Next ==
  \/ \E s \in Schemas : Register(s)
  \/ \E file \in Files : Loadable(file) /\ Register(LoadSchema(file))
  \/ \E e \in Event : Admit(e)

Spec == Init /\ [][Next]_vars

-----------------------------------------------------------------------------
(* What is promised.                                                       *)

\* The integers a value of type Integer may be, and the values of each type,
\* without any notion of how the parser represents them.
Integral(l) == l.whole /\ l.n \in -(2^(Width - 1)) .. (2^Width - 1)

Conforms(value, type) ==
  \/ type = "integer" /\ value.kind = "number" /\ Integral(value.literal)
  \/ type # "integer" /\ value.kind = type

\* An admitted payload has every field its topic's schema requires, with a value
\* of the type required; and whatever has them and names no other schema can be
\* admitted.
AdmittedConform ==
  \A s \in by_topic, payload \in Payload :
    LET e == [topic |-> s.topic, payload |-> payload, schema_hash |-> NoHash]
    IN (Validate(AttachSchemaHash(e)) = <<"Ok">>) <=>
         \A i \in DOMAIN s.required :
           /\ s.required[i].field \in DOMAIN payload
           /\ Conforms(payload[s.required[i].field], s.required[i].type)

\* The hash of an admitted event is that of the one schema its topic has, then
\* and at any later time: an event admitted once passes again, whatever has been
\* registered since, and a hash made of another version never passes.
HashesStayTrue ==
  /\ \A s, t \in by_topic : s.topic = t.topic => s = t
  /\ \A e \in admitted : (\E s \in by_topic : e.schema_hash = HashOf(s)) /\ Validate(e) = <<"Ok">>

\* The registry another process reads from files written by this one is the same,
\* hashes included: an event that got its hash here passes there.
HashesArePortable ==
  /\ \A s \in by_topic : Loadable(WriteSchema(s))
  /\ {LoadSchema(WriteSchema(s)) : s \in by_topic} = by_topic
=============================================================================
