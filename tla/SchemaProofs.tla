----------------------------- MODULE SchemaProofs -----------------------------
(***************************************************************************)
(* The registry accepts exactly the payloads that conform, whatever the     *)
(* schemas, the literals and the width of integers; an event it accepted it *)
(* accepts at any later time; and files carry it to another process whole.  *)
(*                                                                         *)
(* The invariant: registered schemas are schemas (LoadWrite: a file gives   *)
(* back the schema it was written from), no two have one topic, so that     *)
(* registering more never changes the schema of a topic that has one, and   *)
(* every admitted event still validates.                                   *)
(***************************************************************************)
EXTENDS SchemaRegistry, FiniteSetTheorems, TLAPS

\* 2^k is the number of subsets of 1 .. k.
LEMMA PowerIsNat ==
  ASSUME NEW k \in Nat
  PROVE  2^k \in Nat
<1> DEFINE S == 1 .. k
<1>1. IsFiniteSet(S) /\ Cardinality(S) = k
  BY FS_Interval
<1> HIDE DEF S
<1>2. IsFiniteSet(SUBSET S) /\ Cardinality(SUBSET S) = 2^Cardinality(S)
  BY <1>1, FS_SUBSET
<1>3. Cardinality(SUBSET S) \in Nat
  BY <1>2, FS_CardinalityType
<1> QED
  BY <1>1, <1>2, <1>3

LEMMA SchemaParts ==
  ASSUME NEW s \in Schemas
  PROVE  /\ s = [part \in {"topic", "version", "required"} |-> s[part]]
         /\ s.required \in Seq(FieldSpec)
BY SchemaAssumption DEF SchemaAssumption

-----------------------------------------------------------------------------
(* Values and types.                                                       *)

\* What the parser makes of a literal decides what its value says.
LEMMA IntegersFit ==
  ASSUME NEW l \in Literal
  PROVE  NumberKind(l) \in {"i64", "u64"} <=> Integral(l)
<1> DEFINE all == 2^Width  half == 2^(Width - 1)
<1>1. all \in Nat /\ half \in Nat
  <2>1. Width \in Nat /\ Width - 1 \in Nat
    BY SchemaAssumption DEF SchemaAssumption
  <2> QED
    BY <2>1, PowerIsNat
<1>2. l.n \in Int /\ l.whole \in BOOLEAN
  BY DEF Literal
<1>3. NumberKind(l) = IF l.whole /\ l.n >= 0 /\ l.n < all THEN "u64"
                      ELSE IF l.whole /\ l.n < 0 /\ l.n >= -half THEN "i64" ELSE "f64"
  BY DEF NumberKind
<1>4. Integral(l) <=> l.whole /\ l.n \in -half .. (all - 1)
  BY DEF Integral
<1> HIDE DEF all, half
<1>5. l.n \in -half .. (all - 1) <=>
        \/ l.n >= 0 /\ l.n < all
        \/ l.n < 0 /\ l.n >= -half
  BY <1>1, <1>2
<1> QED
  BY <1>3, <1>4, <1>5

LEMMA MatchingConforms ==
  ASSUME NEW value \in Value, NEW type \in FieldTypes
  PROVE  MatchesType(value, type) <=> Conforms(value, type)
<1>1. CASE type # "integer"
  BY <1>1 DEF MatchesType, Conforms
<1>2. CASE type = "integer"
  <2>1. value.kind = "number" => value.literal \in Literal
    BY SchemaAssumption DEF Value, SchemaAssumption
  <2>2. value.kind = "number" =>
          (NumberKind(value.literal) \in {"i64", "u64"} <=> Integral(value.literal))
    BY <2>1, IntegersFit
  <2> QED
    BY <1>2, <2>2 DEF MatchesType, Conforms
<1> QED
  BY <1>1, <1>2

LEMMA Faultless ==
  ASSUME NEW payload, NEW spec
  PROVE  /\ FieldFault(payload, spec) # <<"Ok">>
         /\ FieldFault(payload, spec) = <<>> <=>
              spec.field \in DOMAIN payload /\ MatchesType(payload[spec.field], spec.type)
<1> DEFINE missing == <<"MissingRequiredField", spec.field>>
           wrong == <<"WrongFieldType", spec.field>>
           none == <<>>
           ok == <<"Ok">>
           matches == MatchesType(payload[spec.field], spec.type)
<1>1. missing # none /\ wrong # none /\ missing # ok /\ wrong # ok /\ none # ok
  OBVIOUS
<1>2. FieldFault(payload, spec) =
        IF spec.field \notin DOMAIN payload THEN missing
        ELSE IF matches THEN none ELSE wrong
  BY DEF FieldFault
<1> HIDE DEF missing, wrong, none, ok, matches
<1>3. /\ FieldFault(payload, spec) # ok
      /\ FieldFault(payload, spec) = none <=> spec.field \in DOMAIN payload /\ matches
  BY <1>1, <1>2, Zenon
<1> QED
  BY <1>3 DEF none, ok, matches

-----------------------------------------------------------------------------
(* Files.                                                                  *)

\* No two types have one name.
LEMMA NamesTellTypes ==
  ASSUME NEW t \in FieldTypes
  PROVE  TypeNamed(TypeNames[t]) = t
<1>1. \A u \in FieldTypes : TypeNames[u] = TypeNames[t] => u = t
  BY DEF FieldTypes, TypeNames
<1>2. \E u \in FieldTypes : TypeNames[u] = TypeNames[t]
  OBVIOUS
<1> QED
  BY <1>1, <1>2 DEF TypeNamed

\* A file gives back the schema it was written from.
LEMMA LoadWrite ==
  ASSUME NEW s \in Schemas
  PROVE  Loadable(WriteSchema(s)) /\ LoadSchema(WriteSchema(s)) = s
<1> DEFINE Named(spec) == [field |-> spec.field, type_name |-> TypeNames[spec.type]]
           Typed(spec) == [field |-> spec.field, type |-> TypeNamed(spec.type_name)]
           names == [i \in DOMAIN s.required |-> Named(s.required[i])]
           back == [i \in DOMAIN names |-> Typed(names[i])]
           file == WriteSchema(s)
<1>1. /\ s = [part \in {"topic", "version", "required"} |-> s[part]]
      /\ s.required \in Seq(FieldSpec)
  BY SchemaParts
<1>2. file = [s EXCEPT !.required = names]
  BY DEF WriteSchema
<1>3. file.required = names /\ DOMAIN names = DOMAIN s.required
  BY <1>1, <1>2
<1>4. ASSUME NEW i \in DOMAIN s.required
      PROVE  /\ s.required[i] \in FieldSpec
             /\ names[i].type_name = TypeNames[s.required[i].type]
             /\ Typed(names[i]) = s.required[i]
  <2>1. s.required[i] \in FieldSpec
    BY <1>1
  <2>2. names[i].field = s.required[i].field /\ names[i].type_name = TypeNames[s.required[i].type]
    OBVIOUS
  <2>3. TypeNamed(TypeNames[s.required[i].type]) = s.required[i].type
    BY <2>1, NamesTellTypes DEF FieldSpec
  <2>4. s.required[i] = [field |-> s.required[i].field, type |-> s.required[i].type]
    BY <2>1 DEF FieldSpec
  <2> QED
    BY <2>1, <2>2, <2>3, <2>4
<1>5. back = s.required
  <2>1. DOMAIN back = DOMAIN s.required /\ \A i \in DOMAIN s.required : back[i] = s.required[i]
    BY <1>3, <1>4
  <2>2. back = [i \in DOMAIN back |-> back[i]]
    OBVIOUS
  <2>3. s.required = [i \in DOMAIN s.required |-> s.required[i]]
    BY <1>1
  <2> QED
    BY <2>1, <2>2, <2>3, Zenon
<1>6. Loadable(file)
  <2>1. \A i \in DOMAIN s.required : s.required[i].type \in FieldTypes
    BY <1>4 DEF FieldSpec
  <2>2. \A i \in DOMAIN s.required : names[i].type_name = TypeNames[s.required[i].type]
    BY <1>4
  <2> HIDE DEF names, file
  <2>3. \A i \in DOMAIN names : \E t \in FieldTypes : TypeNames[t] = names[i].type_name
    BY <1>3, <2>1, <2>2
  <2> QED
    BY <1>3, <2>3, Zenon DEF Loadable
<1>7. LoadSchema(file) = s
  <2>1. LoadSchema(file) = [file EXCEPT !.required = back]
    BY <1>3 DEF LoadSchema
  <2> HIDE DEF names, back, file
  <2>2. [file EXCEPT !.required = back] = [s EXCEPT !.required = back]
    BY <1>2, <1>1
  <2>3. [s EXCEPT !.required = s.required] = s
    BY <1>1
  <2> QED
    BY <1>5, <2>1, <2>2, <2>3
<1> QED
  BY <1>6, <1>7

-----------------------------------------------------------------------------
(* The schema of a topic, and what validation asks.                        *)

\* Growing a registry leaves the schema of a topic it knew.
LEMMA SameChoice ==
  ASSUME NEW S, NEW T, S \subseteq T, NEW s \in S,
         \A a, b \in T : a.topic = b.topic => a = b
  PROVE  /\ (CHOOSE x \in S : x.topic = s.topic) = s
         /\ (CHOOSE x \in T : x.topic = s.topic) = s
<1>1. \A x \in T : x.topic = s.topic => x = s
  OBVIOUS
<1> QED
  BY <1>1

LEMMA SchemaIsRegistered ==
  ASSUME NEW topic, Known(topic)
  PROVE  SchemaFor(topic) \in by_topic /\ SchemaFor(topic).topic = topic
BY DEF Known, SchemaFor

LEMMA ValidateOk ==
  ASSUME NEW e
  PROVE  Validate(e) = <<"Ok">> <=>
           /\ Known(e.topic)
           /\ e.schema_hash = HashOf(SchemaFor(e.topic))
           /\ \A i \in DOMAIN SchemaFor(e.topic).required :
                FieldFault(e.payload, SchemaFor(e.topic).required[i]) = <<>>
<1> DEFINE required == SchemaFor(e.topic).required
           faults == {i \in DOMAIN required : FieldFault(e.payload, required[i]) # <<>>}
           first == CHOOSE i \in faults : \A j \in faults : i <= j
           known == Known(e.topic)
           hashed == e.schema_hash = HashOf(SchemaFor(e.topic))
           missing == <<"MissingSchema">>
           mismatch == <<"SchemaHashMismatch">>
           ok == <<"Ok">>
           fault == FieldFault(e.payload, required[first])
           none == faults = {}
<1>1. missing # ok /\ mismatch # ok
  OBVIOUS
<1>2. fault # ok
  BY Faultless
<1>3. Validate(e) = IF ~known THEN missing
                    ELSE IF ~hashed THEN mismatch ELSE IF none THEN ok ELSE fault
  BY DEF Validate
<1>4. none <=> \A i \in DOMAIN required : FieldFault(e.payload, required[i]) = <<>>
  OBVIOUS
<1> HIDE DEF known, hashed, missing, mismatch, ok, fault, none
<1>5. Validate(e) = ok <=> known /\ hashed /\ none
  BY <1>1, <1>2, <1>3, Zenon
<1> QED
  BY <1>4, <1>5, Zenon DEF known, hashed, ok

-----------------------------------------------------------------------------
(* The invariant.                                                          *)

OneSchemaEach == \A s, t \in by_topic : s.topic = t.topic => s = t

Registry ==
  /\ by_topic \subseteq Schemas
  /\ OneSchemaEach
  /\ \A e \in admitted : Validate(e) = <<"Ok">>

\* A schema the registry takes, built or read from a file, is a schema.
LEMMA RegisterKeeps ==
  ASSUME Registry, NEW s \in Schemas, Register(s)
  PROVE  Registry'
<1>1. by_topic' = by_topic \cup {s} /\ admitted' = admitted /\ ~Known(s.topic)
  BY DEF Register
<1>2. by_topic' \subseteq Schemas
  BY <1>1 DEF Registry
<1>3. \A a, b \in by_topic' : a.topic = b.topic => a = b
  BY <1>1 DEF Registry, OneSchemaEach, Known
<1>4. ASSUME NEW e \in admitted'
      PROVE  Validate(e)' = <<"Ok">>
  <2>1. Validate(e) = <<"Ok">>
    BY <1>1, <1>4 DEF Registry
  <2>2. Known(e.topic)
    BY <2>1, ValidateOk
  <2>3. Known(e.topic)'
    BY <1>1, <2>2 DEF Known
  <2>4. PICK held \in by_topic : held.topic = e.topic
    BY <2>2 DEF Known
  <2>5. SchemaFor(e.topic)' = SchemaFor(e.topic)
    BY <1>1, <1>3, <2>4, SameChoice DEF SchemaFor
  <2>6. Validate(e)' = Validate(e)
    BY <2>2, <2>3, <2>5 DEF Validate
  <2> QED
    BY <2>1, <2>6
<1> QED
  BY <1>2, <1>3, <1>4 DEF Registry, OneSchemaEach

LEMMA AdmitKeeps ==
  ASSUME Registry, NEW e, Admit(e)
  PROVE  Registry'
<1> DEFINE left == AttachSchemaHash(e)
<1>1. /\ Validate(left) = <<"Ok">>
      /\ admitted' = admitted \cup {left}
      /\ by_topic' = by_topic
  BY DEF Admit
<1> HIDE DEF left
<1>2. \A x \in admitted' : Validate(x) = <<"Ok">>
  BY <1>1 DEF Registry
<1>3. \A x : Validate(x)' = Validate(x)
  BY <1>1 DEF Validate, Known, SchemaFor
<1> QED
  BY <1>1, <1>2, <1>3 DEF Registry, OneSchemaEach

LEMMA RegistryHolds == Spec => []Registry
<1>1. Init => Registry
  BY DEF Init, Registry, OneSchemaEach
<1>2. Registry /\ [Next]_vars => Registry'
  <2> SUFFICES ASSUME Registry, [Next]_vars PROVE Registry'
    OBVIOUS
  <2>1. CASE \E s \in Schemas : Register(s)
    BY <2>1, RegisterKeeps
  <2>2. CASE \E file \in Files : Loadable(file) /\ Register(LoadSchema(file))
    <3>1. PICK s \in Schemas : Register(LoadSchema(WriteSchema(s)))
      BY <2>2 DEF Files
    <3> QED
      BY <3>1, LoadWrite, RegisterKeeps
  <2>3. CASE \E e \in Event : Admit(e)
    BY <2>3, AdmitKeeps
  <2>4. CASE UNCHANGED vars
    <3>1. by_topic' = by_topic /\ admitted' = admitted
      BY <2>4 DEF vars
    <3>2. \A x : Validate(x)' = Validate(x)
      BY <3>1 DEF Validate, Known, SchemaFor
    <3> QED
      BY <3>1, <3>2 DEF Registry, OneSchemaEach
  <2> QED
    BY <2>1, <2>2, <2>3, <2>4 DEF Next
<1> QED
  BY <1>1, <1>2, PTL DEF Spec

-----------------------------------------------------------------------------
(* What is promised.                                                       *)

LEMMA AcceptsWhatConforms == Registry => AdmittedConform
<1> SUFFICES ASSUME Registry, NEW s \in by_topic, NEW payload \in Payload
             PROVE  LET e == [topic |-> s.topic, payload |-> payload, schema_hash |-> NoHash]
                    IN (Validate(AttachSchemaHash(e)) = <<"Ok">>) <=>
                         \A i \in DOMAIN s.required :
                           /\ s.required[i].field \in DOMAIN payload
                           /\ Conforms(payload[s.required[i].field], s.required[i].type)
  BY DEF AdmittedConform
<1> DEFINE e == [topic |-> s.topic, payload |-> payload, schema_hash |-> NoHash]
           hashed == AttachSchemaHash(e)
           Fits(i) == /\ s.required[i].field \in DOMAIN payload
                      /\ Conforms(payload[s.required[i].field], s.required[i].type)
<1>1. Known(s.topic) /\ SchemaFor(s.topic) = s
  BY SameChoice DEF Known, SchemaFor, Registry, OneSchemaEach
<1>2. hashed.topic = s.topic /\ hashed.payload = payload /\ hashed.schema_hash = HashOf(s)
  BY <1>1 DEF AttachSchemaHash
<1>3. ASSUME NEW i \in DOMAIN s.required
      PROVE  FieldFault(payload, s.required[i]) = <<>> <=> Fits(i)
  <2>1. s.required[i] \in FieldSpec
    BY <1>3, SchemaParts DEF Registry
  <2>2. /\ s.required[i].type \in FieldTypes
        /\ s.required[i].field \in DOMAIN payload => payload[s.required[i].field] \in Value
    BY <2>1 DEF FieldSpec, Payload
  <2>3. s.required[i].field \in DOMAIN payload =>
          (MatchesType(payload[s.required[i].field], s.required[i].type)
             <=> Conforms(payload[s.required[i].field], s.required[i].type))
    BY <2>2, MatchingConforms
  <2> QED
    BY <2>3, Faultless, Zenon
<1>4. Validate(hashed) = <<"Ok">> <=>
        \A i \in DOMAIN s.required : FieldFault(payload, s.required[i]) = <<>>
  <2>1. Validate(hashed) = <<"Ok">> <=>
          /\ Known(hashed.topic)
          /\ hashed.schema_hash = HashOf(SchemaFor(hashed.topic))
          /\ \A i \in DOMAIN SchemaFor(hashed.topic).required :
               FieldFault(hashed.payload, SchemaFor(hashed.topic).required[i]) = <<>>
    BY ValidateOk
  <2> HIDE DEF hashed
  <2> QED
    BY <1>1, <1>2, <2>1, Zenon
<1> HIDE DEF Fits
<1>5. Validate(hashed) = <<"Ok">> <=> \A i \in DOMAIN s.required : Fits(i)
  BY <1>3, <1>4, Zenon
<1> QED
  BY <1>5 DEF Fits

\* validate, after attach_schema_hash, accepts exactly the payloads of a topic that
\* conform to its registered schema, where integers are those of serde_json's two
\* integer representations; no width, schema or literal makes an exception.
THEOREM AdmittedConformHolds == Spec => []AdmittedConform
BY RegistryHolds, AcceptsWhatConforms, PTL

\* register refuses a second schema for a topic, so an event admitted once carries
\* the hash of the one schema its topic will ever have and validates again at any
\* later time.
THEOREM HashesStayTrueHolds == Spec => []HashesStayTrue
<1>1. Registry => HashesStayTrue
  <2> SUFFICES ASSUME Registry PROVE HashesStayTrue
    OBVIOUS
  <2>1. ASSUME NEW e \in admitted
        PROVE  (\E s \in by_topic : e.schema_hash = HashOf(s)) /\ Validate(e) = <<"Ok">>
    <3>1. Validate(e) = <<"Ok">>
      BY DEF Registry
    <3>2. Known(e.topic) /\ e.schema_hash = HashOf(SchemaFor(e.topic))
      BY <3>1, ValidateOk
    <3> QED
      BY <3>1, <3>2, SchemaIsRegistered
  <2> QED
    BY <2>1 DEF HashesStayTrue, Registry, OneSchemaEach
<1> QED
  BY <1>1, RegistryHolds, PTL

\* Every file SchemaRegistry writes loads, and gives back the schema it was written
\* from with the same hash, whatever the schema.
THEOREM HashesArePortableHolds == Spec => []HashesArePortable
<1>1. Registry => HashesArePortable
  <2> SUFFICES ASSUME Registry PROVE HashesArePortable
    OBVIOUS
  <2>1. \A s \in by_topic : Loadable(WriteSchema(s)) /\ LoadSchema(WriteSchema(s)) = s
    BY LoadWrite DEF Registry
  <2> QED
    BY <2>1, Zenon DEF HashesArePortable
<1> QED
  BY <1>1, RegistryHolds, PTL
=============================================================================
