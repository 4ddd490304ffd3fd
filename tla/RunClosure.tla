------------------------------ MODULE RunClosure ------------------------------
(***************************************************************************)
(* What a run leaves behind (crates/plugin-registry, artifact-ledger,       *)
(* station-run, station-kernel/src/closure.rs): the registration of         *)
(* manifests and schemas, the artifact of every publication, and the run    *)
(* manifest that seal_run makes of them.  KernelRuntime says who may        *)
(* publish and when; here only its conditions on the registries matter.     *)
(* The registries are hash maps: the order they are walked in is anyone's.  *)
(*                                                                         *)
(* Names are sequences of character codes, because they are trimmed,        *)
(* compared and rewritten.                                                  *)
(***************************************************************************)
EXTENDS Naturals, Sequences, SequencesExt, FiniteSetsExt

CONSTANTS
  Manifests,  \* plugin manifests a profile may name
  Schemas,    \* schemas a profile may name
  Payloads,   \* payloads of events; a hash is the payload it is computed from
  HexDigits,  \* digits of a hash URN (64 in the code)
  MaxPublished \* bound: publications

\* Names have an order, that of their characters.
Name == Seq(Nat)

ASSUME ClosureAssumption ==
  /\ \A m \in Manifests : m.id \in Name
  /\ \A s \in Schemas : s.topic \in Name

Space == 32
Dot == 46
Underscore == 95
Hex == (48 .. 57) \cup (65 .. 70) \cup (97 .. 102)

\* A name that is empty once trimmed.
IsBlank(n) == \A i \in DOMAIN n : n[i] = Space

HasDuplicates(names) == \E i, j \in DOMAIN names : i # j /\ names[i] = names[j]

IsSha256Urn(hash) ==
  /\ hash.scheme = "sha256:"
  /\ Len(hash.digits) = HexDigits
  /\ \A i \in DOMAIN hash.digits : hash.digits[i] \in Hex

\* Manifests a registry accepts, whatever it holds already.
WellFormed(m) ==
  /\ ~IsBlank(m.id)
  /\ ~HasDuplicates(m.publishes)
  /\ ~HasDuplicates(m.subscribes)
  /\ \A i \in DOMAIN m.claims : ~IsBlank(m.claims[i])
  /\ ~HasDuplicates(m.claims)
  /\ IsSha256Urn(m.artifact_hash)

\* The topic with its dots replaced, and the first letter of "_payload".
ArtifactId(topic) ==
  [i \in DOMAIN topic |-> IF topic[i] = Dot THEN Underscore ELSE topic[i]]
    \o <<Underscore, 112>>

Unsealed == [sealed |-> FALSE]

VARIABLES
  plugins,    \* PluginRegistry::plugins
  schemas,    \* SchemaRegistry::by_topic
  ledger,     \* ArtifactLedger::records; nth is the publication a record is of
  replayed,   \* the publications whose append to the replay log returned Ok
  unrecorded, \* the publications that were delivered and whose append failed
  deaf,       \* topics with a subscription whose receiver is gone
  manifest    \* the run manifest

vars == <<plugins, schemas, ledger, replayed, unrecorded, deaf, manifest>>

Init ==
  /\ plugins = {} /\ schemas = {} /\ ledger = <<>> /\ deaf = {}
  /\ replayed = {} /\ unrecorded = {} /\ manifest = Unsealed

-----------------------------------------------------------------------------
(* The operations of a run.                                                *)

\* A manifest that is refused changes nothing.
RegisterPlugin(m) ==
  /\ ~manifest.sealed
  /\ WellFormed(m)
  /\ \A p \in plugins : p.id # m.id
  /\ plugins' = plugins \cup {m}
  /\ UNCHANGED <<schemas, ledger, replayed, unrecorded, deaf, manifest>>

\* Faulty variant: a later schema of a topic replaces the first.
RegisterSchema_Replaces(s) ==
  /\ ~manifest.sealed
  /\ schemas' = {t \in schemas : t.topic # s.topic} \cup {s}
  /\ UNCHANGED <<plugins, ledger, replayed, unrecorded, deaf, manifest>>

RegisterSchema(s) ==
  /\ ~manifest.sealed
  /\ \A t \in schemas : t.topic # s.topic
  /\ schemas' = schemas \cup {s}
  /\ UNCHANGED <<plugins, ledger, replayed, unrecorded, deaf, manifest>>

\* The record of the n-th publication.
ArtifactOf(m, s, payload, n) ==
  [artifact_id |-> ArtifactId(s.topic), source |-> m.id, hash |-> payload,
   schema |-> s, nth |-> n]

CanPublish(m, topic) == \E i \in DOMAIN m.publishes : m.publishes[i] = topic

\* Faulty variant: a payload the ledger has already is not recorded again.
Publish_Deduplicated(m, s, payload, appended) ==
  /\ ~manifest.sealed
  /\ Len(ledger) < MaxPublished
  /\ m \in plugins /\ s \in schemas /\ CanPublish(m, s.topic)
  /\ LET n == Len(ledger) + 1
         delivered == s.topic \notin deaf
     IN /\ ledger' = IF \E i \in DOMAIN ledger : ledger[i].hash = payload THEN ledger
                     ELSE Append(ledger, ArtifactOf(m, s, payload, n))
        /\ replayed' = replayed \cup (IF delivered /\ appended THEN {n} ELSE {})
        /\ unrecorded' = unrecorded \cup (IF delivered /\ ~appended THEN {n} ELSE {})
  /\ deaf' = deaf \cup {s.topic}
  /\ UNCHANGED <<plugins, schemas, manifest>>

\* publish_admitted, of an event that policy admitted: of a registered plugin,
\* on one of its topics, under the topic's schema.  The artifact is recorded
\* first; the subscription an earlier publication on the topic left behind fails
\* the delivery, and only a publication that is delivered is appended to replay,
\* which may fail.  On every way out the subscription made here stays behind.
Publish(m, s, payload, appended) ==
  /\ ~manifest.sealed
  /\ Len(ledger) < MaxPublished
  /\ m \in plugins /\ s \in schemas /\ CanPublish(m, s.topic)
  /\ LET n == Len(ledger) + 1
         delivered == s.topic \notin deaf
     IN /\ ledger' = Append(ledger, ArtifactOf(m, s, payload, n))
        /\ replayed' = replayed \cup (IF delivered /\ appended THEN {n} ELSE {})
        /\ unrecorded' = unrecorded \cup (IF delivered /\ ~appended THEN {n} ELSE {})
  /\ deaf' = deaf \cup {s.topic}
  /\ UNCHANGED <<plugins, schemas, manifest>>

\* The order of strings.
Before(a, b) ==
  \E n \in 0 .. Len(a) :
    /\ n < Len(b) /\ \A i \in 1 .. n : a[i] = b[i]
    /\ n = Len(a) \/ a[n + 1] < b[n + 1]

Walks(S) == SetToSeqs(S)

\* Whether a stable sort by these keys puts the element at i before the one at j:
\* by the keys, and within a key by the order of the list.
Precedes(keys, i, j) == Before(keys[i], keys[j]) \/ (keys[i] = keys[j] /\ i < j)

\* Where it puts the element at i: after all that precede it.
Place(keys, i) == 1 + Cardinality({j \in DOMAIN keys : Precedes(keys, j, i)})

Sorted(list, keys) ==
  [n \in DOMAIN list |-> list[CHOOSE i \in DOMAIN list : Place(keys, i) = n]]

Summaries(pluginWalk, schemaWalk) ==
  [sealed |-> TRUE,
   plugins |-> Sorted(pluginWalk, [i \in DOMAIN pluginWalk |-> pluginWalk[i].id]),
   schemas |-> Sorted(schemaWalk, [i \in DOMAIN schemaWalk |-> schemaWalk[i].topic]),
   artifacts |-> Sorted(ledger, [i \in DOMAIN ledger |-> ledger[i].artifact_id])]

\* Faulty variant: a registry is listed as it is walked.
SealRun_Unsorted(pluginWalk, schemaWalk) ==
  /\ ~manifest.sealed
  /\ manifest' = [Summaries(pluginWalk, schemaWalk) EXCEPT !.plugins = pluginWalk]
  /\ UNCHANGED <<plugins, schemas, ledger, replayed, unrecorded, deaf>>

SealRun(pluginWalk, schemaWalk) ==
  /\ ~manifest.sealed
  /\ manifest' = Summaries(pluginWalk, schemaWalk)
  /\ UNCHANGED <<plugins, schemas, ledger, replayed, unrecorded, deaf>>

Next ==
  \/ \E m \in Manifests : RegisterPlugin(m)
  \/ \E s \in Schemas : RegisterSchema(s)
  \/ \E m \in Manifests, s \in Schemas, payload \in Payloads, appended \in BOOLEAN :
       Publish(m, s, payload, appended)
  \/ \E pluginWalk \in Walks(plugins), schemaWalk \in Walks(schemas) :
       SealRun(pluginWalk, schemaWalk)

Spec == Init /\ [][Next]_vars

-----------------------------------------------------------------------------
(* What a reader of a sealed run may rely on.                               *)

\* The manifest closes over itself: every artifact in it was made by a plugin in
\* it, on a topic that plugin publishes, under a schema in it of that topic, and
\* everything registered or recorded in the run is in it, nothing twice.
ClosureComplete ==
  manifest.sealed =>
    /\ ToSet(manifest.plugins) = plugins /\ ToSet(manifest.schemas) = schemas
    /\ ToSet(manifest.artifacts) = ToSet(ledger)
    /\ \A list \in {manifest.plugins, manifest.schemas, manifest.artifacts} :
         IsInjective(list)
    /\ \A a \in ToSet(manifest.artifacts) :
         \E m \in ToSet(manifest.plugins), s \in ToSet(manifest.schemas) :
           /\ a.source = m.id /\ a.schema = s
           /\ CanPublish(m, s.topic) /\ a.artifact_id = ArtifactId(s.topic)

\* Two runs with the same registries and ledger have the same lists in their
\* manifests, however their hash maps are laid out: plugins and schemas are in
\* the order of their keys, which tell them apart.  Artifacts of one topic share
\* their artifact_id, and so do those of topics that differ in a dot and an
\* underscore; they are in the order recorded, so that the k-th of an id is the
\* k-th publication under it.
CanonicalOrder ==
  manifest.sealed =>
    /\ \A i, j \in DOMAIN manifest.plugins :
         i < j => Before(manifest.plugins[i].id, manifest.plugins[j].id)
    /\ \A i, j \in DOMAIN manifest.schemas :
         i < j => Before(manifest.schemas[i].topic, manifest.schemas[j].topic)
    /\ \A i, j \in DOMAIN manifest.artifacts :
         LET a == manifest.artifacts[i] b == manifest.artifacts[j]
         IN i < j => \/ Before(a.artifact_id, b.artifact_id)
                     \/ a.artifact_id = b.artifact_id /\ a.nth < b.nth

\* Of all artifacts of its topic in the manifest, the one recorded first.
FirstOfTopic(a) ==
  \A b \in ToSet(manifest.artifacts) : b.schema.topic = a.schema.topic => a.nth <= b.nth

\* What replay says was published can be read off the manifest: replay holds
\* publications in the manifest only, and of those of one topic the first and no
\* other, unless the append of that first one failed.
ReplayedIsListed ==
  manifest.sealed =>
    /\ \A n \in replayed : \E a \in ToSet(manifest.artifacts) : a.nth = n
    /\ \A a \in ToSet(manifest.artifacts) :
         a.nth \in replayed <=> FirstOfTopic(a) /\ a.nth \notin unrecorded
=============================================================================
