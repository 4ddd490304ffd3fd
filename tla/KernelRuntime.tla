---------------------------- MODULE KernelRuntime ----------------------------
(***************************************************************************)
(* KernelRuntime (crates/station-kernel): the API an embedding program      *)
(* drives one run of the station through.  Every method takes the runtime   *)
(* mutably, so methods never overlap; sidecar processes run beside them.    *)
(*                                                                         *)
(* What makes the methods hard is that each appends several records to the  *)
(* replay log between its changes of state and returns at the first append  *)
(* that fails, leaving what it did before in place.  A method is one action *)
(* that chooses how many of its appends succeed; the two methods that loop  *)
(* (register_plugins, drain_plugin_outputs) are a chain of actions, one per *)
(* iteration, during which no other method can be called.                   *)
(*                                                                         *)
(* A method that returns an error before it changes anything or appends     *)
(* anything (an unknown plugin id, draining a plugin with no transport) is  *)
(* a stuttering step and has no action.                                     *)
(***************************************************************************)
EXTENDS SupervisorRules, FiniteSets

CONSTANTS
  Topics,
  Manifest,          \* Manifest[p]: what p's manifest says beside its claims
  Profile,           \* plugin_manifests of the profile, as the ids they declare
  SchemaFiles,       \* schema_files of the profile, as the topics they describe
  Payloads,          \* bound: whether events come with valid, invalid payloads
  SubprocessEnabled, \* the cargo feature of the build
  HostFailures,      \* what may go wrong on this host when a method needs it
  StopEvidence,      \* how many evidence events a sidecar's exit may add
  Envelopes,         \* bound: the envelopes callers may offer
  MaxEvents,         \* bound: envelopes created in a run
  MaxRecords,        \* bound: replay records of a run
  MaxArtifacts,      \* bound: ledger entries of a run
  MaxLines,          \* bound: stderr lines of one sidecar
  MaxPending,        \* bound: undrained candidates of one sidecar
  Cap,               \* bound: Cap[k] replay records of kind k in a run
  MaxFaults          \* bound: replay appends that fail

ManifestRecord ==
  [kind : {"local", "subprocess", "unsupported"},
   publishes : SUBSET Topics, subscribes : SUBSET Topics,
   working_dir : {"none", "inside", "escapes"},
   command : BOOLEAN, executable_hash : BOOLEAN,
   args : BOOLEAN, args_hash : BOOLEAN]

HostFailureKinds ==
  {"ManifestRejected", "SchemaUnreadable", "CommandResolutionFailed",
   "ExecutableUnreadable", "ExecutableHashMismatch", "ArgsUnreadable",
   "ArgsHashMismatch", "SpawnFailed", "WriteFailed", "NonzeroExit",
   "KillFailed"}

RecordKinds ==
  {"lifecycle", "runtime_denied", "transport_failed", "send_attempted",
   "send_succeeded", "evidence", "decision", "published"}

ASSUME KernelAssumption ==
  /\ Manifest \in [Plugins -> ManifestRecord]
  /\ Profile \in Seq(Plugins)
  /\ SchemaFiles \in Seq(Topics)
  /\ SubprocessEnabled \in BOOLEAN
  /\ Payloads \subseteq BOOLEAN
  /\ HostFailures \subseteq HostFailureKinds
  /\ StopEvidence \subseteq 0 .. 3
  /\ \A bound \in {MaxEvents, MaxRecords, MaxArtifacts, MaxLines, MaxPending,
                   MaxFaults} : bound \in Nat
  /\ Cap \in [RecordKinds -> Nat]

VARIABLES
  pstate,     \* supervisor: the runtime state of each plugin
  schemas,    \* schema registry: topics with a schema
  transports, \* plugins with an entry in the transports map
  outbox,     \* candidates a sidecar wrote that the kernel has not taken
  stderr,     \* evidence a transport holds that the kernel has not taken
  lines,      \* how many evidence events each plugin's sidecars gave rise to
  inflight,   \* inflight_by_plugin: events sent to each plugin, one of an id
  dead,       \* event bus: subscriptions to a topic whose receiver is gone
  ledger,     \* artifact ledger: the tokens whose payload was recorded
  log,        \* replay: the records whose append returned Ok
  tokens,     \* the AdmittedEvent values given out to callers
  nextId,     \* the next fresh event id
  call,       \* the looping method in progress, if any
  manifest,   \* the sealed RunManifest, once seal_run has consumed the runtime
  faults      \* how many appends have failed

vars == <<pstate, schemas, transports, outbox, stderr, lines, inflight, dead,
          ledger, log, tokens, nextId, call, manifest, faults>>

sidecarVars == <<outbox, stderr, lines>>
authorityVars == <<inflight, dead, ledger, tokens, nextId>>

-----------------------------------------------------------------------------
(* Events, tokens and the records of the replay log.                       *)

EventIds == 1 .. MaxEvents

\* EventEnvelope.  valid says whether the payload (and a schema hash already
\* attached) passes the topic's schema; parent is 0 for a root event; a trace has
\* the number of an event that may have begun it.
Event == [id : EventIds, source : Plugins, topic : Topics, valid : Payloads,
          parent : 0 .. MaxEvents, trace : EventIds]

ASSUME EnvelopesAssumption == Envelopes \subseteq Event

\* AdmittedEvent: policy stands for policy_event_id, the position of the
\* admission record in the log.
Token == [event : Event, policy : 1 .. MaxRecords]

\* A line a sidecar wrote; request is 0 when the correlation key is missing.
Candidate == [source : Plugins, topic : Topics, valid : Payloads,
              request : 0 .. MaxEvents]

Lifecycle(p, s) == [kind |-> "lifecycle", plugin |-> p, state |-> s]
RuntimeDenied(p, d) == [kind |-> "runtime_denied", plugin |-> p, denial |-> d]
TransportFailed(p, s) == [kind |-> "transport_failed", plugin |-> p, stage |-> s]
SendAttempted(p, e) == [kind |-> "send_attempted", plugin |-> p, event |-> e]
SendSucceeded(p, e) == [kind |-> "send_succeeded", plugin |-> p, event |-> e]
Evidence(p, n) == [kind |-> "evidence", plugin |-> p, line |-> n]
Decision(e, ok) == [kind |-> "decision", event |-> e, allowed |-> ok]
Published(t) == [kind |-> "published", event |-> t.event, policy |-> t.policy]

Denials == DenialKinds \cup
  {"MissingCommand", "MissingExecutableHash", "CommandResolutionFailed",
   "ExecutableHashMismatch", "MissingArgsHash", "ArgsHashMismatch",
   "SubscriptionDenied", "SourceMismatch", "MissingCorrelationKey",
   "UnknownCorrelationKey"}

Stages == {"start", "factory", "send", "stop", "candidate_canonicalization"}

Record ==
  [kind : {"lifecycle"}, plugin : Plugins, state : RuntimeStates] \cup
  [kind : {"runtime_denied"}, plugin : Plugins, denial : Denials] \cup
  [kind : {"transport_failed"}, plugin : Plugins, stage : Stages] \cup
  [kind : {"send_attempted", "send_succeeded"}, plugin : Plugins, event : Event] \cup
  [kind : {"evidence"}, plugin : Plugins, line : Nat] \cup
  [kind : {"decision"}, event : Event, allowed : BOOLEAN] \cup
  [kind : {"published"}, event : Event, policy : 1 .. MaxRecords]

Idle == [op |-> "idle"]
Registering == [op : {"register"}, next : Nat \ {0}]
Draining == [op : {"drain"}, plugin : Plugins, evidence : Seq(Nat),
             candidates : Seq(Candidate), admitted : SUBSET Token]

Unsealed == [status |-> "open"]
SealedManifest == [status : {"sealed"}, valid : BOOLEAN,
                   records : 0 .. (MaxRecords + 1), artifacts : Seq(Token),
                   plugins : SUBSET Plugins]

TypeOK ==
  /\ pstate \in [Plugins -> LifecycleStates]
  /\ schemas \in SUBSET Topics
  /\ transports \in SUBSET Plugins
  /\ outbox \in [Plugins -> Seq(Candidate)]
  /\ stderr \in [Plugins -> Seq(Nat)]
  /\ lines \in [Plugins -> Nat]
  /\ inflight \in [Plugins -> SUBSET Event]
  /\ dead \in [Topics -> Nat]
  /\ ledger \in Seq(Token)
  /\ log \in Seq(Record) /\ Len(log) <= MaxRecords
  /\ tokens \in SUBSET Token
  /\ nextId \in 1 .. (MaxEvents + 1)
  /\ call \in {Idle} \cup Registering \cup Draining
  /\ manifest \in {Unsealed} \cup SealedManifest
  /\ faults \in Nat

Init ==
  /\ pstate = [p \in Plugins |-> "Unregistered"]
  /\ schemas = {}
  /\ transports = {}
  /\ outbox = [p \in Plugins |-> <<>>]
  /\ stderr = [p \in Plugins |-> <<>>]
  /\ lines = [p \in Plugins |-> 0]
  /\ inflight = [p \in Plugins |-> {}]
  /\ dead = [t \in Topics |-> 0]
  /\ ledger = <<>>
  /\ log = <<>>
  /\ tokens = {}
  /\ nextId = 1
  /\ call = Idle
  /\ manifest = Unsealed
  /\ faults = 0

-----------------------------------------------------------------------------
(* Appending.  A method hands the records it will append, in order; the     *)
(* first k are appended and, when k is not all of them, the next one fails. *)

Appends == 0 .. MaxRecords

WithinBounds(records) ==
  /\ Len(records) <= MaxRecords
  /\ \A kind \in RecordKinds :
       Cardinality({i \in DOMAIN records : records[i].kind = kind}) <= Cap[kind]

Append_k(recs, k) ==
  /\ k \in 0 .. Len(recs)
  /\ WithinBounds(log \o recs)
  /\ k < Len(recs) => faults < MaxFaults
  /\ log' = log \o SubSeq(recs, 1, k)
  /\ faults' = IF k < Len(recs) THEN faults + 1 ELSE faults

\* Faulty variant: the move out of the state is not recorded.
Traverse_ExitUnrecorded(p, entry, between, exit, k) ==
  /\ Append_k(<<Lifecycle(p, entry)>> \o between, k)
  /\ pstate' = [pstate EXCEPT ![p] = IF k > Len(between) THEN exit ELSE entry]

\* p enters a state, other evidence is recorded, p leaves for the next state.
\* The supervisor moves before the record of the move is appended.
Traverse(p, entry, between, exit, k) ==
  /\ Append_k(<<Lifecycle(p, entry)>> \o between \o <<Lifecycle(p, exit)>>, k)
  /\ pstate' = [pstate EXCEPT ![p] = IF k > Len(between) THEN exit ELSE entry]

\* p enters a state and the method gives up there.
Enter(p, entry, k) ==
  /\ Append_k(<<Lifecycle(p, entry)>>, k)
  /\ pstate' = [pstate EXCEPT ![p] = entry]

\* A new method can be called: none is in progress and the run is not sealed.
Ready == call = Idle /\ manifest = Unsealed

Sidecar(p) == Manifest[p].kind = "subprocess"

-----------------------------------------------------------------------------
(* Registration.                                                           *)

\* register_plugins: a loop over the profile's manifests ...
RegisterPlugins ==
  /\ Ready
  /\ call' = [op |-> "register", next |-> 1]
  /\ UNCHANGED <<pstate, schemas, transports, sidecarVars, authorityVars, log,
                 manifest, faults>>

\* ... that registers and admits the next one ...
RegisterNext ==
  /\ call.op = "register"
  /\ call.next <= Len(Profile)
  /\ pstate[Profile[call.next]] = "Unregistered"
  /\ \E k \in Appends :
       /\ Traverse(Profile[call.next], "Registered", <<>>, "Admitted", k)
       /\ call' = IF k = 2 THEN [call EXCEPT !.next = @ + 1] ELSE Idle
  /\ UNCHANGED <<schemas, transports, sidecarVars, authorityVars, manifest>>

\* ... and returns at the end, or at a manifest it cannot load or register.
RegisterReturn ==
  /\ call.op = "register"
  /\ call.next <= Len(Profile) =>
     \/ pstate[Profile[call.next]] # "Unregistered"
     \/ "ManifestRejected" \in HostFailures
  /\ call' = Idle
  /\ UNCHANGED <<pstate, schemas, transports, sidecarVars, authorityVars, log,
                 manifest, faults>>

\* register_schemas: the first n files are registered, the next is refused.
RegisterSchemas(n) ==
  /\ Ready
  /\ n \in 0 .. Len(SchemaFiles)
  /\ \A i \in 1 .. n :
       /\ SchemaFiles[i] \notin schemas
       /\ \A j \in 1 .. (i - 1) : SchemaFiles[j] # SchemaFiles[i]
  /\ n < Len(SchemaFiles) =>
     \/ SchemaFiles[n + 1] \in schemas \cup {SchemaFiles[i] : i \in 1 .. n}
     \/ "SchemaUnreadable" \in HostFailures
  /\ schemas' = schemas \cup {SchemaFiles[i] : i \in 1 .. n}
  /\ UNCHANGED <<pstate, transports, sidecarVars, authorityVars, log, call,
                 manifest, faults>>

-----------------------------------------------------------------------------
(* start_plugin.                                                           *)

\* A transition the supervisor refuses leaves a denial, whatever the method.
RefuseTransition(p, to) ==
  /\ Ready
  /\ \E d \in DenialKinds, k \in Appends :
       /\ TransitionDenied(p, pstate[p], to, d)
       /\ Append_k(<<RuntimeDenied(p, d)>>, k)
  /\ UNCHANGED <<pstate, schemas, transports, sidecarVars, authorityVars, call,
                 manifest>>

Refusal(p, d) == <<RuntimeDenied(p, d), TransportFailed(p, "start")>>

\* What can stop a start between Starting and Running, in the order the method
\* looks, and the evidence it then records; where there is none it returns
\* through `?` without recording anything or leaving Starting.
StartChecks(p, host) ==
  LET m == Manifest[p]
      sidecar(cond) == Sidecar(p) /\ cond
  IN << [fails |-> m.working_dir = "escapes", evidence |-> <<>>],
        [fails |-> sidecar(~m.command), evidence |-> Refusal(p, "MissingCommand")],
        [fails |-> sidecar(~m.executable_hash),
         evidence |-> Refusal(p, "MissingExecutableHash")],
        [fails |-> sidecar(host = "CommandResolutionFailed"),
         evidence |-> Refusal(p, "CommandResolutionFailed")],
        [fails |-> sidecar(host = "ExecutableUnreadable"), evidence |-> <<>>],
        [fails |-> sidecar(host = "ExecutableHashMismatch"),
         evidence |-> Refusal(p, "ExecutableHashMismatch")],
        [fails |-> sidecar(m.args /\ ~m.args_hash),
         evidence |-> Refusal(p, "MissingArgsHash")],
        [fails |-> sidecar(m.args_hash /\ host = "ArgsUnreadable"),
         evidence |-> <<>>],
        [fails |-> sidecar(m.args_hash /\ host = "ArgsHashMismatch"),
         evidence |-> Refusal(p, "ArgsHashMismatch")],
        [fails |-> m.kind = "unsupported" \/ sidecar(~SubprocessEnabled),
         evidence |-> <<TransportFailed(p, "factory")>>],
        [fails |-> sidecar(host = "SpawnFailed"),
         evidence |-> <<TransportFailed(p, "start")>>] >>

StartAborted(p, check, k) ==
  /\ check.evidence = <<>>
  /\ Enter(p, "Starting", k)
  /\ UNCHANGED transports

\* Faulty variant: the evidence is recorded, the transition to Failed forgotten.
StartFailed_LeftStarting(p, check, k) ==
  /\ check.evidence # <<>>
  /\ Append_k(<<Lifecycle(p, "Starting")>> \o check.evidence, k)
  /\ pstate' = [pstate EXCEPT ![p] = "Starting"]
  /\ UNCHANGED transports

StartFailed(p, check, k) ==
  /\ check.evidence # <<>>
  /\ Traverse(p, "Starting", check.evidence, "Failed", k)
  /\ UNCHANGED transports

\* The transport is started and kept before Running is recorded.
StartSucceeded(p, k) ==
  /\ Traverse(p, "Starting", <<>>, "Running", k)
  /\ transports' = IF k > 0 THEN transports \cup {p} ELSE transports

\* host is the one thing that goes wrong on the host, if anything does.
StartPlugin(p) ==
  /\ Ready
  /\ TransitionAllowed(p, pstate[p], "Starting")
  /\ \E host \in HostFailures \cup {"none"}, k \in Appends :
       LET checks == StartChecks(p, host)
       IN \/ \E i \in 1 .. Len(checks) :
               /\ FirstFailing(checks, i)
               /\ StartAborted(p, checks[i], k) \/ StartFailed(p, checks[i], k)
          \/ AllPass(checks) /\ StartSucceeded(p, k)
  /\ UNCHANGED <<schemas, sidecarVars, authorityVars, call, manifest>>

-----------------------------------------------------------------------------
(* stop_plugin.                                                            *)

\* Faulty variant: the stopped transport stays in the map.
DropTransport_Kept(p, dropped) ==
  /\ transports' = transports
  /\ outbox' = IF dropped THEN [outbox EXCEPT ![p] = <<>>] ELSE outbox
  /\ stderr' = IF dropped THEN [stderr EXCEPT ![p] = <<>>] ELSE stderr

\* The transport leaves the map once Stopping is recorded, and what its
\* candidate buffer still holds goes with it.
DropTransport(p, dropped) ==
  /\ transports' = IF dropped THEN transports \ {p} ELSE transports
  /\ outbox' = IF dropped THEN [outbox EXCEPT ![p] = <<>>] ELSE outbox
  /\ stderr' = IF dropped THEN [stderr EXCEPT ![p] = <<>>] ELSE stderr

\* The transport stops; its exit adds n evidence events to those it holds, and
\* all of them are recorded before Stopped.
StopSucceeded(p, n, k) ==
  LET held == stderr[p] \o [i \in 1 .. n |-> lines[p] + i]
  IN /\ Traverse(p, "Stopping",
                 [i \in 1 .. Len(held) |-> Evidence(p, held[i])], "Stopped", k)
     /\ DropTransport(p, k > 0)
     /\ lines' = IF k > 0 THEN [lines EXCEPT ![p] = @ + n] ELSE lines

\* The child cannot be killed or reaped: its evidence goes with the transport.
StopFailed(p, k) ==
  /\ Sidecar(p)
  /\ p \in transports
  /\ "KillFailed" \in HostFailures
  /\ Traverse(p, "Stopping", <<TransportFailed(p, "stop")>>, "Failed", k)
  /\ DropTransport(p, k > 0)
  /\ UNCHANGED lines

StopPlugin(p) ==
  /\ Ready
  /\ TransitionAllowed(p, pstate[p], "Stopping")
  /\ \E k \in Appends :
       \/ \E n \in IF Sidecar(p) /\ p \in transports THEN StopEvidence ELSE {0} :
            StopSucceeded(p, n, k)
       \/ StopFailed(p, k)
  /\ UNCHANGED <<schemas, authorityVars, call, manifest>>

-----------------------------------------------------------------------------
(* admit and publish_admitted.                                             *)

\* Faulty variant: the runtime state of the source is not looked at.
Admissible_AnyState(e) ==
  /\ pstate[e.source] # "Unregistered"
  /\ e.topic \in Manifest[e.source].publishes
  /\ e.topic \in schemas
  /\ e.valid

\* PolicyEngine::admit_event.
Admissible(e) ==
  /\ pstate[e.source] # "Unregistered"
  /\ e.topic \in Manifest[e.source].publishes
  /\ pstate[e.source] = "Running"
  /\ e.topic \in schemas
  /\ e.valid

\* Faulty variant: the token names the record before its admission.
TokenFor_PreviousRecord(e) == [event |-> e, policy |-> Len(log)]

\* The token admit_and_record returns for e when its decision is recorded next.
TokenFor(e) == [event |-> e, policy |-> Len(log) + 1]

\* Faulty variants: a token before the record is safe, and for a denied event.
Granted_Unrecorded(e, recorded) == IF Admissible(e) THEN {TokenFor(e)} ELSE {}
Granted_Denied(e, recorded) == IF recorded THEN {TokenFor(e)} ELSE {}

\* admit_and_record: a token only for an admission whose record was appended.
Granted(e, recorded) == IF recorded /\ Admissible(e) THEN {TokenFor(e)} ELSE {}

\* A caller may offer any envelope (Envelopes may be all of Event), of an id it knows
\* or of a fresh one: all fields are public, so it may be a child of any event
\* (child_of), be offered again, or carry the id of an event with other contents.
AdmitEvent(e) ==
  /\ Ready
  /\ e.id <= nextId
  /\ nextId' = IF e.id = nextId THEN nextId + 1 ELSE nextId
  /\ \E k \in Appends :
       /\ Append_k(<<Decision(e, Admissible(e))>>, k)
       /\ tokens' = tokens \cup Granted(e, k = 1)
  /\ UNCHANGED <<pstate, schemas, transports, sidecarVars, inflight, dead, ledger,
                 call, manifest>>

\* The artifact is recorded, then a subscription to the topic made for this
\* publication receives it and is dropped, which leaves a dead subscription in
\* the bus.  Delivery to one that was already there fails the publication and
\* prunes it; only a delivered event is recorded.  A caller may hold clones of
\* the token, so it stays usable.
PublishAdmitted(t) ==
  /\ Ready
  /\ t \in tokens
  /\ Len(ledger) < MaxArtifacts
  /\ ledger' = Append(ledger, t)
  /\ \E k \in Appends :
       Append_k(IF dead[t.event.topic] = 0 THEN <<Published(t)>> ELSE <<>>, k)
  /\ dead' = [dead EXCEPT ![t.event.topic] = 1]
  /\ UNCHANGED <<pstate, schemas, transports, sidecarVars, inflight, tokens,
                 nextId, call, manifest>>

-----------------------------------------------------------------------------
(* send_to_plugin.                                                         *)

Subscribed(p, topic) ==
  pstate[p] # "Unregistered" /\ topic \in Manifest[p].subscribes

SendRefused(p, t, k) ==
  /\ ~Subscribed(p, t.event.topic)
  /\ Append_k(<<RuntimeDenied(p, "SubscriptionDenied"), TransportFailed(p, "send")>>, k)
  /\ UNCHANGED <<inflight, stderr, lines>>

SendInactive(p, t, k) ==
  /\ Subscribed(p, t.event.topic)
  /\ p \notin transports
  /\ Append_k(<<TransportFailed(p, "send")>>, k)
  /\ UNCHANGED <<inflight, stderr, lines>>

SendFailed(p, t, k) ==
  /\ Subscribed(p, t.event.topic)
  /\ p \in transports
  /\ Sidecar(p) /\ "WriteFailed" \in HostFailures
  /\ Append_k(<<SendAttempted(p, t.event), TransportFailed(p, "send")>>, k)
  /\ UNCHANGED <<inflight, stderr, lines>>

\* The map of what is in flight to a plugin has one event of an id, the last sent.
Noted(events, e) == {f \in events : f.id # e.id} \cup {e}

\* The event is in flight from the write on, recorded as sent or not.  A child
\* found dead right after the write adds evidence (n = 1).
SendSucceeds(p, t, n, k) ==
  /\ Subscribed(p, t.event.topic)
  /\ p \in transports
  /\ lines[p] + n <= MaxLines
  /\ Append_k(<<SendAttempted(p, t.event), SendSucceeded(p, t.event)>>, k)
  /\ inflight' = IF k > 0 THEN [inflight EXCEPT ![p] = Noted(@, t.event)] ELSE inflight
  /\ lines' = IF k > 0 THEN [lines EXCEPT ![p] = @ + n] ELSE lines
  /\ stderr' = IF k > 0 /\ n = 1 THEN [stderr EXCEPT ![p] = Append(@, lines[p] + 1)]
                                 ELSE stderr

SendToPlugin(p, t) ==
  /\ Ready
  /\ t \in tokens
  /\ \E k \in Appends :
       \/ SendRefused(p, t, k) \/ SendInactive(p, t, k) \/ SendFailed(p, t, k)
       \/ \E n \in IF Sidecar(p) /\ "NonzeroExit" \in HostFailures THEN {0, 1} ELSE {0} :
            SendSucceeds(p, t, n, k)
  /\ UNCHANGED <<pstate, schemas, transports, outbox, dead, ledger, tokens, nextId,
                 call, manifest>>

-----------------------------------------------------------------------------
(* drain_plugin_outputs.                                                   *)

\* Faulty variant: lines that arrive between the two pumps are thrown away.
DrainBegin_LateLinesDropped(p, m) ==
  /\ Ready
  /\ p \in transports
  /\ call' = [op |-> "drain", plugin |-> p, evidence |-> SubSeq(stderr[p], 1, m),
              candidates |-> outbox[p], admitted |-> {}]
  /\ stderr' = [stderr EXCEPT ![p] = <<>>]
  /\ outbox' = [outbox EXCEPT ![p] = <<>>]
  /\ UNCHANGED <<pstate, schemas, transports, lines, authorityVars, log, manifest,
                 faults>>

\* Faulty variant: the newest evidence is taken.
DrainBegin_Newest(p, m) ==
  /\ Ready
  /\ p \in transports
  /\ LET left == Len(stderr[p]) - m
     IN /\ call' = [op |-> "drain", plugin |-> p,
                    evidence |-> SubSeq(stderr[p], left + 1, Len(stderr[p])),
                    candidates |-> outbox[p], admitted |-> {}]
        /\ stderr' = [stderr EXCEPT ![p] = SubSeq(@, 1, left)]
  /\ outbox' = [outbox EXCEPT ![p] = <<>>]
  /\ UNCHANGED <<pstate, schemas, transports, lines, authorityVars, log, manifest,
                 faults>>

\* Evidence is taken before candidates, each after a pump of the channel: the
\* stderr lines past the first m arrived between the two and stay behind.
DrainBegin(p, m) ==
  /\ Ready
  /\ p \in transports
  /\ call' = [op |-> "drain", plugin |-> p, evidence |-> SubSeq(stderr[p], 1, m),
              candidates |-> outbox[p], admitted |-> {}]
  /\ stderr' = [stderr EXCEPT ![p] = SubSeq(@, m + 1, Len(@))]
  /\ outbox' = [outbox EXCEPT ![p] = <<>>]
  /\ UNCHANGED <<pstate, schemas, transports, lines, authorityVars, log, manifest,
                 faults>>

\* A failed append abandons the rest of the batch and the tokens of its part.
DrainEvidence ==
  /\ call.op = "drain"
  /\ call.evidence # <<>>
  /\ \E k \in Appends :
       /\ Append_k(<<Evidence(call.plugin, Head(call.evidence))>>, k)
       /\ call' = IF k = 1 THEN [call EXCEPT !.evidence = Tail(@)] ELSE Idle
  /\ UNCHANGED <<pstate, schemas, transports, sidecarVars, authorityVars, manifest>>

\* Faulty variant: requests are not kept apart by plugin.
InFlight_Shared(p) == UNION {inflight[q] : q \in Plugins}

\* The requests a candidate of p may answer: nothing removes them.
InFlight(p) == inflight[p]

\* canonicalize_candidate_from_plugin: why p's candidate c is not accepted.
CandidateChecks(p, c) ==
  << [denial |-> "SourceMismatch", fails |-> c.source # p],
     [denial |-> "MissingCorrelationKey", fails |-> c.request = 0],
     [denial |-> "UnknownCorrelationKey",
      fails |-> \A e \in InFlight(p) : e.id # c.request] >>

\* Faulty variant: a refused candidate ends the drain, and the tokens of the
\* candidates before it are lost.
DrainRefused_EndsDrain ==
  /\ call.op = "drain" /\ call.evidence = <<>> /\ call.candidates # <<>>
  /\ \E i \in 1 .. 3, k \in Appends :
       LET checks == CandidateChecks(call.plugin, Head(call.candidates))
       IN /\ FirstFailing(checks, i)
          /\ Append_k(<<RuntimeDenied(call.plugin, checks[i].denial),
                        TransportFailed(call.plugin, "candidate_canonicalization")>>, k)
  /\ call' = Idle
  /\ UNCHANGED <<pstate, schemas, transports, sidecarVars, authorityVars, manifest>>

DrainRefused ==
  /\ call.op = "drain" /\ call.evidence = <<>> /\ call.candidates # <<>>
  /\ \E i \in 1 .. 3, k \in Appends :
       LET checks == CandidateChecks(call.plugin, Head(call.candidates))
       IN /\ FirstFailing(checks, i)
          /\ Append_k(<<RuntimeDenied(call.plugin, checks[i].denial),
                        TransportFailed(call.plugin, "candidate_canonicalization")>>, k)
          /\ call' = IF k = 2 THEN [call EXCEPT !.candidates = Tail(@)] ELSE Idle
  /\ UNCHANGED <<pstate, schemas, transports, sidecarVars, authorityVars, manifest>>

\* Faulty variant: the trace is taken from the request's parent.
Canonical_ParentTrace(p, c, parent) ==
  [id |-> nextId, source |-> p, topic |-> c.topic, valid |-> c.valid,
   parent |-> parent.id, trace |-> parent.parent]

\* The canonical event has a fresh id and the lineage of the request.
Canonical(p, c, parent) ==
  [id |-> nextId, source |-> p, topic |-> c.topic, valid |-> c.valid,
   parent |-> parent.id, trace |-> parent.trace]

DrainAdmission(parent) ==
  /\ call.op = "drain" /\ call.evidence = <<>> /\ call.candidates # <<>>
  /\ nextId <= MaxEvents
  /\ AllPass(CandidateChecks(call.plugin, Head(call.candidates)))
  /\ parent \in InFlight(call.plugin)
  /\ parent.id = Head(call.candidates).request
  /\ LET e == Canonical(call.plugin, Head(call.candidates), parent)
     IN \E k \in Appends :
          /\ Append_k(<<Decision(e, Admissible(e))>>, k)
          /\ call' = IF k = 0 THEN Idle
                     ELSE [call EXCEPT !.candidates = Tail(@),
                                       !.admitted = @ \cup Granted(e, k = 1)]
  /\ nextId' = nextId + 1
  /\ UNCHANGED <<pstate, schemas, transports, sidecarVars, inflight, dead, ledger,
                 tokens, manifest>>

\* The tokens reach the caller only when the whole batch is through.
DrainReturn ==
  /\ call.op = "drain" /\ call.evidence = <<>> /\ call.candidates = <<>>
  /\ tokens' = tokens \cup call.admitted
  /\ call' = Idle
  /\ UNCHANGED <<pstate, schemas, transports, sidecarVars, inflight, dead, ledger,
                 log, nextId, manifest, faults>>

-----------------------------------------------------------------------------
(* seal_run, and the sidecars.                                             *)

\* Faulty variant: the manifest gives the last index instead of the count.
SealRun_LastIndex(valid, extra) ==
  /\ Ready
  /\ faults = 0 => valid /\ extra = 0
  /\ manifest' = [status |-> "sealed", valid |-> valid,
                  records |-> IF valid THEN Len(log) + extra - 1 ELSE 0,
                  artifacts |-> ledger,
                  plugins |-> {p \in Plugins : pstate[p] # "Unregistered"}]
  /\ UNCHANGED <<pstate, schemas, transports, sidecarVars, authorityVars, log, call,
                 faults>>

\* The manifest counts what verify_chain reads back.  That is the log unless an
\* append failed: then the file may not verify, or may hold one record more
\* whose append was reported as failed (ReplayLog).
SealRun(valid, extra) ==
  /\ Ready
  /\ faults = 0 => valid /\ extra = 0
  /\ manifest' = [status |-> "sealed", valid |-> valid,
                  records |-> IF valid THEN Len(log) + extra ELSE 0,
                  artifacts |-> ledger,
                  plugins |-> {p \in Plugins : pstate[p] # "Unregistered"}]
  /\ UNCHANGED <<pstate, schemas, transports, sidecarVars, authorityVars, log, call,
                 faults>>

SidecarWrites(p, c) ==
  /\ manifest = Unsealed
  /\ p \in transports /\ Sidecar(p)
  /\ Len(outbox[p]) < MaxPending
  /\ outbox' = [outbox EXCEPT ![p] = Append(@, c)]
  /\ UNCHANGED <<pstate, schemas, transports, stderr, lines, authorityVars, log, call,
                 manifest, faults>>

SidecarComplains(p) ==
  /\ manifest = Unsealed
  /\ p \in transports /\ Sidecar(p)
  /\ lines[p] < MaxLines
  /\ lines' = [lines EXCEPT ![p] = @ + 1]
  /\ stderr' = [stderr EXCEPT ![p] = Append(@, lines[p] + 1)]
  /\ UNCHANGED <<pstate, schemas, transports, outbox, authorityVars, log, call,
                 manifest, faults>>

-----------------------------------------------------------------------------
Next ==
  \/ RegisterPlugins \/ RegisterNext \/ RegisterReturn
  \/ \E n \in 0 .. Len(SchemaFiles) : RegisterSchemas(n)
  \/ \E e \in Envelopes : AdmitEvent(e)
  \/ \E t \in tokens : PublishAdmitted(t)
  \/ \E p \in Plugins :
       \/ \E to \in {"Starting", "Stopping"} : RefuseTransition(p, to)
       \/ StartPlugin(p) \/ StopPlugin(p)
       \/ \E t \in tokens : SendToPlugin(p, t)
       \/ \E m \in 0 .. Len(stderr[p]) : DrainBegin(p, m)
       \/ \E c \in Candidate : SidecarWrites(p, c)
       \/ SidecarComplains(p)
  \/ DrainEvidence \/ DrainRefused \/ DrainReturn
  \/ \E e \in UNION {inflight[p] : p \in Plugins} : DrainAdmission(e)
  \/ \E valid \in BOOLEAN, extra \in {0, 1} : SealRun(valid, extra)

Spec == Init /\ [][Next]_vars
=============================================================================
