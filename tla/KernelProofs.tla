----------------------------- MODULE KernelProofs -----------------------------
(***************************************************************************)
(* What is proved of the kernel, for every value of its constants.         *)
(*                                                                         *)
(* Types: one lemma per method, on top of what an append does.  Lifecycle: *)
(* with the types, that transports match the supervisor is inductive: a    *)
(* start enters from states that have no transport, a stop leaves from     *)
(* Running, and the only way to keep the transport of a plugin in Stopping *)
(* is an append that failed, which faults counts and never forgets.        *)
(* Feeds: the kernel uses of each transport no more than the feed that     *)
(* SubprocessTransport implements, since a start finds no transport in the *)
(* map and a stop finds the plugin's own.                                  *)
(*                                                                         *)
(* Authority: the tokens callers hold, the events that are published, the  *)
(* events sent to sidecars and the answers that are decided all rest on    *)
(* records that were in the log before.  A step only extends the log, and  *)
(* what it adds is warranted by the state before the step (ExtendsLog).    *)
(* Tokens and events in flight are only added together with, or after, the *)
(* record that backs them.                                                 *)
(*                                                                         *)
(* Contract: the variables of StationContract are read off the replay log, *)
(* the supervisor, the ledger and the manifest.  A step appends some       *)
(* records, of which at most one is a decision that allows, a publication  *)
(* or a send: the others are quiet, and change nothing the contract sees.  *)
(* What the contract asks of that one record is what AuthorityInv says of  *)
(* tokens and of events in flight.  After it comes what a sealed manifest  *)
(* lists.                                                                  *)
(*                                                                         *)
(* History, while no append fails: a method appends a lifecycle record for *)
(* each move it makes and in the order of the moves, so the argument walks *)
(* along the records of one method: TellsUpTo says that the first n        *)
(* records of a log tell a legal history that ends in the states given.    *)
(* Evidence: a step that meets no fault appends all its records, and moves *)
(* lines from the transport to the batch to the log, or adds new ones at   *)
(* the end (EvidencePasses).                                               *)
(***************************************************************************)
EXTENDS KernelProperties, SequenceLemmas

-----------------------------------------------------------------------------
(* What an append does to the log.                                         *)

LEMMA BoundsAreNat ==
  /\ MaxEvents \in Nat /\ MaxRecords \in Nat /\ MaxArtifacts \in Nat
  /\ MaxLines \in Nat /\ MaxPending \in Nat /\ MaxFaults \in Nat
BY KernelAssumption DEF KernelAssumption

\* The log keeps the records it has, and the new ones are among recs, in order.
LEMMA AppendExtends ==
  ASSUME NEW S, log \in Seq(S), NEW recs \in Seq(S), NEW k, Append_k(recs, k)
  PROVE  /\ log' \in Seq(S)
         /\ Len(log') = Len(log) + k
         /\ Len(log') <= MaxRecords
         /\ \A i \in 1 .. Len(log) : log'[i] = log[i]
         /\ \A i \in 1 .. k : log'[Len(log) + i] = recs[i]
         /\ k \in 0 .. Len(recs)
<1>1. k \in 0 .. Len(recs) /\ Len(log \o recs) <= MaxRecords
      /\ log' = log \o SubSeq(recs, 1, k)
  BY DEF Append_k, WithinBounds
<1>2. /\ SubSeq(recs, 1, k) \in Seq(S)
      /\ Len(SubSeq(recs, 1, k)) = k
      /\ \A i \in 1 .. k : SubSeq(recs, 1, k)[i] = recs[i]
  BY <1>1
<1>3. Len(log \o recs) = Len(log) + Len(recs)
  BY <1>1
<1> QED
  BY <1>1, <1>2, <1>3, BoundsAreNat

-----------------------------------------------------------------------------
(* Types.                                                                  *)

LEMMA ConstantTypes ==
  /\ Manifest \in [Plugins -> ManifestRecord]
  /\ Profile \in Seq(Plugins)
  /\ SchemaFiles \in Seq(Topics)
  /\ Payloads \subseteq BOOLEAN
  /\ StopEvidence \subseteq Nat
BY KernelAssumption DEF KernelAssumption

\* The records the methods append are records of the replay log.
LEMMA PluginRecordTypes ==
  ASSUME NEW p \in Plugins
  PROVE  /\ \A s \in RuntimeStates : Lifecycle(p, s) \in Record
         /\ \A d \in Denials : RuntimeDenied(p, d) \in Record
         /\ \A s \in Stages : TransportFailed(p, s) \in Record
         /\ \A n \in Nat : Evidence(p, n) \in Record
BY DEF Record, Lifecycle, RuntimeDenied, TransportFailed, Evidence

LEMMA EventRecordTypes ==
  /\ \A p \in Plugins, e \in Event :
       SendAttempted(p, e) \in Record /\ SendSucceeded(p, e) \in Record
  /\ \A e \in Event, ok \in BOOLEAN : Decision(e, ok) \in Record
  /\ \A t \in Token : Published(t) \in Record
<1>1. \A p \in Plugins, e \in Event :
        SendAttempted(p, e) \in Record /\ SendSucceeded(p, e) \in Record
  BY DEF Record, SendAttempted, SendSucceeded
<1>2. \A e \in Event, ok \in BOOLEAN : Decision(e, ok) \in Record
  BY DEF Record, Decision
<1>3. \A t \in Token : Published(t) \in Record
  BY DEF Record, Published, Token
<1> QED
  BY <1>1, <1>2, <1>3

\* Appending records of the right type keeps the part of TypeOK that it changes.
LEMMA AppendTypes ==
  ASSUME TypeOK, NEW recs \in Seq(Record), NEW k, Append_k(recs, k)
  PROVE  /\ log' \in Seq(Record) /\ Len(log') <= MaxRecords
         /\ faults' \in Nat
         /\ k \in 0 .. Len(recs)
<1>1. log \in Seq(Record) /\ faults \in Nat
  BY DEF TypeOK
<1>2. log' \in Seq(Record) /\ Len(log') <= MaxRecords /\ k \in 0 .. Len(recs)
  BY <1>1, AppendExtends
<1>3. faults' \in Nat
  BY <1>1 DEF Append_k
<1> QED
  BY <1>2, <1>3

LEMMA EnterTypes ==
  ASSUME TypeOK, NEW p \in Plugins, NEW entry \in RuntimeStates, NEW k,
         Enter(p, entry, k)
  PROVE  /\ log' \in Seq(Record) /\ Len(log') <= MaxRecords
         /\ faults' \in Nat
         /\ pstate' \in [Plugins -> LifecycleStates]
<1>1. <<Lifecycle(p, entry)>> \in Seq(Record)
  BY DEF Lifecycle, Record
<1> QED
  BY <1>1, AppendTypes DEF Enter, TypeOK, LifecycleStates

LEMMA TraverseTypes ==
  ASSUME TypeOK, NEW p \in Plugins, NEW entry \in RuntimeStates,
         NEW exit \in RuntimeStates, NEW between \in Seq(Record), NEW k,
         Traverse(p, entry, between, exit, k)
  PROVE  /\ log' \in Seq(Record) /\ Len(log') <= MaxRecords
         /\ faults' \in Nat
         /\ pstate' \in [Plugins -> LifecycleStates]
<1>1. /\ <<Lifecycle(p, entry)>> \in Seq(Record)
      /\ <<Lifecycle(p, exit)>> \in Seq(Record)
  BY DEF Lifecycle, Record
<1>2. <<Lifecycle(p, entry)>> \o between \o <<Lifecycle(p, exit)>> \in Seq(Record)
  BY <1>1
<1> QED
  BY <1>2, AppendTypes DEF Traverse, TypeOK, LifecycleStates

LEMMA InitTypeOK == Init => TypeOK
<1> SUFFICES ASSUME Init PROVE TypeOK
  OBVIOUS
<1> USE BoundsAreNat DEF Init
<1>1. log \in Seq(Record) /\ Len(log) <= MaxRecords /\ ledger \in Seq(Token)
  OBVIOUS
<1>2. nextId \in 1 .. (MaxEvents + 1) /\ faults \in Nat
  OBVIOUS
<1>3. pstate \in [Plugins -> LifecycleStates]
  BY DEF LifecycleStates
<1>4. outbox \in [Plugins -> Seq(Candidate)] /\ stderr \in [Plugins -> Seq(Nat)]
  OBVIOUS
<1> QED
  BY <1>1, <1>2, <1>3, <1>4 DEF TypeOK

LEMMA RegistrationTypes ==
  ASSUME TypeOK
  PROVE  /\ RegisterPlugins => TypeOK'
         /\ RegisterNext => TypeOK'
         /\ RegisterReturn => TypeOK'
         /\ \A n \in 0 .. Len(SchemaFiles) : RegisterSchemas(n) => TypeOK'
<1>1. ASSUME RegisterPlugins PROVE TypeOK'
  <2>1. call' \in Registering
    BY <1>1 DEF RegisterPlugins, Registering
  <2> QED
    BY <1>1, <2>1 DEF RegisterPlugins, TypeOK, sidecarVars, authorityVars
<1>2. ASSUME RegisterNext PROVE TypeOK'
  <2>1. call \in Registering
    BY <1>2 DEF RegisterNext, TypeOK, Idle, Draining
  <2>2. Profile[call.next] \in Plugins
    BY <1>2, <2>1, ConstantTypes DEF RegisterNext, Registering
  <2>3. PICK k \in Appends :
          /\ Traverse(Profile[call.next], "Registered", <<>>, "Admitted", k)
          /\ call' = IF k = 2 THEN [call EXCEPT !.next = @ + 1] ELSE Idle
    BY <1>2 DEF RegisterNext
  <2>4. /\ log' \in Seq(Record) /\ Len(log') <= MaxRecords
        /\ faults' \in Nat
        /\ pstate' \in [Plugins -> LifecycleStates]
    <3>1. /\ "Registered" \in RuntimeStates /\ "Admitted" \in RuntimeStates
          /\ <<>> \in Seq(Record)
      BY DEF RuntimeStates
    <3> QED
      BY <2>2, <2>3, <3>1, TraverseTypes
  <2>5. call' \in {Idle} \cup Registering
    BY <2>1, <2>3 DEF Registering
  <2> QED
    BY <1>2, <2>4, <2>5 DEF RegisterNext, TypeOK, sidecarVars, authorityVars
<1>3. ASSUME RegisterReturn PROVE TypeOK'
  BY <1>3 DEF RegisterReturn, TypeOK, sidecarVars, authorityVars
<1>4. ASSUME NEW n \in 0 .. Len(SchemaFiles), RegisterSchemas(n) PROVE TypeOK'
  <2>1. {SchemaFiles[i] : i \in 1 .. n} \subseteq Topics
    BY ConstantTypes
  <2>2. schemas' \in SUBSET Topics
    BY <1>4, <2>1 DEF RegisterSchemas, TypeOK
  <2> QED
    BY <1>4, <2>2 DEF RegisterSchemas, TypeOK, sidecarVars, authorityVars
<1> QED
  BY <1>1, <1>2, <1>3, <1>4

LEMMA RefuseTransitionTypes ==
  ASSUME TypeOK, NEW p \in Plugins, NEW to, RefuseTransition(p, to)
  PROVE  TypeOK'
<1>1. PICK d \in DenialKinds, k \in Appends : Append_k(<<RuntimeDenied(p, d)>>, k)
  BY DEF RefuseTransition
<1>2. <<RuntimeDenied(p, d)>> \in Seq(Record)
  <2>1. RuntimeDenied(p, d) \in Record
    BY PluginRecordTypes DEF Denials
  <2> QED
    BY <2>1
<1>3. log' \in Seq(Record) /\ Len(log') <= MaxRecords /\ faults' \in Nat
  BY <1>1, <1>2, AppendTypes
<1> QED
  BY <1>3 DEF RefuseTransition, TypeOK, sidecarVars, authorityVars

\* What stops a start leaves no evidence, a failure, or a denial and a failure.
LEMMA StartEvidence ==
  ASSUME NEW p \in Plugins, NEW host, NEW i \in 1 .. Len(StartChecks(p, host))
  PROVE  \/ StartChecks(p, host)[i].evidence = <<>>
         \/ \E s \in Stages : StartChecks(p, host)[i].evidence = <<TransportFailed(p, s)>>
         \/ \E d \in Denials : StartChecks(p, host)[i].evidence = Refusal(p, d)
<1>1. i \in 1 .. 11
  BY DEF StartChecks
<1>2. CASE i \in {1, 5, 8}
  BY <1>2 DEF StartChecks
<1>3. CASE i \in {2, 3, 4, 6, 7, 9}
  <2>1. \E d \in {"MissingCommand", "MissingExecutableHash", "CommandResolutionFailed",
                  "ExecutableHashMismatch", "MissingArgsHash", "ArgsHashMismatch"} :
          StartChecks(p, host)[i].evidence = Refusal(p, d)
    BY <1>3 DEF StartChecks
  <2> QED
    BY <2>1 DEF Denials
<1>4. CASE i \in {10, 11}
  <2>1. \E s \in {"factory", "start"} :
          StartChecks(p, host)[i].evidence = <<TransportFailed(p, s)>>
    BY <1>4 DEF StartChecks
  <2> QED
    BY <2>1 DEF Stages
<1> QED
  BY <1>1, <1>2, <1>3, <1>4

LEMMA StartEvidenceTypes ==
  ASSUME NEW p \in Plugins, NEW host, NEW i \in 1 .. Len(StartChecks(p, host))
  PROVE  StartChecks(p, host)[i].evidence \in Seq(Record)
<1>1. ASSUME NEW s \in Stages PROVE <<TransportFailed(p, s)>> \in Seq(Record)
  <2>1. TransportFailed(p, s) \in Record
    BY PluginRecordTypes
  <2> QED
    BY <2>1
<1>2. ASSUME NEW d \in Denials PROVE Refusal(p, d) \in Seq(Record)
  <2>1. RuntimeDenied(p, d) \in Record /\ TransportFailed(p, "start") \in Record
    BY PluginRecordTypes DEF Stages
  <2> QED
    BY <2>1 DEF Refusal
<1>3. <<>> \in Seq(Record)
  OBVIOUS
<1> QED
  BY <1>1, <1>2, <1>3, StartEvidence

LEMMA StartPluginTypes ==
  ASSUME TypeOK, NEW p \in Plugins, StartPlugin(p)
  PROVE  TypeOK'
<1> USE DEF RuntimeStates
<1>1. PICK host \in HostFailures \cup {"none"}, k \in Appends :
        LET checks == StartChecks(p, host)
        IN \/ \E i \in 1 .. Len(checks) :
                /\ FirstFailing(checks, i)
                /\ StartAborted(p, checks[i], k) \/ StartFailed(p, checks[i], k)
           \/ AllPass(checks) /\ StartSucceeded(p, k)
  BY DEF StartPlugin
<1> DEFINE Changed ==
      /\ log' \in Seq(Record) /\ Len(log') <= MaxRecords
      /\ faults' \in Nat
      /\ pstate' \in [Plugins -> LifecycleStates]
      /\ transports' \in SUBSET Plugins
<1>2. transports \in SUBSET Plugins
  BY DEF TypeOK
<1>3. ASSUME NEW i \in 1 .. Len(StartChecks(p, host)),
             \/ StartAborted(p, StartChecks(p, host)[i], k)
             \/ StartFailed(p, StartChecks(p, host)[i], k)
      PROVE  Changed
  <2>1. CASE StartAborted(p, StartChecks(p, host)[i], k)
    BY <1>2, <2>1, EnterTypes DEF StartAborted
  <2>2. CASE StartFailed(p, StartChecks(p, host)[i], k)
    BY <1>2, <2>2, StartEvidenceTypes, TraverseTypes DEF StartFailed
  <2> QED
    BY <1>3, <2>1, <2>2
<1>4. ASSUME StartSucceeded(p, k) PROVE Changed
  <2>1. <<>> \in Seq(Record)
    OBVIOUS
  <2> QED
    BY <1>2, <1>4, <2>1, TraverseTypes DEF StartSucceeded
<1>5. Changed
  BY <1>1, <1>3, <1>4
<1> QED
  BY <1>5 DEF StartPlugin, TypeOK, sidecarVars, authorityVars

LEMMA DropTransportTypes ==
  ASSUME TypeOK, NEW p \in Plugins, NEW dropped, DropTransport(p, dropped)
  PROVE  /\ transports' \in SUBSET Plugins
         /\ outbox' \in [Plugins -> Seq(Candidate)]
         /\ stderr' \in [Plugins -> Seq(Nat)]
BY DEF DropTransport, TypeOK

\* The evidence a stop appends: what the transport held and n events more.
LEMMA HeldEvidenceTypes ==
  ASSUME TypeOK, NEW p \in Plugins, NEW n \in Nat
  PROVE  LET held == stderr[p] \o [i \in 1 .. n |-> lines[p] + i]
         IN [i \in 1 .. Len(held) |-> Evidence(p, held[i])] \in Seq(Record)
<1> DEFINE held == stderr[p] \o [i \in 1 .. n |-> lines[p] + i]
           between == [i \in 1 .. Len(held) |-> Evidence(p, held[i])]
<1>1. held \in Seq(Nat)
  <2>1. stderr[p] \in Seq(Nat) /\ lines[p] \in Nat
    BY DEF TypeOK
  <2>2. [i \in 1 .. n |-> lines[p] + i] \in Seq(Nat)
    BY <2>1
  <2> QED
    BY <2>1, <2>2
<1>2. between \in Seq(Record)
  <2>1. ASSUME NEW i \in 1 .. Len(held) PROVE Evidence(p, held[i]) \in Record
    <3>1. held[i] \in Nat
      BY <1>1, <2>1
    <3> QED
      BY <3>1, PluginRecordTypes
  <2> HIDE DEF held
  <2> QED
    BY <1>1, <2>1
<1> QED
  BY <1>2

LEMMA StopPluginTypes ==
  ASSUME TypeOK, NEW p \in Plugins, StopPlugin(p)
  PROVE  TypeOK'
<1> USE DEF RuntimeStates
<1> DEFINE Changed ==
      /\ log' \in Seq(Record) /\ Len(log') <= MaxRecords
      /\ faults' \in Nat
      /\ pstate' \in [Plugins -> LifecycleStates]
      /\ transports' \in SUBSET Plugins
      /\ outbox' \in [Plugins -> Seq(Candidate)]
      /\ stderr' \in [Plugins -> Seq(Nat)]
      /\ lines' \in [Plugins -> Nat]
<1>1. ASSUME NEW k \in Appends, NEW n \in Nat, StopSucceeded(p, n, k)
      PROVE  Changed
  <2> DEFINE held == stderr[p] \o [i \in 1 .. n |-> lines[p] + i]
             between == [i \in 1 .. Len(held) |-> Evidence(p, held[i])]
  <2>2. between \in Seq(Record)
    BY HeldEvidenceTypes
  <2>3. Traverse(p, "Stopping", between, "Stopped", k)
    BY <1>1 DEF StopSucceeded
  <2> HIDE DEF between, held
  <2>4. /\ log' \in Seq(Record) /\ Len(log') <= MaxRecords
        /\ faults' \in Nat
        /\ pstate' \in [Plugins -> LifecycleStates]
    BY <2>2, <2>3, TraverseTypes
  <2>5. DropTransport(p, k > 0)
    BY <1>1 DEF StopSucceeded
  <2>6. lines' \in [Plugins -> Nat]
    BY <1>1 DEF StopSucceeded, TypeOK
  <2> QED
    BY <2>4, <2>5, <2>6, DropTransportTypes
<1>2. ASSUME NEW k \in Appends, StopFailed(p, k) PROVE Changed
  <2>1. TransportFailed(p, "stop") \in Record
    BY PluginRecordTypes DEF Stages
  <2>2. <<TransportFailed(p, "stop")>> \in Seq(Record)
    BY <2>1
  <2>3. /\ Traverse(p, "Stopping", <<TransportFailed(p, "stop")>>, "Failed", k)
        /\ DropTransport(p, k > 0)
        /\ UNCHANGED lines
    BY <1>2 DEF StopFailed
  <2>4. lines \in [Plugins -> Nat]
    BY DEF TypeOK
  <2> QED
    BY <2>2, <2>3, <2>4, TraverseTypes, DropTransportTypes
<1>3. Changed
  <2>1. PICK k \in Appends :
          \/ \E n \in IF Sidecar(p) /\ p \in transports THEN StopEvidence ELSE {0} :
               StopSucceeded(p, n, k)
          \/ StopFailed(p, k)
    BY DEF StopPlugin
  <2> QED
    BY <1>1, <1>2, <2>1, ConstantTypes
<1> QED
  BY <1>3 DEF StopPlugin, TypeOK, authorityVars

\* An envelope a caller offers is an event.
LEMMA OfferedTypes == \A e \in Envelopes : e \in Event
BY EnvelopesAssumption DEF EnvelopesAssumption

\* A token handed out names a position of the log.
LEMMA GrantedTypes ==
  ASSUME TypeOK, NEW e \in Event, NEW k \in 0 .. 1,
         Append_k(<<Decision(e, Admissible(e))>>, k)
  PROVE  Granted(e, k = 1) \subseteq Token
<1>1. Decision(e, Admissible(e)) \in Record
  BY EventRecordTypes DEF Admissible
<1>2. Len(log) \in Nat /\ Len(log) + 1 <= MaxRecords
  <2>1. log \in Seq(Record)
    BY DEF TypeOK
  <2>2. Len(log \o <<Decision(e, Admissible(e))>>) <= MaxRecords
    BY DEF Append_k, WithinBounds
  <2> QED
    BY <1>1, <2>1, <2>2
<1>3. Len(log) + 1 \in 1 .. MaxRecords
  BY <1>2, BoundsAreNat
<1>4. TokenFor(e) \in Token
  BY <1>3 DEF TokenFor, Token
<1> QED
  BY <1>4 DEF Granted

LEMMA AdmitEventTypes ==
  ASSUME TypeOK, NEW e \in Envelopes, AdmitEvent(e)
  PROVE  TypeOK'
<1>1. e \in Event
  BY OfferedTypes
<1>2. PICK k \in Appends :
        /\ Append_k(<<Decision(e, Admissible(e))>>, k)
        /\ tokens' = tokens \cup Granted(e, k = 1)
  BY DEF AdmitEvent
<1>3. <<Decision(e, Admissible(e))>> \in Seq(Record)
  <2>1. Decision(e, Admissible(e)) \in Record
    BY <1>1, EventRecordTypes DEF Admissible
  <2> QED
    BY <2>1
<1>4. log' \in Seq(Record) /\ Len(log') <= MaxRecords /\ faults' \in Nat
      /\ k \in 0 .. 1
  BY <1>2, <1>3, AppendTypes
<1>5. tokens' \in SUBSET Token
  <2>1. Granted(e, k = 1) \subseteq Token
    BY <1>1, <1>2, <1>4, GrantedTypes
  <2> QED
    BY <1>2, <2>1 DEF TypeOK
<1>6. nextId' \in 1 .. (MaxEvents + 1)
  BY <1>1, BoundsAreNat DEF AdmitEvent, TypeOK, Event, EventIds
<1> QED
  BY <1>4, <1>5, <1>6 DEF AdmitEvent, TypeOK, sidecarVars

LEMMA PublishAdmittedTypes ==
  ASSUME TypeOK, NEW t \in tokens, PublishAdmitted(t)
  PROVE  TypeOK'
<1>1. t \in Token
  BY DEF TypeOK
<1>2. PICK k \in Appends :
        Append_k(IF dead[t.event.topic] = 0 THEN <<Published(t)>> ELSE <<>>, k)
  BY DEF PublishAdmitted
<1>3. (IF dead[t.event.topic] = 0 THEN <<Published(t)>> ELSE <<>>) \in Seq(Record)
  <2>1. Published(t) \in Record
    BY <1>1, EventRecordTypes
  <2> QED
    BY <2>1
<1>4. log' \in Seq(Record) /\ Len(log') <= MaxRecords /\ faults' \in Nat
  BY <1>2, <1>3, AppendTypes
<1>5. ledger' \in Seq(Token)
  BY <1>1 DEF PublishAdmitted, TypeOK
<1>6. dead' \in [Topics -> Nat]
  BY DEF PublishAdmitted, TypeOK
<1> QED
  BY <1>4, <1>5, <1>6 DEF PublishAdmitted, TypeOK, sidecarVars

LEMMA SendToPluginTypes ==
  ASSUME TypeOK, NEW p \in Plugins, NEW t \in tokens, SendToPlugin(p, t)
  PROVE  TypeOK'
<1>1. t \in Token /\ t.event \in Event
  BY DEF TypeOK, Token
<1> DEFINE Changed ==
      /\ log' \in Seq(Record) /\ Len(log') <= MaxRecords
      /\ faults' \in Nat
      /\ inflight' \in [Plugins -> SUBSET Event]
      /\ stderr' \in [Plugins -> Seq(Nat)]
      /\ lines' \in [Plugins -> Nat]
<1>2. /\ RuntimeDenied(p, "SubscriptionDenied") \in Record
      /\ TransportFailed(p, "send") \in Record
      /\ SendAttempted(p, t.event) \in Record
      /\ SendSucceeded(p, t.event) \in Record
  BY <1>1, PluginRecordTypes, EventRecordTypes DEF Denials, Stages
<1>3. /\ inflight \in [Plugins -> SUBSET Event]
      /\ stderr \in [Plugins -> Seq(Nat)]
      /\ lines \in [Plugins -> Nat]
  BY DEF TypeOK
<1>4. ASSUME NEW k \in Appends,
             SendRefused(p, t, k) \/ SendInactive(p, t, k) \/ SendFailed(p, t, k)
      PROVE  Changed
  <2>1. /\ <<RuntimeDenied(p, "SubscriptionDenied"),
             TransportFailed(p, "send")>> \in Seq(Record)
        /\ <<TransportFailed(p, "send")>> \in Seq(Record)
        /\ <<SendAttempted(p, t.event), TransportFailed(p, "send")>> \in Seq(Record)
    BY <1>2
  <2>2. log' \in Seq(Record) /\ Len(log') <= MaxRecords /\ faults' \in Nat
    BY <1>4, <2>1, AppendTypes DEF SendRefused, SendInactive, SendFailed
  <2> QED
    BY <1>3, <1>4, <2>2 DEF SendRefused, SendInactive, SendFailed
<1>5. ASSUME NEW k \in Appends, NEW n \in {0, 1}, SendSucceeds(p, t, n, k)
      PROVE  Changed
  <2>1. <<SendAttempted(p, t.event), SendSucceeded(p, t.event)>> \in Seq(Record)
    BY <1>2
  <2>2. log' \in Seq(Record) /\ Len(log') <= MaxRecords /\ faults' \in Nat
    BY <1>5, <2>1, AppendTypes DEF SendSucceeds
  <2>3. inflight' \in [Plugins -> SUBSET Event]
    <3>1. Noted(inflight[p], t.event) \in SUBSET Event
      BY <1>1, <1>3 DEF Noted
    <3> QED
      BY <1>3, <1>5, <3>1 DEF SendSucceeds
  <2>5. lines' \in [Plugins -> Nat]
    BY <1>3, <1>5 DEF SendSucceeds
  <2>4. stderr' \in [Plugins -> Seq(Nat)]
    BY <1>3, <1>5 DEF SendSucceeds
  <2> QED
    BY <2>2, <2>3, <2>4, <2>5
<1>6. Changed
  BY <1>4, <1>5 DEF SendToPlugin
<1> QED
  BY <1>6 DEF SendToPlugin, TypeOK

LEMMA DrainBeginTypes ==
  ASSUME TypeOK, NEW p \in Plugins, NEW m \in 0 .. Len(stderr[p]), DrainBegin(p, m)
  PROVE  TypeOK'
<1>1. stderr[p] \in Seq(Nat) /\ outbox[p] \in Seq(Candidate)
  BY DEF TypeOK
<1>2. /\ SubSeq(stderr[p], 1, m) \in Seq(Nat)
      /\ SubSeq(stderr[p], m + 1, Len(stderr[p])) \in Seq(Nat)
  BY <1>1
<1>3. call' \in Draining
  BY <1>1, <1>2 DEF DrainBegin, Draining
<1>4. stderr' \in [Plugins -> Seq(Nat)] /\ outbox' \in [Plugins -> Seq(Candidate)]
  BY <1>2 DEF DrainBegin, TypeOK
<1> QED
  BY <1>3, <1>4 DEF DrainBegin, TypeOK, authorityVars

LEMMA DrainingCall ==
  ASSUME TypeOK, call.op = "drain"
  PROVE  /\ call \in Draining
         /\ call.plugin \in Plugins
         /\ call.evidence \in Seq(Nat)
         /\ call.candidates \in Seq(Candidate)
         /\ call.admitted \in SUBSET Token
BY DEF TypeOK, Idle, Registering, Draining

LEMMA DrainEvidenceTypes ==
  ASSUME TypeOK, DrainEvidence
  PROVE  TypeOK'
<1>1. PICK k \in Appends :
        /\ Append_k(<<Evidence(call.plugin, Head(call.evidence))>>, k)
        /\ call' = IF k = 1 THEN [call EXCEPT !.evidence = Tail(@)] ELSE Idle
  BY DEF DrainEvidence
<1>2. call \in Draining /\ call.plugin \in Plugins /\ call.evidence \in Seq(Nat)
  BY DrainingCall DEF DrainEvidence
<1>3. Head(call.evidence) \in Nat /\ Tail(call.evidence) \in Seq(Nat)
  BY <1>2 DEF DrainEvidence
<1>4. Evidence(call.plugin, Head(call.evidence)) \in Record
  BY <1>2, <1>3, PluginRecordTypes
<1>5. <<Evidence(call.plugin, Head(call.evidence))>> \in Seq(Record)
  BY <1>4
<1>6. log' \in Seq(Record) /\ Len(log') <= MaxRecords /\ faults' \in Nat
  BY <1>1, <1>5, AppendTypes
<1>7. call' \in {Idle} \cup Draining
  BY <1>1, <1>2, <1>3 DEF Draining
<1> QED
  BY <1>6, <1>7 DEF DrainEvidence, TypeOK, sidecarVars, authorityVars

LEMMA DrainRefusedTypes ==
  ASSUME TypeOK, DrainRefused
  PROVE  TypeOK'
<1> DEFINE checks == CandidateChecks(call.plugin, Head(call.candidates))
<1>1. PICK i \in 1 .. 3, k \in Appends :
        /\ Append_k(<<RuntimeDenied(call.plugin, checks[i].denial),
                      TransportFailed(call.plugin, "candidate_canonicalization")>>, k)
        /\ call' = IF k = 2 THEN [call EXCEPT !.candidates = Tail(@)] ELSE Idle
  BY DEF DrainRefused
<1>2. call \in Draining /\ call.plugin \in Plugins /\ call.candidates \in Seq(Candidate)
  BY DrainingCall DEF DrainRefused
<1>3. Tail(call.candidates) \in Seq(Candidate)
  BY <1>2 DEF DrainRefused
<1>4. checks[i].denial \in Denials
  <2>1. CASE i = 1  BY <2>1 DEF CandidateChecks, Denials
  <2>2. CASE i = 2  BY <2>2 DEF CandidateChecks, Denials
  <2>3. CASE i = 3  BY <2>3 DEF CandidateChecks, Denials
  <2> QED
    BY <2>1, <2>2, <2>3
<1> HIDE DEF checks
<1>5. /\ RuntimeDenied(call.plugin, checks[i].denial) \in Record
      /\ TransportFailed(call.plugin, "candidate_canonicalization") \in Record
  BY <1>2, <1>4, PluginRecordTypes DEF Stages
<1>6. <<RuntimeDenied(call.plugin, checks[i].denial),
        TransportFailed(call.plugin, "candidate_canonicalization")>> \in Seq(Record)
  BY <1>5
<1>7. log' \in Seq(Record) /\ Len(log') <= MaxRecords /\ faults' \in Nat
  BY <1>1, <1>6, AppendTypes
<1>8. call' \in {Idle} \cup Draining
  BY <1>1, <1>2, <1>3 DEF Draining
<1> QED
  BY <1>7, <1>8 DEF DrainRefused, TypeOK, sidecarVars, authorityVars

\* An answer takes a fresh id and the lineage of its request.
LEMMA CanonicalTypes ==
  ASSUME TypeOK, NEW p \in Plugins, NEW c \in Candidate, NEW parent \in Event,
         nextId <= MaxEvents
  PROVE  Canonical(p, c, parent) \in Event
<1>1. nextId \in EventIds /\ parent.id \in 0 .. MaxEvents /\ parent.trace \in EventIds
  BY BoundsAreNat DEF TypeOK, Event, EventIds
<1> QED
  BY <1>1 DEF Canonical, Candidate, Event

LEMMA DrainAdmissionTypes ==
  ASSUME TypeOK, NEW parent, DrainAdmission(parent)
  PROVE  TypeOK'
<1>1. /\ call \in Draining /\ call.plugin \in Plugins
      /\ call.candidates \in Seq(Candidate)
      /\ call.admitted \in SUBSET Token
  BY DrainingCall DEF DrainAdmission
<1>2. /\ Head(call.candidates) \in Candidate
      /\ Tail(call.candidates) \in Seq(Candidate)
  BY <1>1 DEF DrainAdmission
<1>3. parent \in Event
  BY <1>1 DEF DrainAdmission, InFlight, TypeOK
<1> DEFINE e == Canonical(call.plugin, Head(call.candidates), parent)
<1>4. e \in Event
  BY <1>1, <1>2, <1>3, CanonicalTypes DEF DrainAdmission
<1>5. PICK k \in Appends :
        /\ Append_k(<<Decision(e, Admissible(e))>>, k)
        /\ call' = IF k = 0 THEN Idle
                   ELSE [call EXCEPT !.candidates = Tail(@),
                                     !.admitted = @ \cup Granted(e, k = 1)]
  BY DEF DrainAdmission
<1> HIDE DEF e
<1>6. <<Decision(e, Admissible(e))>> \in Seq(Record)
  <2>1. Decision(e, Admissible(e)) \in Record
    BY <1>4, EventRecordTypes DEF Admissible
  <2> QED
    BY <2>1
<1>7. log' \in Seq(Record) /\ Len(log') <= MaxRecords /\ faults' \in Nat
      /\ k \in 0 .. 1
  BY <1>5, <1>6, AppendTypes
<1>8. Granted(e, k = 1) \subseteq Token
  BY <1>4, <1>5, <1>7, GrantedTypes
<1>9. call' \in {Idle} \cup Draining
  BY <1>1, <1>2, <1>5, <1>8 DEF Draining
<1>10. nextId' \in 1 .. (MaxEvents + 1)
  BY BoundsAreNat DEF DrainAdmission, TypeOK
<1> QED
  BY <1>7, <1>9, <1>10 DEF DrainAdmission, TypeOK, sidecarVars

LEMMA DrainReturnTypes ==
  ASSUME TypeOK, DrainReturn
  PROVE  TypeOK'
<1>1. call.admitted \in SUBSET Token
  BY DrainingCall DEF DrainReturn
<1> QED
  BY <1>1 DEF DrainReturn, TypeOK, sidecarVars

LEMMA SealRunTypes ==
  ASSUME TypeOK, NEW valid \in BOOLEAN, NEW extra \in {0, 1}, SealRun(valid, extra)
  PROVE  TypeOK'
<1>1. Len(log) \in 0 .. MaxRecords
  BY BoundsAreNat DEF TypeOK
<1>2. manifest' \in SealedManifest
  <2>1. (IF valid THEN Len(log) + extra ELSE 0) \in 0 .. (MaxRecords + 1)
    BY <1>1, BoundsAreNat
  <2>2. ledger \in Seq(Token)
    BY DEF TypeOK
  <2> QED
    BY <2>1, <2>2 DEF SealRun, SealedManifest
<1> QED
  BY <1>2 DEF SealRun, TypeOK, sidecarVars, authorityVars

LEMMA SidecarTypes ==
  ASSUME TypeOK, NEW p \in Plugins
  PROVE  /\ \A c \in Candidate : SidecarWrites(p, c) => TypeOK'
         /\ SidecarComplains(p) => TypeOK'
<1>1. ASSUME NEW c \in Candidate, SidecarWrites(p, c) PROVE TypeOK'
  <2>1. outbox' \in [Plugins -> Seq(Candidate)]
    BY <1>1 DEF SidecarWrites, TypeOK
  <2> QED
    BY <1>1, <2>1 DEF SidecarWrites, TypeOK, authorityVars
<1>2. ASSUME SidecarComplains(p) PROVE TypeOK'
  <2>1. stderr' \in [Plugins -> Seq(Nat)] /\ lines' \in [Plugins -> Nat]
    BY <1>2 DEF SidecarComplains, TypeOK
  <2> QED
    BY <1>2, <2>1 DEF SidecarComplains, TypeOK, authorityVars
<1> QED
  BY <1>1, <1>2

\* Every step of the specification keeps the types.
LEMMA NextTypeOK == TypeOK /\ [Next]_vars => TypeOK'
<1> SUFFICES ASSUME TypeOK, [Next]_vars PROVE TypeOK'
  OBVIOUS
<1>1. CASE UNCHANGED vars
  BY <1>1 DEF vars, TypeOK
<1>2. CASE RegisterPlugins \/ RegisterNext \/ RegisterReturn
           \/ \E n \in 0 .. Len(SchemaFiles) : RegisterSchemas(n)
  BY <1>2, RegistrationTypes
<1>3. CASE \E e \in Envelopes : AdmitEvent(e)
  BY <1>3, AdmitEventTypes
<1>4. CASE \E t \in tokens : PublishAdmitted(t)
  BY <1>4, PublishAdmittedTypes
<1>5. ASSUME NEW p \in Plugins,
             \/ \E to \in {"Starting", "Stopping"} : RefuseTransition(p, to)
             \/ StartPlugin(p) \/ StopPlugin(p)
             \/ \E t \in tokens : SendToPlugin(p, t)
             \/ \E m \in 0 .. Len(stderr[p]) : DrainBegin(p, m)
             \/ \E c \in Candidate : SidecarWrites(p, c)
             \/ SidecarComplains(p)
      PROVE  TypeOK'
  BY <1>5, RefuseTransitionTypes, StartPluginTypes, StopPluginTypes,
     SendToPluginTypes, DrainBeginTypes, SidecarTypes
<1>6. CASE DrainEvidence \/ DrainRefused \/ DrainReturn
  BY <1>6, DrainEvidenceTypes, DrainRefusedTypes, DrainReturnTypes
<1>7. CASE \E e \in UNION {inflight[p] : p \in Plugins} : DrainAdmission(e)
  BY <1>7, DrainAdmissionTypes
<1>8. CASE \E valid \in BOOLEAN, extra \in {0, 1} : SealRun(valid, extra)
  BY <1>8, SealRunTypes
<1> QED
  BY <1>1, <1>2, <1>3, <1>4, <1>5, <1>6, <1>7, <1>8 DEF Next

\* Every variable of the kernel keeps its type: in particular tokens name
\* records the log can hold and answers carry ids of events of the run.
THEOREM TypeCorrect == Spec => []TypeOK
<1> QED
  BY InitTypeOK, NextTypeOK, PTL DEF Spec

-----------------------------------------------------------------------------
(* The transports map.                                                     *)

\* A failing append is counted, and an append never takes a fault back.
LEMMA AppendFaults ==
  ASSUME TypeOK, NEW recs, NEW k, Append_k(recs, k)
  PROVE  /\ k \in 0 .. Len(recs)
         /\ faults \in Nat /\ faults' \in Nat
         /\ faults <= faults'
         /\ k < Len(recs) => faults' > 0
<1>1. faults \in Nat
  BY DEF TypeOK
<1>2. k \in 0 .. Len(recs) /\ faults' = IF k < Len(recs) THEN faults + 1 ELSE faults
  BY DEF Append_k
<1> QED
  BY <1>1, <1>2

LEMMA EnterFaults ==
  ASSUME TypeOK, NEW p \in Plugins, NEW entry \in RuntimeStates, NEW k,
         Enter(p, entry, k)
  PROVE  /\ pstate' = [pstate EXCEPT ![p] = entry]
         /\ faults \in Nat /\ faults' \in Nat /\ faults <= faults'
<1>1. Append_k(<<Lifecycle(p, entry)>>, k) /\ pstate' = [pstate EXCEPT ![p] = entry]
  BY DEF Enter
<1> QED
  BY <1>1, AppendFaults

\* Where a method that passes through entry to exit leaves the plugin.
LEMMA TraverseFaults ==
  ASSUME TypeOK, NEW p \in Plugins, NEW entry \in RuntimeStates,
         NEW exit \in RuntimeStates, NEW between \in Seq(Record), NEW k,
         Traverse(p, entry, between, exit, k)
  PROVE  /\ k \in Nat
         /\ faults \in Nat /\ faults' \in Nat /\ faults <= faults'
         /\ pstate' = [pstate EXCEPT ![p] = IF k > Len(between) THEN exit ELSE entry]
         /\ k = 0 => faults' > 0
<1> DEFINE recs == <<Lifecycle(p, entry)>> \o between \o <<Lifecycle(p, exit)>>
<1>1. Lifecycle(p, entry) \in Record /\ Lifecycle(p, exit) \in Record
  BY PluginRecordTypes
<1>2. <<Lifecycle(p, entry)>> \in Seq(Record) /\ <<Lifecycle(p, exit)>> \in Seq(Record)
  BY <1>1
<1>3. recs \in Seq(Record) /\ Len(recs) = Len(between) + 2
  BY <1>2
<1>4. Append_k(recs, k)
      /\ pstate' = [pstate EXCEPT ![p] = IF k > Len(between) THEN exit ELSE entry]
  BY DEF Traverse
<1> HIDE DEF recs
<1>5. /\ k \in 0 .. Len(recs)
      /\ faults \in Nat /\ faults' \in Nat /\ faults <= faults'
      /\ k < Len(recs) => faults' > 0
  BY <1>3, <1>4, AppendFaults
<1> QED
  BY <1>3, <1>4, <1>5

-----------------------------------------------------------------------------
(* What a step may do to a plugin's state and transport.                   *)

\* Nothing happens to plugin p, and no fault is forgotten.
Undisturbed(p) ==
  /\ pstate'[p] = pstate[p]
  /\ p \in transports' <=> p \in transports

Matches(p, state, active, failed) ==
  /\ state = "Running" => active
  /\ active => state = "Running" \/ (state = "Stopping" /\ failed > 0)

LEMMA MatchesAll ==
  /\ TransportMatchesLifecycle =
       \A p \in Plugins : Matches(p, pstate[p], p \in transports, faults)
  /\ (TransportMatchesLifecycle' =
       \A p \in Plugins : Matches(p, pstate'[p], p \in transports', faults'))
BY DEF TransportMatchesLifecycle, Matches

\* It is enough to look at the plugin a method names.
LEMMA OnlyOne ==
  ASSUME TypeOK, TransportMatchesLifecycle, NEW p \in Plugins,
         faults \in Nat, faults' \in Nat, faults <= faults',
         \A q \in Plugins \ {p} : Undisturbed(q),
         Matches(p, pstate'[p], p \in transports', faults')
  PROVE  TransportMatchesLifecycle'
<1> SUFFICES ASSUME NEW q \in Plugins
             PROVE  Matches(q, pstate'[q], q \in transports', faults')
  BY MatchesAll
<1>1. CASE q = p
  BY <1>1
<1>2. CASE q # p
  <2>1. Matches(q, pstate[q], q \in transports, faults)
    BY MatchesAll
  <2>2. Undisturbed(q)
    BY <1>2
  <2>3. faults > 0 => faults' > 0
    OBVIOUS
  <2> QED
    BY <2>1, <2>2, <2>3, Zenon DEF Undisturbed, Matches
<1> QED
  BY <1>1, <1>2

LEMMA NoneDisturbed ==
  ASSUME TypeOK, TransportMatchesLifecycle, UNCHANGED <<pstate, transports>>,
         faults \in Nat, faults' \in Nat, faults <= faults'
  PROVE  TransportMatchesLifecycle'
BY DEF TransportMatchesLifecycle

LEMMA RegisterNextMatches ==
  ASSUME TypeOK, TransportMatchesLifecycle, RegisterNext
  PROVE  TransportMatchesLifecycle'
<1> DEFINE p == Profile[call.next]
<1>1. p \in Plugins
  <2>1. call \in Registering
    BY DEF RegisterNext, TypeOK, Idle, Draining
  <2>2. call.next \in 1 .. Len(Profile)
    BY <2>1, ConstantTypes DEF RegisterNext, Registering
  <2> QED
    BY <2>2, ConstantTypes
<1>2. PICK k : Traverse(p, "Registered", <<>>, "Admitted", k)
  BY DEF RegisterNext
<1>3. pstate[p] = "Unregistered" /\ UNCHANGED transports
  BY DEF RegisterNext
<1> HIDE DEF p
<1>4. /\ faults \in Nat /\ faults' \in Nat /\ faults <= faults'
      /\ pstate' = [pstate EXCEPT ![p] = IF k > Len(<<>>) THEN "Admitted" ELSE "Registered"]
  <2>1. <<>> \in Seq(Record)
    OBVIOUS
  <2> QED
    BY <1>1, <1>2, <2>1, TraverseFaults DEF RuntimeStates
<1>5. pstate \in [Plugins -> LifecycleStates]
  BY DEF TypeOK
<1>6. Matches(p, pstate'[p], p \in transports', faults')
  BY <1>1, <1>3, <1>4, <1>5 DEF Matches, TransportMatchesLifecycle
<1>7. \A q \in Plugins \ {p} : Undisturbed(q)
  BY <1>3, <1>4, <1>5 DEF Undisturbed
<1> QED
  BY <1>1, <1>4, <1>6, <1>7, OnlyOne

LEMMA StartPluginMatches ==
  ASSUME TypeOK, TransportMatchesLifecycle, NEW p \in Plugins, StartPlugin(p)
  PROVE  TransportMatchesLifecycle'
<1> USE DEF RuntimeStates
<1>1. PICK host \in HostFailures \cup {"none"}, k \in Appends :
        LET checks == StartChecks(p, host)
        IN \/ \E i \in 1 .. Len(checks) :
                /\ FirstFailing(checks, i)
                /\ StartAborted(p, checks[i], k) \/ StartFailed(p, checks[i], k)
           \/ AllPass(checks) /\ StartSucceeded(p, k)
  BY DEF StartPlugin
<1>2. p \notin transports
  <2>1. <<pstate[p], "Starting">> \in ValidTransitions
    BY DEF StartPlugin, TransitionAllowed
  <2>2. pstate[p] # "Running" /\ pstate[p] # "Stopping"
    BY <2>1 DEF ValidTransitions
  <2> QED
    BY <2>2 DEF TransportMatchesLifecycle
<1>3. pstate \in [Plugins -> LifecycleStates]
  BY DEF TypeOK
<1> DEFINE Result ==
      /\ faults \in Nat /\ faults' \in Nat /\ faults <= faults'
      /\ \A q \in Plugins \ {p} : Undisturbed(q)
      /\ Matches(p, pstate'[p], p \in transports', faults')
<1>4. ASSUME NEW i \in 1 .. Len(StartChecks(p, host)),
             StartAborted(p, StartChecks(p, host)[i], k)
      PROVE  Result
  <2>1. /\ pstate' = [pstate EXCEPT ![p] = "Starting"]
        /\ faults \in Nat /\ faults' \in Nat /\ faults <= faults'
        /\ UNCHANGED transports
    BY <1>4, EnterFaults DEF StartAborted
  <2> QED
    BY <1>2, <1>3, <2>1 DEF Matches, Undisturbed
<1>5. ASSUME NEW i \in 1 .. Len(StartChecks(p, host)),
             StartFailed(p, StartChecks(p, host)[i], k)
      PROVE  Result
  <2> DEFINE between == StartChecks(p, host)[i].evidence
  <2>1. between \in Seq(Record)
    BY StartEvidenceTypes
  <2>2. Traverse(p, "Starting", between, "Failed", k) /\ UNCHANGED transports
    BY <1>5 DEF StartFailed
  <2> HIDE DEF between
  <2>3. /\ pstate' = [pstate EXCEPT ![p] = IF k > Len(between) THEN "Failed" ELSE "Starting"]
        /\ faults \in Nat /\ faults' \in Nat /\ faults <= faults'
    BY <2>1, <2>2, TraverseFaults
  <2> QED
    BY <1>2, <1>3, <2>2, <2>3 DEF Matches, Undisturbed
<1>6. ASSUME StartSucceeded(p, k) PROVE Result
  <2>1. <<>> \in Seq(Record) /\ Traverse(p, "Starting", <<>>, "Running", k)
    BY <1>6 DEF StartSucceeded
  <2>2. /\ pstate' = [pstate EXCEPT ![p] = IF k > Len(<<>>) THEN "Running" ELSE "Starting"]
        /\ faults \in Nat /\ faults' \in Nat /\ faults <= faults'
    BY <2>1, TraverseFaults
  <2>3. transports' = IF k > 0 THEN transports \cup {p} ELSE transports
    BY <1>6 DEF StartSucceeded
  <2> QED
    BY <1>2, <1>3, <2>1, <2>2, <2>3 DEF Matches, Undisturbed
<1>7. Result
  BY <1>1, <1>4, <1>5, <1>6
<1> QED
  BY <1>7, OnlyOne

\* A stop begins with the plugin's transport in the map, and keeps it only when
\* the record of Stopping could not be appended.
LEMMA StopMatches ==
  ASSUME TypeOK, TransportMatchesLifecycle, NEW p \in Plugins,
         pstate[p] = "Running",
         NEW exit \in {"Stopped", "Failed"}, NEW between \in Seq(Record), NEW k,
         Traverse(p, "Stopping", between, exit, k),
         DropTransport(p, k > 0)
  PROVE  TransportMatchesLifecycle'
<1>1. /\ k \in Nat
      /\ faults \in Nat /\ faults' \in Nat /\ faults <= faults'
      /\ pstate' = [pstate EXCEPT ![p] = IF k > Len(between) THEN exit ELSE "Stopping"]
      /\ k = 0 => faults' > 0
  BY TraverseFaults DEF RuntimeStates
<1>2. transports' = IF k > 0 THEN transports \ {p} ELSE transports
  BY DEF DropTransport
<1>3. pstate \in [Plugins -> LifecycleStates] /\ Len(between) \in Nat
  BY DEF TypeOK
<1>4. \A q \in Plugins \ {p} : Undisturbed(q)
  BY <1>1, <1>2, <1>3 DEF Undisturbed
<1>5. Matches(p, pstate'[p], p \in transports', faults')
  <2>1. CASE k = 0
    BY <1>1, <1>2, <1>3, <2>1 DEF Matches
  <2>2. CASE k > 0
    BY <1>1, <1>2, <1>3, <2>2 DEF Matches
  <2> QED
    BY <1>1, <2>1, <2>2
<1> QED
  BY <1>1, <1>4, <1>5, OnlyOne

LEMMA StopPluginMatches ==
  ASSUME TypeOK, TransportMatchesLifecycle, NEW p \in Plugins, StopPlugin(p)
  PROVE  TransportMatchesLifecycle'
<1>1. pstate[p] = "Running"
  BY DEF StopPlugin, TransitionAllowed, ValidTransitions
<1>2. PICK k \in Appends :
        \/ \E n \in IF Sidecar(p) /\ p \in transports THEN StopEvidence ELSE {0} :
             StopSucceeded(p, n, k)
        \/ StopFailed(p, k)
  BY DEF StopPlugin
<1>3. ASSUME NEW n \in Nat, StopSucceeded(p, n, k)
      PROVE  TransportMatchesLifecycle'
  <2> DEFINE held == stderr[p] \o [i \in 1 .. n |-> lines[p] + i]
             between == [i \in 1 .. Len(held) |-> Evidence(p, held[i])]
  <2>1. between \in Seq(Record)
    BY <1>3, HeldEvidenceTypes
  <2>2. Traverse(p, "Stopping", between, "Stopped", k) /\ DropTransport(p, k > 0)
    BY <1>3 DEF StopSucceeded
  <2> HIDE DEF between
  <2> QED
    BY <1>1, <2>1, <2>2, StopMatches
<1>4. ASSUME StopFailed(p, k) PROVE TransportMatchesLifecycle'
  <2>1. TransportFailed(p, "stop") \in Record
    BY PluginRecordTypes DEF Stages
  <2>2. <<TransportFailed(p, "stop")>> \in Seq(Record)
    BY <2>1
  <2>3. /\ Traverse(p, "Stopping", <<TransportFailed(p, "stop")>>, "Failed", k)
        /\ DropTransport(p, k > 0)
    BY <1>4 DEF StopFailed
  <2> QED
    BY <1>1, <2>2, <2>3, StopMatches
<1> QED
  BY <1>2, <1>3, <1>4, ConstantTypes

-----------------------------------------------------------------------------
(* The other methods leave plugins and transports alone.                   *)

LEMMA OthersMatch ==
  ASSUME TypeOK, TransportMatchesLifecycle, UNCHANGED <<pstate, transports>>,
         NEW recs, NEW k, Append_k(recs, k)
  PROVE  TransportMatchesLifecycle'
BY AppendFaults, NoneDisturbed

LEMMA QuietMatch ==
  ASSUME TypeOK, TransportMatchesLifecycle, UNCHANGED <<pstate, transports, faults>>
  PROVE  TransportMatchesLifecycle'
BY DEF TransportMatchesLifecycle
LEMMA SendMatches ==
  ASSUME TypeOK, TransportMatchesLifecycle, NEW p \in Plugins, NEW t \in tokens,
         SendToPlugin(p, t)
  PROVE  TransportMatchesLifecycle'
<1>1. UNCHANGED <<pstate, transports>>
  BY DEF SendToPlugin
<1>2. \E recs, k : Append_k(recs, k)
  <2>1. ASSUME NEW k, SendRefused(p, t, k) PROVE \E recs : Append_k(recs, k)
    BY <2>1 DEF SendRefused
  <2>2. ASSUME NEW k, SendInactive(p, t, k) PROVE \E recs : Append_k(recs, k)
    BY <2>2 DEF SendInactive
  <2>3. ASSUME NEW k, SendFailed(p, t, k) PROVE \E recs : Append_k(recs, k)
    BY <2>3 DEF SendFailed
  <2>4. ASSUME NEW k, NEW n, SendSucceeds(p, t, n, k) PROVE \E recs : Append_k(recs, k)
    BY <2>4 DEF SendSucceeds
  <2> QED
    BY <2>1, <2>2, <2>3, <2>4 DEF SendToPlugin
<1> QED
  BY <1>1, <1>2, OthersMatch

LEMMA InitMatches == Init => TransportMatchesLifecycle
BY DEF Init, TransportMatchesLifecycle

LEMMA NextMatches ==
  TypeOK /\ TransportMatchesLifecycle /\ [Next]_vars => TransportMatchesLifecycle'
<1> SUFFICES ASSUME TypeOK, TransportMatchesLifecycle, [Next]_vars
             PROVE  TransportMatchesLifecycle'
  OBVIOUS
<1>1. CASE RegisterPlugins
  BY <1>1, QuietMatch DEF RegisterPlugins
<1>2. CASE RegisterNext
  BY <1>2, RegisterNextMatches
<1>3. CASE RegisterReturn
  BY <1>3, QuietMatch DEF RegisterReturn
<1>4. ASSUME NEW n \in 0 .. Len(SchemaFiles), RegisterSchemas(n)
      PROVE  TransportMatchesLifecycle'
  BY <1>4, QuietMatch DEF RegisterSchemas
<1>5. ASSUME NEW e \in Envelopes, AdmitEvent(e)
      PROVE  TransportMatchesLifecycle'
  BY <1>5, OthersMatch DEF AdmitEvent
<1>6. ASSUME NEW t \in tokens, PublishAdmitted(t) PROVE TransportMatchesLifecycle'
  BY <1>6, OthersMatch DEF PublishAdmitted
<1>7. ASSUME NEW p \in Plugins, NEW to \in {"Starting", "Stopping"},
             RefuseTransition(p, to)
      PROVE  TransportMatchesLifecycle'
  BY <1>7, OthersMatch DEF RefuseTransition
<1>8. ASSUME NEW p \in Plugins, StartPlugin(p) PROVE TransportMatchesLifecycle'
  BY <1>8, StartPluginMatches
<1>9. ASSUME NEW p \in Plugins, StopPlugin(p) PROVE TransportMatchesLifecycle'
  BY <1>9, StopPluginMatches
<1>10. ASSUME NEW p \in Plugins, NEW t \in tokens, SendToPlugin(p, t)
       PROVE  TransportMatchesLifecycle'
  BY <1>10, SendMatches
<1>11. ASSUME NEW p \in Plugins, NEW m \in 0 .. Len(stderr[p]), DrainBegin(p, m)
       PROVE  TransportMatchesLifecycle'
  BY <1>11, QuietMatch DEF DrainBegin
<1>12. ASSUME NEW p \in Plugins, NEW c \in Candidate, SidecarWrites(p, c)
       PROVE  TransportMatchesLifecycle'
  BY <1>12, QuietMatch DEF SidecarWrites
<1>13. ASSUME NEW p \in Plugins, SidecarComplains(p) PROVE TransportMatchesLifecycle'
  BY <1>13, QuietMatch DEF SidecarComplains
<1>14. CASE DrainEvidence
  BY <1>14, OthersMatch DEF DrainEvidence
<1>15. CASE DrainRefused
  BY <1>15, OthersMatch DEF DrainRefused
<1>16. CASE DrainReturn
  BY <1>16, QuietMatch DEF DrainReturn
<1>17. ASSUME NEW e \in UNION {inflight[p] : p \in Plugins}, DrainAdmission(e)
       PROVE  TransportMatchesLifecycle'
  BY <1>17, OthersMatch DEF DrainAdmission
<1>18. ASSUME NEW valid \in BOOLEAN, NEW extra \in {0, 1}, SealRun(valid, extra)
       PROVE  TransportMatchesLifecycle'
  BY <1>18, QuietMatch DEF SealRun
<1>19. CASE UNCHANGED vars
  BY <1>19, QuietMatch DEF vars
<1> QED
  BY <1>1, <1>2, <1>3, <1>4, <1>5, <1>6, <1>7, <1>8, <1>9, <1>10, <1>11, <1>12,
     <1>13, <1>14, <1>15, <1>16, <1>17, <1>18, <1>19 DEF Next

\* A running plugin always has its transport, and a transport that outlives its
\* plugin's running state is the work of a failed append: whatever start_plugin,
\* stop_plugin and the methods between them do, and wherever they give up.
THEOREM TransportsMatch == Spec => []TransportMatchesLifecycle
<1>1. Init => TypeOK /\ TransportMatchesLifecycle
  BY InitTypeOK, InitMatches
<1>2. TypeOK /\ TransportMatchesLifecycle /\ [Next]_vars
      => (TypeOK /\ TransportMatchesLifecycle)'
  BY NextTypeOK, NextMatches
<1> QED
  BY <1>1, <1>2, PTL DEF Spec

-----------------------------------------------------------------------------
(* Transports as feeds.                                                    *)

FeedStep(p) == Feed(p)!Next \/ UNCHANGED Feed(p)!feed

LEMMA AppendIsExtension ==
  ASSUME NEW S, NEW q \in Seq(S), NEW e \in S
  PROVE  /\ Len(Append(q, e)) = Len(q) + 1
         /\ Len(Append(q, e)) >= Len(q)
         /\ SubSeq(Append(q, e), 1, Len(q)) = q
<1>1. Len(Append(q, e)) = Len(q) + 1 /\ Len(q) \in Nat
  OBVIOUS
<1>2. /\ SubSeq(Append(q, e), 1, Len(q)) \in Seq(S)
      /\ Len(SubSeq(Append(q, e), 1, Len(q))) = Len(q)
      /\ \A i \in 1 .. Len(q) : SubSeq(Append(q, e), 1, Len(q))[i] = q[i]
  OBVIOUS
<1>3. SubSeq(Append(q, e), 1, Len(q)) = q
  BY <1>2
<1> QED
  BY <1>1, <1>3

\* A method that leaves transports and what they hold alone.
LEMMA SameFeeds ==
  ASSUME UNCHANGED <<transports, outbox, stderr>>
  PROVE  \A p \in Plugins : FeedStep(p)
BY DEF FeedStep, Feed!feed

LEMMA FeedUntouched ==
  ASSUME NEW p \in Plugins,
         p \in transports' <=> p \in transports,
         outbox'[p] = outbox[p], stderr'[p] = stderr[p]
  PROVE  FeedStep(p)
BY DEF FeedStep, Feed!feed

LEMMA StartOpens ==
  ASSUME TypeOK, TransportMatchesLifecycle, NEW q \in Plugins, StartPlugin(q)
  PROVE  \A p \in Plugins : FeedStep(p)
<1>1. q \notin transports
  <2>1. <<pstate[q], "Starting">> \in ValidTransitions
    BY DEF StartPlugin, TransitionAllowed
  <2>2. pstate[q] # "Running" /\ pstate[q] # "Stopping"
    BY <2>1 DEF ValidTransitions
  <2> QED
    BY <2>2 DEF TransportMatchesLifecycle
<1>2. UNCHANGED <<outbox, stderr>>
  BY DEF StartPlugin, sidecarVars
<1>3. transports' = transports \/ transports' = transports \cup {q}
  BY DEF StartPlugin, StartAborted, StartFailed, StartSucceeded
<1> SUFFICES ASSUME NEW p \in Plugins PROVE FeedStep(p)
  OBVIOUS
<1>4. CASE (p \in transports') <=> (p \in transports)
  BY <1>2, <1>4, FeedUntouched
<1>5. CASE p \notin transports /\ p \in transports'
  <2>1. Feed(p)!Opens
    BY <1>2, <1>5 DEF Feed!Opens
  <2> QED
    BY <2>1 DEF FeedStep, Feed!Next
<1> QED
  BY <1>3, <1>4, <1>5

LEMMA StopDrops ==
  ASSUME TypeOK, TransportMatchesLifecycle, NEW q \in Plugins, StopPlugin(q)
  PROVE  \A p \in Plugins : FeedStep(p)
<1>1. q \in transports
  BY DEF StopPlugin, TransitionAllowed, ValidTransitions, TransportMatchesLifecycle
<1>2. PICK k \in Appends : DropTransport(q, k > 0)
  <2>1. ASSUME NEW k, StopFailed(q, k) PROVE DropTransport(q, k > 0)
    BY <2>1 DEF StopFailed
  <2>2. ASSUME NEW k, NEW n, StopSucceeded(q, n, k) PROVE DropTransport(q, k > 0)
    BY <2>2 DEF StopSucceeded
  <2> QED
    BY <2>1, <2>2 DEF StopPlugin
<1>3. outbox \in [Plugins -> Seq(Candidate)] /\ stderr \in [Plugins -> Seq(Nat)]
  BY DEF TypeOK
<1>4. CASE ~(k > 0)
  BY <1>2, <1>4, SameFeeds DEF DropTransport
<1>5. CASE k > 0
  <2>1. /\ transports' = transports \ {q}
        /\ outbox' = [outbox EXCEPT ![q] = <<>>]
        /\ stderr' = [stderr EXCEPT ![q] = <<>>]
    BY <1>2, <1>5 DEF DropTransport
  <2> SUFFICES ASSUME NEW p \in Plugins PROVE FeedStep(p)
    OBVIOUS
  <2>2. CASE p # q
    BY <1>3, <2>1, <2>2, FeedUntouched
  <2>3. CASE p = q
    <3>1. Feed(p)!Dropped
      BY <1>1, <1>3, <2>1, <2>3 DEF Feed!Dropped
    <3> QED
      BY <3>1 DEF FeedStep, Feed!Next
  <2> QED
    BY <2>2, <2>3
<1> QED
  BY <1>4, <1>5

LEMMA LineComplains ==
  ASSUME TypeOK, NEW q \in Plugins, q \in transports, NEW e \in Nat,
         stderr' = [stderr EXCEPT ![q] = Append(@, e)],
         UNCHANGED <<transports, outbox>>
  PROVE  \A p \in Plugins : FeedStep(p)
<1>1. stderr \in [Plugins -> Seq(Nat)] /\ stderr[q] \in Seq(Nat)
  BY DEF TypeOK
<1> SUFFICES ASSUME NEW p \in Plugins PROVE FeedStep(p)
  OBVIOUS
<1>2. CASE p # q
  BY <1>1, <1>2, FeedUntouched
<1>3. CASE p = q
  <2>1. stderr'[q] = Append(stderr[q], e)
    BY <1>1
  <2>2. Feed(p)!Complains
    BY <1>1, <1>3, <2>1, AppendIsExtension DEF Feed!Complains, Feed!Extends
  <2> QED
    BY <2>2 DEF FeedStep, Feed!Next
<1> QED
  BY <1>2, <1>3

LEMMA SidecarFeeds ==
  ASSUME TypeOK, NEW q \in Plugins,
         SidecarComplains(q) \/ \E c \in Candidate : SidecarWrites(q, c)
  PROVE  \A p \in Plugins : FeedStep(p)
<1>1. CASE SidecarComplains(q)
  <2>1. /\ q \in transports /\ UNCHANGED <<transports, outbox>>
        /\ stderr' = [stderr EXCEPT ![q] = Append(@, lines[q] + 1)]
    BY <1>1 DEF SidecarComplains
  <2>2. lines[q] + 1 \in Nat
    BY DEF TypeOK
  <2> QED
    BY <2>1, <2>2, LineComplains
<1>2. ASSUME NEW c \in Candidate, SidecarWrites(q, c)
      PROVE  \A p \in Plugins : FeedStep(p)
  <2>1. /\ q \in transports /\ UNCHANGED <<transports, stderr>>
        /\ outbox' = [outbox EXCEPT ![q] = Append(@, c)]
    BY <1>2 DEF SidecarWrites
  <2>2. outbox \in [Plugins -> Seq(Candidate)] /\ outbox[q] \in Seq(Candidate)
    BY DEF TypeOK
  <2> SUFFICES ASSUME NEW p \in Plugins PROVE FeedStep(p)
    OBVIOUS
  <2>3. CASE p # q
    BY <2>1, <2>2, <2>3, FeedUntouched
  <2>4. CASE p = q
    <3>1. outbox'[q] = Append(outbox[q], c)
      BY <2>1, <2>2
    <3>2. Feed(p)!Offers
      BY <2>1, <2>2, <2>4, <3>1, AppendIsExtension DEF Feed!Offers, Feed!Extends
    <3> QED
      BY <3>2 DEF FeedStep, Feed!Next
  <2> QED
    BY <2>3, <2>4
<1> QED
  BY <1>1, <1>2

LEMMA SendFeeds ==
  ASSUME TypeOK, NEW q \in Plugins, NEW t \in tokens, SendToPlugin(q, t)
  PROVE  \A p \in Plugins : FeedStep(p)
<1>1. UNCHANGED <<transports, outbox>>
  BY DEF SendToPlugin
<1>2. PICK k \in Appends :
        \/ SendRefused(q, t, k) \/ SendInactive(q, t, k) \/ SendFailed(q, t, k)
        \/ \E n \in {0, 1} : SendSucceeds(q, t, n, k)
  BY DEF SendToPlugin
<1>3. CASE SendRefused(q, t, k) \/ SendInactive(q, t, k) \/ SendFailed(q, t, k)
  BY <1>1, <1>3, SameFeeds DEF SendRefused, SendInactive, SendFailed
<1>4. ASSUME NEW n \in {0, 1}, SendSucceeds(q, t, n, k)
      PROVE  \A p \in Plugins : FeedStep(p)
  <2>1. /\ q \in transports
        /\ \/ stderr' = stderr
           \/ stderr' = [stderr EXCEPT ![q] = Append(@, lines[q] + 1)]
    BY <1>4 DEF SendSucceeds
  <2>2. lines[q] + 1 \in Nat
    BY DEF TypeOK
  <2> QED
    BY <1>1, <2>1, <2>2, SameFeeds, LineComplains
<1> QED
  BY <1>2, <1>3, <1>4

LEMMA DrainTakes ==
  ASSUME TypeOK, NEW q \in Plugins, NEW m \in 0 .. Len(stderr[q]), DrainBegin(q, m)
  PROVE  \A p \in Plugins : FeedStep(p)
<1>1. /\ UNCHANGED transports
      /\ stderr' = [stderr EXCEPT ![q] = SubSeq(stderr[q], m + 1, Len(stderr[q]))]
      /\ outbox' = [outbox EXCEPT ![q] = <<>>]
  BY DEF DrainBegin
<1>2. outbox \in [Plugins -> Seq(Candidate)] /\ stderr \in [Plugins -> Seq(Nat)]
  BY DEF TypeOK
<1> SUFFICES ASSUME NEW p \in Plugins PROVE FeedStep(p)
  OBVIOUS
<1>3. CASE p # q
  BY <1>1, <1>2, <1>3, FeedUntouched
<1>4. CASE p = q
  <2>1. /\ outbox'[p] = <<>>
        /\ stderr'[p] = SubSeq(stderr[p], m + 1, Len(stderr[p]))
    BY <1>1, <1>2, <1>4
  <2>2. Feed(p)!Drained
    BY <1>1, <1>4, <2>1 DEF Feed!Drained
  <2> QED
    BY <2>2 DEF FeedStep, Feed!Next
<1> QED
  BY <1>3, <1>4

LEMMA NextFeeds ==
  TypeOK /\ TransportMatchesLifecycle /\ [Next]_vars
    => [\A p \in Plugins : FeedStep(p)]_vars
<1> SUFFICES ASSUME TypeOK, TransportMatchesLifecycle, Next
             PROVE  \A p \in Plugins : FeedStep(p)
  OBVIOUS
<1>1. CASE RegisterPlugins
  BY <1>1, SameFeeds DEF RegisterPlugins, sidecarVars
<1>2. CASE RegisterNext
  BY <1>2, SameFeeds DEF RegisterNext, sidecarVars
<1>3. CASE RegisterReturn
  BY <1>3, SameFeeds DEF RegisterReturn, sidecarVars
<1>4. ASSUME NEW n \in 0 .. Len(SchemaFiles), RegisterSchemas(n)
      PROVE  \A p \in Plugins : FeedStep(p)
  BY <1>4, SameFeeds DEF RegisterSchemas, sidecarVars
<1>5. ASSUME NEW e \in Envelopes, AdmitEvent(e)
      PROVE  \A p \in Plugins : FeedStep(p)
  BY <1>5, SameFeeds DEF AdmitEvent, sidecarVars
<1>6. ASSUME NEW t \in tokens, PublishAdmitted(t)
      PROVE  \A p \in Plugins : FeedStep(p)
  BY <1>6, SameFeeds DEF PublishAdmitted, sidecarVars
<1>7. ASSUME NEW p \in Plugins, NEW to \in {"Starting", "Stopping"},
             RefuseTransition(p, to)
      PROVE  \A q \in Plugins : FeedStep(q)
  BY <1>7, SameFeeds DEF RefuseTransition, sidecarVars
<1>8. ASSUME NEW p \in Plugins, StartPlugin(p) \/ StopPlugin(p)
      PROVE  \A q \in Plugins : FeedStep(q)
  BY <1>8, StartOpens, StopDrops
<1>9. ASSUME NEW p \in Plugins, NEW t \in tokens, SendToPlugin(p, t)
      PROVE  \A q \in Plugins : FeedStep(q)
  BY <1>9, SendFeeds
<1>10. ASSUME NEW p \in Plugins, NEW m \in 0 .. Len(stderr[p]), DrainBegin(p, m)
       PROVE  \A q \in Plugins : FeedStep(q)
  BY <1>10, DrainTakes
<1>11. ASSUME NEW p \in Plugins,
              SidecarComplains(p) \/ \E c \in Candidate : SidecarWrites(p, c)
       PROVE  \A q \in Plugins : FeedStep(q)
  BY <1>11, SidecarFeeds
<1>12. CASE DrainEvidence \/ DrainRefused \/ DrainReturn
  BY <1>12, SameFeeds DEF DrainEvidence, DrainRefused, DrainReturn, sidecarVars
<1>13. ASSUME NEW e \in UNION {inflight[p] : p \in Plugins}, DrainAdmission(e)
       PROVE  \A p \in Plugins : FeedStep(p)
  BY <1>13, SameFeeds DEF DrainAdmission, sidecarVars
<1>14. ASSUME NEW valid \in BOOLEAN, NEW extra \in {0, 1}, SealRun(valid, extra)
       PROVE  \A p \in Plugins : FeedStep(p)
  BY <1>14, SameFeeds DEF SealRun, sidecarVars
<1> QED
  BY <1>1, <1>2, <1>3, <1>4, <1>5, <1>6, <1>7, <1>8, <1>9, <1>10, <1>11, <1>12,
     <1>13, <1>14 DEF Next

LEMMA InitFeeds == Init => \A p \in Plugins : Feed(p)!Init
<1> SUFFICES ASSUME Init, NEW p \in Plugins PROVE Feed(p)!Init
  OBVIOUS
<1>1. p \notin transports /\ outbox[p] = <<>> /\ stderr[p] = <<>>
  BY DEF Init
<1>2. (p \in transports) = FALSE
  BY <1>1
<1> QED
  BY <1>1, <1>2 DEF Feed!Init

\* However methods, failures and sidecars interleave, a transport as the kernel
\* uses it is a feed: it is opened once and dropped with what nobody took, only its
\* sidecar adds to it, and what leaves it goes to a drain, from the front.
THEOREM FeedsUsed == Spec => TransportsAreFeeds
<1>1. Init => TypeOK /\ TransportMatchesLifecycle
  BY InitTypeOK, InitMatches
<1>2. TypeOK /\ TransportMatchesLifecycle /\ [Next]_vars
      => (TypeOK /\ TransportMatchesLifecycle)'
  BY NextTypeOK, NextMatches
<1>3. TypeOK /\ TransportMatchesLifecycle /\ [Next]_vars
      => [\A p \in Plugins : Feed(p)!Next \/ UNCHANGED Feed(p)!feed]_vars
  BY NextFeeds DEF FeedStep
<1>4. Init => \A p \in Plugins : Feed(p)!Init
  BY InitFeeds
<1> QED
  BY <1>1, <1>2, <1>3, <1>4, PTL DEF Spec, TransportsAreFeeds

-----------------------------------------------------------------------------
(* Authority and the contract, whichever append fails.                     *)

-----------------------------------------------------------------------------
(* The log only grows, and by warranted records.                           *)

\* What the step has to offer for r to be appended.
Warranted(r) ==
  /\ r.kind = "published" =>
       \E t \in tokens : r = Published(t) /\ ledger' = Append(ledger, t)
  /\ r.kind = "send_attempted" => \E t \in tokens : r.event = t.event
  /\ r.kind = "decision" /\ call.op = "drain" =>
       /\ r.event.source = call.plugin
       /\ \E e \in inflight[call.plugin] :
            e.id = r.event.parent /\ e.trace = r.event.trace
  /\ r.kind = "lifecycle" /\ r.state \in {"Starting", "Running"} =>
       ManifestPermitted(r.plugin)

AllWarranted(recs) == \A i \in 1 .. Len(recs) : Warranted(recs[i])

ExtendsLog ==
  /\ log' \in Seq(Record)
  /\ Len(log) <= Len(log')
  /\ \A i \in 1 .. Len(log) : log'[i] = log[i]
  /\ \A i \in (Len(log) + 1) .. Len(log') : Warranted(log'[i])

LEMMA AppendExtendsLog ==
  ASSUME TypeOK, NEW recs \in Seq(Record), AllWarranted(recs), NEW k, Append_k(recs, k)
  PROVE  ExtendsLog
<1>1. log \in Seq(Record)
  BY DEF TypeOK
<1>2. /\ log' \in Seq(Record)
      /\ Len(log') = Len(log) + k
      /\ \A i \in 1 .. Len(log) : log'[i] = log[i]
      /\ \A i \in 1 .. k : log'[Len(log) + i] = recs[i]
      /\ k \in 0 .. Len(recs)
  BY <1>1, AppendExtends
<1>3. ASSUME NEW i \in (Len(log) + 1) .. Len(log') PROVE Warranted(log'[i])
  <2>1. i - Len(log) \in 1 .. k /\ log'[i] = recs[i - Len(log)]
    BY <1>1, <1>2
  <2>2. Warranted(recs[i - Len(log)])
    BY <1>2, <2>1 DEF AllWarranted
  <2> QED
    BY <2>1, <2>2
<1> QED
  BY <1>1, <1>2, <1>3 DEF ExtendsLog

LEMMA UnchangedExtendsLog ==
  ASSUME TypeOK, UNCHANGED log
  PROVE  ExtendsLog
BY DEF ExtendsLog, TypeOK

\* Evidence needs no warrant, nor does any state but Starting and Running.
LEMMA PlainWarranted ==
  ASSUME NEW p, NEW x
  PROVE  /\ Warranted(RuntimeDenied(p, x))
         /\ Warranted(TransportFailed(p, x)) /\ Warranted(Evidence(p, x))
         /\ Warranted(SendSucceeded(p, x))
         /\ \/ x \notin {"Starting", "Running"}
            \/ ManifestPermitted(p)
            => Warranted(Lifecycle(p, x))
BY DEF Warranted, Lifecycle, RuntimeDenied, TransportFailed, Evidence, SendSucceeded

LEMMA EnterExtendsLog ==
  ASSUME TypeOK, NEW p \in Plugins, NEW entry \in RuntimeStates, NEW k,
         Enter(p, entry, k), Warranted(Lifecycle(p, entry))
  PROVE  ExtendsLog
<1>1. <<Lifecycle(p, entry)>> \in Seq(Record) /\ AllWarranted(<<Lifecycle(p, entry)>>)
  <2>1. Lifecycle(p, entry) \in Record /\ Warranted(Lifecycle(p, entry))
    BY PluginRecordTypes
  <2> QED
    BY <2>1 DEF AllWarranted
<1> QED
  BY <1>1, AppendExtendsLog DEF Enter

LEMMA TraverseExtendsLog ==
  ASSUME TypeOK, NEW p \in Plugins, NEW entry \in RuntimeStates,
         NEW exit \in RuntimeStates, NEW between \in Seq(Record),
         AllWarranted(between), Warranted(Lifecycle(p, entry)),
         Warranted(Lifecycle(p, exit)), NEW k, Traverse(p, entry, between, exit, k)
  PROVE  ExtendsLog
<1> DEFINE recs == <<Lifecycle(p, entry)>> \o between \o <<Lifecycle(p, exit)>>
<1>1. /\ Lifecycle(p, entry) \in Record /\ Warranted(Lifecycle(p, entry))
      /\ Lifecycle(p, exit) \in Record /\ Warranted(Lifecycle(p, exit))
  BY PluginRecordTypes
<1>2. recs \in Seq(Record) /\ Len(recs) = Len(between) + 2
  BY <1>1
<1>3. ASSUME NEW i \in 1 .. Len(recs) PROVE Warranted(recs[i])
  <2>1. recs[i] = IF i = 1 THEN Lifecycle(p, entry)
                  ELSE IF i = Len(between) + 2 THEN Lifecycle(p, exit)
                  ELSE between[i - 1]
    BY <1>1, <1>2
  <2>2. i # 1 /\ i # Len(between) + 2 => i - 1 \in 1 .. Len(between)
    BY <1>2
  <2> HIDE DEF recs
  <2> QED
    BY <1>1, <2>1, <2>2 DEF AllWarranted
<1>4. Append_k(recs, k)
  BY DEF Traverse
<1> HIDE DEF recs
<1> QED
  BY <1>2, <1>3, <1>4, AppendExtendsLog DEF AllWarranted

\* The methods that move a plugin through its lifecycle.
LEMMA LifecycleExtendsLog ==
  ASSUME TypeOK
  PROVE  /\ RegisterNext => ExtendsLog
         /\ \A p \in Plugins :
              /\ \A to : RefuseTransition(p, to) => ExtendsLog
              /\ StartPlugin(p) => ExtendsLog
              /\ StopPlugin(p) => ExtendsLog
<1> USE DEF RuntimeStates
<1>1. <<>> \in Seq(Record) /\ AllWarranted(<<>>)
  BY DEF AllWarranted
<1>2. ASSUME RegisterNext PROVE ExtendsLog
  <2>1. call \in Registering
    BY <1>2 DEF RegisterNext, TypeOK, Idle, Draining
  <2>2. Profile[call.next] \in Plugins
    BY <1>2, <2>1, ConstantTypes DEF RegisterNext, Registering
  <2>3. /\ Warranted(Lifecycle(Profile[call.next], "Registered"))
        /\ Warranted(Lifecycle(Profile[call.next], "Admitted"))
    BY PlainWarranted
  <2> QED
    BY <1>1, <1>2, <2>2, <2>3, TraverseExtendsLog DEF RegisterNext
<1>3. ASSUME NEW p \in Plugins, NEW to, RefuseTransition(p, to) PROVE ExtendsLog
  <2>1. PICK d \in DenialKinds, k \in Appends : Append_k(<<RuntimeDenied(p, d)>>, k)
    BY <1>3 DEF RefuseTransition
  <2>2. RuntimeDenied(p, d) \in Record /\ Warranted(RuntimeDenied(p, d))
    BY PluginRecordTypes, PlainWarranted DEF Denials
  <2>3. <<RuntimeDenied(p, d)>> \in Seq(Record) /\ AllWarranted(<<RuntimeDenied(p, d)>>)
    BY <2>2 DEF AllWarranted
  <2> QED
    BY <2>1, <2>3, AppendExtendsLog
<1>4. ASSUME NEW p \in Plugins, StartPlugin(p) PROVE ExtendsLog
  <2>1. PICK host \in HostFailures \cup {"none"}, k \in Appends :
          LET checks == StartChecks(p, host)
          IN \/ \E i \in 1 .. Len(checks) :
                  /\ FirstFailing(checks, i)
                  /\ StartAborted(p, checks[i], k) \/ StartFailed(p, checks[i], k)
             \/ AllPass(checks) /\ StartSucceeded(p, k)
    BY <1>4 DEF StartPlugin
  <2>2. ASSUME NEW i \in 1 .. Len(StartChecks(p, host))
        PROVE  AllWarranted(StartChecks(p, host)[i].evidence)
    <3>1. ASSUME NEW s \in Stages PROVE AllWarranted(<<TransportFailed(p, s)>>)
      BY PlainWarranted DEF AllWarranted
    <3>2. ASSUME NEW d \in Denials PROVE AllWarranted(Refusal(p, d))
      BY PlainWarranted DEF AllWarranted, Refusal
    <3> QED
      BY <1>1, <3>1, <3>2, StartEvidence
  <2>3. /\ Warranted(Lifecycle(p, "Starting")) /\ Warranted(Lifecycle(p, "Running"))
        /\ Warranted(Lifecycle(p, "Failed"))
    BY <1>4, PlainWarranted DEF StartPlugin, TransitionAllowed
  <2>4. ASSUME NEW i \in 1 .. Len(StartChecks(p, host)),
               \/ StartAborted(p, StartChecks(p, host)[i], k)
               \/ StartFailed(p, StartChecks(p, host)[i], k)
        PROVE  ExtendsLog
    BY <2>2, <2>3, <2>4, StartEvidenceTypes, EnterExtendsLog, TraverseExtendsLog
       DEF StartAborted, StartFailed
  <2>5. StartSucceeded(p, k) => ExtendsLog
    BY <1>1, <2>3, TraverseExtendsLog DEF StartSucceeded
  <2> QED
    BY <2>1, <2>4, <2>5
<1>5. ASSUME NEW p \in Plugins, StopPlugin(p) PROVE ExtendsLog
  <2>1. ASSUME NEW k \in Appends, NEW n \in Nat, StopSucceeded(p, n, k) PROVE ExtendsLog
    <3> DEFINE held == stderr[p] \o [i \in 1 .. n |-> lines[p] + i]
               between == [i \in 1 .. Len(held) |-> Evidence(p, held[i])]
    <3>1. held \in Seq(Nat)
      <4>1. stderr[p] \in Seq(Nat) /\ lines[p] \in Nat
        BY DEF TypeOK
      <4>2. [i \in 1 .. n |-> lines[p] + i] \in Seq(Nat)
        BY <4>1
      <4> QED
        BY <4>1, <4>2
    <3>2. ASSUME NEW i \in 1 .. Len(held)
          PROVE  Evidence(p, held[i]) \in Record /\ Warranted(Evidence(p, held[i]))
      <4>1. held[i] \in Nat
        BY <3>1, <3>2
      <4> QED
        BY <4>1, PluginRecordTypes, PlainWarranted
    <3>3. Traverse(p, "Stopping", between, "Stopped", k)
      BY <2>1 DEF StopSucceeded
    <3> HIDE DEF held
    <3>4. between \in Seq(Record) /\ AllWarranted(between)
      BY <3>1, <3>2 DEF AllWarranted
    <3> HIDE DEF between
    <3>5. Warranted(Lifecycle(p, "Stopping")) /\ Warranted(Lifecycle(p, "Stopped"))
      BY PlainWarranted
    <3> QED
      BY <3>3, <3>4, <3>5, TraverseExtendsLog
  <2>2. ASSUME NEW k \in Appends, StopFailed(p, k) PROVE ExtendsLog
    <3>1. TransportFailed(p, "stop") \in Record /\ Warranted(TransportFailed(p, "stop"))
      BY PluginRecordTypes, PlainWarranted DEF Stages
    <3>2. /\ <<TransportFailed(p, "stop")>> \in Seq(Record)
          /\ AllWarranted(<<TransportFailed(p, "stop")>>)
      BY <3>1 DEF AllWarranted
    <3>3. Warranted(Lifecycle(p, "Stopping")) /\ Warranted(Lifecycle(p, "Failed"))
      BY PlainWarranted
    <3> QED
      BY <2>2, <3>2, <3>3, TraverseExtendsLog DEF StopFailed
  <2> QED
    BY <1>5, <2>1, <2>2, ConstantTypes DEF StopPlugin
<1> QED
  BY <1>2, <1>3, <1>4, <1>5

\* Deciding about e appends one decision, warranted when no drain is in progress
\* or e is of the plugin drained and answers an event in flight to it.
LEMMA DecisionExtendsLog ==
  ASSUME TypeOK, NEW e \in Event, NEW k, Append_k(<<Decision(e, Admissible(e))>>, k),
         Warranted(Decision(e, Admissible(e)))
  PROVE  /\ ExtendsLog
         /\ k \in 0 .. 1
         /\ \A t \in Granted(e, k = 1) :
              t.policy \in DOMAIN log' /\ log'[t.policy] = Decision(t.event, TRUE)
<1> DEFINE recs == <<Decision(e, Admissible(e))>>
<1>1. Decision(e, Admissible(e)) \in Record
  BY EventRecordTypes DEF Admissible
<1>2. recs \in Seq(Record) /\ AllWarranted(recs) /\ Len(recs) = 1
      /\ recs[1] = Decision(e, Admissible(e))
  BY <1>1 DEF AllWarranted
<1>3. log \in Seq(Record)
  BY DEF TypeOK
<1>4. Append_k(recs, k)
  OBVIOUS
<1> HIDE DEF recs
<1>5. /\ log' \in Seq(Record) /\ Len(log') = Len(log) + k
      /\ \A i \in 1 .. k : log'[Len(log) + i] = recs[i]
      /\ k \in 0 .. 1
  BY <1>2, <1>3, <1>4, AppendExtends
<1>6. ASSUME NEW t \in Granted(e, k = 1)
      PROVE  t.policy \in DOMAIN log' /\ log'[t.policy] = Decision(t.event, TRUE)
  <2>1. k = 1 /\ Admissible(e) /\ t.event = e /\ t.policy = Len(log) + 1
    BY <1>6 DEF Granted, TokenFor
  <2>2. Admissible(e) \in BOOLEAN
    BY DEF Admissible
  <2>3. log'[Len(log) + 1] = recs[1]
    BY <1>5, <2>1
  <2>4. Admissible(e) = TRUE
    BY <2>1, <2>2, Zenon
  <2>5. recs[1] = Decision(e, TRUE)
    BY <1>2, <2>4, Zenon
  <2> QED
    BY <1>3, <1>5, <2>1, <2>3, <2>5
<1> QED
  BY <1>2, <1>4, <1>5, <1>6, AppendExtendsLog

LEMMA AdmitEventExtendsLog ==
  ASSUME TypeOK, NEW e \in Envelopes, AdmitEvent(e)
  PROVE  /\ ExtendsLog
         /\ \A t \in tokens' \ tokens :
              t.policy \in DOMAIN log' /\ log'[t.policy] = Decision(t.event, TRUE)
<1>1. e \in Event
  BY OfferedTypes
<1>2. call.op # "drain"
  BY DEF AdmitEvent, Ready, Idle
<1>3. Warranted(Decision(e, Admissible(e)))
  BY <1>2 DEF Warranted, Decision
<1>4. PICK k \in Appends :
        /\ Append_k(<<Decision(e, Admissible(e))>>, k)
        /\ tokens' = tokens \cup Granted(e, k = 1)
  BY DEF AdmitEvent
<1> QED
  BY <1>1, <1>3, <1>4, DecisionExtendsLog

LEMMA PublishAdmittedExtendsLog ==
  ASSUME TypeOK, NEW t \in tokens, PublishAdmitted(t)
  PROVE  ExtendsLog
<1> DEFINE recs == IF dead[t.event.topic] = 0 THEN <<Published(t)>> ELSE <<>>
<1>1. PICK k \in Appends : Append_k(recs, k)
  BY DEF PublishAdmitted
<1>2. Published(t) \in Record /\ Warranted(Published(t))
  <2>1. t \in Token /\ ledger' = Append(ledger, t)
    BY DEF TypeOK, PublishAdmitted
  <2> QED
    BY <2>1, EventRecordTypes DEF Warranted, Published
<1>3. recs \in Seq(Record) /\ AllWarranted(recs)
  BY <1>2 DEF AllWarranted
<1> HIDE DEF recs
<1> QED
  BY <1>1, <1>3, AppendExtendsLog

\* Sending: an event becomes in flight only with its send_attempted record.
LEMMA SendToPluginExtendsLog ==
  ASSUME TypeOK, NEW p \in Plugins, NEW t \in tokens, SendToPlugin(p, t)
  PROVE  /\ ExtendsLog
         /\ \A q \in Plugins : \A e \in inflight'[q] :
              \/ e \in inflight[q]
              \/ \E j \in DOMAIN log' : log'[j] = SendAttempted(q, e)
<1>1. t \in Token /\ t.event \in Event
  BY DEF TypeOK, Token
<1>2. inflight \in [Plugins -> SUBSET Event] /\ log \in Seq(Record)
  BY DEF TypeOK
<1>3. /\ RuntimeDenied(p, "SubscriptionDenied") \in Record
      /\ TransportFailed(p, "send") \in Record
      /\ SendAttempted(p, t.event) \in Record
      /\ SendSucceeded(p, t.event) \in Record
  BY <1>1, PluginRecordTypes, EventRecordTypes DEF Denials, Stages
<1>4. Warranted(SendAttempted(p, t.event))
  BY DEF Warranted, SendAttempted
<1> DEFINE refused == <<RuntimeDenied(p, "SubscriptionDenied"), TransportFailed(p, "send")>>
           inactive == <<TransportFailed(p, "send")>>
           failed == <<SendAttempted(p, t.event), TransportFailed(p, "send")>>
           sent == <<SendAttempted(p, t.event), SendSucceeded(p, t.event)>>
<1>5. /\ refused \in Seq(Record) /\ AllWarranted(refused)
      /\ inactive \in Seq(Record) /\ AllWarranted(inactive)
      /\ failed \in Seq(Record) /\ AllWarranted(failed)
      /\ sent \in Seq(Record) /\ AllWarranted(sent)
      /\ sent[1] = SendAttempted(p, t.event)
  BY <1>3, <1>4, PlainWarranted DEF AllWarranted
<1>6. ASSUME NEW k \in Appends,
             SendRefused(p, t, k) \/ SendInactive(p, t, k) \/ SendFailed(p, t, k)
      PROVE  ExtendsLog /\ inflight' = inflight
  <2>1. Append_k(refused, k) \/ Append_k(inactive, k) \/ Append_k(failed, k)
    BY <1>6 DEF SendRefused, SendInactive, SendFailed
  <2>2. inflight' = inflight
    BY <1>6 DEF SendRefused, SendInactive, SendFailed
  <2> HIDE DEF refused, inactive, failed, sent
  <2> QED
    BY <1>5, <2>1, <2>2, AppendExtendsLog
<1>7. ASSUME NEW k \in Appends, NEW n \in {0, 1}, SendSucceeds(p, t, n, k)
      PROVE  /\ ExtendsLog
             /\ \A q \in Plugins : \A e \in inflight'[q] :
                  \/ e \in inflight[q]
                  \/ \E j \in DOMAIN log' : log'[j] = SendAttempted(q, e)
  <2>1. Append_k(sent, k)
    BY <1>7 DEF SendSucceeds
  <2> HIDE DEF refused, inactive, failed, sent
  <2>2. ExtendsLog
    BY <1>5, <2>1, AppendExtendsLog
  <2>3. k > 0 => Len(log) + 1 \in DOMAIN log' /\ log'[Len(log) + 1] = sent[1]
    <3>1. /\ log' \in Seq(Record) /\ Len(log') = Len(log) + k
          /\ \A i \in 1 .. k : log'[Len(log) + i] = sent[i]
          /\ k \in 0 .. Len(sent)
      BY <1>2, <1>5, <2>1, AppendExtends
    <3> QED
      BY <1>2, <3>1
  <2>4. ASSUME NEW q \in Plugins, NEW e \in inflight'[q], e \notin inflight[q]
        PROVE  q = p /\ e = t.event /\ k > 0
    BY <1>2, <1>7, <2>4 DEF SendSucceeds, Noted
  <2> QED
    BY <1>5, <2>2, <2>3, <2>4
<1> QED
  BY <1>6, <1>7 DEF SendToPlugin

\* Draining evidence and refusing candidates: evidence of denials only.
LEMMA DrainRecordsExtendLog ==
  ASSUME TypeOK
  PROVE  /\ DrainEvidence => ExtendsLog
         /\ DrainRefused => ExtendsLog
<1>1. ASSUME DrainEvidence PROVE ExtendsLog
  <2>1. PICK k \in Appends : Append_k(<<Evidence(call.plugin, Head(call.evidence))>>, k)
    BY <1>1 DEF DrainEvidence
  <2>2. call.plugin \in Plugins /\ Head(call.evidence) \in Nat
    BY <1>1, DrainingCall DEF DrainEvidence
  <2>3. /\ Evidence(call.plugin, Head(call.evidence)) \in Record
        /\ Warranted(Evidence(call.plugin, Head(call.evidence)))
    BY <2>2, PluginRecordTypes, PlainWarranted
  <2>4. /\ <<Evidence(call.plugin, Head(call.evidence))>> \in Seq(Record)
        /\ AllWarranted(<<Evidence(call.plugin, Head(call.evidence))>>)
    BY <2>3 DEF AllWarranted
  <2> QED
    BY <2>1, <2>4, AppendExtendsLog
<1>2. ASSUME DrainRefused PROVE ExtendsLog
  <2> DEFINE checks == CandidateChecks(call.plugin, Head(call.candidates))
             recs(d) == <<RuntimeDenied(call.plugin, d),
                          TransportFailed(call.plugin, "candidate_canonicalization")>>
  <2>1. PICK i \in 1 .. 3, k \in Appends : Append_k(recs(checks[i].denial), k)
    BY <1>2 DEF DrainRefused
  <2>2. checks[i].denial \in Denials
    <3>1. CASE i = 1  BY <3>1 DEF CandidateChecks, Denials
    <3>2. CASE i = 2  BY <3>2 DEF CandidateChecks, Denials
    <3>3. CASE i = 3  BY <3>3 DEF CandidateChecks, Denials
    <3> QED
      BY <3>1, <3>2, <3>3
  <2> HIDE DEF checks
  <2>3. call.plugin \in Plugins
    BY <1>2, DrainingCall DEF DrainRefused
  <2>4. ASSUME NEW d \in Denials
        PROVE  recs(d) \in Seq(Record) /\ AllWarranted(recs(d))
    <3>1. /\ RuntimeDenied(call.plugin, d) \in Record
          /\ Warranted(RuntimeDenied(call.plugin, d))
          /\ TransportFailed(call.plugin, "candidate_canonicalization") \in Record
          /\ Warranted(TransportFailed(call.plugin, "candidate_canonicalization"))
      BY <2>3, PluginRecordTypes, PlainWarranted DEF Stages
    <3> QED
      BY <3>1 DEF AllWarranted
  <2> HIDE DEF recs
  <2> QED
    BY <2>1, <2>2, <2>4, AppendExtendsLog
<1> QED
  BY <1>1, <1>2

\* An answer is decided on the strength of an event in flight, and its token
\* joins those the drain will return.
LEMMA DrainAdmissionExtendsLog ==
  ASSUME TypeOK, NEW parent, DrainAdmission(parent)
  PROVE  /\ ExtendsLog
         /\ \A t \in HeldTokens' \ HeldTokens :
              t.policy \in DOMAIN log' /\ log'[t.policy] = Decision(t.event, TRUE)
<1>1. /\ call.op = "drain"
      /\ call \in Draining /\ call.plugin \in Plugins
      /\ call.candidates \in Seq(Candidate)
  BY DrainingCall DEF DrainAdmission
<1>2. Head(call.candidates) \in Candidate
  BY <1>1 DEF DrainAdmission
<1>3. parent \in Event /\ parent \in inflight[call.plugin]
  BY <1>1 DEF DrainAdmission, InFlight, TypeOK
<1> DEFINE e == Canonical(call.plugin, Head(call.candidates), parent)
<1>4. e \in Event
  BY <1>1, <1>2, <1>3, CanonicalTypes DEF DrainAdmission
<1>5. Warranted(Decision(e, Admissible(e)))
  BY <1>3 DEF Warranted, Decision, Canonical
<1>6. PICK k \in Appends :
        /\ Append_k(<<Decision(e, Admissible(e))>>, k)
        /\ call' = IF k = 0 THEN Idle
                   ELSE [call EXCEPT !.candidates = Tail(@),
                                     !.admitted = @ \cup Granted(e, k = 1)]
        /\ tokens' = tokens
  BY DEF DrainAdmission
<1> HIDE DEF e
<1>7. HeldTokens' \subseteq HeldTokens \cup Granted(e, k = 1)
  <2>1. CASE k = 0
    BY <1>6, <2>1 DEF HeldTokens, Idle
  <2>2. CASE k # 0
    <3>1. call'.admitted = call.admitted \cup Granted(e, k = 1)
      BY <1>1, <1>6, <2>2 DEF Draining
    <3> QED
      BY <1>1, <1>6, <3>1 DEF HeldTokens
  <2> QED
    BY <2>1, <2>2
<1> QED
  BY <1>4, <1>5, <1>6, <1>7, DecisionExtendsLog

-----------------------------------------------------------------------------
(* Every step.                                                             *)

\* The log is extended by warranted records; a token that is new, and an event
\* newly in flight, is backed by the log as it is after the step.
LEMMA StepFacts ==
  ASSUME TypeOK, [Next]_vars
  PROVE  /\ ExtendsLog
         /\ \A t \in HeldTokens' \ HeldTokens :
              t.policy \in DOMAIN log' /\ log'[t.policy] = Decision(t.event, TRUE)
         /\ \A q \in Plugins : \A e \in inflight'[q] :
              \/ e \in inflight[q]
              \/ \E j \in DOMAIN log' : log'[j] = SendAttempted(q, e)
<1> DEFINE NoNewTokens == HeldTokens' \subseteq HeldTokens
           NewBacked == \A t \in HeldTokens' \ HeldTokens :
             t.policy \in DOMAIN log' /\ log'[t.policy] = Decision(t.event, TRUE)
           NoneSent == inflight' = inflight
           SentLogged == \A q \in Plugins : \A e \in inflight'[q] :
             \/ e \in inflight[q]
             \/ \E j \in DOMAIN log' : log'[j] = SendAttempted(q, e)
<1> USE DEF Ready, Idle, HeldTokens, sidecarVars, authorityVars
<1>1. CASE UNCHANGED vars
  BY <1>1, UnchangedExtendsLog DEF vars
<1>2. CASE RegisterPlugins
  <2>1. ExtendsLog
    BY <1>2, UnchangedExtendsLog DEF RegisterPlugins
  <2> QED
    BY <1>2, <2>1 DEF RegisterPlugins
<1>3. CASE RegisterNext
  <2>1. ExtendsLog
    BY <1>3, LifecycleExtendsLog
  <2>2. call \in Registering
    BY <1>3 DEF RegisterNext, TypeOK, Draining
  <2>3. call'.op # "drain"
    BY <1>3, <2>2 DEF RegisterNext, Registering
  <2> QED
    BY <1>3, <2>1, <2>3 DEF RegisterNext
<1>4. CASE RegisterReturn
  <2>1. ExtendsLog
    BY <1>4, UnchangedExtendsLog DEF RegisterReturn
  <2> QED
    BY <1>4, <2>1 DEF RegisterReturn
<1>5. ASSUME NEW n \in 0 .. Len(SchemaFiles), RegisterSchemas(n)
      PROVE  ExtendsLog /\ NewBacked /\ SentLogged
  <2>1. ExtendsLog
    BY <1>5, UnchangedExtendsLog DEF RegisterSchemas
  <2> QED
    BY <1>5, <2>1 DEF RegisterSchemas
<1>6. ASSUME NEW e \in Envelopes, AdmitEvent(e)
      PROVE  ExtendsLog /\ NewBacked /\ SentLogged
  <2>1. HeldTokens' \ HeldTokens \subseteq tokens' \ tokens
    BY <1>6 DEF AdmitEvent
  <2> QED
    BY <1>6, <2>1, AdmitEventExtendsLog DEF AdmitEvent
<1>7. ASSUME NEW t \in tokens, PublishAdmitted(t)
      PROVE  ExtendsLog /\ NewBacked /\ SentLogged
  BY <1>7, PublishAdmittedExtendsLog DEF PublishAdmitted
<1>8. ASSUME NEW p \in Plugins, NEW t \in tokens, SendToPlugin(p, t)
      PROVE  ExtendsLog /\ NewBacked /\ SentLogged
  BY <1>8, SendToPluginExtendsLog DEF SendToPlugin
<1>9. ASSUME NEW p \in Plugins,
             \/ \E to \in {"Starting", "Stopping"} : RefuseTransition(p, to)
             \/ StartPlugin(p) \/ StopPlugin(p)
      PROVE  ExtendsLog /\ NewBacked /\ SentLogged
  BY <1>9, LifecycleExtendsLog DEF RefuseTransition, StartPlugin, StopPlugin
<1>10. ASSUME NEW p \in Plugins, NEW m \in 0 .. Len(stderr[p]), DrainBegin(p, m)
       PROVE  ExtendsLog /\ NewBacked /\ SentLogged
  <2>1. ExtendsLog
    BY <1>10, UnchangedExtendsLog DEF DrainBegin
  <2> QED
    BY <1>10, <2>1 DEF DrainBegin
<1>11. ASSUME NEW p \in Plugins,
              (\E c \in Candidate : SidecarWrites(p, c)) \/ SidecarComplains(p)
       PROVE  ExtendsLog /\ NewBacked /\ SentLogged
  <2>1. UNCHANGED <<log, tokens, inflight, call>>
    BY <1>11 DEF SidecarWrites, SidecarComplains
  <2> QED
    BY <2>1, UnchangedExtendsLog
<1>12. CASE DrainEvidence
  <2>1. call \in Draining
    BY <1>12, DrainingCall DEF DrainEvidence
  <2>2. NoNewTokens
    BY <1>12, <2>1 DEF DrainEvidence, Draining
  <2> QED
    BY <1>12, <2>2, DrainRecordsExtendLog DEF DrainEvidence
<1>13. CASE DrainRefused
  <2>1. call \in Draining
    BY <1>13, DrainingCall DEF DrainRefused
  <2>2. NoNewTokens
    BY <1>13, <2>1 DEF DrainRefused, Draining
  <2> QED
    BY <1>13, <2>2, DrainRecordsExtendLog DEF DrainRefused
<1>14. CASE DrainReturn
  <2>1. ExtendsLog
    BY <1>14, UnchangedExtendsLog DEF DrainReturn
  <2> QED
    BY <1>14, <2>1 DEF DrainReturn
<1>15. ASSUME NEW e, DrainAdmission(e)
       PROVE  ExtendsLog /\ NewBacked /\ SentLogged
  BY <1>15, DrainAdmissionExtendsLog DEF DrainAdmission
<1>16. ASSUME NEW valid \in BOOLEAN, NEW extra \in {0, 1}, SealRun(valid, extra)
       PROVE  ExtendsLog /\ NewBacked /\ SentLogged
  <2>1. ExtendsLog
    BY <1>16, UnchangedExtendsLog DEF SealRun
  <2> QED
    BY <1>16, <2>1 DEF SealRun
<1> QED
  BY <1>1, <1>2, <1>3, <1>4, <1>5, <1>6, <1>7, <1>8, <1>9, <1>10, <1>11, <1>12,
     <1>13, <1>14, <1>15, <1>16 DEF Next

-----------------------------------------------------------------------------
(* The invariant.                                                          *)

LEMMA InitAuthority == Init => AuthorityInv
BY DEF Init, AuthorityInv, TokensBacked, PublishedWasAdmitted, SentWasAdmitted,
       HeldTokens, Idle

LEMMA NextAuthority == TypeOK /\ AuthorityInv /\ [Next]_vars => AuthorityInv'
<1> SUFFICES ASSUME TypeOK, AuthorityInv, [Next]_vars PROVE AuthorityInv'
  OBVIOUS
<1> DEFINE AdmittedAfter(i, e) == i \in DOMAIN log' /\ log'[i] = Decision(e, TRUE)
<1>1. /\ log \in Seq(Record) /\ log' \in Seq(Record)
      /\ Len(log) \in Nat /\ Len(log') \in Nat /\ Len(log) <= Len(log')
      /\ DOMAIN log = 1 .. Len(log) /\ DOMAIN log' = 1 .. Len(log')
      /\ \A i \in 1 .. Len(log) : log'[i] = log[i]
  <2>1. ExtendsLog
    BY StepFacts
  <2>2. log \in Seq(Record)
    BY DEF TypeOK
  <2> QED
    BY <2>1, <2>2 DEF ExtendsLog
<1>2. ASSUME NEW i \in DOMAIN log', i > Len(log) PROVE Warranted(log'[i])
  <2>1. ExtendsLog
    BY StepFacts
  <2>2. i \in (Len(log) + 1) .. Len(log')
    BY <1>1, <1>2
  <2> QED
    BY <2>1, <2>2 DEF ExtendsLog
\* Every token, held before the step or new, is backed after it.
<1>3. \A t \in HeldTokens' : AdmittedAfter(t.policy, t.event)
  <2> SUFFICES ASSUME NEW t \in HeldTokens' PROVE AdmittedAfter(t.policy, t.event)
    OBVIOUS
  <2>1. CASE t \in HeldTokens
    BY <1>1, <2>1 DEF AuthorityInv, AdmittedAt, Decision
  <2>2. CASE t \notin HeldTokens
    BY <2>2, StepFacts DEF AdmittedAt, Decision
  <2> QED
    BY <2>1, <2>2
<1>4. \A p \in Plugins : \A e \in inflight'[p] :
        \E j \in DOMAIN log' : log'[j] = SendAttempted(p, e)
  <2> SUFFICES ASSUME NEW p \in Plugins, NEW e \in inflight'[p]
               PROVE  \E j \in DOMAIN log' : log'[j] = SendAttempted(p, e)
    OBVIOUS
  <2>1. CASE e \in inflight[p]
    BY <1>1, <2>1 DEF AuthorityInv
  <2>2. CASE e \notin inflight[p]
    BY <2>2, StepFacts
  <2> QED
    BY <2>1, <2>2
<1>5. TokensBacked'
  <2>1. tokens' \subseteq HeldTokens'
    BY DEF HeldTokens
  <2> QED
    BY <1>3, <2>1 DEF TokensBacked, AdmittedAt, Decision
\* A token held before the step is backed by a record before the step's own.
<1>6. ASSUME NEW t \in tokens
      PROVE  t.policy \in 1 .. Len(log) /\ AdmittedAfter(t.policy, t.event)
  <2>1. t.policy \in DOMAIN log /\ log[t.policy] = Decision(t.event, TRUE)
    BY DEF AuthorityInv, TokensBacked, AdmittedAt
  <2> QED
    BY <1>1, <2>1 DEF AdmittedAt, Decision
<1>7. ASSUME NEW i \in DOMAIN log'
      PROVE  i \in 1 .. Len(log) \/ (i \in Nat /\ i > Len(log))
  BY <1>1
<1>8. ASSUME NEW j \in DOMAIN log
      PROVE  j \in 1 .. Len(log) /\ j \in DOMAIN log' /\ log'[j] = log[j]
  BY <1>1
<1> HIDE DEF AdmittedAfter
<1>9. PublishedWasAdmitted'
  <2> SUFFICES ASSUME NEW i \in DOMAIN log', log'[i].kind = "published"
               PROVE  /\ log'[i].policy < i
                      /\ AdmittedAfter(log'[i].policy, log'[i].event)
    BY DEF PublishedWasAdmitted, AdmittedAt, AdmittedAfter, Decision
  <2>1. CASE i \in 1 .. Len(log)
    <3>1. /\ log[i].policy < i /\ log'[i] = log[i]
          /\ log[i].policy \in DOMAIN log
          /\ log[log[i].policy] = Decision(log[i].event, TRUE)
      BY <1>1, <2>1 DEF AuthorityInv, PublishedWasAdmitted, AdmittedAt
    <3>2. /\ log[i].policy \in DOMAIN log'
          /\ log'[log[i].policy] = log[log[i].policy]
      BY <1>8, <3>1
    <3>3. AdmittedAfter(log[i].policy, log[i].event)
      BY <3>1, <3>2 DEF AdmittedAfter
    <3> QED
      BY <3>1, <3>3
  <2>2. CASE i > Len(log)
    <3>1. PICK t \in tokens : log'[i] = Published(t)
      BY <1>2, <2>2 DEF Warranted
    <3>2. log'[i].policy = t.policy /\ log'[i].event = t.event
      BY <3>1 DEF Published
    <3> QED
      <4>1. t.policy \in 1 .. Len(log) /\ AdmittedAfter(t.policy, t.event)
        BY <1>6
      <4>2. t.policy < i
        BY <1>1, <1>7, <2>2, <4>1
      <4> QED
        BY <3>2, <4>1, <4>2
  <2> QED
    BY <1>7, <2>1, <2>2
<1>10. SentWasAdmitted'
  <2> SUFFICES ASSUME NEW i \in DOMAIN log', log'[i].kind = "send_attempted"
               PROVE  \E j \in 1 .. (i - 1) : AdmittedAfter(j, log'[i].event)
    BY DEF SentWasAdmitted, AdmittedAt, AdmittedAfter, Decision
  <2>1. CASE i \in 1 .. Len(log)
    <3>1. PICK j \in 1 .. (i - 1) : AdmittedAt(j, log[i].event)
      BY <1>1, <2>1 DEF AuthorityInv, SentWasAdmitted
    <3>2. j \in 1 .. Len(log) /\ log[j] = Decision(log[i].event, TRUE)
      BY <1>1, <2>1, <3>1 DEF AdmittedAt
    <3>3. j \in DOMAIN log' /\ log'[j] = log[j] /\ log'[i] = log[i]
      <4>1. i \in DOMAIN log /\ j \in DOMAIN log
        BY <1>1, <2>1, <3>2
      <4> QED
        BY <1>8, <4>1
    <3>4. AdmittedAfter(j, log'[i].event)
      BY <3>2, <3>3 DEF AdmittedAfter
    <3> QED
      BY <3>4
  <2>2. CASE i > Len(log)
    <3>1. PICK t \in tokens : log'[i].event = t.event
      BY <1>2, <2>2 DEF Warranted
    <3> QED
      <4>1. t.policy \in 1 .. Len(log) /\ AdmittedAfter(t.policy, t.event)
        BY <1>6
      <4>2. t.policy \in 1 .. (i - 1)
        BY <1>1, <1>7, <2>2, <4>1
      <4> QED
        BY <3>1, <4>1, <4>2
  <2> QED
    BY <1>7, <2>1, <2>2
<1> QED
  BY <1>3, <1>4, <1>5, <1>9, <1>10
     DEF AuthorityInv, AdmittedAfter, AdmittedAt, Decision, SendAttempted

\* The invariant behind the theorems below, with the types it needs.
THEOREM AuthorityCorrect == Spec => []AuthorityInv
<1> QED
  BY InitTypeOK, NextTypeOK, InitAuthority, NextAuthority, PTL DEF Spec

\* Whatever append failed, a token a caller holds is backed by the record that
\* admitted its event (admit_and_record returns it after the append).
THEOREM TokensAreBacked == Spec => []TokensBacked
<1>1. AuthorityInv => TokensBacked
  BY DEF AuthorityInv
<1> QED
  BY <1>1, AuthorityCorrect, PTL

\* The central invariant of the station: nothing is published that was not
\* admitted by policy and recorded as admitted before (publish_admitted).
THEOREM PublishedIsAdmitted == Spec => []PublishedWasAdmitted
<1>1. AuthorityInv => PublishedWasAdmitted
  BY DEF AuthorityInv
<1> QED
  BY <1>1, AuthorityCorrect, PTL

\* Only admitted events reach a plugin (send_to_plugin).
THEOREM SentIsAdmitted == Spec => []SentWasAdmitted
<1>1. AuthorityInv => SentWasAdmitted
  BY DEF AuthorityInv
<1> QED
  BY <1>1, AuthorityCorrect, PTL

\* Whatever a step of a drain decides is an event of the plugin drained, and answers,
\* on its trace, a request that was sent to that very plugin before
\* (canonicalize_candidate_from_plugin).
LEMMA NextAnswers ==
  ASSUME TypeOK, AuthorityInv, [Next]_vars, call.op = "drain",
         NEW i \in (Len(log) + 1) .. Len(log'), log'[i].kind = "decision"
  PROVE  /\ log'[i].event.source = call.plugin
         /\ \E j \in DOMAIN log : IsRequest(log[j], call.plugin, log'[i].event)
<1>1. Warranted(log'[i])
  BY StepFacts DEF ExtendsLog
<1>2. log'[i].event.source = call.plugin
  BY <1>1 DEF Warranted
<1>3. PICK e \in inflight[call.plugin] :
        e.id = log'[i].event.parent /\ e.trace = log'[i].event.trace
  BY <1>1 DEF Warranted
<1>4. call.plugin \in Plugins
  BY DrainingCall
<1>5. PICK j \in DOMAIN log : log[j] = SendAttempted(call.plugin, e)
  BY <1>3, <1>4 DEF AuthorityInv
<1>6. IsRequest(log[j], call.plugin, log'[i].event)
  BY <1>3, <1>5 DEF IsRequest, SendAttempted
<1> QED
  BY <1>2, <1>6

\* A sidecar is heard only as the answer to what it was asked, whatever callers offer
\* in its name between drains and whichever append fails.
THEOREM AnswersAreCaused == Spec => SidecarCausality
<1> DEFINE Answered ==
      call.op = "drain" =>
        \A i \in (Len(log) + 1) .. Len(log') :
          log'[i].kind = "decision" =>
            /\ log'[i].event.source = call.plugin
            /\ \E j \in DOMAIN log : IsRequest(log[j], call.plugin, log'[i].event)
<1>1. TypeOK /\ AuthorityInv /\ [Next]_vars => Answered
  BY NextAnswers
<1>2. TypeOK /\ AuthorityInv /\ [Next]_vars => [Answered]_vars
  BY <1>1
<1>3. Spec => []TypeOK
  BY InitTypeOK, NextTypeOK, PTL DEF Spec
<1>4. Spec => [][Answered]_vars
  BY <1>2, <1>3, AuthorityCorrect, PTL DEF Spec
<1> QED
  BY <1>4 DEF SidecarCausality

-----------------------------------------------------------------------------
(* Permissions.                                                            *)

\* What the checks of a claim let through needs no permission withheld.
LEMMA PermittedNeeds ==
  ASSUME NEW p \in Plugins, ManifestPermitted(p), NEW c \in DOMAIN Claims[p],
         Claims[p][c].enabled, NEW n \in Needs(Claims[p][c])
  PROVE  Permissions[n]
<1> DEFINE claim == Claims[p][c]
<1>1. AllPass(ClaimChecks(claim))
  BY DEF ManifestPermitted, ClaimPermitted
<1>2. /\ ~(claim.network /\ ~Permissions.network)
      /\ ~(claim.filesystem /\ ~Permissions.filesystem)
      /\ ~(claim.gpu /\ ~Permissions.gpu)
      /\ ~(claim.projection_only /\ ~Permissions.projection_only)
      /\ ~(~claim.deterministic /\ ~Permissions.nondeterministic)
  <2> DEFINE checks == ClaimChecks(claim)
  <2>1. /\ checks[1].fails = (claim.network /\ ~Permissions.network)
        /\ checks[2].fails = (claim.filesystem /\ ~Permissions.filesystem)
        /\ checks[3].fails = (claim.gpu /\ ~Permissions.gpu)
        /\ checks[4].fails = (claim.projection_only /\ ~Permissions.projection_only)
        /\ checks[5].fails = (~claim.deterministic /\ ~Permissions.nondeterministic)
    BY DEF ClaimChecks
  <2>2. DOMAIN checks = 1 .. 5
    BY DEF ClaimChecks
  <2>3. \A i \in 1 .. 5 : ~checks[i].fails
    BY <1>1, <2>2 DEF AllPass
  <2>4. 1 \in 1 .. 5 /\ 2 \in 1 .. 5 /\ 3 \in 1 .. 5 /\ 4 \in 1 .. 5 /\ 5 \in 1 .. 5
    OBVIOUS
  <2> HIDE DEF checks
  <2> QED
    BY <2>1, <2>3, <2>4, Zenon
<1>3. Permissions \in PermissionRecord
  BY RulesAssumption DEF RulesAssumption
<1> HIDE DEF claim
<1> QED
  BY <1>2, <1>3 DEF Needs, PermissionRecord, claim

LEMMA NextPermissions ==
  TypeOK /\ StartedWithinPermissions /\ [Next]_vars => StartedWithinPermissions'
<1> SUFFICES ASSUME TypeOK, StartedWithinPermissions, [Next]_vars,
                    NEW i \in DOMAIN log', log'[i].kind = "lifecycle",
                    log'[i].state \in {"Starting", "Running"},
                    NEW c \in DOMAIN Claims[log'[i].plugin],
                    Claims[log'[i].plugin][c].enabled,
                    NEW n \in Needs(Claims[log'[i].plugin][c])
             PROVE  Permissions[n]
  BY DEF StartedWithinPermissions
<1>1. ExtendsLog
  BY StepFacts
<1>2. log \in Seq(Record)
  BY DEF TypeOK
<1>3. CASE i \in 1 .. Len(log)
  <2>1. i \in DOMAIN log /\ log'[i] = log[i]
    BY <1>1, <1>2, <1>3 DEF ExtendsLog
  <2> QED
    BY <2>1 DEF StartedWithinPermissions
<1>4. CASE i \in (Len(log) + 1) .. Len(log')
  <2>1. ManifestPermitted(log'[i].plugin)
    BY <1>1, <1>4 DEF ExtendsLog, Warranted
  <2>2. log'[i].plugin \in Plugins
    <3>1. log'[i] \in Record
      BY <1>1 DEF ExtendsLog
    <3> QED
      BY <3>1 DEF Record
  <2> QED
    BY <2>1, <2>2, PermittedNeeds
<1> QED
  BY <1>1, <1>2, <1>3, <1>4 DEF ExtendsLog

\* On no path does the log show a plugin starting or running whose enabled
\* claims need a permission the profile withholds (StationSupervisor::transition).
THEOREM PermissionsRespected == Spec => []StartedWithinPermissions
<1>1. Init => StartedWithinPermissions
  BY DEF Init, StartedWithinPermissions
<1> QED
  BY <1>1, InitTypeOK, NextTypeOK, NextPermissions, PTL DEF Spec

-----------------------------------------------------------------------------
(* The contract.                                                           *)

-----------------------------------------------------------------------------
(* What an append changes of what the contract sees.                        *)

Admission(r) == r.kind = "decision" /\ r.allowed
Asking(r, p) == r.kind = "send_attempted" /\ r.plugin = p
Publication(r) == r.kind = "published"

Quiet(r) == ~Admission(r) /\ r.kind # "send_attempted" /\ ~Publication(r)

\* The log part of what the contract sees stays the same.
LogUnseen ==
  /\ AdmittedEvents' = AdmittedEvents
  /\ \A p \in Plugins : AskedEvents(p)' = AskedEvents(p)
  /\ PublishedEvents' = PublishedEvents

\* Record r shows that e was admitted, or sent to p, or published.
Shows(r, what, p, e) ==
  /\ r.event = e
  /\ \/ what = "admitted" /\ Admission(r)
     \/ what = "asked" /\ Asking(r, p)
     \/ what = "published" /\ Publication(r)

LEMMA SeenEvents ==
  ASSUME log \in Seq(Record)
  PROVE  /\ \A e : e \in AdmittedEvents <=>
                     \E i \in 1 .. Len(log) : Admission(log[i]) /\ log[i].event = e
         /\ \A p, e : e \in AskedEvents(p) <=>
                     \E i \in 1 .. Len(log) : Asking(log[i], p) /\ log[i].event = e
         /\ \A e : e \in PublishedEvents <=>
                     \E i \in 1 .. Len(log) : Publication(log[i]) /\ log[i].event = e
BY DEF AdmittedEvents, AskedEvents, PublishedEvents, Admission, Asking, Publication

LEMMA SeenEventsAfter ==
  ASSUME log' \in Seq(Record)
  PROVE  /\ \A e : e \in AdmittedEvents' <=>
                     \E i \in 1 .. Len(log') : Admission(log'[i]) /\ log'[i].event = e
         /\ \A p, e : e \in AskedEvents(p)' <=>
                     \E i \in 1 .. Len(log') : Asking(log'[i], p) /\ log'[i].event = e
         /\ \A e : e \in PublishedEvents' <=>
                     \E i \in 1 .. Len(log') : Publication(log'[i]) /\ log'[i].event = e
BY DEF AdmittedEvents, AskedEvents, PublishedEvents, Admission, Asking, Publication

\* After an append the log shows what it showed before and what the records
\* appended show.
LEMMA AppendShows ==
  ASSUME TypeOK, NEW recs \in Seq(Record), NEW k, Append_k(recs, k),
         NEW what, NEW p, NEW e
  PROVE  /\ (\E i \in 1 .. Len(log') : Shows(log'[i], what, p, e)) <=>
              \/ \E i \in 1 .. Len(log) : Shows(log[i], what, p, e)
              \/ \E i \in 1 .. k : Shows(recs[i], what, p, e)
         /\ log \in Seq(Record) /\ log' \in Seq(Record) /\ k \in 0 .. Len(recs)
<1>1. log \in Seq(Record)
  BY DEF TypeOK
<1>2. /\ log' \in Seq(Record)
      /\ Len(log') = Len(log) + k
      /\ \A i \in 1 .. Len(log) : log'[i] = log[i]
      /\ \A i \in 1 .. k : log'[Len(log) + i] = recs[i]
      /\ k \in 0 .. Len(recs)
  BY <1>1, AppendExtends
<1>3. ASSUME NEW i \in 1 .. Len(log'), Shows(log'[i], what, p, e)
      PROVE  \/ \E j \in 1 .. Len(log) : Shows(log[j], what, p, e)
             \/ \E j \in 1 .. k : Shows(recs[j], what, p, e)
  <2>1. CASE i <= Len(log)
    BY <1>1, <1>2, <1>3, <2>1
  <2>2. CASE i > Len(log)
    <3>1. i - Len(log) \in 1 .. k /\ i = Len(log) + (i - Len(log))
      BY <1>1, <1>2, <2>2
    <3> QED
      BY <1>2, <1>3, <3>1
  <2> QED
    BY <1>1, <1>2, <2>1, <2>2
<1>4. ASSUME NEW i \in 1 .. Len(log), Shows(log[i], what, p, e)
      PROVE  \E j \in 1 .. Len(log') : Shows(log'[j], what, p, e)
  <2>1. i \in 1 .. Len(log') /\ log'[i] = log[i]
    BY <1>1, <1>2
  <2> QED
    BY <1>4, <2>1
<1>5. ASSUME NEW i \in 1 .. k, Shows(recs[i], what, p, e)
      PROVE  \E j \in 1 .. Len(log') : Shows(log'[j], what, p, e)
  <2>1. Len(log) + i \in 1 .. Len(log') /\ log'[Len(log) + i] = recs[i]
    BY <1>1, <1>2
  <2> QED
    BY <1>5, <2>1
<1> QED
  BY <1>1, <1>2, <1>3, <1>4, <1>5

\* What an append adds to what the contract sees.
LEMMA AppendSeen ==
  ASSUME TypeOK, NEW recs \in Seq(Record), NEW k, Append_k(recs, k)
  PROVE  /\ \A e : e \in AdmittedEvents' <=>
              \/ e \in AdmittedEvents
              \/ \E i \in 1 .. k : Admission(recs[i]) /\ recs[i].event = e
         /\ \A p, e : e \in AskedEvents(p)' <=>
              \/ e \in AskedEvents(p)
              \/ \E i \in 1 .. k : Asking(recs[i], p) /\ recs[i].event = e
         /\ \A e : e \in PublishedEvents' <=>
              \/ e \in PublishedEvents
              \/ \E i \in 1 .. k : Publication(recs[i]) /\ recs[i].event = e
         /\ k \in 0 .. Len(recs)
<1>1. log \in Seq(Record) /\ log' \in Seq(Record) /\ k \in 0 .. Len(recs)
  BY AppendShows
<1>2. ASSUME NEW e
      PROVE  e \in AdmittedEvents' <=>
               \/ e \in AdmittedEvents
               \/ \E i \in 1 .. k : Admission(recs[i]) /\ recs[i].event = e
  <2>1. (\E i \in 1 .. Len(log') : Shows(log'[i], "admitted", e, e)) <=>
          \/ \E i \in 1 .. Len(log) : Shows(log[i], "admitted", e, e)
          \/ \E i \in 1 .. k : Shows(recs[i], "admitted", e, e)
    BY AppendShows
  <2>2. \A r : Shows(r, "admitted", e, e) <=> Admission(r) /\ r.event = e
    BY DEF Shows
  <2>3. e \in AdmittedEvents' <=>
          \E i \in 1 .. Len(log') : Shows(log'[i], "admitted", e, e)
    BY <1>1, <2>2, SeenEventsAfter
  <2>4. e \in AdmittedEvents <=>
          \E i \in 1 .. Len(log) : Shows(log[i], "admitted", e, e)
    BY <1>1, <2>2, SeenEvents
  <2> QED
    BY <2>1, <2>2, <2>3, <2>4
<1>3. ASSUME NEW p, NEW e
      PROVE  e \in AskedEvents(p)' <=>
               \/ e \in AskedEvents(p)
               \/ \E i \in 1 .. k : Asking(recs[i], p) /\ recs[i].event = e
  <2>1. (\E i \in 1 .. Len(log') : Shows(log'[i], "asked", p, e)) <=>
          \/ \E i \in 1 .. Len(log) : Shows(log[i], "asked", p, e)
          \/ \E i \in 1 .. k : Shows(recs[i], "asked", p, e)
    BY AppendShows
  <2>2. \A r : Shows(r, "asked", p, e) <=> Asking(r, p) /\ r.event = e
    BY DEF Shows
  <2>3. e \in AskedEvents(p)' <=>
          \E i \in 1 .. Len(log') : Shows(log'[i], "asked", p, e)
    BY <1>1, <2>2, SeenEventsAfter
  <2>4. e \in AskedEvents(p) <=>
          \E i \in 1 .. Len(log) : Shows(log[i], "asked", p, e)
    BY <1>1, <2>2, SeenEvents
  <2> QED
    BY <2>1, <2>2, <2>3, <2>4
<1>4. ASSUME NEW e
      PROVE  e \in PublishedEvents' <=>
               \/ e \in PublishedEvents
               \/ \E i \in 1 .. k : Publication(recs[i]) /\ recs[i].event = e
  <2>1. (\E i \in 1 .. Len(log') : Shows(log'[i], "published", e, e)) <=>
          \/ \E i \in 1 .. Len(log) : Shows(log[i], "published", e, e)
          \/ \E i \in 1 .. k : Shows(recs[i], "published", e, e)
    BY AppendShows
  <2>2. \A r : Shows(r, "published", e, e) <=> Publication(r) /\ r.event = e
    BY DEF Shows
  <2>3. e \in PublishedEvents' <=>
          \E i \in 1 .. Len(log') : Shows(log'[i], "published", e, e)
    BY <1>1, <2>2, SeenEventsAfter
  <2>4. e \in PublishedEvents <=>
          \E i \in 1 .. Len(log) : Shows(log[i], "published", e, e)
    BY <1>1, <2>2, SeenEvents
  <2> QED
    BY <2>1, <2>2, <2>3, <2>4
<1> QED
  BY <1>1, <1>2, <1>3, <1>4

LEMMA QuietAppend ==
  ASSUME TypeOK, NEW recs \in Seq(Record), \A i \in 1 .. Len(recs) : Quiet(recs[i]),
         NEW k, Append_k(recs, k)
  PROVE  LogUnseen
<1>1. k \in 0 .. Len(recs)
  BY AppendSeen
<1>2. ASSUME NEW i \in 1 .. k
      PROVE  /\ ~Admission(recs[i]) /\ ~Publication(recs[i])
             /\ \A p : ~Asking(recs[i], p)
  <2>1. i \in 1 .. Len(recs)
    BY <1>1
  <2> QED
    BY <2>1 DEF Quiet, Asking
<1>3. \A e : e \in AdmittedEvents' <=> e \in AdmittedEvents
  BY <1>2, AppendSeen
<1>4. \A p, e : e \in AskedEvents(p)' <=> e \in AskedEvents(p)
  BY <1>2, AppendSeen
<1>5. \A e : e \in PublishedEvents' <=> e \in PublishedEvents
  BY <1>2, AppendSeen
<1>6. AdmittedEvents' = AdmittedEvents /\ PublishedEvents' = PublishedEvents
  BY <1>3, <1>5
<1>7. ASSUME NEW p \in Plugins PROVE AskedEvents(p)' = AskedEvents(p)
  <2>1. \A e : e \in AskedEvents(p)' <=> e \in AskedEvents(p)
    BY <1>4
  <2> QED
    BY <2>1
<1> QED
  BY <1>6, <1>7 DEF LogUnseen

LEMMA SameLog == log' = log => LogUnseen
BY DEF LogUnseen, AdmittedEvents, AskedEvents, PublishedEvents

\* Evidence, lifecycle records and decisions that deny are quiet.
LEMMA PlainQuiet ==
  ASSUME NEW p, NEW x
  PROVE  /\ Quiet(Lifecycle(p, x)) /\ Quiet(RuntimeDenied(p, x))
         /\ Quiet(TransportFailed(p, x)) /\ Quiet(Evidence(p, x))
         /\ Quiet(SendSucceeded(p, x))
BY DEF Quiet, Admission, Publication, Lifecycle, RuntimeDenied, TransportFailed,
       Evidence, SendSucceeded

-----------------------------------------------------------------------------
(* The appends that the contract sees.                                     *)

\* A decision adds the event when it allows it and was appended.
LEMMA DecisionSeen ==
  ASSUME TypeOK, NEW e \in Event, NEW ok \in BOOLEAN, NEW k,
         Append_k(<<Decision(e, ok)>>, k)
  PROVE  /\ k = 1 /\ ok => AdmittedEvents' = AdmittedEvents \cup {e}
         /\ ~(k = 1 /\ ok) => AdmittedEvents' = AdmittedEvents
         /\ \A p \in Plugins : AskedEvents(p)' = AskedEvents(p)
         /\ PublishedEvents' = PublishedEvents
<1> DEFINE recs == <<Decision(e, ok)>>
<1>1. Decision(e, ok) \in Record
  BY EventRecordTypes
<1>2. recs \in Seq(Record) /\ Len(recs) = 1 /\ recs[1] = Decision(e, ok)
  BY <1>1
<1>3. Append_k(recs, k)
  OBVIOUS
<1>4. /\ Admission(Decision(e, ok)) <=> ok
      /\ \A p : ~Asking(Decision(e, ok), p)
      /\ ~Publication(Decision(e, ok))
      /\ Decision(e, ok).event = e
  BY Zenon DEF Admission, Asking, Publication, Decision
<1> HIDE DEF recs
<1>5. k \in 0 .. 1
  BY <1>2, <1>3, AppendSeen
<1>6. \A i \in 1 .. k : i = 1 /\ k = 1 /\ recs[i] = Decision(e, ok)
  BY <1>2, <1>5
<1>7. k = 1 => 1 \in 1 .. k
  OBVIOUS
<1>8. \A x : x \in AdmittedEvents' <=> x \in AdmittedEvents \/ (k = 1 /\ ok /\ x = e)
  BY <1>2, <1>3, <1>4, <1>6, <1>7, AppendSeen
<1>9. \A p, x : x \in AskedEvents(p)' <=> x \in AskedEvents(p)
  BY <1>2, <1>3, <1>4, <1>6, AppendSeen
<1>10. \A x : x \in PublishedEvents' <=> x \in PublishedEvents
  BY <1>2, <1>3, <1>4, <1>6, AppendSeen
<1>11. PublishedEvents' = PublishedEvents
  BY <1>10
<1>12. ASSUME NEW p \in Plugins PROVE AskedEvents(p)' = AskedEvents(p)
  <2>1. \A x : x \in AskedEvents(p)' <=> x \in AskedEvents(p)
    BY <1>9
  <2> QED
    BY <2>1
<1>13. k = 1 /\ ok => AdmittedEvents' = AdmittedEvents \cup {e}
  BY <1>8
<1>14. ~(k = 1 /\ ok) => AdmittedEvents' = AdmittedEvents
  BY <1>8
<1> QED
  BY <1>11, <1>12, <1>13, <1>14

LEMMA PublicationSeen ==
  ASSUME TypeOK, NEW t \in Token, NEW recs \in {<<Published(t)>>, <<>>}, NEW k,
         Append_k(recs, k)
  PROVE  /\ AdmittedEvents' = AdmittedEvents
         /\ \A p \in Plugins : AskedEvents(p)' = AskedEvents(p)
         /\ PublishedEvents' \in {PublishedEvents, PublishedEvents \cup {t.event}}
<1>1. Published(t) \in Record
  BY EventRecordTypes
<1>2. recs \in Seq(Record) /\ \A i \in 1 .. Len(recs) : recs[i] = Published(t)
  <2>1. CASE recs = <<Published(t)>>
    BY <1>1, <2>1
  <2>2. CASE recs = <<>>
    BY <2>2
  <2> QED
    BY <2>1, <2>2
<1>3. /\ ~Admission(Published(t)) /\ \A p : ~Asking(Published(t), p)
      /\ Published(t).event = t.event
  BY DEF Admission, Asking, Published
<1>4. k \in 0 .. Len(recs)
  BY <1>2, AppendSeen
<1>5. \A i \in 1 .. k : recs[i] = Published(t)
  BY <1>2, <1>4
<1>6. \A x : x \in AdmittedEvents' <=> x \in AdmittedEvents
  BY <1>2, <1>3, <1>5, AppendSeen
<1>7. \A p, x : x \in AskedEvents(p)' <=> x \in AskedEvents(p)
  BY <1>2, <1>3, <1>5, AppendSeen
<1>8. \A x : x \in PublishedEvents' <=>
               \/ x \in PublishedEvents
               \/ \E i \in 1 .. k : Publication(recs[i]) /\ recs[i].event = x
  BY <1>2, AppendSeen
<1>9. PublishedEvents' \in {PublishedEvents, PublishedEvents \cup {t.event}}
  <2>1. CASE \E i \in 1 .. k : Publication(recs[i])
    <3>1. \A x : (\E i \in 1 .. k : Publication(recs[i]) /\ recs[i].event = x)
                   <=> x = t.event
      BY <1>3, <1>5, <2>1
    <3>2. \A x : x \in PublishedEvents' <=> x \in PublishedEvents \cup {t.event}
      BY <1>8, <3>1
    <3>3. PublishedEvents' = PublishedEvents \cup {t.event}
      BY <3>2
    <3> QED
      BY <3>3
  <2>2. CASE ~\E i \in 1 .. k : Publication(recs[i])
    <3>1. \A x : x \in PublishedEvents' <=> x \in PublishedEvents
      BY <1>8, <2>2
    <3>2. PublishedEvents' = PublishedEvents
      BY <3>1
    <3> QED
      BY <3>2
  <2> QED
    BY <2>1, <2>2
<1>10. AdmittedEvents' = AdmittedEvents
  BY <1>6
<1>11. ASSUME NEW p \in Plugins PROVE AskedEvents(p)' = AskedEvents(p)
  <2>1. \A x : x \in AskedEvents(p)' <=> x \in AskedEvents(p)
    BY <1>7
  <2> QED
    BY <2>1
<1> QED
  BY <1>9, <1>10, <1>11

\* A send adds the event when its first record was appended.
LEMMA SendSeen ==
  ASSUME TypeOK, NEW p \in Plugins, NEW e \in Event, NEW r \in Record, Quiet(r),
         NEW k, Append_k(<<SendAttempted(p, e), r>>, k)
  PROVE  /\ AdmittedEvents' = AdmittedEvents
         /\ PublishedEvents' = PublishedEvents
         /\ \A q \in Plugins :
              AskedEvents(q)' = IF q = p /\ k > 0 THEN AskedEvents(q) \cup {e}
                                                 ELSE AskedEvents(q)
         /\ k \in 0 .. 2
<1> DEFINE recs == <<SendAttempted(p, e), r>>
<1>1. SendAttempted(p, e) \in Record
  BY EventRecordTypes
<1>2. /\ recs \in Seq(Record) /\ Len(recs) = 2
      /\ recs[1] = SendAttempted(p, e) /\ recs[2] = r
  BY <1>1
<1>3. Append_k(recs, k)
  OBVIOUS
<1>4. /\ ~Admission(recs[1]) /\ ~Publication(recs[1]) /\ recs[1].event = e
      /\ \A q : Asking(recs[1], q) <=> q = p
  <2>1. /\ ~Admission(SendAttempted(p, e)) /\ ~Publication(SendAttempted(p, e))
        /\ SendAttempted(p, e).event = e
        /\ \A q : Asking(SendAttempted(p, e), q) <=> q = p
    BY DEF Admission, Publication, Asking, SendAttempted
  <2> QED
    BY <1>2, <2>1
<1>5. ~Admission(recs[2]) /\ ~Publication(recs[2]) /\ \A q : ~Asking(recs[2], q)
  BY <1>2 DEF Quiet, Asking
<1> HIDE DEF recs
<1>6. k \in 0 .. 2
  BY <1>2, <1>3, AppendSeen
<1>7. \A i \in 1 .. k : i = 1 \/ i = 2
  BY <1>6
<1>8. k > 0 <=> 1 \in 1 .. k
  BY <1>6
<1>9. \A x : x \in AdmittedEvents' <=> x \in AdmittedEvents
  BY <1>2, <1>3, <1>4, <1>5, <1>7, AppendSeen
<1>10. \A x : x \in PublishedEvents' <=> x \in PublishedEvents
  BY <1>2, <1>3, <1>4, <1>5, <1>7, AppendSeen
<1>11. \A q, x : x \in AskedEvents(q)' <=>
                   x \in AskedEvents(q) \/ (q = p /\ k > 0 /\ x = e)
  BY <1>2, <1>3, <1>4, <1>5, <1>7, <1>8, AppendSeen
<1>12. AdmittedEvents' = AdmittedEvents /\ PublishedEvents' = PublishedEvents
  BY <1>9, <1>10
<1>13. ASSUME NEW q \in Plugins
       PROVE  AskedEvents(q)' = IF q = p /\ k > 0 THEN AskedEvents(q) \cup {e}
                                                  ELSE AskedEvents(q)
  <2>1. \A x : x \in AskedEvents(q)' <=>
                 x \in AskedEvents(q) \/ (q = p /\ k > 0 /\ x = e)
    BY <1>11
  <2>2. CASE q = p /\ k > 0
    <3>1. \A x : x \in AskedEvents(q)' <=> x \in AskedEvents(q) \cup {e}
      BY <2>1, <2>2
    <3>2. AskedEvents(q)' = AskedEvents(q) \cup {e}
      BY <3>1
    <3> QED
      BY <2>2, <3>2
  <2>3. CASE ~(q = p /\ k > 0)
    <3>1. \A x : x \in AskedEvents(q)' <=> x \in AskedEvents(q)
      BY <2>1, <2>3
    <3>2. AskedEvents(q)' = AskedEvents(q)
      BY <3>1
    <3> QED
      BY <2>3, <3>2
  <2> QED
    BY <2>2, <2>3
<1> QED
  BY <1>6, <1>12, <1>13

-----------------------------------------------------------------------------
(* Steps.                                                                  *)

\* A sealed run has no method in progress: seal_run consumes the runtime.
SealedIdle == manifest # Unsealed => call = Idle

LEMMA NextSealedIdle == SealedIdle /\ [Next]_vars => SealedIdle'
<1> USE DEF SealedIdle, Ready, Idle
<1>1. ASSUME SealedIdle, RegisterPlugins \/ RegisterNext \/ RegisterReturn
      PROVE  SealedIdle'
  BY <1>1 DEF RegisterPlugins, RegisterNext, RegisterReturn
<1>2. ASSUME SealedIdle, NEW n, RegisterSchemas(n) PROVE SealedIdle'
  BY <1>2 DEF RegisterSchemas
<1>3. ASSUME SealedIdle, NEW e, AdmitEvent(e) \/ PublishAdmitted(e) PROVE SealedIdle'
  BY <1>3 DEF AdmitEvent, PublishAdmitted
<1>4. ASSUME SealedIdle, NEW p, NEW x,
             \/ RefuseTransition(p, x) \/ StartPlugin(p) \/ StopPlugin(p)
             \/ SendToPlugin(p, x) \/ DrainBegin(p, x)
      PROVE  SealedIdle'
  BY <1>4 DEF RefuseTransition, StartPlugin, StopPlugin, SendToPlugin, DrainBegin
<1>5. ASSUME SealedIdle, NEW p, NEW c, SidecarWrites(p, c) \/ SidecarComplains(p)
      PROVE  SealedIdle'
  BY <1>5 DEF SidecarWrites, SidecarComplains
<1>6. ASSUME SealedIdle, DrainEvidence \/ DrainRefused \/ DrainReturn
      PROVE  SealedIdle'
  BY <1>6 DEF DrainEvidence, DrainRefused, DrainReturn
<1>7. ASSUME SealedIdle, NEW e, DrainAdmission(e) PROVE SealedIdle'
  BY <1>7 DEF DrainAdmission
<1>8. ASSUME SealedIdle, NEW valid, NEW extra, SealRun(valid, extra) PROVE SealedIdle'
  BY <1>8 DEF SealRun
<1>9. ASSUME SealedIdle, UNCHANGED vars PROVE SealedIdle'
  BY <1>9 DEF vars
<1> HIDE DEF SealedIdle, Ready, Idle
<1> QED
  BY <1>1, <1>2, <1>3, <1>4, <1>5, <1>6, <1>7, <1>8, <1>9 DEF Next

\* A step of the kernel that is a step of the contract, or none.
Keeps == [Contract!Next]_(Contract!vars)

\* What the contract sees beside the log.
SameRun == RunningPlugins' = RunningPlugins
SameArtifacts == ArtifactEvents' = ArtifactEvents
SameHeard == Heard' = Heard

\* No plugin begins to be heard.
NoneHeard == SameHeard \/ Heard' = {}

LEMMA SameParts ==
  /\ pstate' = pstate => SameRun
  /\ ledger' = ledger => SameArtifacts
  /\ manifest' = manifest => ClosureEvents' = ClosureEvents
  /\ call' = call => SameHeard
BY DEF SameRun, SameArtifacts, SameHeard, RunningPlugins, ArtifactEvents, Heard,
       ClosureEvents

\* A method that is not a drain hears no plugin.
LEMMA HeardParts ==
  /\ Ready => Heard = {}
  /\ call' = call => NoneHeard
  /\ call'.op # "drain" => NoneHeard
BY DEF Ready, Idle, Heard, SameHeard, NoneHeard

\* A drain that goes on hears the same plugin.
LEMMA DrainGoesOn ==
  ASSUME call \in Draining, NEW x, NEW y,
         \/ call' = [call EXCEPT !.evidence = x]
         \/ call' = [call EXCEPT !.candidates = x]
         \/ call' = [call EXCEPT !.candidates = x, !.admitted = y]
  PROVE  SameHeard
<1>1. call'.op = call.op /\ call'.plugin = call.plugin
  BY DEF Draining
<1> QED
  BY <1>1 DEF SameHeard, Heard

LEMMA UnseenKeeps ==
  ASSUME SameRun, LogUnseen, SameArtifacts, NoneHeard, manifest' = manifest
  PROVE  Keeps
<1>1. ClosureEvents' = ClosureEvents
  BY SameParts
<1>2. CASE SameHeard
  BY <1>1, <1>2
     DEF Keeps, Contract!vars, SameRun, LogUnseen, SameArtifacts, SameHeard
<1>3. CASE ~SameHeard
  <2>1. Heard # {} /\ Heard' = {}
    BY <1>3 DEF NoneHeard, SameHeard
  <2>2. Contract!TurnsAway
    BY <1>1, <2>1 DEF Contract!TurnsAway, SameRun, LogUnseen, SameArtifacts
  <2> QED
    BY <2>2 DEF Keeps, Contract!Next
<1> QED
  BY <1>2, <1>3

\* Steps that leave the supervisor, the log, the ledger and the manifest alone.
LEMMA OtherwiseKeeps ==
  ASSUME UNCHANGED <<pstate, log, ledger, manifest>>, NoneHeard
  PROVE  Keeps
BY SameParts, SameLog, UnseenKeeps

LEMMA QuietKeeps ==
  ASSUME TypeOK, NEW recs \in Seq(Record), \A i \in 1 .. Len(recs) : Quiet(recs[i]),
         NEW k, Append_k(recs, k), UNCHANGED <<pstate, ledger, manifest>>, NoneHeard
  PROVE  Keeps
BY SameParts, QuietAppend, UnseenKeeps

\* A plugin that moves through states in which it does not run.
LEMMA MoveAside ==
  ASSUME TypeOK, NEW p \in Plugins, NEW s, s # "Running", pstate[p] # "Running",
         pstate' = [pstate EXCEPT ![p] = s]
  PROVE  SameRun
<1>1. pstate \in [Plugins -> LifecycleStates]
  BY DEF TypeOK
<1>2. ASSUME NEW q \in Plugins PROVE pstate'[q] = "Running" <=> pstate[q] = "Running"
  BY <1>1
<1> QED
  BY <1>2 DEF SameRun, RunningPlugins

\* The records of a move through two states, with quiet ones between, are quiet.
LEMMA TraverseQuiet ==
  ASSUME TypeOK, NEW p \in Plugins, NEW entry \in RuntimeStates,
         NEW exit \in RuntimeStates, NEW between \in Seq(Record),
         \A i \in 1 .. Len(between) : Quiet(between[i]),
         NEW k, Traverse(p, entry, between, exit, k)
  PROVE  /\ LogUnseen
         /\ k > Len(between) => pstate' = [pstate EXCEPT ![p] = exit]
         /\ ~(k > Len(between)) => pstate' = [pstate EXCEPT ![p] = entry]
<1> DEFINE recs == <<Lifecycle(p, entry)>> \o between \o <<Lifecycle(p, exit)>>
<1>1. /\ Lifecycle(p, entry) \in Record /\ Quiet(Lifecycle(p, entry))
      /\ Lifecycle(p, exit) \in Record /\ Quiet(Lifecycle(p, exit))
  BY PluginRecordTypes, PlainQuiet
<1>2. recs \in Seq(Record) /\ Len(recs) = Len(between) + 2
  BY <1>1
<1>3. ASSUME NEW i \in 1 .. Len(recs) PROVE Quiet(recs[i])
  <2>1. recs[i] = IF i = 1 THEN Lifecycle(p, entry)
                  ELSE IF i = Len(between) + 2 THEN Lifecycle(p, exit)
                  ELSE between[i - 1]
    BY <1>1, <1>2
  <2>2. i # 1 /\ i # Len(between) + 2 => i - 1 \in 1 .. Len(between)
    BY <1>2
  <2> HIDE DEF recs
  <2> QED
    BY <1>1, <2>1, <2>2
<1>4. Append_k(recs, k)
  BY DEF Traverse
<1> HIDE DEF recs
<1>5. LogUnseen
  BY <1>2, <1>3, <1>4, QuietAppend
<1>6. /\ k > Len(between) => pstate' = [pstate EXCEPT ![p] = exit]
      /\ ~(k > Len(between)) => pstate' = [pstate EXCEPT ![p] = entry]
  BY DEF Traverse
<1> QED
  BY <1>5, <1>6

LEMMA EnterQuiet ==
  ASSUME TypeOK, NEW p \in Plugins, NEW entry \in RuntimeStates, NEW k,
         Enter(p, entry, k)
  PROVE  LogUnseen /\ pstate' = [pstate EXCEPT ![p] = entry]
<1>1. Lifecycle(p, entry) \in Record /\ Quiet(Lifecycle(p, entry))
  BY PluginRecordTypes, PlainQuiet
<1>2. /\ <<Lifecycle(p, entry)>> \in Seq(Record)
      /\ \A i \in 1 .. Len(<<Lifecycle(p, entry)>>) : Quiet(<<Lifecycle(p, entry)>>[i])
  BY <1>1
<1> QED
  BY <1>2, QuietAppend DEF Enter

LEMMA RegistrationKeeps ==
  ASSUME TypeOK
  PROVE  /\ RegisterPlugins => Keeps
         /\ RegisterNext => Keeps
         /\ RegisterReturn => Keeps
         /\ \A n : RegisterSchemas(n) => Keeps
<1> USE DEF authorityVars
<1>1. RegisterPlugins => Keeps
  BY HeardParts, OtherwiseKeeps DEF RegisterPlugins
<1>2. RegisterReturn => Keeps
  BY HeardParts, OtherwiseKeeps DEF RegisterReturn, Idle
<1>3. \A n : RegisterSchemas(n) => Keeps
  BY HeardParts, OtherwiseKeeps DEF RegisterSchemas
<1>4. ASSUME RegisterNext PROVE Keeps
  <2>1. call \in Registering
    BY <1>4 DEF RegisterNext, TypeOK, Idle, Draining
  <2>2. PICK p \in Plugins : p = Profile[call.next]
    BY <1>4, <2>1, ConstantTypes DEF RegisterNext, Registering
  <2>3. PICK k \in Appends : Traverse(p, "Registered", <<>>, "Admitted", k)
    BY <1>4, <2>2 DEF RegisterNext
  <2>4. /\ "Registered" \in RuntimeStates /\ "Admitted" \in RuntimeStates
        /\ <<>> \in Seq(Record) /\ \A i \in 1 .. Len(<<>>) : Quiet(<<>>[i])
    BY DEF RuntimeStates
  <2>5. /\ LogUnseen
        /\ \/ pstate' = [pstate EXCEPT ![p] = "Admitted"]
           \/ pstate' = [pstate EXCEPT ![p] = "Registered"]
    BY <2>3, <2>4, TraverseQuiet
  <2>6. pstate[p] # "Running"
    BY <1>4, <2>2 DEF RegisterNext
  <2>7. SameRun
    BY <2>5, <2>6, MoveAside
  <2>8. call'.op # "drain"
    BY <1>4, <2>1 DEF RegisterNext, Registering, Idle
  <2>9. SameArtifacts /\ manifest' = manifest
    BY <1>4, SameParts DEF RegisterNext
  <2> QED
    BY <2>5, <2>7, <2>8, <2>9, HeardParts, UnseenKeeps
<1> QED
  BY <1>1, <1>2, <1>3, <1>4

LEMMA RefuseTransitionKeeps ==
  ASSUME TypeOK, NEW p \in Plugins, NEW to, RefuseTransition(p, to)
  PROVE  Keeps
<1>1. PICK d \in DenialKinds, k \in Appends : Append_k(<<RuntimeDenied(p, d)>>, k)
  BY DEF RefuseTransition
<1>2. RuntimeDenied(p, d) \in Record /\ Quiet(RuntimeDenied(p, d))
  BY PluginRecordTypes, PlainQuiet DEF Denials
<1>3. /\ <<RuntimeDenied(p, d)>> \in Seq(Record)
      /\ \A i \in 1 .. Len(<<RuntimeDenied(p, d)>>) : Quiet(<<RuntimeDenied(p, d)>>[i])
  BY <1>2
<1>4. UNCHANGED <<pstate, ledger, manifest>> /\ NoneHeard
  BY HeardParts DEF RefuseTransition, authorityVars
<1> QED
  BY <1>1, <1>3, <1>4, QuietKeeps

LEMMA StartPluginKeeps ==
  ASSUME TypeOK, NEW p \in Plugins, StartPlugin(p)
  PROVE  Keeps
<1> USE DEF RuntimeStates
<1>1. PICK host \in HostFailures \cup {"none"}, k \in Appends :
        LET checks == StartChecks(p, host)
        IN \/ \E i \in 1 .. Len(checks) :
                /\ FirstFailing(checks, i)
                /\ StartAborted(p, checks[i], k) \/ StartFailed(p, checks[i], k)
           \/ AllPass(checks) /\ StartSucceeded(p, k)
  BY DEF StartPlugin
<1>2. /\ pstate[p] # "Running" /\ ManifestPermitted(p)
      /\ manifest = Unsealed
      /\ UNCHANGED <<ledger, manifest>>
  BY DEF StartPlugin, TransitionAllowed, ValidTransitions, Ready, authorityVars
<1>3. <<>> \in Seq(Record) /\ \A i \in 1 .. Len(<<>>) : Quiet(<<>>[i])
  OBVIOUS
<1>4. SameArtifacts /\ ClosureEvents' = ClosureEvents
  BY <1>2, SameParts
<1>7. Heard = {} /\ SameHeard /\ NoneHeard
  BY SameParts, HeardParts DEF StartPlugin
<1>5. ASSUME NEW i \in 1 .. Len(StartChecks(p, host)),
             \/ StartAborted(p, StartChecks(p, host)[i], k)
             \/ StartFailed(p, StartChecks(p, host)[i], k)
      PROVE  Keeps
  <2> DEFINE evidence == StartChecks(p, host)[i].evidence
  <2>1. evidence \in Seq(Record) /\ \A j \in 1 .. Len(evidence) : Quiet(evidence[j])
    <3>1. evidence \in Seq(Record)
      BY StartEvidenceTypes
    <3>2. ASSUME NEW s \in Stages, evidence = <<TransportFailed(p, s)>>
          PROVE  \A j \in 1 .. Len(evidence) : Quiet(evidence[j])
      BY <3>2, PlainQuiet
    <3>3. ASSUME NEW d \in Denials, evidence = Refusal(p, d)
          PROVE  \A j \in 1 .. Len(evidence) : Quiet(evidence[j])
      <4>1. Quiet(RuntimeDenied(p, d)) /\ Quiet(TransportFailed(p, "start"))
        BY PlainQuiet
      <4> QED
        BY <3>3, <4>1 DEF Refusal
    <3>4. ASSUME evidence = <<>>
          PROVE  \A j \in 1 .. Len(evidence) : Quiet(evidence[j])
      BY <3>4
    <3> QED
      BY <3>1, <3>2, <3>3, <3>4, StartEvidence
  <2>2. \/ Enter(p, "Starting", k)
        \/ Traverse(p, "Starting", evidence, "Failed", k)
    BY <1>5 DEF StartAborted, StartFailed
  <2> HIDE DEF evidence
  <2>3. /\ LogUnseen
        /\ \/ pstate' = [pstate EXCEPT ![p] = "Starting"]
           \/ pstate' = [pstate EXCEPT ![p] = "Failed"]
    BY <2>1, <2>2, EnterQuiet, TraverseQuiet
  <2>4. SameRun
    BY <1>2, <2>3, MoveAside
  <2> QED
    BY <1>2, <1>4, <1>7, <2>3, <2>4, UnseenKeeps
<1>6. ASSUME StartSucceeded(p, k) PROVE Keeps
  <2>1. /\ LogUnseen
        /\ \/ pstate' = [pstate EXCEPT ![p] = "Running"]
           \/ pstate' = [pstate EXCEPT ![p] = "Starting"]
    BY <1>3, <1>6, TraverseQuiet DEF StartSucceeded
  <2>2. CASE pstate' = [pstate EXCEPT ![p] = "Starting"]
    <3>1. SameRun
      BY <1>2, <2>2, MoveAside
    <3> QED
      BY <1>2, <1>4, <1>7, <2>1, <3>1, UnseenKeeps
  <2>3. CASE pstate' = [pstate EXCEPT ![p] = "Running"]
    <3>1. p \notin RunningPlugins /\ RunningPlugins' = RunningPlugins \cup {p}
      BY <1>2, <2>3 DEF TypeOK, RunningPlugins
    <3>2. Contract!Starts(p)
      BY <1>2, <1>4, <1>7, <2>1, <3>1
         DEF Contract!Starts, Contract!Free, LogUnseen, SameArtifacts, SameHeard
    <3> QED
      BY <3>2 DEF Keeps, Contract!Next
  <2> QED
    BY <2>1, <2>2, <2>3
<1> QED
  BY <1>1, <1>5, <1>6

LEMMA StopPluginKeeps ==
  ASSUME TypeOK, NEW p \in Plugins, StopPlugin(p)
  PROVE  Keeps
<1> USE DEF RuntimeStates
<1>1. /\ pstate[p] = "Running" /\ manifest = Unsealed
      /\ UNCHANGED <<ledger, manifest>>
  BY DEF StopPlugin, TransitionAllowed, ValidTransitions, Ready, authorityVars
<1>2. SameArtifacts /\ ClosureEvents' = ClosureEvents
  BY <1>1, SameParts
<1>9. Heard = {} /\ SameHeard
  BY SameParts, HeardParts DEF StopPlugin
<1> DEFINE Moved == /\ LogUnseen
                    /\ \E s \in {"Stopping", "Stopped", "Failed"} :
                         pstate' = [pstate EXCEPT ![p] = s]
<1>3. ASSUME NEW k \in Appends, NEW n \in Nat, StopSucceeded(p, n, k) PROVE Moved
  <2> DEFINE held == stderr[p] \o [i \in 1 .. n |-> lines[p] + i]
             between == [i \in 1 .. Len(held) |-> Evidence(p, held[i])]
  <2>1. between \in Seq(Record)
    BY HeldEvidenceTypes
  <2>2. Traverse(p, "Stopping", between, "Stopped", k)
    BY <1>3 DEF StopSucceeded
  <2>3. held \in Seq(Nat)
    <3>1. stderr[p] \in Seq(Nat) /\ lines[p] \in Nat
      BY DEF TypeOK
    <3>2. [i \in 1 .. n |-> lines[p] + i] \in Seq(Nat)
      BY <3>1
    <3> QED
      BY <3>1, <3>2
  <2> HIDE DEF held
  <2>4. \A i \in 1 .. Len(between) : Quiet(between[i])
    BY <2>3, PlainQuiet
  <2> HIDE DEF between
  <2> QED
    BY <2>1, <2>2, <2>4, TraverseQuiet
<1>4. ASSUME NEW k \in Appends, StopFailed(p, k) PROVE Moved
  <2>1. TransportFailed(p, "stop") \in Record /\ Quiet(TransportFailed(p, "stop"))
    BY PluginRecordTypes, PlainQuiet DEF Stages
  <2> DEFINE between == <<TransportFailed(p, "stop")>>
  <2>2. between \in Seq(Record) /\ \A i \in 1 .. Len(between) : Quiet(between[i])
    BY <2>1
  <2>3. Traverse(p, "Stopping", between, "Failed", k)
    BY <1>4 DEF StopFailed
  <2> HIDE DEF between
  <2> QED
    BY <2>2, <2>3, TraverseQuiet
<1>5. Moved
  BY <1>3, <1>4, ConstantTypes DEF StopPlugin
<1>6. PICK s \in {"Stopping", "Stopped", "Failed"} : pstate' = [pstate EXCEPT ![p] = s]
  BY <1>5
<1>7. p \in RunningPlugins /\ RunningPlugins' = RunningPlugins \ {p}
  BY <1>1, <1>6 DEF TypeOK, RunningPlugins
<1>8. Contract!Halts(p)
  BY <1>1, <1>2, <1>5, <1>7, <1>9
     DEF Contract!Halts, Contract!Free, LogUnseen, SameArtifacts, SameHeard
<1> QED
  BY <1>8 DEF Keeps, Contract!Next

\* Deciding about an event: while a plugin is heard, about one of that plugin that
\* answers an event sent to it.
LEMMA DecisionKeeps ==
  ASSUME TypeOK, NEW e \in Event, manifest = Unsealed,
         \A p \in Heard :
           /\ e.source = p
           /\ \E q \in AskedEvents(e.source) : q.id = e.parent /\ q.trace = e.trace,
         NEW k, Append_k(<<Decision(e, Admissible(e))>>, k),
         UNCHANGED <<pstate, ledger, manifest>>,
         NoneHeard, k = 1 => SameHeard
  PROVE  Keeps
<1>1. Admissible(e) \in BOOLEAN
  BY DEF Admissible
<1>2. PICK ok \in BOOLEAN : ok = Admissible(e)
  BY <1>1
<1>3. Append_k(<<Decision(e, ok)>>, k)
  BY <1>2
<1>4. SameRun /\ SameArtifacts /\ ClosureEvents' = ClosureEvents
  BY SameParts
<1>5. CASE ~(k = 1 /\ ok)
  <2>1. LogUnseen
    BY <1>3, <1>5, DecisionSeen DEF LogUnseen
  <2> QED
    BY <1>4, <2>1, UnseenKeeps
<1>6. CASE k = 1 /\ ok
  <2>1. /\ AdmittedEvents' = AdmittedEvents \cup {e}
        /\ \A p \in Plugins : AskedEvents(p)' = AskedEvents(p)
        /\ PublishedEvents' = PublishedEvents
    BY <1>3, <1>6, DecisionSeen
  <2>2. e.source \in Plugins
    BY DEF Event
  <2>3. e.source \in RunningPlugins
    BY <1>2, <1>6, <2>2 DEF Admissible, RunningPlugins
  <2>4. \A p \in Heard : e.source = p /\ Contract!Answers(e)
    BY <2>2 DEF Contract!Answers
  <2>6. SameHeard
    BY <1>6
  <2>5. Contract!Admits(e)
    BY <1>4, <2>1, <2>3, <2>4, <2>6
       DEF Contract!Admits, SameRun, SameArtifacts, SameHeard
  <2> QED
    BY <2>5 DEF Keeps, Contract!Next
<1> QED
  BY <1>5, <1>6

LEMMA AdmitEventKeeps ==
  ASSUME TypeOK, NEW e \in Envelopes, AdmitEvent(e)
  PROVE  Keeps
<1>1. e \in Event
  BY OfferedTypes
<1>2. Heard = {} /\ SameHeard /\ NoneHeard
  BY SameParts, HeardParts DEF AdmitEvent
<1>3. PICK k \in Appends : Append_k(<<Decision(e, Admissible(e))>>, k)
  BY DEF AdmitEvent
<1>4. manifest = Unsealed /\ UNCHANGED <<pstate, ledger, manifest>>
  BY DEF AdmitEvent, Ready
<1> QED
  BY <1>1, <1>2, <1>3, <1>4, DecisionKeeps

LEMMA DrainAdmissionKeeps ==
  ASSUME TypeOK, AuthorityInv, SealedIdle, NEW parent, DrainAdmission(parent)
  PROVE  Keeps
<1>1. /\ call \in Draining /\ call.plugin \in Plugins
      /\ call.candidates \in Seq(Candidate)
  BY DrainingCall DEF DrainAdmission
<1>2. Head(call.candidates) \in Candidate
  BY <1>1 DEF DrainAdmission
<1>3. parent \in Event /\ parent \in inflight[call.plugin]
  BY <1>1 DEF DrainAdmission, InFlight, TypeOK
<1>4. parent \in AskedEvents(call.plugin)
  <2>1. PICK j \in DOMAIN log : log[j] = SendAttempted(call.plugin, parent)
    BY <1>1, <1>3 DEF AuthorityInv
  <2> QED
    BY <2>1 DEF AskedEvents, SendAttempted
<1> DEFINE e == Canonical(call.plugin, Head(call.candidates), parent)
<1>5. e \in Event
  BY <1>1, <1>2, <1>3, CanonicalTypes DEF DrainAdmission
<1>6. e.source = call.plugin /\ e.parent = parent.id /\ e.trace = parent.trace
  BY DEF Canonical
<1>7. PICK k \in Appends :
        /\ Append_k(<<Decision(e, Admissible(e))>>, k)
        /\ call' = IF k = 0 THEN Idle
                   ELSE [call EXCEPT !.candidates = Tail(@),
                                     !.admitted = @ \cup Granted(e, k = 1)]
  BY DEF DrainAdmission
<1>8. UNCHANGED <<pstate, ledger, manifest>>
  BY DEF DrainAdmission
<1>11. Heard = {call.plugin}
  BY DEF DrainAdmission, Heard
<1>9. manifest = Unsealed
  <2>1. call # Idle
    BY DEF DrainAdmission, Idle
  <2> QED
    BY <2>1 DEF SealedIdle
<1> HIDE DEF e
<1>10. /\ e.source = call.plugin
       /\ \E q \in AskedEvents(e.source) : q.id = e.parent /\ q.trace = e.trace
  BY <1>4, <1>6
<1>12. k # 0 => SameHeard
  BY <1>1, <1>7, DrainGoesOn DEF DrainAdmission
<1>13. k = 0 => NoneHeard
  BY <1>7, HeardParts DEF Idle
<1>14. (k = 1 => SameHeard) /\ NoneHeard
  BY <1>12, <1>13 DEF NoneHeard
<1>15. \A p \in Heard :
         /\ e.source = p
         /\ \E q \in AskedEvents(e.source) : q.id = e.parent /\ q.trace = e.trace
  BY <1>10, <1>11
<1> QED
  BY <1>5, <1>7, <1>8, <1>9, <1>14, <1>15, DecisionKeeps

LEMMA PublishAdmittedKeeps ==
  ASSUME TypeOK, AuthorityInv, NEW t \in tokens, PublishAdmitted(t)
  PROVE  Keeps
<1>1. t \in Token
  BY DEF TypeOK
<1> DEFINE recs == IF dead[t.event.topic] = 0 THEN <<Published(t)>> ELSE <<>>
<1>2. PICK k \in Appends : Append_k(recs, k)
  BY DEF PublishAdmitted
<1>3. recs \in {<<Published(t)>>, <<>>}
  OBVIOUS
<1> HIDE DEF recs
<1>4. /\ AdmittedEvents' = AdmittedEvents
      /\ \A p \in Plugins : AskedEvents(p)' = AskedEvents(p)
      /\ PublishedEvents' \in {PublishedEvents, PublishedEvents \cup {t.event}}
  BY <1>1, <1>2, <1>3, PublicationSeen
<1>5. t.event \in AdmittedEvents
  <2>1. t.policy \in DOMAIN log /\ log[t.policy] = Decision(t.event, TRUE)
    BY DEF AuthorityInv, TokensBacked, AdmittedAt
  <2>2. /\ Decision(t.event, TRUE).kind = "decision"
        /\ Decision(t.event, TRUE).allowed
        /\ Decision(t.event, TRUE).event = t.event
    BY Zenon DEF Decision
  <2> QED
    BY <2>1, <2>2 DEF AdmittedEvents
<1>6. ArtifactEvents' = ArtifactEvents \cup {t.event}
  <2>1. ledger \in Seq(Token) /\ ledger' = Append(ledger, t)
    BY DEF TypeOK, PublishAdmitted
  <2>2. /\ DOMAIN ledger' = DOMAIN ledger \cup {Len(ledger) + 1}
        /\ ledger'[Len(ledger) + 1] = t
        /\ \A i \in DOMAIN ledger : ledger'[i] = ledger[i]
    BY <1>1, <2>1
  <2> QED
    BY <2>2 DEF ArtifactEvents
<1>7. /\ SameRun /\ ClosureEvents' = ClosureEvents
      /\ manifest = Unsealed /\ manifest' = manifest
  BY SameParts DEF PublishAdmitted, Ready
<1>10. Heard = {} /\ SameHeard
  BY SameParts, HeardParts DEF PublishAdmitted
<1>8. t.event \in Event
  BY <1>1 DEF Token
<1>9. Contract!Publishes(t.event)
  BY <1>4, <1>5, <1>6, <1>7, <1>10
     DEF Contract!Publishes, Contract!Free, SameRun, SameHeard
<1> QED
  BY <1>8, <1>9 DEF Keeps, Contract!Next

LEMMA SendToPluginKeeps ==
  ASSUME TypeOK, AuthorityInv, NEW p \in Plugins, NEW t \in tokens, SendToPlugin(p, t)
  PROVE  Keeps
<1>1. t \in Token /\ t.event \in Event
  BY DEF TypeOK, Token
<1>2. /\ RuntimeDenied(p, "SubscriptionDenied") \in Record
      /\ TransportFailed(p, "send") \in Record
      /\ SendSucceeded(p, t.event) \in Record
      /\ Quiet(RuntimeDenied(p, "SubscriptionDenied"))
      /\ Quiet(TransportFailed(p, "send"))
      /\ Quiet(SendSucceeded(p, t.event))
  BY <1>1, PluginRecordTypes, EventRecordTypes, PlainQuiet DEF Denials, Stages
<1>3. manifest = Unsealed /\ UNCHANGED <<pstate, ledger, manifest>>
  BY DEF SendToPlugin, Ready
<1>8. Heard = {} /\ SameHeard /\ NoneHeard
  BY SameParts, HeardParts DEF SendToPlugin
<1>4. t.event \in AdmittedEvents
  <2>1. t.policy \in DOMAIN log /\ log[t.policy] = Decision(t.event, TRUE)
    BY DEF AuthorityInv, TokensBacked, AdmittedAt
  <2>2. /\ Decision(t.event, TRUE).kind = "decision"
        /\ Decision(t.event, TRUE).allowed
        /\ Decision(t.event, TRUE).event = t.event
    BY Zenon DEF Decision
  <2> QED
    BY <2>1, <2>2 DEF AdmittedEvents
<1>5. ASSUME NEW k, SendRefused(p, t, k) \/ SendInactive(p, t, k) PROVE Keeps
  <2> DEFINE refused == <<RuntimeDenied(p, "SubscriptionDenied"),
                          TransportFailed(p, "send")>>
             inactive == <<TransportFailed(p, "send")>>
  <2>1. /\ refused \in Seq(Record) /\ \A i \in 1 .. Len(refused) : Quiet(refused[i])
        /\ inactive \in Seq(Record) /\ \A i \in 1 .. Len(inactive) : Quiet(inactive[i])
    BY <1>2
  <2>2. Append_k(refused, k) \/ Append_k(inactive, k)
    BY <1>5 DEF SendRefused, SendInactive
  <2> HIDE DEF refused, inactive
  <2> QED
    BY <1>3, <1>8, <2>1, <2>2, QuietKeeps
<1>6. ASSUME NEW k, NEW r \in Record, Quiet(r),
             Append_k(<<SendAttempted(p, t.event), r>>, k)
      PROVE  Keeps
  <2>1. /\ AdmittedEvents' = AdmittedEvents
        /\ PublishedEvents' = PublishedEvents
        /\ \A q \in Plugins :
             AskedEvents(q)' = IF q = p /\ k > 0 THEN AskedEvents(q) \cup {t.event}
                                                 ELSE AskedEvents(q)
    BY <1>1, <1>6, SendSeen
  <2>2. SameRun /\ SameArtifacts /\ ClosureEvents' = ClosureEvents
    BY <1>3, SameParts
  <2>3. CASE ~(k > 0)
    <3>1. LogUnseen
      BY <2>1, <2>3 DEF LogUnseen
    <3> QED
      BY <1>3, <1>8, <2>2, <3>1, UnseenKeeps
  <2>4. CASE k > 0
    <3>1. [q \in Plugins |-> AskedEvents(q)]' =
            [[q \in Plugins |-> AskedEvents(q)]
               EXCEPT ![p] = @ \cup {t.event}]
      BY <2>1, <2>4
    <3>2. Contract!Asks(p, t.event)
      BY <1>3, <1>4, <1>8, <2>1, <2>2, <3>1
         DEF Contract!Asks, Contract!Free, SameRun, SameArtifacts, SameHeard
    <3> QED
      BY <1>1, <3>2 DEF Keeps, Contract!Next
  <2> QED
    BY <2>3, <2>4
<1>7. ASSUME NEW k, NEW n,
             SendFailed(p, t, k) \/ SendSucceeds(p, t, n, k)
      PROVE  Keeps
  BY <1>2, <1>6, <1>7 DEF SendFailed, SendSucceeds
<1> QED
  BY <1>5, <1>7 DEF SendToPlugin

\* A drain begins to hear its plugin.
LEMMA DrainBeginKeeps ==
  ASSUME NEW p \in Plugins, NEW m, DrainBegin(p, m)
  PROVE  Keeps
<1>1. manifest = Unsealed /\ UNCHANGED <<pstate, log, ledger, manifest>>
  BY DEF DrainBegin, Ready, authorityVars
<1>2. Heard = {} /\ Heard' = {p}
  BY HeardParts DEF DrainBegin, Heard
<1>3. SameRun /\ LogUnseen /\ SameArtifacts /\ ClosureEvents' = ClosureEvents
  BY <1>1, SameParts, SameLog
<1>4. Contract!Listens(p)
  BY <1>1, <1>2, <1>3
     DEF Contract!Listens, Contract!Free, SameRun, LogUnseen, SameArtifacts
<1> QED
  BY <1>4 DEF Keeps, Contract!Next

LEMMA DrainRecordsKeep ==
  ASSUME TypeOK
  PROVE  /\ DrainEvidence => Keeps
         /\ DrainRefused => Keeps
<1> USE DEF authorityVars
<1>1. ASSUME DrainEvidence PROVE Keeps
  <2>1. PICK k \in Appends :
          /\ Append_k(<<Evidence(call.plugin, Head(call.evidence))>>, k)
          /\ call' = IF k = 1 THEN [call EXCEPT !.evidence = Tail(@)] ELSE Idle
    BY <1>1 DEF DrainEvidence
  <2>2. call.plugin \in Plugins /\ Head(call.evidence) \in Nat
    BY <1>1, DrainingCall DEF DrainEvidence
  <2>6. NoneHeard
    <3>1. call \in Draining
      BY <1>1, DrainingCall DEF DrainEvidence
    <3>2. CASE k = 1
      BY <2>1, <3>1, <3>2, DrainGoesOn DEF NoneHeard
    <3>3. CASE k # 1
      BY <2>1, <3>3, HeardParts DEF Idle
    <3> QED
      BY <3>2, <3>3
  <2> DEFINE recs == <<Evidence(call.plugin, Head(call.evidence))>>
  <2>3. /\ Evidence(call.plugin, Head(call.evidence)) \in Record
        /\ Quiet(Evidence(call.plugin, Head(call.evidence)))
    BY <2>2, PluginRecordTypes, PlainQuiet
  <2>4. recs \in Seq(Record) /\ \A i \in 1 .. Len(recs) : Quiet(recs[i])
    BY <2>3
  <2>5. Append_k(recs, k) /\ UNCHANGED <<pstate, ledger, manifest>>
    BY <1>1, <2>1 DEF DrainEvidence
  <2> HIDE DEF recs
  <2> QED
    BY <2>4, <2>5, <2>6, QuietKeeps
<1>2. ASSUME DrainRefused PROVE Keeps
  <2> DEFINE checks == CandidateChecks(call.plugin, Head(call.candidates))
             recs(d) == <<RuntimeDenied(call.plugin, d),
                          TransportFailed(call.plugin, "candidate_canonicalization")>>
  <2>1. PICK i \in 1 .. 3, k \in Appends :
          /\ Append_k(recs(checks[i].denial), k)
          /\ call' = IF k = 2 THEN [call EXCEPT !.candidates = Tail(@)] ELSE Idle
    BY <1>2 DEF DrainRefused
  <2>2. checks[i].denial \in Denials
    <3>1. CASE i = 1  BY <3>1 DEF CandidateChecks, Denials
    <3>2. CASE i = 2  BY <3>2 DEF CandidateChecks, Denials
    <3>3. CASE i = 3  BY <3>3 DEF CandidateChecks, Denials
    <3> QED
      BY <3>1, <3>2, <3>3
  <2> HIDE DEF checks
  <2>3. call.plugin \in Plugins
    BY <1>2, DrainingCall DEF DrainRefused
  <2>4. ASSUME NEW d \in Denials
        PROVE  recs(d) \in Seq(Record) /\ \A j \in 1 .. Len(recs(d)) : Quiet(recs(d)[j])
    <3>1. /\ RuntimeDenied(call.plugin, d) \in Record
          /\ Quiet(RuntimeDenied(call.plugin, d))
          /\ TransportFailed(call.plugin, "candidate_canonicalization") \in Record
          /\ Quiet(TransportFailed(call.plugin, "candidate_canonicalization"))
      BY <2>3, PluginRecordTypes, PlainQuiet DEF Stages
    <3> QED
      BY <3>1
  <2> HIDE DEF recs
  <2>5. UNCHANGED <<pstate, ledger, manifest>>
    BY <1>2 DEF DrainRefused
  <2>6. NoneHeard
    <3>1. call \in Draining
      BY <1>2, DrainingCall DEF DrainRefused
    <3>2. CASE k = 2
      BY <2>1, <3>1, <3>2, DrainGoesOn DEF NoneHeard
    <3>3. CASE k # 2
      BY <2>1, <3>3, HeardParts DEF Idle
    <3> QED
      BY <3>2, <3>3
  <2> QED
    BY <2>1, <2>2, <2>4, <2>5, <2>6, QuietKeeps
<1> QED
  BY <1>1, <1>2

LEMMA SealRunKeeps ==
  ASSUME NEW valid, NEW extra, SealRun(valid, extra)
  PROVE  Keeps
<1>1. manifest = Unsealed /\ UNCHANGED <<pstate, log, ledger>>
  BY DEF SealRun, Ready, authorityVars
<1>2. manifest'.status = "sealed" /\ manifest'.artifacts = ledger
  BY DEF SealRun
<1>3. manifest' # Unsealed
  BY <1>2 DEF Unsealed
<1>4. ClosureEvents' = ArtifactEvents
  BY <1>2, <1>3 DEF ClosureEvents, ArtifactEvents
<1>5. SameRun /\ LogUnseen /\ SameArtifacts
  BY <1>1, SameParts, SameLog
<1>7. Heard = {} /\ SameHeard
  BY SameParts, HeardParts DEF SealRun
<1>6. Contract!Seals
  BY <1>1, <1>3, <1>4, <1>5, <1>7
     DEF Contract!Seals, Contract!Free, SameRun, LogUnseen, SameArtifacts, SameHeard
<1> QED
  BY <1>6 DEF Keeps, Contract!Next

-----------------------------------------------------------------------------
(* The refinement.                                                         *)

LEMMA InitKeeps == Init => Contract!Init /\ SealedIdle
<1> SUFFICES ASSUME Init PROVE Contract!Init /\ SealedIdle
  OBVIOUS
<1>1. RunningPlugins = {}
  BY DEF Init, RunningPlugins
<1>2. DOMAIN log = {} /\ DOMAIN ledger = {}
  BY DEF Init
<1>3. /\ AdmittedEvents = {} /\ PublishedEvents = {} /\ ArtifactEvents = {}
      /\ \A p : AskedEvents(p) = {}
  BY <1>2 DEF AdmittedEvents, PublishedEvents, ArtifactEvents, AskedEvents
<1>4. manifest = Unsealed /\ ClosureEvents = {}
  BY DEF Init, ClosureEvents
<1>5. Heard = {}
  BY DEF Init, Idle, Heard
<1> QED
  BY <1>1, <1>3, <1>4, <1>5 DEF Contract!Init, SealedIdle

LEMMA NextKeeps == TypeOK /\ AuthorityInv /\ SealedIdle /\ [Next]_vars => Keeps
<1> SUFFICES ASSUME TypeOK, AuthorityInv, SealedIdle, [Next]_vars PROVE Keeps
  OBVIOUS
<1>1. CASE UNCHANGED vars
  BY <1>1, HeardParts, OtherwiseKeeps DEF vars
<1>2. CASE RegisterPlugins \/ RegisterNext \/ RegisterReturn
           \/ \E n \in 0 .. Len(SchemaFiles) : RegisterSchemas(n)
  BY <1>2, RegistrationKeeps
<1>3. CASE \E e \in Envelopes : AdmitEvent(e)
  BY <1>3, AdmitEventKeeps
<1>4. CASE \E t \in tokens : PublishAdmitted(t)
  BY <1>4, PublishAdmittedKeeps
<1>5. ASSUME NEW p \in Plugins,
             \/ \E to \in {"Starting", "Stopping"} : RefuseTransition(p, to)
             \/ StartPlugin(p) \/ StopPlugin(p)
             \/ \E t \in tokens : SendToPlugin(p, t)
      PROVE  Keeps
  BY <1>5, RefuseTransitionKeeps, StartPluginKeeps, StopPluginKeeps, SendToPluginKeeps
<1>6. ASSUME NEW p \in Plugins, NEW x,
             DrainBegin(p, x) \/ SidecarWrites(p, x) \/ SidecarComplains(p)
      PROVE  Keeps
  <2>1. CASE DrainBegin(p, x)
    BY <2>1, DrainBeginKeeps
  <2>2. CASE SidecarWrites(p, x) \/ SidecarComplains(p)
    <3>1. UNCHANGED <<pstate, log, ledger, manifest, call>>
      BY <2>2 DEF SidecarWrites, SidecarComplains, authorityVars
    <3> QED
      BY <3>1, HeardParts, OtherwiseKeeps
  <2> QED
    BY <1>6, <2>1, <2>2
<1>7. CASE DrainEvidence \/ DrainRefused
  BY <1>7, DrainRecordsKeep
<1>8. CASE DrainReturn
  <2>1. UNCHANGED <<pstate, log, ledger, manifest>> /\ call' = Idle
    BY <1>8 DEF DrainReturn
  <2> QED
    BY <2>1, HeardParts, OtherwiseKeeps DEF Idle
<1>9. CASE \E e \in UNION {inflight[p] : p \in Plugins} : DrainAdmission(e)
  BY <1>9, DrainAdmissionKeeps
<1>10. CASE \E valid \in BOOLEAN, extra \in {0, 1} : SealRun(valid, extra)
  BY <1>10, SealRunKeeps
<1> QED
  BY <1>1, <1>2, <1>3, <1>4, <1>5, <1>6, <1>7, <1>8, <1>9, <1>10 DEF Next

\* Whatever append fails and wherever a method returns, what the replay log, the
\* supervisor, the ledger and the manifest say of a run is a behaviour of
\* StationContract: no effect without an admission before it, of a plugin that
\* ran then, no plugin heard but as the answer to what it was asked, and a closure
\* that lists what the run made.
THEOREM ContractKept == Spec => KeepsContract
<1>1. Init => Contract!Init /\ SealedIdle
  BY InitKeeps
<1>2. TypeOK /\ AuthorityInv /\ SealedIdle /\ [Next]_vars
        => [Contract!Next]_(Contract!vars)
  BY NextKeeps DEF Keeps
<1> QED
  BY <1>1, <1>2, NextSealedIdle, TypeCorrect, AuthorityCorrect, PTL
     DEF Spec, KeepsContract, Contract!Spec
-----------------------------------------------------------------------------
(* The sealed manifest.                                                    *)

ListedIn(artifacts, r) ==
  \E a \in 1 .. Len(artifacts) : artifacts[a] = [event |-> r.event, policy |-> r.policy]

\* The ledger has the artifact of every publication in the log, and a sealed
\* manifest describes the ledger and the log as they were when it was made.
ClosureInv ==
  /\ SealedIdle
  /\ \A i \in 1 .. Len(log) : log[i].kind = "published" => ListedIn(ledger, log[i])
  /\ manifest # Unsealed =>
       /\ manifest.artifacts = ledger
       /\ faults = 0 => manifest.valid /\ manifest.records = Len(log)

\* Only a publication adds to the ledger.
LEMMA LedgerSteps ==
  ASSUME TypeOK, [Next]_vars
  PROVE  \/ ledger' = ledger
         \/ \E t \in tokens : ledger' = Append(ledger, t)
BY DEF Next, vars, sidecarVars, authorityVars, RegisterPlugins, RegisterNext,
       RegisterReturn, RegisterSchemas, RefuseTransition, StartPlugin, StopPlugin,
       AdmitEvent, PublishAdmitted, SendToPlugin, DrainBegin, DrainEvidence,
       DrainRefused, DrainAdmission, DrainReturn, SealRun, SidecarWrites,
       SidecarComplains

\* After the seal nothing of the run changes any more.
LEMMA SealedStays ==
  ASSUME SealedIdle, manifest # Unsealed, [Next]_vars
  PROVE  UNCHANGED vars
<1>1. /\ ~Ready /\ call.op # "register" /\ call.op # "drain"
      /\ manifest # Unsealed
  BY DEF SealedIdle, Ready, Idle
<1> HIDE DEF Ready
<1>2. ~RegisterPlugins /\ ~RegisterNext /\ ~RegisterReturn
  BY <1>1 DEF RegisterPlugins, RegisterNext, RegisterReturn
<1>3. ASSUME NEW x
      PROVE  ~RegisterSchemas(x) /\ ~AdmitEvent(x) /\ ~PublishAdmitted(x)
             /\ ~DrainAdmission(x)
  BY <1>1 DEF RegisterSchemas, AdmitEvent, PublishAdmitted, DrainAdmission
<1>4. ASSUME NEW p, NEW x
      PROVE  /\ ~RefuseTransition(p, x) /\ ~StartPlugin(p) /\ ~StopPlugin(p)
             /\ ~SendToPlugin(p, x) /\ ~DrainBegin(p, x)
             /\ ~SidecarWrites(p, x) /\ ~SidecarComplains(p) /\ ~SealRun(p, x)
  BY <1>1 DEF RefuseTransition, StartPlugin, StopPlugin, SendToPlugin, DrainBegin,
              SidecarWrites, SidecarComplains, SealRun
<1>5. ~DrainEvidence /\ ~DrainRefused /\ ~DrainReturn
  BY <1>1 DEF DrainEvidence, DrainRefused, DrainReturn
<1> QED
  BY <1>2, <1>3, <1>4, <1>5 DEF Next

\* The manifest is made by seal_run, from the log and the ledger as they are.
LEMMA SealMakes ==
  ASSUME TypeOK, manifest = Unsealed, [Next]_vars, manifest' # Unsealed
  PROVE  /\ manifest'.artifacts = ledger' /\ UNCHANGED <<log, faults>>
         /\ faults = 0 => manifest'.valid /\ manifest'.records = Len(log)
<1>1. PICK valid \in BOOLEAN, extra \in {0, 1} : SealRun(valid, extra)
  BY DEF Next, vars, RegisterPlugins, RegisterNext, RegisterReturn,
         RegisterSchemas, RefuseTransition, StartPlugin, StopPlugin, AdmitEvent,
         PublishAdmitted, SendToPlugin, DrainBegin, DrainEvidence, DrainRefused,
         DrainAdmission, DrainReturn, SidecarWrites, SidecarComplains
<1>2. UNCHANGED <<log, faults, ledger>>
  BY <1>1 DEF SealRun, authorityVars
<1>3. /\ manifest'.artifacts = ledger /\ manifest'.valid = valid
      /\ manifest'.records = IF valid THEN Len(log) + extra ELSE 0
      /\ faults = 0 => valid /\ extra = 0
  BY <1>1 DEF SealRun
<1>4. Len(log) \in Nat
  BY DEF TypeOK
<1> QED
  BY <1>2, <1>3, <1>4

LEMMA NextClosure == TypeOK /\ ClosureInv /\ [Next]_vars => ClosureInv'
<1> SUFFICES ASSUME TypeOK, ClosureInv, [Next]_vars PROVE ClosureInv'
  OBVIOUS
<1>1. SealedIdle /\ SealedIdle'
  BY NextSealedIdle DEF ClosureInv
<1>2. log \in Seq(Record) /\ ledger \in Seq(Token) /\ ExtendsLog
  BY StepFacts DEF TypeOK
<1>3. ASSUME NEW r, ListedIn(ledger, r) PROVE ListedIn(ledger', r)
  <2>1. CASE ledger' = ledger
    BY <1>3, <2>1
  <2>2. ASSUME NEW t \in tokens, ledger' = Append(ledger, t) PROVE ListedIn(ledger', r)
    <3>1. PICK a \in 1 .. Len(ledger) : ledger[a] = [event |-> r.event, policy |-> r.policy]
      BY <1>3 DEF ListedIn
    <3>2. t \in Token
      BY DEF TypeOK
    <3>3. a \in 1 .. Len(ledger') /\ ledger'[a] = ledger[a]
      BY <1>2, <2>2, <3>2
    <3> QED
      BY <3>1, <3>3 DEF ListedIn
  <2> QED
    BY <2>1, <2>2, LedgerSteps
<1>4. ASSUME NEW i \in 1 .. Len(log'), log'[i].kind = "published"
      PROVE  ListedIn(ledger', log'[i])
  <2>1. CASE i \in 1 .. Len(log)
    <3>1. log'[i] = log[i]
      BY <1>2, <2>1 DEF ExtendsLog
    <3>2. ListedIn(ledger, log[i])
      BY <1>4, <2>1, <3>1 DEF ClosureInv
    <3> QED
      BY <1>3, <3>1, <3>2
  <2>2. CASE i \in (Len(log) + 1) .. Len(log')
    <3>1. PICK t \in tokens : log'[i] = Published(t) /\ ledger' = Append(ledger, t)
      BY <1>2, <1>4, <2>2 DEF ExtendsLog, Warranted
    <3>2. t \in Token
      BY DEF TypeOK
    <3>3. Len(ledger) + 1 \in 1 .. Len(ledger') /\ ledger'[Len(ledger) + 1] = t
      BY <1>2, <3>1, <3>2
    <3>4. t = [event |-> log'[i].event, policy |-> log'[i].policy]
      BY <3>1, <3>2 DEF Published, Token
    <3> QED
      BY <3>3, <3>4 DEF ListedIn
  <2>3. i \in 1 .. Len(log) \/ i \in (Len(log) + 1) .. Len(log')
    <3>1. Len(log) \in Nat /\ Len(log') \in Nat
      BY <1>2 DEF ExtendsLog
    <3> QED
      BY <3>1
  <2> QED
    BY <2>1, <2>2, <2>3
<1>5. ASSUME manifest' # Unsealed
      PROVE  /\ manifest'.artifacts = ledger'
             /\ faults' = 0 => manifest'.valid /\ manifest'.records = Len(log')
  <2>1. CASE manifest = Unsealed
    BY <1>5, <2>1, SealMakes
  <2>2. CASE manifest # Unsealed
    BY <1>1, <2>2, SealedStays DEF vars, ClosureInv
  <2> QED
    BY <2>1, <2>2
<1> QED
  BY <1>1, <1>4, <1>5 DEF ClosureInv

\* A manifest sealed in a run whose appends all succeeded verifies, counts every
\* record of the log, and lists the artifact of every publication (seal_run).
THEOREM ClosureIsComplete == Spec => []SealedClosure
<1>1. Init => ClosureInv
  BY DEF Init, ClosureInv, SealedIdle, Unsealed
<1>2. TypeOK /\ ClosureInv => SealedClosure
  <2> SUFFICES ASSUME TypeOK, ClosureInv, manifest # Unsealed, faults = 0
               PROVE  /\ manifest.valid /\ manifest.records = Len(log)
                      /\ \A i \in DOMAIN log :
                           log[i].kind = "published" =>
                             \E a \in DOMAIN manifest.artifacts :
                               manifest.artifacts[a] =
                                 [event |-> log[i].event, policy |-> log[i].policy]
    BY DEF SealedClosure
  <2>1. DOMAIN log = 1 .. Len(log) /\ DOMAIN ledger = 1 .. Len(ledger)
    BY DEF TypeOK
  <2>2. /\ manifest.valid /\ manifest.records = Len(log)
        /\ manifest.artifacts = ledger
        /\ \A i \in 1 .. Len(log) : log[i].kind = "published" => ListedIn(ledger, log[i])
    BY DEF ClosureInv
  <2> QED
    BY <2>1, <2>2 DEF ListedIn
<1> QED
  BY <1>1, <1>2, NextClosure, TypeCorrect, PTL DEF Spec

-----------------------------------------------------------------------------
(* History and evidence, while no append fails.                            *)

\* Among its first n records, the log records says last that p is in state s.
Tells(records, p, s, n) ==
  IF s = "Unregistered"
  THEN \A i \in 1 .. n : ~IsLifecycle(records[i], p)
  ELSE \E i \in 1 .. n :
         /\ IsLifecycle(records[i], p) /\ records[i].state = s
         /\ \A j \in (i + 1) .. n : ~IsLifecycle(records[j], p)

Move(from, to) ==
  (from = "Unregistered" /\ to = "Registered") \/ <<from, to>> \in ValidTransitions

Admits(r) == r.kind = "decision" /\ r.allowed

TellsUpTo(records, states, n) ==
  /\ \A p \in Plugins : Tells(records, p, states[p], n)
  /\ \A p \in Plugins, j \in 1 .. n :
       IsLifecycle(records[j], p) =>
         \E s \in LifecycleStates :
           Move(s, records[j].state) /\ Tells(records, p, s, j - 1)
  /\ \A i \in 1 .. n :
       Admits(records[i]) => Tells(records, records[i].event.source, "Running", i - 1)

Declared(r) ==
  Admits(r) => r.event.topic \in Manifest[r.event.source].publishes

HistoryInv ==
  /\ faults = 0 => TellsUpTo(log, pstate, Len(log))
  /\ faults = 0 => \A i \in 1 .. Len(log) :
                     Admits(log[i]) => [event |-> log[i].event, policy |-> i] \in HeldTokens
  /\ \A i \in 1 .. Len(log) : Declared(log[i])

\* Unless an append fails, no token is lost.
TokensKept == faults' = 0 => HeldTokens \subseteq HeldTokens'

\* What says nothing of a lifecycle and admits nothing.
Plain(r) == r.kind # "lifecycle" /\ ~Admits(r)

-----------------------------------------------------------------------------
(* Walking along the records of a log.                                     *)

LEMMA TellsOfPrefix ==
  ASSUME NEW records, NEW longer, NEW n \in Nat, NEW m \in 0 .. n,
         \A i \in 1 .. n : longer[i] = records[i], NEW p, NEW s
  PROVE  Tells(longer, p, s, m) <=> Tells(records, p, s, m)
<1>1. \A i \in 1 .. m : longer[i] = records[i]
  OBVIOUS
<1>2. ASSUME NEW i \in 1 .. m, NEW j \in (i + 1) .. m PROVE longer[j] = records[j]
  BY <1>1
<1>3. CASE s = "Unregistered"
  BY <1>1, <1>3 DEF Tells
<1>4. CASE s # "Unregistered"
  BY <1>1, <1>2, <1>4 DEF Tells
<1> QED
  BY <1>3, <1>4

LEMMA CarriedOver ==
  ASSUME NEW records, NEW longer, NEW n \in Nat, NEW states,
         \A i \in 1 .. n : longer[i] = records[i],
         TellsUpTo(records, states, n)
  PROVE  TellsUpTo(longer, states, n)
<1>1. \A m \in 0 .. n : \A p, s : Tells(longer, p, s, m) <=> Tells(records, p, s, m)
  BY TellsOfPrefix
<1>2. n \in 0 .. n /\ \A j \in 1 .. n : j - 1 \in 0 .. n
  OBVIOUS
<1>3. \A p \in Plugins : Tells(longer, p, states[p], n)
  BY <1>1, <1>2 DEF TellsUpTo
<1>4. ASSUME NEW p \in Plugins, NEW j \in 1 .. n, IsLifecycle(longer[j], p)
      PROVE  \E s \in LifecycleStates :
               Move(s, longer[j].state) /\ Tells(longer, p, s, j - 1)
  BY <1>1, <1>2, <1>4 DEF TellsUpTo
<1>5. ASSUME NEW i \in 1 .. n, Admits(longer[i])
      PROVE  Tells(longer, longer[i].event.source, "Running", i - 1)
  BY <1>1, <1>2, <1>5 DEF TellsUpTo
<1> QED
  BY <1>3, <1>4, <1>5 DEF TellsUpTo

\* Records that say nothing of p do not change what is told of it.
LEMMA TellsOn ==
  ASSUME NEW records, NEW n \in Nat, NEW m \in Nat, n <= m, NEW p, NEW s,
         \A i \in (n + 1) .. m : ~IsLifecycle(records[i], p),
         Tells(records, p, s, n)
  PROVE  Tells(records, p, s, m)
<1>1. CASE s = "Unregistered"
  <2>1. \A i \in 1 .. n : ~IsLifecycle(records[i], p)
    BY <1>1 DEF Tells
  <2>2. \A i \in 1 .. m : i \in 1 .. n \/ i \in (n + 1) .. m
    OBVIOUS
  <2> QED
    BY <1>1, <2>1, <2>2 DEF Tells
<1>2. CASE s # "Unregistered"
  <2>1. PICK i \in 1 .. n :
          /\ IsLifecycle(records[i], p) /\ records[i].state = s
          /\ \A j \in (i + 1) .. n : ~IsLifecycle(records[j], p)
    BY <1>2 DEF Tells
  <2>2. i \in 1 .. m /\ \A j \in (i + 1) .. m : j \in (i + 1) .. n \/ j \in (n + 1) .. m
    OBVIOUS
  <2>3. \A j \in (i + 1) .. m : ~IsLifecycle(records[j], p)
    BY <2>1, <2>2
  <2> QED
    BY <1>2, <2>1, <2>2, <2>3 DEF Tells
<1> QED
  BY <1>1, <1>2

LEMMA PlainOn ==
  ASSUME NEW records, NEW n \in Nat, NEW m \in Nat, n <= m, NEW states,
         \A i \in (n + 1) .. m : Plain(records[i]),
         TellsUpTo(records, states, n)
  PROVE  TellsUpTo(records, states, m)
<1>1. \A i \in 1 .. m : i \in 1 .. n \/ i \in (n + 1) .. m
  OBVIOUS
<1>2. \A i \in (n + 1) .. m : \A p : ~IsLifecycle(records[i], p)
  BY DEF Plain, IsLifecycle
<1>3. ASSUME NEW p \in Plugins PROVE Tells(records, p, states[p], m)
  <2>1. Tells(records, p, states[p], n)
    BY DEF TellsUpTo
  <2>2. \A i \in (n + 1) .. m : ~IsLifecycle(records[i], p)
    BY <1>2
  <2> QED
    BY <2>1, <2>2, TellsOn
<1>4. ASSUME NEW p \in Plugins, NEW j \in 1 .. m, IsLifecycle(records[j], p)
      PROVE  \E s \in LifecycleStates :
               Move(s, records[j].state) /\ Tells(records, p, s, j - 1)
  <2>1. j \in 1 .. n
    BY <1>1, <1>2, <1>4
  <2> QED
    BY <1>4, <2>1 DEF TellsUpTo
<1>5. ASSUME NEW i \in 1 .. m, Admits(records[i])
      PROVE  Tells(records, records[i].event.source, "Running", i - 1)
  BY <1>1, <1>5 DEF TellsUpTo, Plain
<1> QED
  BY <1>3, <1>4, <1>5 DEF TellsUpTo

LEMMA MoveOn ==
  ASSUME NEW records, NEW n \in Nat,
         NEW states \in [Plugins -> LifecycleStates],
         NEW p \in Plugins, NEW s \in RuntimeStates,
         records[n + 1] = Lifecycle(p, s), Move(states[p], s),
         TellsUpTo(records, states, n)
  PROVE  TellsUpTo(records, [states EXCEPT ![p] = s], n + 1)
<1>1. /\ IsLifecycle(records[n + 1], p) /\ records[n + 1].state = s
      /\ \A q : q # p => ~IsLifecycle(records[n + 1], q)
      /\ ~Admits(records[n + 1])
  BY DEF IsLifecycle, Lifecycle, Admits
<1>2. \A i \in 1 .. (n + 1) : i \in 1 .. n \/ i = n + 1
  OBVIOUS
<1>3. ASSUME NEW q \in Plugins PROVE Tells(records, q, [states EXCEPT ![p] = s][q], n + 1)
  <2>1. CASE q = p
    <3>1. s # "Unregistered"
      BY DEF RuntimeStates
    <3>2. n + 1 \in 1 .. (n + 1) /\ ((n + 1) + 1) .. (n + 1) = {}
      OBVIOUS
    <3>3. Tells(records, p, s, n + 1)
      BY <1>1, <3>1, <3>2 DEF Tells
    <3> QED
      BY <2>1, <3>3
  <2>2. CASE q # p
    <3>1. Tells(records, q, states[q], n)
      BY DEF TellsUpTo
    <3>2. \A i \in (n + 1) .. (n + 1) : ~IsLifecycle(records[i], q)
      BY <1>1, <2>2
    <3>3. n + 1 \in Nat /\ n <= n + 1
      OBVIOUS
    <3>4. Tells(records, q, states[q], n + 1)
      BY <3>1, <3>2, <3>3, TellsOn
    <3> QED
      BY <2>2, <3>4
  <2> QED
    BY <2>1, <2>2
<1>4. ASSUME NEW q \in Plugins, NEW j \in 1 .. (n + 1), IsLifecycle(records[j], q)
      PROVE  \E t \in LifecycleStates :
               Move(t, records[j].state) /\ Tells(records, q, t, j - 1)
  <2>1. CASE j \in 1 .. n
    BY <1>4, <2>1 DEF TellsUpTo
  <2>2. CASE j = n + 1
    <3>1. q = p /\ j - 1 = n
      BY <1>1, <1>4, <2>2
    <3>2. Tells(records, p, states[p], n) /\ states[p] \in LifecycleStates
      BY DEF TellsUpTo
    <3> QED
      BY <1>1, <2>2, <3>1, <3>2
  <2> QED
    BY <1>2, <2>1, <2>2
<1>5. ASSUME NEW i \in 1 .. (n + 1), Admits(records[i])
      PROVE  Tells(records, records[i].event.source, "Running", i - 1)
  BY <1>1, <1>2, <1>5 DEF TellsUpTo
<1> QED
  BY <1>3, <1>4, <1>5 DEF TellsUpTo

\* A decision moves nobody, and admits only for a plugin that runs.
LEMMA DecideOn ==
  ASSUME NEW records, NEW n \in Nat, NEW states, NEW e, NEW ok,
         records[n + 1] = Decision(e, ok),
         ok => e.source \in Plugins /\ states[e.source] = "Running",
         TellsUpTo(records, states, n)
  PROVE  TellsUpTo(records, states, n + 1)
<1>1. /\ \A q : ~IsLifecycle(records[n + 1], q)
      /\ records[n + 1].event = e
      /\ Admits(records[n + 1]) => ok
  BY DEF IsLifecycle, Decision, Admits
<1>2. \A i \in 1 .. (n + 1) : i \in 1 .. n \/ i = n + 1
  OBVIOUS
<1>3. ASSUME NEW q \in Plugins PROVE Tells(records, q, states[q], n + 1)
  <2>1. Tells(records, q, states[q], n)
    BY DEF TellsUpTo
  <2>2. \A i \in (n + 1) .. (n + 1) : ~IsLifecycle(records[i], q)
    BY <1>1
  <2>3. n + 1 \in Nat /\ n <= n + 1
    OBVIOUS
  <2> QED
    BY <2>1, <2>2, <2>3, TellsOn
<1>4. ASSUME NEW q \in Plugins, NEW j \in 1 .. (n + 1), IsLifecycle(records[j], q)
      PROVE  \E t \in LifecycleStates :
               Move(t, records[j].state) /\ Tells(records, q, t, j - 1)
  BY <1>1, <1>2, <1>4 DEF TellsUpTo
<1>5. ASSUME NEW i \in 1 .. (n + 1), Admits(records[i])
      PROVE  Tells(records, records[i].event.source, "Running", i - 1)
  <2>1. CASE i \in 1 .. n
    BY <1>5, <2>1 DEF TellsUpTo
  <2>2. CASE i = n + 1
    <3>1. e.source \in Plugins /\ states[e.source] = "Running" /\ i - 1 = n
      BY <1>1, <1>5, <2>2
    <3>2. Tells(records, e.source, "Running", n)
      BY <3>1 DEF TellsUpTo
    <3> QED
      BY <1>1, <2>2, <3>1, <3>2
  <2> QED
    BY <1>2, <2>1, <2>2
<1> QED
  BY <1>3, <1>4, <1>5 DEF TellsUpTo

-----------------------------------------------------------------------------
(* The appends of the methods.                                             *)

\* Without a fault all records of a method are appended, after those there were.
LEMMA AppendAll ==
  ASSUME TypeOK, NEW recs \in Seq(Record), NEW k, Append_k(recs, k), faults' = 0
  PROVE  /\ faults = 0 /\ k = Len(recs)
         /\ Len(log) \in Nat /\ Len(log') = Len(log) + Len(recs)
         /\ \A i \in 1 .. Len(log) : log'[i] = log[i]
         /\ \A i \in 1 .. Len(recs) : log'[Len(log) + i] = recs[i]
<1>1. log \in Seq(Record) /\ faults \in Nat
  BY DEF TypeOK
<1>2. /\ Len(log') = Len(log) + k
      /\ \A i \in 1 .. Len(log) : log'[i] = log[i]
      /\ \A i \in 1 .. k : log'[Len(log) + i] = recs[i]
      /\ k \in 0 .. Len(recs)
  BY <1>1, AppendExtends
<1>3. faults' = IF k < Len(recs) THEN faults + 1 ELSE faults
  BY DEF Append_k
<1>4. faults = 0 /\ k = Len(recs)
  BY <1>1, <1>2, <1>3
<1> QED
  BY <1>1, <1>2, <1>4

LEMMA AppendDeclared ==
  ASSUME TypeOK, HistoryInv, NEW recs \in Seq(Record), NEW k, Append_k(recs, k),
         \A i \in 1 .. Len(recs) : Declared(recs[i])
  PROVE  \A i \in 1 .. Len(log') : Declared(log'[i])
<1>1. log \in Seq(Record)
  BY DEF TypeOK
<1>2. /\ Len(log') = Len(log) + k
      /\ \A i \in 1 .. Len(log) : log'[i] = log[i]
      /\ \A i \in 1 .. k : log'[Len(log) + i] = recs[i]
      /\ k \in 0 .. Len(recs)
  BY <1>1, AppendExtends
<1> SUFFICES ASSUME NEW i \in 1 .. Len(log') PROVE Declared(log'[i])
  OBVIOUS
<1>3. CASE i <= Len(log)
  <2>1. i \in 1 .. Len(log)
    BY <1>1, <1>2, <1>3
  <2> QED
    BY <1>2, <2>1 DEF HistoryInv
<1>4. CASE i > Len(log)
  <2>1. i - Len(log) \in 1 .. k /\ i = Len(log) + (i - Len(log))
    BY <1>1, <1>2, <1>4
  <2>2. log'[i] = recs[i - Len(log)] /\ i - Len(log) \in 1 .. Len(recs)
    BY <1>2, <2>1
  <2> QED
    BY <2>2
<1> QED
  BY <1>1, <1>2, <1>3, <1>4

\* Each admission appended without a fault has its token held afterwards.
LEMMA AppendHeld ==
  ASSUME TypeOK, HistoryInv, TokensKept, NEW recs \in Seq(Record), NEW k,
         Append_k(recs, k), faults' = 0,
         \A i \in 1 .. Len(recs) :
           Admits(recs[i]) => [event |-> recs[i].event, policy |-> Len(log) + i] \in HeldTokens'
  PROVE  \A i \in 1 .. Len(log') :
           Admits(log'[i]) => [event |-> log'[i].event, policy |-> i] \in HeldTokens'
<1>1. /\ faults = 0 /\ Len(log) \in Nat /\ Len(log') = Len(log) + Len(recs)
      /\ \A i \in 1 .. Len(log) : log'[i] = log[i]
      /\ \A i \in 1 .. Len(recs) : log'[Len(log) + i] = recs[i]
  BY AppendAll
<1>2. ASSUME NEW i \in 1 .. Len(log), Admits(log'[i])
      PROVE  [event |-> log'[i].event, policy |-> i] \in HeldTokens'
  <2>1. [event |-> log[i].event, policy |-> i] \in HeldTokens
    BY <1>1, <1>2 DEF HistoryInv
  <2> QED
    BY <1>1, <2>1 DEF TokensKept
<1>3. ASSUME NEW i \in (Len(log) + 1) .. Len(log'), Admits(log'[i])
      PROVE  [event |-> log'[i].event, policy |-> i] \in HeldTokens'
  <2>1. i - Len(log) \in 1 .. Len(recs) /\ Len(log) + (i - Len(log)) = i
    BY <1>1
  <2>2. log'[i] = recs[i - Len(log)]
    BY <1>1, <2>1
  <2> QED
    BY <1>3, <2>1, <2>2
<1>4. \A i \in 1 .. Len(log') : i \in 1 .. Len(log) \/ i \in (Len(log) + 1) .. Len(log')
  BY <1>1
<1> QED
  BY <1>2, <1>3, <1>4

LEMMA PlainHistory ==
  ASSUME TypeOK, HistoryInv, TokensKept, UNCHANGED pstate,
         NEW recs \in Seq(Record), \A i \in 1 .. Len(recs) : Plain(recs[i]),
         NEW k, Append_k(recs, k)
  PROVE  HistoryInv'
<1>1. \A i \in 1 .. Len(log') : Declared(log'[i])
  BY AppendDeclared DEF Declared, Plain
<1>2. ASSUME faults' = 0 PROVE TellsUpTo(log', pstate', Len(log'))
  <2>1. /\ faults = 0 /\ Len(log) \in Nat /\ Len(log') = Len(log) + Len(recs)
        /\ \A i \in 1 .. Len(log) : log'[i] = log[i]
        /\ \A i \in 1 .. Len(recs) : log'[Len(log) + i] = recs[i]
    BY <1>2, AppendAll
  <2>2. TellsUpTo(log', pstate, Len(log))
    BY <2>1, CarriedOver DEF HistoryInv
  <2>3. ASSUME NEW i \in (Len(log) + 1) .. Len(log') PROVE Plain(log'[i])
    <3>1. i - Len(log) \in 1 .. Len(recs) /\ i = Len(log) + (i - Len(log))
      BY <2>1
    <3> QED
      BY <2>1, <3>1
  <2>4. Len(log') \in Nat /\ Len(log) <= Len(log')
    BY <2>1
  <2> QED
    BY <2>1, <2>2, <2>3, <2>4, PlainOn
<1>3. ASSUME faults' = 0
      PROVE  \A i \in 1 .. Len(log') :
               Admits(log'[i]) => [event |-> log'[i].event, policy |-> i] \in HeldTokens'
  BY <1>3, AppendHeld DEF Plain
<1> QED
  BY <1>1, <1>2, <1>3 DEF HistoryInv

LEMMA PlainRecords ==
  ASSUME NEW p, NEW x
  PROVE  /\ Plain(RuntimeDenied(p, x)) /\ Plain(TransportFailed(p, x))
         /\ Plain(Evidence(p, x)) /\ Plain(SendAttempted(p, x))
         /\ Plain(SendSucceeded(p, x)) /\ Plain(Published(x))
BY DEF Plain, Admits, RuntimeDenied, TransportFailed, Evidence, SendAttempted,
       SendSucceeded, Published

\* A method that enters one state and gives up there.
LEMMA EnterHistory ==
  ASSUME TypeOK, HistoryInv, TokensKept, NEW p \in Plugins,
         NEW entry \in RuntimeStates, NEW k, Enter(p, entry, k), Move(pstate[p], entry)
  PROVE  HistoryInv'
<1> DEFINE recs == <<Lifecycle(p, entry)>>
<1>1. /\ recs \in Seq(Record) /\ Len(recs) = 1 /\ recs[1] = Lifecycle(p, entry)
      /\ Append_k(recs, k) /\ pstate' = [pstate EXCEPT ![p] = entry]
  <2>1. Lifecycle(p, entry) \in Record
    BY PluginRecordTypes
  <2> QED
    BY <2>1 DEF Enter
<1>2. Declared(Lifecycle(p, entry))
  BY DEF Declared, Admits, Lifecycle
<1> HIDE DEF recs
<1>3. \A i \in 1 .. Len(log') : Declared(log'[i])
  BY <1>1, <1>2, AppendDeclared
<1>4. ASSUME faults' = 0 PROVE TellsUpTo(log', pstate', Len(log'))
  <2>1. /\ faults = 0 /\ Len(log) \in Nat /\ Len(log') = Len(log) + 1
        /\ \A i \in 1 .. Len(log) : log'[i] = log[i]
        /\ log'[Len(log) + 1] = Lifecycle(p, entry)
    <3>1. /\ faults = 0 /\ Len(log) \in Nat /\ Len(log') = Len(log) + Len(recs)
          /\ \A i \in 1 .. Len(log) : log'[i] = log[i]
          /\ \A i \in 1 .. Len(recs) : log'[Len(log) + i] = recs[i]
      BY <1>1, <1>4, AppendAll
    <3>2. 1 \in 1 .. Len(recs)
      BY <1>1
    <3>3. log'[Len(log) + 1] = recs[1]
      BY <3>1, <3>2
    <3> QED
      BY <1>1, <3>1, <3>3
  <2>2. TellsUpTo(log', pstate, Len(log))
    BY <2>1, CarriedOver DEF HistoryInv
  <2>3. pstate \in [Plugins -> LifecycleStates]
    BY DEF TypeOK
  <2>4. TellsUpTo(log', [pstate EXCEPT ![p] = entry], Len(log) + 1)
    BY <2>1, <2>2, <2>3, MoveOn
  <2> QED
    BY <1>1, <2>1, <2>4
<1>5. ASSUME NEW i \in 1 .. Len(recs) PROVE ~Admits(recs[i])
  <2>1. i = 1 /\ ~Admits(Lifecycle(p, entry))
    BY <1>1 DEF Admits, Lifecycle
  <2> QED
    BY <1>1, <2>1
<1>6. ASSUME faults' = 0
      PROVE  \A i \in 1 .. Len(log') :
               Admits(log'[i]) => [event |-> log'[i].event, policy |-> i] \in HeldTokens'
  BY <1>1, <1>5, <1>6, AppendHeld
<1> QED
  BY <1>3, <1>4, <1>6 DEF HistoryInv

\* A method that passes through one state to another.
LEMMA TraverseHistory ==
  ASSUME TypeOK, HistoryInv, TokensKept,
         NEW p \in Plugins, NEW entry \in RuntimeStates,
         NEW exit \in RuntimeStates, NEW between \in Seq(Record),
         \A i \in 1 .. Len(between) : Plain(between[i]),
         Move(pstate[p], entry), Move(entry, exit),
         NEW k, Traverse(p, entry, between, exit, k)
  PROVE  HistoryInv'
<1> DEFINE recs == <<Lifecycle(p, entry)>> \o between \o <<Lifecycle(p, exit)>>
<1>1. Lifecycle(p, entry) \in Record /\ Lifecycle(p, exit) \in Record
  BY PluginRecordTypes
<1>2. recs \in Seq(Record) /\ Len(recs) = Len(between) + 2 /\ Len(between) \in Nat
  BY <1>1
<1>3. \A i \in 1 .. Len(recs) :
        recs[i] = IF i = 1 THEN Lifecycle(p, entry)
                  ELSE IF i = Len(between) + 2 THEN Lifecycle(p, exit)
                  ELSE between[i - 1]
  BY <1>1, <1>2
<1>4. /\ Append_k(recs, k)
      /\ pstate' = [pstate EXCEPT ![p] = IF k > Len(between) THEN exit ELSE entry]
  BY DEF Traverse
<1> HIDE DEF recs
<1>5. \A i \in 1 .. Len(recs) : Declared(recs[i])
  <2>1. \A s : Declared(Lifecycle(p, s))
    BY DEF Declared, Admits, Lifecycle
  <2>2. ASSUME NEW i \in 1 .. Len(recs), i # 1, i # Len(between) + 2
        PROVE  Declared(between[i - 1])
    <3>1. i - 1 \in 1 .. Len(between)
      BY <1>2, <2>2
    <3> QED
      BY <3>1 DEF Declared, Plain
  <2> QED
    BY <1>3, <2>1, <2>2
<1>6. \A i \in 1 .. Len(log') : Declared(log'[i])
  BY <1>2, <1>4, <1>5, AppendDeclared
<1>7. ASSUME faults' = 0 PROVE TellsUpTo(log', pstate', Len(log'))
  <2> DEFINE n == Len(log)
             m == Len(log) + 1 + Len(between)
             entered == [pstate EXCEPT ![p] = entry]
  <2>1. /\ faults = 0 /\ k = Len(recs)
        /\ n \in Nat /\ Len(log') = n + Len(recs)
        /\ \A i \in 1 .. n : log'[i] = log[i]
        /\ \A i \in 1 .. Len(recs) : log'[n + i] = recs[i]
    BY <1>2, <1>4, <1>7, AppendAll
  <2>2. pstate \in [Plugins -> LifecycleStates] /\ entry \in LifecycleStates
    BY DEF TypeOK, LifecycleStates
  <2>3. entered \in [Plugins -> LifecycleStates] /\ entered[p] = entry
    BY <2>2
  <2>4. pstate' = [entered EXCEPT ![p] = exit]
    <3>1. k > Len(between)
      BY <1>2, <2>1
    <3>2. pstate' = [pstate EXCEPT ![p] = exit]
      BY <1>4, <3>1
    <3> QED
      BY <2>2, <3>2
  <2>5. TellsUpTo(log', pstate, n)
    BY <2>1, CarriedOver DEF HistoryInv
  <2>6. log'[n + 1] = Lifecycle(p, entry)
    BY <1>2, <1>3, <2>1
  <2>7. log'[m + 1] = Lifecycle(p, exit) /\ Len(log') = m + 1
    <3>1. Len(between) + 2 \in 1 .. Len(recs) /\ Len(between) + 2 # 1
      BY <1>2
    <3>2. m + 1 = n + (Len(between) + 2)
      BY <1>2, <2>1
    <3> QED
      BY <1>2, <1>3, <2>1, <3>1, <3>2
  <2>8. ASSUME NEW i \in ((n + 1) + 1) .. m PROVE Plain(log'[i])
    <3>1. /\ i - n \in 1 .. Len(recs) /\ i = n + (i - n)
          /\ i - n # 1 /\ i - n # Len(between) + 2
          /\ (i - n) - 1 \in 1 .. Len(between)
      BY <1>2, <2>1
    <3>2. log'[i] = between[(i - n) - 1]
      BY <1>3, <2>1, <3>1
    <3> QED
      BY <3>1, <3>2
  <2>9. m \in Nat /\ n + 1 \in Nat /\ n + 1 <= m
    BY <1>2, <2>1
  <2> HIDE DEF n, m, entered
  <2>10. TellsUpTo(log', entered, n + 1)
    BY <2>1, <2>2, <2>5, <2>6, MoveOn DEF entered
  <2>11. TellsUpTo(log', entered, m)
    BY <2>8, <2>9, <2>10, PlainOn
  <2>12. TellsUpTo(log', [entered EXCEPT ![p] = exit], m + 1)
    BY <2>3, <2>7, <2>9, <2>11, MoveOn
  <2> QED
    BY <2>4, <2>7, <2>12
<1>8. ASSUME NEW i \in 1 .. Len(recs) PROVE ~Admits(recs[i])
  <2>1. \A s : ~Admits(Lifecycle(p, s))
    BY DEF Admits, Lifecycle
  <2>2. CASE i = 1 \/ i = Len(between) + 2
    BY <1>3, <2>1, <2>2
  <2>3. CASE i # 1 /\ i # Len(between) + 2
    <3>1. i - 1 \in 1 .. Len(between)
      BY <1>2, <2>3
    <3> QED
      BY <1>3, <2>3, <3>1 DEF Plain
  <2> QED
    BY <2>2, <2>3
<1>9. ASSUME faults' = 0
      PROVE  \A i \in 1 .. Len(log') :
               Admits(log'[i]) => [event |-> log'[i].event, policy |-> i] \in HeldTokens'
  BY <1>2, <1>4, <1>8, <1>9, AppendHeld
<1> QED
  BY <1>6, <1>7, <1>9 DEF HistoryInv

LEMMA DecisionHistory ==
  ASSUME TypeOK, HistoryInv, TokensKept, UNCHANGED pstate, NEW e \in Event, NEW k,
         Append_k(<<Decision(e, Admissible(e))>>, k),
         k = 1 => Granted(e, TRUE) \subseteq HeldTokens'
  PROVE  HistoryInv'
<1> DEFINE recs == <<Decision(e, Admissible(e))>>
<1>1. /\ recs \in Seq(Record) /\ Len(recs) = 1
      /\ recs[1] = Decision(e, Admissible(e)) /\ Append_k(recs, k)
  <2>1. Admissible(e) \in BOOLEAN
    BY DEF Admissible
  <2>2. Decision(e, Admissible(e)) \in Record
    BY <2>1, EventRecordTypes
  <2> QED
    BY <2>2
<1> HIDE DEF recs
<1>2. Declared(Decision(e, Admissible(e)))
  <2>1. /\ Decision(e, Admissible(e)).event = e
        /\ Decision(e, Admissible(e)).allowed = Admissible(e)
    BY DEF Decision
  <2> QED
    BY <2>1, Zenon DEF Declared, Admits, Admissible
<1>3. \A i \in 1 .. Len(log') : Declared(log'[i])
  BY <1>1, <1>2, AppendDeclared
<1>4. ASSUME faults' = 0 PROVE TellsUpTo(log', pstate', Len(log'))
  <2>1. /\ faults = 0 /\ Len(log) \in Nat /\ Len(log') = Len(log) + 1
        /\ \A i \in 1 .. Len(log) : log'[i] = log[i]
        /\ log'[Len(log) + 1] = Decision(e, Admissible(e))
    <3>1. /\ faults = 0 /\ Len(log) \in Nat /\ Len(log') = Len(log) + Len(recs)
          /\ \A i \in 1 .. Len(log) : log'[i] = log[i]
          /\ \A i \in 1 .. Len(recs) : log'[Len(log) + i] = recs[i]
      BY <1>1, <1>4, AppendAll
    <3>2. 1 \in 1 .. Len(recs)
      BY <1>1
    <3>3. log'[Len(log) + 1] = recs[1]
      BY <3>1, <3>2
    <3> QED
      BY <1>1, <3>1, <3>3
  <2>2. TellsUpTo(log', pstate, Len(log))
    BY <2>1, CarriedOver DEF HistoryInv
  <2>3. Admissible(e) => e.source \in Plugins /\ pstate[e.source] = "Running"
    BY DEF Admissible, Event
  <2>4. TellsUpTo(log', pstate, Len(log) + 1)
    BY <2>1, <2>2, <2>3, DecideOn
  <2> QED
    BY <2>1, <2>4
<1>5. ASSUME faults' = 0, NEW i \in 1 .. Len(recs), Admits(recs[i])
      PROVE  [event |-> recs[i].event, policy |-> Len(log) + i] \in HeldTokens'
  <2>1. i = 1 /\ recs[i] = Decision(e, Admissible(e)) /\ k = 1
    <3>1. k = Len(recs)
      BY <1>1, <1>5, AppendAll
    <3> QED
      BY <1>1, <3>1
  <2>2. Admissible(e) /\ recs[i].event = e
    BY <1>5, <2>1 DEF Admits, Decision
  <2>3. TokenFor(e) \in HeldTokens'
    BY <2>1, <2>2 DEF Granted
  <2> QED
    BY <2>1, <2>2, <2>3 DEF TokenFor
<1>6. ASSUME faults' = 0
      PROVE  \A i \in 1 .. Len(log') :
               Admits(log'[i]) => [event |-> log'[i].event, policy |-> i] \in HeldTokens'
  BY <1>1, <1>5, <1>6, AppendHeld
<1> QED
  BY <1>3, <1>4, <1>6 DEF HistoryInv

LEMMA SameHistory ==
  ASSUME HistoryInv, TokensKept, UNCHANGED <<log, pstate, faults>>
  PROVE  HistoryInv'
BY DEF HistoryInv, TokensKept
-----------------------------------------------------------------------------
(* The methods.                                                            *)

LEMMA Moves ==
  ASSUME NEW p \in Plugins
  PROVE  /\ Move("Registered", "Admitted") /\ Move("Starting", "Failed")
         /\ Move("Starting", "Running") /\ Move("Stopping", "Stopped")
         /\ Move("Stopping", "Failed") /\ Move("Unregistered", "Registered")
         /\ \A s, t : TransitionAllowed(p, s, t) => Move(s, t)
BY DEF Move, ValidTransitions, TransitionAllowed

LEMMA SameTokens ==
  ASSUME UNCHANGED <<tokens, call>>
  PROVE  TokensKept
BY DEF TokensKept, HeldTokens

\* What a drain has admitted stays with it, or goes to the caller.
LEMMA DrainTokens ==
  ASSUME TypeOK, call.op = "drain",
         faults' = 0 => \/ /\ tokens' = tokens /\ call'.op = "drain"
                          /\ call.admitted \subseteq call'.admitted
                       \/ tokens' = tokens \cup call.admitted
  PROVE  TokensKept
BY DEF TokensKept, HeldTokens

LEMMA NoDrainTokens ==
  ASSUME call.op # "drain", tokens \subseteq tokens'
  PROVE  TokensKept
BY DEF TokensKept, HeldTokens

LEMMA RegisterNextHistory ==
  ASSUME TypeOK, HistoryInv, RegisterNext
  PROVE  HistoryInv'
<1>1. call \in Registering
  BY DEF RegisterNext, TypeOK, Idle, Draining
<1>2. Profile[call.next] \in Plugins
  BY <1>1, ConstantTypes DEF RegisterNext, Registering
<1>3. PICK k \in Appends : Traverse(Profile[call.next], "Registered", <<>>, "Admitted", k)
  BY DEF RegisterNext
<1>4. pstate[Profile[call.next]] = "Unregistered"
  BY DEF RegisterNext
<1>5. /\ "Registered" \in RuntimeStates /\ "Admitted" \in RuntimeStates
      /\ <<>> \in Seq(Record) /\ \A i \in 1 .. Len(<<>>) : Plain(<<>>[i])
  BY DEF RuntimeStates
<1>6. TokensKept
  BY NoDrainTokens DEF RegisterNext, authorityVars
<1> QED
  BY <1>2, <1>3, <1>4, <1>5, <1>6, Moves, TraverseHistory

LEMMA RefuseTransitionHistory ==
  ASSUME TypeOK, HistoryInv, NEW p \in Plugins, NEW to, RefuseTransition(p, to)
  PROVE  HistoryInv'
<1>1. PICK d \in DenialKinds, k \in Appends : Append_k(<<RuntimeDenied(p, d)>>, k)
  BY DEF RefuseTransition
<1> DEFINE recs == <<RuntimeDenied(p, d)>>
<1>2. recs \in Seq(Record) /\ \A i \in 1 .. Len(recs) : Plain(recs[i])
  <2>1. RuntimeDenied(p, d) \in Record /\ Plain(RuntimeDenied(p, d))
    BY PluginRecordTypes, PlainRecords DEF Denials
  <2> QED
    BY <2>1
<1>3. UNCHANGED pstate /\ TokensKept
  BY SameTokens DEF RefuseTransition, authorityVars
<1> QED
  BY <1>1, <1>2, <1>3, PlainHistory

LEMMA StartEvidencePlain ==
  ASSUME NEW p \in Plugins, NEW host, NEW i \in 1 .. Len(StartChecks(p, host))
  PROVE  LET evidence == StartChecks(p, host)[i].evidence
         IN \A j \in 1 .. Len(evidence) : Plain(evidence[j])
<1>1. ASSUME NEW e, e = <<>> PROVE \A j \in 1 .. Len(e) : Plain(e[j])
  BY <1>1
<1>2. ASSUME NEW e, NEW s, e = <<TransportFailed(p, s)>>
      PROVE  \A j \in 1 .. Len(e) : Plain(e[j])
  BY <1>2, PlainRecords
<1>3. ASSUME NEW e, NEW d, e = Refusal(p, d)
      PROVE  \A j \in 1 .. Len(e) : Plain(e[j])
  BY <1>3, PlainRecords DEF Refusal
<1> QED
  BY <1>1, <1>2, <1>3, StartEvidence

LEMMA StartPluginHistory ==
  ASSUME TypeOK, HistoryInv, NEW p \in Plugins, StartPlugin(p)
  PROVE  HistoryInv'
<1>1. PICK host \in HostFailures \cup {"none"}, k \in Appends :
        LET checks == StartChecks(p, host)
        IN \/ \E i \in 1 .. Len(checks) :
                /\ FirstFailing(checks, i)
                /\ StartAborted(p, checks[i], k) \/ StartFailed(p, checks[i], k)
           \/ AllPass(checks) /\ StartSucceeded(p, k)
  BY DEF StartPlugin
<1>2. Move(pstate[p], "Starting") /\ TokensKept
  BY Moves, SameTokens DEF StartPlugin, authorityVars
<1>3. /\ "Starting" \in RuntimeStates /\ "Failed" \in RuntimeStates
      /\ "Running" \in RuntimeStates
      /\ <<>> \in Seq(Record) /\ \A i \in 1 .. Len(<<>>) : Plain(<<>>[i])
  BY DEF RuntimeStates
<1>4. ASSUME NEW i \in 1 .. Len(StartChecks(p, host)),
             StartAborted(p, StartChecks(p, host)[i], k)
      PROVE  HistoryInv'
  BY <1>2, <1>3, <1>4, EnterHistory DEF StartAborted
<1>5. ASSUME NEW i \in 1 .. Len(StartChecks(p, host)),
             StartFailed(p, StartChecks(p, host)[i], k)
      PROVE  HistoryInv'
  <2> DEFINE evidence == StartChecks(p, host)[i].evidence
  <2>1. evidence \in Seq(Record) /\ \A j \in 1 .. Len(evidence) : Plain(evidence[j])
    BY StartEvidenceTypes, StartEvidencePlain
  <2>2. Traverse(p, "Starting", evidence, "Failed", k)
    BY <1>5 DEF StartFailed
  <2> HIDE DEF evidence
  <2> QED
    BY <1>2, <1>3, <2>1, <2>2, Moves, TraverseHistory
<1>6. ASSUME StartSucceeded(p, k) PROVE HistoryInv'
  BY <1>2, <1>3, <1>6, Moves, TraverseHistory DEF StartSucceeded
<1> QED
  BY <1>1, <1>4, <1>5, <1>6

LEMMA StopPluginHistory ==
  ASSUME TypeOK, HistoryInv, NEW p \in Plugins, StopPlugin(p)
  PROVE  HistoryInv'
<1>1. Move(pstate[p], "Stopping") /\ TokensKept
  BY Moves, SameTokens DEF StopPlugin, authorityVars
<1>2. /\ "Stopping" \in RuntimeStates /\ "Stopped" \in RuntimeStates
      /\ "Failed" \in RuntimeStates
  BY DEF RuntimeStates
<1>3. ASSUME NEW k \in Appends, NEW n \in Nat, StopSucceeded(p, n, k)
      PROVE  HistoryInv'
  <2> DEFINE held == stderr[p] \o [i \in 1 .. n |-> lines[p] + i]
             between == [i \in 1 .. Len(held) |-> Evidence(p, held[i])]
  <2>1. between \in Seq(Record)
    BY HeldEvidenceTypes
  <2>2. Traverse(p, "Stopping", between, "Stopped", k)
    BY <1>3 DEF StopSucceeded
  <2>3. \A i \in 1 .. Len(between) : Plain(between[i])
    <3>1. Len(held) \in Nat
      <4>1. stderr[p] \in Seq(Nat) /\ lines[p] \in Nat
        BY DEF TypeOK
      <4>2. [i \in 1 .. n |-> lines[p] + i] \in Seq(Nat)
        BY <4>1
      <4> QED
        BY <4>1, <4>2
    <3> HIDE DEF held
    <3>2. Len(between) = Len(held)
      BY <3>1
    <3> QED
      BY <3>2, PlainRecords
  <2> HIDE DEF between, held
  <2> QED
    BY <1>1, <1>2, <2>1, <2>2, <2>3, Moves, TraverseHistory
<1>4. ASSUME NEW k \in Appends, StopFailed(p, k) PROVE HistoryInv'
  <2> DEFINE between == <<TransportFailed(p, "stop")>>
  <2>1. between \in Seq(Record) /\ \A i \in 1 .. Len(between) : Plain(between[i])
    <3>1. TransportFailed(p, "stop") \in Record /\ Plain(TransportFailed(p, "stop"))
      BY PluginRecordTypes, PlainRecords DEF Stages
    <3> QED
      BY <3>1
  <2>2. Traverse(p, "Stopping", between, "Failed", k)
    BY <1>4 DEF StopFailed
  <2> HIDE DEF between
  <2> QED
    BY <1>1, <1>2, <2>1, <2>2, Moves, TraverseHistory
<1>5. PICK k \in Appends :
        \/ \E n \in IF Sidecar(p) /\ p \in transports THEN StopEvidence ELSE {0} :
             StopSucceeded(p, n, k)
        \/ StopFailed(p, k)
  BY DEF StopPlugin
<1> QED
  BY <1>3, <1>4, <1>5, ConstantTypes

LEMMA AdmitEventHistory ==
  ASSUME TypeOK, HistoryInv, NEW e \in Envelopes, AdmitEvent(e)
  PROVE  HistoryInv'
<1>1. e \in Event
  BY OfferedTypes
<1>2. PICK k \in Appends :
        /\ Append_k(<<Decision(e, Admissible(e))>>, k)
        /\ tokens' = tokens \cup Granted(e, k = 1)
  BY DEF AdmitEvent
<1>3. UNCHANGED pstate /\ TokensKept
  <2>1. call.op # "drain"
    BY DEF AdmitEvent, Ready, Idle
  <2> QED
    BY <1>2, <2>1, NoDrainTokens DEF AdmitEvent
<1>4. k = 1 => Granted(e, TRUE) \subseteq HeldTokens'
  BY <1>2 DEF HeldTokens
<1> QED
  BY <1>1, <1>2, <1>3, <1>4, DecisionHistory

LEMMA PublishAdmittedHistory ==
  ASSUME TypeOK, HistoryInv, NEW t \in tokens, PublishAdmitted(t)
  PROVE  HistoryInv'
<1> DEFINE recs == IF dead[t.event.topic] = 0 THEN <<Published(t)>> ELSE <<>>
<1>1. PICK k \in Appends : Append_k(recs, k)
  BY DEF PublishAdmitted
<1>2. recs \in Seq(Record) /\ \A i \in 1 .. Len(recs) : Plain(recs[i])
  <2>1. Published(t) \in Record /\ Plain(Published(t))
    <3>1. t \in Token
      BY DEF TypeOK
    <3>2. Plain(Published(t))
      BY DEF Plain, Admits, Published
    <3> QED
      BY <3>1, <3>2, EventRecordTypes
  <2> QED
    BY <2>1
<1>3. UNCHANGED pstate /\ TokensKept
  BY SameTokens DEF PublishAdmitted
<1> QED
  BY <1>1, <1>2, <1>3, PlainHistory

LEMMA SendToPluginHistory ==
  ASSUME TypeOK, HistoryInv, NEW p \in Plugins, NEW t \in tokens, SendToPlugin(p, t)
  PROVE  HistoryInv'
<1>1. t \in Token /\ t.event \in Event
  BY DEF TypeOK, Token
<1>2. /\ RuntimeDenied(p, "SubscriptionDenied") \in Record
      /\ TransportFailed(p, "send") \in Record
      /\ SendAttempted(p, t.event) \in Record
      /\ SendSucceeded(p, t.event) \in Record
  BY <1>1, PluginRecordTypes, EventRecordTypes DEF Denials, Stages
<1>3. /\ Plain(RuntimeDenied(p, "SubscriptionDenied"))
      /\ Plain(TransportFailed(p, "send"))
      /\ Plain(SendAttempted(p, t.event)) /\ Plain(SendSucceeded(p, t.event))
  BY PlainRecords
<1> DEFINE refused == <<RuntimeDenied(p, "SubscriptionDenied"), TransportFailed(p, "send")>>
           inactive == <<TransportFailed(p, "send")>>
           failed == <<SendAttempted(p, t.event), TransportFailed(p, "send")>>
           sent == <<SendAttempted(p, t.event), SendSucceeded(p, t.event)>>
<1>4. ASSUME NEW recs \in {refused, inactive, failed, sent}
      PROVE  recs \in Seq(Record) /\ \A i \in 1 .. Len(recs) : Plain(recs[i])
  <2>1. ASSUME NEW a, NEW b, a \in Record, b \in Record, Plain(a), Plain(b)
        PROVE  /\ <<a, b>> \in Seq(Record)
               /\ \A i \in 1 .. Len(<<a, b>>) : Plain(<<a, b>>[i])
    BY <2>1
  <2>2. ASSUME NEW a, a \in Record, Plain(a)
        PROVE  <<a>> \in Seq(Record) /\ \A i \in 1 .. Len(<<a>>) : Plain(<<a>>[i])
    BY <2>2
  <2> QED
    BY <1>2, <1>3, <2>1, <2>2
<1>5. \E k \in Appends, recs \in {refused, inactive, failed, sent} : Append_k(recs, k)
  BY DEF SendToPlugin, SendRefused, SendInactive, SendFailed, SendSucceeds
<1>6. UNCHANGED pstate /\ TokensKept
  BY SameTokens DEF SendToPlugin
<1> HIDE DEF refused, inactive, failed, sent
<1> QED
  BY <1>4, <1>5, <1>6, PlainHistory

LEMMA DrainEvidenceHistory ==
  ASSUME TypeOK, HistoryInv, DrainEvidence
  PROVE  HistoryInv'
<1> DEFINE recs == <<Evidence(call.plugin, Head(call.evidence))>>
<1>1. PICK k \in Appends :
        /\ Append_k(recs, k)
        /\ call' = IF k = 1 THEN [call EXCEPT !.evidence = Tail(@)] ELSE Idle
  BY DEF DrainEvidence
<1>2. call.plugin \in Plugins /\ call.evidence \in Seq(Nat)
  BY DrainingCall DEF DrainEvidence
<1>3. Head(call.evidence) \in Nat
  BY <1>2 DEF DrainEvidence
<1>4. recs \in Seq(Record) /\ \A i \in 1 .. Len(recs) : Plain(recs[i])
  <2>1. Evidence(call.plugin, Head(call.evidence)) \in Record
    BY <1>2, <1>3, PluginRecordTypes
  <2>2. Plain(Evidence(call.plugin, Head(call.evidence)))
    BY PlainRecords
  <2> QED
    BY <2>1, <2>2
<1>5. UNCHANGED pstate /\ TokensKept
  <2>1. ASSUME faults' = 0
        PROVE  /\ tokens' = tokens /\ call'.op = "drain"
               /\ call.admitted \subseteq call'.admitted
    <3>1. k = Len(recs)
      BY <1>1, <1>4, <2>1, AppendAll
    <3>2. k = 1
      BY <3>1
    <3>3. tokens' = tokens /\ call \in Draining
      BY DrainingCall DEF DrainEvidence, authorityVars
    <3> QED
      BY <1>1, <3>2, <3>3 DEF Draining
  <2> QED
    BY <2>1, DrainTokens DEF DrainEvidence
<1> QED
  BY <1>1, <1>4, <1>5, PlainHistory

LEMMA DrainRefusedHistory ==
  ASSUME TypeOK, HistoryInv, DrainRefused
  PROVE  HistoryInv'
<1> DEFINE checks == CandidateChecks(call.plugin, Head(call.candidates))
           recs(i) == <<RuntimeDenied(call.plugin, checks[i].denial),
                        TransportFailed(call.plugin, "candidate_canonicalization")>>
<1>1. PICK i \in 1 .. 3, k \in Appends :
        /\ Append_k(recs(i), k)
        /\ call' = IF k = 2 THEN [call EXCEPT !.candidates = Tail(@)] ELSE Idle
  BY DEF DrainRefused
<1>2. call.plugin \in Plugins
  BY DrainingCall DEF DrainRefused
<1>3. checks[i].denial \in Denials
  <2>1. CASE i = 1  BY <2>1 DEF CandidateChecks, Denials
  <2>2. CASE i = 2  BY <2>2 DEF CandidateChecks, Denials
  <2>3. CASE i = 3  BY <2>3 DEF CandidateChecks, Denials
  <2> QED
    BY <2>1, <2>2, <2>3
<1> HIDE DEF checks
<1>4. recs(i) \in Seq(Record) /\ \A j \in 1 .. Len(recs(i)) : Plain(recs(i)[j])
  <2>1. /\ RuntimeDenied(call.plugin, checks[i].denial) \in Record
        /\ TransportFailed(call.plugin, "candidate_canonicalization") \in Record
    BY <1>2, <1>3, PluginRecordTypes DEF Stages
  <2>2. /\ Plain(RuntimeDenied(call.plugin, checks[i].denial))
        /\ Plain(TransportFailed(call.plugin, "candidate_canonicalization"))
    BY PlainRecords
  <2> QED
    BY <2>1, <2>2
<1>5. UNCHANGED pstate /\ TokensKept
  <2>1. ASSUME faults' = 0
        PROVE  /\ tokens' = tokens /\ call'.op = "drain"
               /\ call.admitted \subseteq call'.admitted
    <3>1. Len(recs(i)) = 2
      OBVIOUS
    <3> HIDE DEF recs
    <3>2. k = 2
      BY <1>1, <1>4, <2>1, <3>1, AppendAll
    <3>3. tokens' = tokens /\ call \in Draining
      BY DrainingCall DEF DrainRefused, authorityVars
    <3> QED
      BY <1>1, <3>2, <3>3 DEF Draining
  <2> QED
    BY <2>1, DrainTokens DEF DrainRefused
<1> HIDE DEF recs
<1> QED
  BY <1>1, <1>4, <1>5, PlainHistory

LEMMA DrainAdmissionHistory ==
  ASSUME TypeOK, HistoryInv, NEW parent, DrainAdmission(parent)
  PROVE  HistoryInv'
<1>1. call.plugin \in Plugins /\ call.candidates \in Seq(Candidate)
  BY DrainingCall DEF DrainAdmission
<1>2. Head(call.candidates) \in Candidate
  BY <1>1 DEF DrainAdmission
<1>3. parent \in Event
  BY <1>1 DEF DrainAdmission, InFlight, TypeOK
<1> DEFINE e == Canonical(call.plugin, Head(call.candidates), parent)
<1>4. e \in Event
  BY <1>1, <1>2, <1>3, CanonicalTypes DEF DrainAdmission
<1>5. PICK k \in Appends :
        /\ Append_k(<<Decision(e, Admissible(e))>>, k)
        /\ call' = IF k = 0 THEN Idle
                   ELSE [call EXCEPT !.candidates = Tail(@),
                                     !.admitted = @ \cup Granted(e, k = 1)]
  BY DEF DrainAdmission
<1>6. UNCHANGED <<pstate, tokens>> /\ call.op = "drain" /\ call \in Draining
  BY DrainingCall DEF DrainAdmission
<1> HIDE DEF e
<1>7. k # 0 => call'.op = "drain" /\ call'.admitted = call.admitted \cup Granted(e, k = 1)
  BY <1>5, <1>6 DEF Draining
<1>8. TokensKept
  <2>1. <<Decision(e, Admissible(e))>> \in Seq(Record)
    <3>1. Decision(e, Admissible(e)) \in Record
      BY <1>4, EventRecordTypes DEF Admissible
    <3> QED
      BY <3>1
  <2>2. ASSUME faults' = 0 PROVE k # 0
    <3>1. k = Len(<<Decision(e, Admissible(e))>>)
      BY <1>5, <2>1, <2>2, AppendAll
    <3> QED
      BY <3>1
  <2> QED
    BY <1>6, <1>7, <2>2, DrainTokens
<1>9. ASSUME k = 1 PROVE Granted(e, TRUE) \subseteq HeldTokens'
  <2>1. k # 0 /\ Granted(e, k = 1) = Granted(e, TRUE)
    BY <1>9 DEF Granted
  <2> QED
    BY <1>7, <2>1 DEF HeldTokens
<1> QED
  BY <1>4, <1>5, <1>6, <1>8, <1>9, DecisionHistory

LEMMA NextHistory == TypeOK /\ HistoryInv /\ [Next]_vars => HistoryInv'
<1> SUFFICES ASSUME TypeOK, HistoryInv, [Next]_vars PROVE HistoryInv'
  OBVIOUS
<1>1. CASE UNCHANGED vars
  BY <1>1, SameTokens, SameHistory DEF vars
<1>2. CASE RegisterPlugins \/ RegisterReturn
           \/ \E n \in 0 .. Len(SchemaFiles) : RegisterSchemas(n)
  <2>1. call.op # "drain" /\ UNCHANGED <<log, pstate, faults, tokens>>
    BY <1>2 DEF RegisterPlugins, RegisterReturn, RegisterSchemas, Ready, Idle,
       authorityVars
  <2> QED
    BY <2>1, NoDrainTokens, SameHistory
<1>3. CASE RegisterNext
  BY <1>3, RegisterNextHistory
<1>4. CASE \E e \in Envelopes : AdmitEvent(e)
  BY <1>4, AdmitEventHistory
<1>5. CASE \E t \in tokens : PublishAdmitted(t)
  BY <1>5, PublishAdmittedHistory
<1>6. ASSUME NEW p \in Plugins,
             \/ \E to \in {"Starting", "Stopping"} : RefuseTransition(p, to)
             \/ StartPlugin(p) \/ StopPlugin(p)
             \/ \E t \in tokens : SendToPlugin(p, t)
      PROVE  HistoryInv'
  BY <1>6, RefuseTransitionHistory, StartPluginHistory, StopPluginHistory,
     SendToPluginHistory
<1>7. ASSUME NEW p \in Plugins,
             \/ \E m \in 0 .. Len(stderr[p]) : DrainBegin(p, m)
             \/ \E c \in Candidate : SidecarWrites(p, c)
             \/ SidecarComplains(p)
      PROVE  HistoryInv'
  <2>1. UNCHANGED <<log, pstate, faults, tokens>>
    BY <1>7 DEF DrainBegin, SidecarWrites, SidecarComplains, authorityVars
  <2>2. UNCHANGED call \/ call.op # "drain"
    BY <1>7 DEF DrainBegin, SidecarWrites, SidecarComplains, Ready, Idle
  <2> QED
    BY <2>1, <2>2, SameTokens, NoDrainTokens, SameHistory
<1>8. CASE DrainEvidence \/ DrainRefused
  BY <1>8, DrainEvidenceHistory, DrainRefusedHistory
<1>9. CASE DrainReturn
  BY <1>9, DrainTokens, SameHistory DEF DrainReturn
<1>10. CASE \E e \in UNION {inflight[p] : p \in Plugins} : DrainAdmission(e)
  BY <1>10, DrainAdmissionHistory
<1>11. CASE \E valid \in BOOLEAN, extra \in {0, 1} : SealRun(valid, extra)
  BY <1>11, SameTokens, SameHistory DEF SealRun, authorityVars
<1> QED
  BY <1>1, <1>2, <1>3, <1>4, <1>5, <1>6, <1>7, <1>8, <1>9, <1>10, <1>11 DEF Next

LEMMA InitHistory == Init => HistoryInv
<1> SUFFICES ASSUME Init PROVE HistoryInv
  OBVIOUS
<1>1. Len(log) = 0 /\ pstate = [p \in Plugins |-> "Unregistered"]
  BY DEF Init
<1> QED
  BY <1>1 DEF HistoryInv, TellsUpTo, Tells

-----------------------------------------------------------------------------
(* What the history says.                                                  *)

LEMMA ToldAsLogged ==
  ASSUME NEW p, NEW s, s # "Unregistered", NEW n
  PROVE  Tells(log, p, s, n) <=> LoggedState(p, s, n)
BY DEF Tells, LoggedState

LEMMA HistoryTold ==
  ASSUME TypeOK, HistoryInv
  PROVE  /\ ReplayMirrorsLifecycle /\ LegalHistory
         /\ AdmissionsJustified /\ AdmissionsReachCaller
<1>1. DOMAIN log = 1 .. Len(log) /\ Len(log) \in Nat
  BY DEF TypeOK
<1>2. ReplayMirrorsLifecycle
  BY <1>1, ToldAsLogged DEF ReplayMirrorsLifecycle, HistoryInv, TellsUpTo, Tells
<1>3. LegalHistory
  <2> SUFFICES ASSUME faults = 0, NEW p \in Plugins, NEW j \in DOMAIN log,
                      IsLifecycle(log[j], p)
               PROVE  \/ /\ log[j].state = "Registered"
                         /\ \A i \in 1 .. (j - 1) : ~IsLifecycle(log[i], p)
                      \/ \E t \in ValidTransitions :
                           t[2] = log[j].state /\ LoggedState(p, t[1], j - 1)
    BY DEF LegalHistory
  <2>1. PICK s \in LifecycleStates : Move(s, log[j].state) /\ Tells(log, p, s, j - 1)
    BY <1>1 DEF HistoryInv, TellsUpTo
  <2>2. CASE s = "Unregistered"
    <3>1. \A t \in ValidTransitions : t[1] # "Unregistered"
      BY DEF ValidTransitions
    <3>2. log[j].state = "Registered"
      BY <2>1, <2>2, <3>1 DEF Move
    <3> QED
      BY <2>1, <2>2, <3>2 DEF Tells
  <2>3. CASE s # "Unregistered"
    <3>1. <<s, log[j].state>> \in ValidTransitions
      BY <2>1, <2>3 DEF Move
    <3>2. LoggedState(p, s, j - 1)
      BY <2>1, <2>3, ToldAsLogged
    <3> QED
      BY <3>1, <3>2
  <2> QED
    BY <2>2, <2>3
<1>4. AdmissionsJustified
  <2> SUFFICES ASSUME NEW i \in DOMAIN log, log[i].kind = "decision", log[i].allowed
               PROVE  /\ log[i].event.topic \in Manifest[log[i].event.source].publishes
                      /\ faults = 0 => LoggedState(log[i].event.source, "Running", i - 1)
    BY DEF AdmissionsJustified
  <2>1. Admits(log[i]) /\ Declared(log[i])
    BY <1>1 DEF Admits, HistoryInv
  <2>2. faults = 0 => Tells(log, log[i].event.source, "Running", i - 1)
    BY <1>1, <2>1 DEF HistoryInv, TellsUpTo
  <2> QED
    BY <2>1, <2>2, ToldAsLogged DEF Declared
<1>5. AdmissionsReachCaller
  BY <1>1 DEF AdmissionsReachCaller, HistoryInv, Admits
<1> QED
  BY <1>2, <1>3, <1>4, <1>5

LEMMA HistoryKept == Spec => [](TypeOK /\ HistoryInv)
<1>1. Init => TypeOK /\ HistoryInv
  BY InitTypeOK, InitHistory
<1>2. TypeOK /\ HistoryInv /\ [Next]_vars => (TypeOK /\ HistoryInv)'
  BY NextTypeOK, NextHistory
<1> QED
  BY <1>1, <1>2, PTL DEF Spec

\* In a run without append failures the replay log mirrors the supervisor.
THEOREM MirrorKept == Spec => []ReplayMirrorsLifecycle
BY HistoryKept, HistoryTold, PTL

\* In such a run the log, read alone, tells a legal history of every plugin.
THEOREM HistoryIsLegal == Spec => []LegalHistory
BY HistoryKept, HistoryTold, PTL

\* Every admission in the log is for a declared topic and, in such a run, of a
\* plugin the log shows as running.
THEOREM AdmissionsAreJustified == Spec => []AdmissionsJustified
BY HistoryKept, HistoryTold, PTL

\* In such a run no admission is lost between its record and the caller, however
\* a drain interleaves with what its sidecar writes.
THEOREM AdmissionsArrive == Spec => []AdmissionsReachCaller
BY HistoryKept, HistoryTold, PTL
-----------------------------------------------------------------------------
(* Between two methods no plugin is half-way.                              *)

InTransit == {"Registered", "Starting", "Stopping"}

LEMMA AppendSettles ==
  ASSUME TypeOK, NoPluginLeftInTransit, UNCHANGED pstate, NEW recs, NEW k,
         Append_k(recs, k)
  PROVE  NoPluginLeftInTransit'
<1>1. faults \in Nat /\ faults' \in {faults, faults + 1}
  BY DEF Append_k, TypeOK
<1>2. faults' = 0 => faults = 0
  BY <1>1
<1> QED
  BY <1>2 DEF NoPluginLeftInTransit

LEMMA QuietSettles ==
  ASSUME NoPluginLeftInTransit, UNCHANGED <<pstate, faults>>
  PROVE  NoPluginLeftInTransit'
BY DEF NoPluginLeftInTransit

\* A method that leaves for a state at rest gets there unless an append fails.
LEMMA TraverseSettles ==
  ASSUME TypeOK, NoPluginLeftInTransit, NEW p \in Plugins,
         NEW entry \in RuntimeStates, NEW exit \in RuntimeStates \ InTransit,
         NEW between \in Seq(Record), NEW k,
         Traverse(p, entry, between, exit, k)
  PROVE  NoPluginLeftInTransit'
<1> DEFINE recs == <<Lifecycle(p, entry)>> \o between \o <<Lifecycle(p, exit)>>
<1>1. Lifecycle(p, entry) \in Record /\ Lifecycle(p, exit) \in Record
  BY PluginRecordTypes
<1>2. recs \in Seq(Record) /\ Len(recs) = Len(between) + 2 /\ Len(between) \in Nat
  BY <1>1
<1>3. /\ Append_k(recs, k)
      /\ pstate' = [pstate EXCEPT ![p] = IF k > Len(between) THEN exit ELSE entry]
  BY DEF Traverse
<1> HIDE DEF recs
<1>4. ASSUME faults' = 0
      PROVE  faults = 0 /\ pstate' = [pstate EXCEPT ![p] = exit]
  <2>1. faults = 0 /\ k = Len(recs)
    BY <1>2, <1>3, <1>4, AppendAll
  <2>2. k > Len(between)
    BY <1>2, <2>1
  <2> QED
    BY <1>3, <2>1, <2>2
<1>5. pstate \in [Plugins -> LifecycleStates]
  BY DEF TypeOK
<1> QED
  BY <1>4, <1>5 DEF NoPluginLeftInTransit, InTransit

\* Where the host and the manifests never make a start return through `?`, what
\* stops it leaves evidence.
LEMMA StartLeavesEvidence ==
  ASSUME NEW p \in Plugins, NEW host \in HostFailures \cup {"none"},
         "ExecutableUnreadable" \notin HostFailures,
         "ArgsUnreadable" \notin HostFailures,
         Manifest[p].working_dir # "escapes",
         NEW i \in 1 .. Len(StartChecks(p, host)),
         FirstFailing(StartChecks(p, host), i)
  PROVE  StartChecks(p, host)[i].evidence # <<>>
<1> DEFINE check(j) == StartChecks(p, host)[j]
<1>1. i \in 1 .. 11 /\ check(i).fails
  BY DEF StartChecks, FirstFailing
<1>2. i \notin {1, 5, 8}
  <2>1. check(1).fails = (Manifest[p].working_dir = "escapes")
    BY DEF StartChecks
  <2>2. check(5).fails = (Sidecar(p) /\ host = "ExecutableUnreadable")
    BY DEF StartChecks
  <2>3. check(8).fails = (Sidecar(p) /\ (Manifest[p].args_hash /\ host = "ArgsUnreadable"))
    BY DEF StartChecks
  <2>4. host # "ExecutableUnreadable" /\ host # "ArgsUnreadable"
    OBVIOUS
  <2> HIDE DEF check
  <2> QED
    BY <1>1, <2>1, <2>2, <2>3, <2>4
<1>3. \A x, y : <<x>> # <<>> /\ <<x, y>> # <<>>
  <2>1. \A x, y : Len(<<x>>) = 1 /\ Len(<<x, y>>) = 2 /\ Len(<<>>) = 0
    OBVIOUS
  <2> QED
    BY <2>1
<1>4. CASE i \in {2, 3, 4, 6, 7, 9}
  <2>1. \E d : check(i).evidence = Refusal(p, d)
    BY <1>4 DEF StartChecks
  <2> QED
    BY <1>3, <2>1 DEF Refusal
<1>5. CASE i \in {10, 11}
  <2>1. \E s : check(i).evidence = <<TransportFailed(p, s)>>
    BY <1>5 DEF StartChecks
  <2> QED
    BY <1>3, <2>1
<1> QED
  BY <1>1, <1>2, <1>4, <1>5

LEMMA StartPluginSettles ==
  ASSUME TypeOK, NoPluginLeftInTransit, NEW p \in Plugins, StartPlugin(p)
  PROVE  NoPluginLeftInTransit'
<1> SUFFICES ASSUME "ExecutableUnreadable" \notin HostFailures,
                    "ArgsUnreadable" \notin HostFailures,
                    Manifest[p].working_dir # "escapes"
             PROVE  NoPluginLeftInTransit'
  BY DEF NoPluginLeftInTransit
<1>1. PICK host \in HostFailures \cup {"none"}, k \in Appends :
        LET checks == StartChecks(p, host)
        IN \/ \E i \in 1 .. Len(checks) :
                /\ FirstFailing(checks, i)
                /\ StartAborted(p, checks[i], k) \/ StartFailed(p, checks[i], k)
           \/ AllPass(checks) /\ StartSucceeded(p, k)
  BY DEF StartPlugin
<1>2. /\ "Starting" \in RuntimeStates /\ "Failed" \in RuntimeStates \ InTransit
      /\ "Running" \in RuntimeStates \ InTransit /\ <<>> \in Seq(Record)
  BY DEF RuntimeStates, InTransit
<1>3. ASSUME NEW i \in 1 .. Len(StartChecks(p, host)),
             FirstFailing(StartChecks(p, host), i),
             StartAborted(p, StartChecks(p, host)[i], k)
      PROVE  FALSE
  BY <1>3, StartLeavesEvidence DEF StartAborted
<1>4. ASSUME NEW i \in 1 .. Len(StartChecks(p, host)),
             StartFailed(p, StartChecks(p, host)[i], k)
      PROVE  NoPluginLeftInTransit'
  <2> DEFINE evidence == StartChecks(p, host)[i].evidence
  <2>1. evidence \in Seq(Record)
    BY StartEvidenceTypes
  <2>2. Traverse(p, "Starting", evidence, "Failed", k)
    BY <1>4 DEF StartFailed
  <2> HIDE DEF evidence
  <2> QED
    BY <1>2, <2>1, <2>2, TraverseSettles
<1>5. ASSUME StartSucceeded(p, k) PROVE NoPluginLeftInTransit'
  BY <1>2, <1>5, TraverseSettles DEF StartSucceeded
<1> QED
  BY <1>1, <1>3, <1>4, <1>5

LEMMA StopPluginSettles ==
  ASSUME TypeOK, NoPluginLeftInTransit, NEW p \in Plugins, StopPlugin(p)
  PROVE  NoPluginLeftInTransit'
<1>1. /\ "Stopping" \in RuntimeStates /\ "Stopped" \in RuntimeStates \ InTransit
      /\ "Failed" \in RuntimeStates \ InTransit
  BY DEF RuntimeStates, InTransit
<1>2. ASSUME NEW k \in Appends, NEW n \in Nat, StopSucceeded(p, n, k)
      PROVE  NoPluginLeftInTransit'
  <2> DEFINE held == stderr[p] \o [i \in 1 .. n |-> lines[p] + i]
             between == [i \in 1 .. Len(held) |-> Evidence(p, held[i])]
  <2>1. between \in Seq(Record)
    BY HeldEvidenceTypes
  <2>2. Traverse(p, "Stopping", between, "Stopped", k)
    BY <1>2 DEF StopSucceeded
  <2> HIDE DEF between, held
  <2> QED
    BY <1>1, <2>1, <2>2, TraverseSettles
<1>3. ASSUME NEW k \in Appends, StopFailed(p, k) PROVE NoPluginLeftInTransit'
  <2>1. <<TransportFailed(p, "stop")>> \in Seq(Record)
    <3>1. TransportFailed(p, "stop") \in Record
      BY PluginRecordTypes DEF Stages
    <3> QED
      BY <3>1
  <2> QED
    BY <1>1, <1>3, <2>1, TraverseSettles DEF StopFailed
<1>4. PICK k \in Appends :
        \/ \E n \in IF Sidecar(p) /\ p \in transports THEN StopEvidence ELSE {0} :
             StopSucceeded(p, n, k)
        \/ StopFailed(p, k)
  BY DEF StopPlugin
<1> QED
  BY <1>2, <1>3, <1>4, ConstantTypes

LEMMA RegisterNextSettles ==
  ASSUME TypeOK, NoPluginLeftInTransit, RegisterNext
  PROVE  NoPluginLeftInTransit'
<1>1. call \in Registering
  BY DEF RegisterNext, TypeOK, Idle, Draining
<1>2. Profile[call.next] \in Plugins
  BY <1>1, ConstantTypes DEF RegisterNext, Registering
<1>3. PICK k \in Appends : Traverse(Profile[call.next], "Registered", <<>>, "Admitted", k)
  BY DEF RegisterNext
<1>4. /\ "Registered" \in RuntimeStates /\ "Admitted" \in RuntimeStates \ InTransit
      /\ <<>> \in Seq(Record)
  BY DEF RuntimeStates, InTransit
<1> QED
  BY <1>2, <1>3, <1>4, TraverseSettles

LEMMA SendToPluginSettles ==
  ASSUME TypeOK, NoPluginLeftInTransit, NEW p \in Plugins, NEW t \in tokens,
         SendToPlugin(p, t)
  PROVE  NoPluginLeftInTransit'
<1>1. ASSUME NEW k, SendRefused(p, t, k) PROVE \E recs : Append_k(recs, k)
  BY <1>1 DEF SendRefused
<1>2. ASSUME NEW k, SendInactive(p, t, k) PROVE \E recs : Append_k(recs, k)
  BY <1>2 DEF SendInactive
<1>3. ASSUME NEW k, SendFailed(p, t, k) PROVE \E recs : Append_k(recs, k)
  BY <1>3 DEF SendFailed
<1>4. ASSUME NEW k, NEW n, SendSucceeds(p, t, n, k) PROVE \E recs : Append_k(recs, k)
  BY <1>4 DEF SendSucceeds
<1>5. UNCHANGED pstate /\ \E recs, k : Append_k(recs, k)
  BY <1>1, <1>2, <1>3, <1>4 DEF SendToPlugin
<1> QED
  BY <1>5, AppendSettles

LEMMA NextSettles ==
  TypeOK /\ NoPluginLeftInTransit /\ [Next]_vars => NoPluginLeftInTransit'
<1> SUFFICES ASSUME TypeOK, NoPluginLeftInTransit, [Next]_vars
             PROVE  NoPluginLeftInTransit'
  OBVIOUS
<1>1. CASE UNCHANGED vars
  BY <1>1, QuietSettles DEF vars
<1>2. CASE RegisterPlugins \/ RegisterReturn
           \/ \E n \in 0 .. Len(SchemaFiles) : RegisterSchemas(n)
  BY <1>2, QuietSettles DEF RegisterPlugins, RegisterReturn, RegisterSchemas
<1>3. CASE RegisterNext
  BY <1>3, RegisterNextSettles
<1>4. ASSUME NEW e \in Envelopes, AdmitEvent(e)
      PROVE  NoPluginLeftInTransit'
  BY <1>4, AppendSettles DEF AdmitEvent
<1>5. ASSUME NEW t \in tokens, PublishAdmitted(t) PROVE NoPluginLeftInTransit'
  BY <1>5, AppendSettles DEF PublishAdmitted
<1>6. ASSUME NEW p \in Plugins, NEW to, RefuseTransition(p, to)
      PROVE  NoPluginLeftInTransit'
  BY <1>6, AppendSettles DEF RefuseTransition
<1>7. ASSUME NEW p \in Plugins,
             StartPlugin(p) \/ StopPlugin(p) \/ \E t \in tokens : SendToPlugin(p, t)
      PROVE  NoPluginLeftInTransit'
  BY <1>7, StartPluginSettles, StopPluginSettles, SendToPluginSettles
<1>8. ASSUME NEW p \in Plugins,
             \/ \E m \in 0 .. Len(stderr[p]) : DrainBegin(p, m)
             \/ \E c \in Candidate : SidecarWrites(p, c)
             \/ SidecarComplains(p)
      PROVE  NoPluginLeftInTransit'
  BY <1>8, QuietSettles DEF DrainBegin, SidecarWrites, SidecarComplains
<1>9. CASE DrainEvidence
  BY <1>9, AppendSettles DEF DrainEvidence
<1>10. CASE DrainRefused
  BY <1>10, AppendSettles DEF DrainRefused
<1>11. CASE DrainReturn
  BY <1>11, QuietSettles DEF DrainReturn
<1>12. ASSUME NEW e, DrainAdmission(e) PROVE NoPluginLeftInTransit'
  BY <1>12, AppendSettles DEF DrainAdmission
<1>13. CASE \E valid \in BOOLEAN, extra \in {0, 1} : SealRun(valid, extra)
  BY <1>13, QuietSettles DEF SealRun
<1> QED
  BY <1>1, <1>2, <1>3, <1>4, <1>5, <1>6, <1>7, <1>8, <1>9, <1>10, <1>11, <1>12,
     <1>13 DEF Next

\* A start or a stop that fails leaves its plugin in a state it can be restarted
\* from, unless an append failed or the start returned through a bare `?`.
THEOREM NobodyLeftInTransit == Spec => []NoPluginLeftInTransit
<1>1. Init => TypeOK /\ NoPluginLeftInTransit
  BY InitTypeOK DEF Init, NoPluginLeftInTransit
<1>2. TypeOK /\ NoPluginLeftInTransit /\ [Next]_vars => (TypeOK /\ NoPluginLeftInTransit)'
  BY NextTypeOK, NextSettles
<1> QED
  BY <1>1, <1>2, PTL DEF Spec

-----------------------------------------------------------------------------
(* Evidence.                                                               *)

\* The first n lines of a sidecar.
FirstLines(n) == [i \in 1 .. n |-> i]

\* The m lines after the first n.
NextLines(n, m) == [i \in 1 .. m |-> n + i]

StopFailedIn(records, p) ==
  \E i \in DOMAIN records : records[i] = TransportFailed(p, "stop")

Conserves(p) ==
  StopFailedIn(log, p) \/ EvidenceOf(p) = FirstLines(lines[p])

LEMMA ConservedEach ==
  EvidenceConserved <=> (faults = 0 => \A p \in Plugins : Conserves(p))
BY DEF EvidenceConserved, Conserves, StopFailedIn, FirstLines

LEMMA LinesFollow ==
  ASSUME NEW n \in Nat, NEW m \in Nat
  PROVE  /\ FirstLines(n) \in Seq(Nat) /\ NextLines(n, m) \in Seq(Nat)
         /\ FirstLines(n) \o NextLines(n, m) = FirstLines(n + m)
<1> DEFINE f == FirstLines(n)  g == NextLines(n, m)  h == FirstLines(n + m)
<1>1. /\ f \in Seq(Nat) /\ Len(f) = n /\ \A i \in 1 .. n : f[i] = i
      /\ g \in Seq(Nat) /\ Len(g) = m /\ \A i \in 1 .. m : g[i] = n + i
      /\ h \in Seq(Nat) /\ Len(h) = n + m /\ \A i \in 1 .. (n + m) : h[i] = i
  BY DEF FirstLines, NextLines
<1> HIDE DEF f, g, h
<1> DEFINE fg == f \o g
<1>2. fg \in Seq(Nat) /\ Len(fg) = n + m
  BY <1>1
<1>3. ASSUME NEW i \in 1 .. Len(fg) PROVE fg[i] = h[i]
  <2>1. \/ i \in 1 .. Len(f) /\ fg[i] = f[i]
        \/ \E j \in 1 .. Len(g) : i = Len(f) + j /\ fg[i] = g[j]
    <3>1. f \in Seq(Nat) /\ g \in Seq(Nat)
      BY <1>1
    <3> QED
      BY <3>1, ConcatCases
  <2> HIDE DEF fg
  <2>2. i \in 1 .. (n + m)
    BY <1>2
  <2>3. h[i] = i
    BY <1>1, <2>2, Zenon
  <2>4. CASE i \in 1 .. Len(f) /\ fg[i] = f[i]
    BY <1>1, <2>3, <2>4
  <2>5. ASSUME NEW j \in 1 .. Len(g), i = Len(f) + j, fg[i] = g[j] PROVE fg[i] = h[i]
    BY <1>1, <2>3, <2>5
  <2> QED
    BY <2>1, <2>4, <2>5
<1> HIDE DEF fg
<1>4. f \o g = h
  <2>1. /\ fg \in Seq(Nat) /\ h \in Seq(Nat) /\ Len(fg) = Len(h)
        /\ \A i \in 1 .. Len(fg) : fg[i] = h[i]
    BY <1>1, <1>2, <1>3
  <2>2. fg = h
    BY <2>1, SeqEqual
  <2> QED
    BY <2>2 DEF fg
<1> QED
  BY <1>1, <1>4 DEF f, g, h

-----------------------------------------------------------------------------
(* The evidence a sequence of records holds.                               *)

LEMMA RecordedType ==
  ASSUME NEW p, NEW r \in Seq(Record)
  PROVE  /\ Only(r, EvidenceRecords(p)) \in Seq(EvidenceRecords(p))
         /\ Recorded(r, p) \in Seq(Nat)
         /\ Len(Recorded(r, p)) = Len(Only(r, EvidenceRecords(p)))
         /\ \A i \in 1 .. Len(Recorded(r, p)) :
              Recorded(r, p)[i] = Only(r, EvidenceRecords(p))[i].line
<1> DEFINE E == EvidenceRecords(p)  o == Only(r, E)
<1>1. \A e \in E : e.line \in Nat
  BY DEF EvidenceRecords
<1> HIDE DEF E
<1>2. o \in Seq(Record \cap E)
  BY OnlyType
<1>3. o \in Seq(E)
  BY <1>2
<1>4. Recorded(r, p) = [i \in 1 .. Len(o) |-> o[i].line]
  BY DEF Recorded, E
<1> HIDE DEF o
<1>5. \A i \in 1 .. Len(o) : o[i].line \in Nat
  BY <1>1, <1>3
<1>6. Len(o) \in Nat
  BY <1>3
<1> QED
  BY <1>3, <1>4, <1>5, <1>6 DEF o, E

LEMMA RecordedConcat ==
  ASSUME NEW p, NEW r \in Seq(Record), NEW s \in Seq(Record)
  PROVE  Recorded(r \o s, p) = Recorded(r, p) \o Recorded(s, p)
<1> DEFINE E == EvidenceRecords(p)
           a == Only(r, E)  b == Only(s, E)  c == Only(r \o s, E)
           x == Recorded(r, p)  y == Recorded(s, p)  z == Recorded(r \o s, p)
<1>1. c = a \o b
  BY OnlyConcat
<1>2. r \o s \in Seq(Record)
  OBVIOUS
<1>3. /\ a \in Seq(E) /\ x \in Seq(Nat) /\ Len(x) = Len(a)
      /\ \A i \in 1 .. Len(x) : x[i] = a[i].line
  BY RecordedType
<1>4. /\ b \in Seq(E) /\ y \in Seq(Nat) /\ Len(y) = Len(b)
      /\ \A i \in 1 .. Len(y) : y[i] = b[i].line
  BY RecordedType
<1>5. /\ c \in Seq(E) /\ z \in Seq(Nat) /\ Len(z) = Len(c)
      /\ \A i \in 1 .. Len(z) : z[i] = c[i].line
  BY <1>2, RecordedType
<1> HIDE DEF E, a, b, c, x, y, z
<1> DEFINE xy == x \o y
<1>6. xy \in Seq(Nat) /\ Len(xy) = Len(x) + Len(y)
  <2>1. x \in Seq(Nat) /\ y \in Seq(Nat)
    BY <1>3, <1>4
  <2> QED
    BY ONLY <2>1
<1>7. /\ Len(c) = Len(a) + Len(b) /\ Len(a) \in Nat /\ Len(b) \in Nat
      /\ \A i \in 1 .. Len(a) : i \in 1 .. (Len(a) + Len(b)) /\ c[i] = a[i]
      /\ \A i \in 1 .. Len(b) : /\ Len(a) + i \in 1 .. (Len(a) + Len(b))
                                /\ c[Len(a) + i] = b[i]
  <2>1. a \in Seq(E) /\ b \in Seq(E)
    BY <1>3, <1>4
  <2> QED
    BY <1>1, <2>1, ConcatAt
<1>9. /\ Len(x) \in Nat /\ Len(y) \in Nat
      /\ \A i \in 1 .. Len(x) : xy[i] = x[i]
      /\ \A i \in 1 .. Len(y) : xy[Len(x) + i] = y[i]
  <2>1. x \in Seq(Nat) /\ y \in Seq(Nat)
    BY <1>3, <1>4
  <2> QED
    BY <2>1, ConcatAt
<1> HIDE DEF xy
<1>8. xy = z
  <2>1. Len(xy) = Len(z)
    BY <1>3, <1>4, <1>5, <1>6, <1>7
  <2>2. ASSUME NEW i \in 1 .. Len(xy) PROVE xy[i] = z[i]
    <3>1. z[i] = c[i].line
      BY <1>5, <2>1, Zenon
    <3>2. \/ i \in 1 .. Len(x) /\ xy[i] = x[i]
          \/ \E j \in 1 .. Len(y) : i = Len(x) + j /\ xy[i] = y[j]
      <4>1. CASE i <= Len(x)
        BY <1>6, <1>9, <2>2, <4>1
      <4>2. CASE ~(i <= Len(x))
        <5>1. i - Len(x) \in 1 .. Len(y) /\ i = Len(x) + (i - Len(x))
          BY <1>6, <1>9, <2>2, <4>2
        <5> QED
          BY <1>9, <5>1
      <4> QED
        BY <4>1, <4>2
    <3>3. CASE i \in 1 .. Len(x) /\ xy[i] = x[i]
      BY <1>3, <1>7, <3>1, <3>3, Zenon
    <3>4. ASSUME NEW j \in 1 .. Len(y), i = Len(x) + j, xy[i] = y[j]
          PROVE  xy[i] = z[i]
      BY <1>3, <1>4, <1>7, <3>1, <3>4, Zenon
    <3> QED
      BY <3>2, <3>3, <3>4
  <2> QED
    BY <1>5, <1>6, <2>1, <2>2, SeqEqual
<1> QED
  BY <1>8 DEF x, y, z, xy

\* Records of any other kind hold none.
LEMMA NoneRecorded ==
  ASSUME NEW p, NEW r \in Seq(Record),
         \A i \in DOMAIN r : r[i] \notin EvidenceRecords(p)
  PROVE  Recorded(r, p) = <<>>
<1> DEFINE E == EvidenceRecords(p)  o == Only(r, E)
<1>1. r \in Seq(Record \ E)
  BY DEF E
<1>2. o = <<>>
  BY <1>1, OnlyNone
<1>3. Recorded(r, p) = [i \in 1 .. Len(o) |-> o[i].line]
  BY DEF Recorded
<1> HIDE DEF o
<1> QED
  BY <1>2, <1>3

\* Evidence of p is recorded as it is.
LEMMA EvidenceRecorded ==
  ASSUME NEW p \in Plugins, NEW held \in Seq(Nat)
  PROVE  LET recs == [i \in 1 .. Len(held) |-> Evidence(p, held[i])]
         IN recs \in Seq(Record) /\ Recorded(recs, p) = held
<1> DEFINE E == EvidenceRecords(p)
           recs == [i \in 1 .. Len(held) |-> Evidence(p, held[i])]
<1>1. \A n \in Nat : Evidence(p, n) \in E /\ Evidence(p, n) \in Record
                     /\ Evidence(p, n).line = n
  BY PluginRecordTypes DEF Evidence, EvidenceRecords
<1>2. \A i \in 1 .. Len(held) : held[i] \in Nat
  OBVIOUS
<1> HIDE DEF E
<1>3. recs \in Seq(E) /\ recs \in Seq(Record)
  BY <1>1, <1>2
<1>4. Only(recs, E) = recs
  <2> HIDE DEF recs
  <2> QED
    BY <1>3, OnlyAll
<1>5. Recorded(recs, p) = [i \in 1 .. Len(recs) |-> recs[i].line]
  BY <1>4 DEF Recorded, E
<1>6. Len(recs) = Len(held) /\ \A i \in 1 .. Len(held) : recs[i].line = held[i]
  BY <1>1, <1>2
<1> HIDE DEF recs
<1>7. [i \in 1 .. Len(recs) |-> recs[i].line] = held
  BY <1>6
<1> QED
  BY <1>3, <1>5, <1>7 DEF recs


-----------------------------------------------------------------------------
(* What a step does to the evidence of one plugin.                         *)

LEMMA FaultlessAppend ==
  ASSUME TypeOK, NEW recs \in Seq(Record), NEW k, Append_k(recs, k), faults' = 0
  PROVE  faults = 0 /\ k = Len(recs) /\ log' = log \o recs
<1>1. faults \in Nat /\ Len(recs) \in Nat
  BY DEF TypeOK
<1>2. /\ k \in 0 .. Len(recs) /\ log' = log \o SubSeq(recs, 1, k)
      /\ faults' = IF k < Len(recs) THEN faults + 1 ELSE faults
  BY DEF Append_k
<1>3. k = Len(recs) /\ faults = 0
  BY <1>1, <1>2
<1>4. SubSeq(recs, 1, Len(recs)) = recs
  OBVIOUS
<1> QED
  BY <1>2, <1>3, <1>4

LEMMA StopFailedStays ==
  ASSUME NEW q \in Seq(Record), NEW r \in Seq(Record), NEW p,
         StopFailedIn(q, p) \/ StopFailedIn(r, p)
  PROVE  StopFailedIn(q \o r, p)
<1> DEFINE s == q \o r  m == Len(q)  n == Len(r)
<1>1. /\ m \in Nat /\ n \in Nat /\ DOMAIN s = 1 .. (m + n)
      /\ \A i \in 1 .. m : i \in 1 .. (m + n) /\ s[i] = q[i]
      /\ \A i \in 1 .. n : m + i \in 1 .. (m + n) /\ s[m + i] = r[i]
  BY ConcatAt
<1>2. DOMAIN q = 1 .. m /\ DOMAIN r = 1 .. n
  OBVIOUS
<1> HIDE DEF s, m, n
<1>3. StopFailedIn(s, p)
  BY <1>1, <1>2, Zenon DEF StopFailedIn
<1> QED
  BY <1>3 DEF s

LEMMA BatchType ==
  ASSUME TypeOK, NEW p
  PROVE  Batch(call, p) \in Seq(Nat)
<1>1. call \in {Idle} \cup Registering \cup Draining
  BY DEF TypeOK
<1>2. call.op = "drain" => call.evidence \in Seq(Nat)
  BY <1>1 DEF Idle, Registering, Draining
<1>3. <<>> \in Seq(Nat)
  OBVIOUS
<1> QED
  BY <1>2, <1>3, Zenon DEF Batch

LEMMA Regroup ==
  ASSUME NEW r \in Seq(Nat), NEW s \in Seq(Nat), NEW t \in Seq(Nat)
  PROVE  (r \o s) \o t = r \o (s \o t)
OBVIOUS

\* Lines only move on, in order, and new ones come after all the others.
LEMMA EvidencePasses ==
  ASSUME TypeOK, TypeOK', EvidenceConserved, faults = 0, NEW p \in Plugins,
         NEW recs \in Seq(Record), log' = log \o recs,
         NEW m \in Nat, lines'[p] = lines[p] + m,
         \/ StopFailedIn(recs, p)
         \/ Recorded(recs, p) \o (Batch(call', p) \o stderr'[p]) =
              (Batch(call, p) \o stderr[p]) \o NextLines(lines[p], m)
  PROVE  Conserves(p)'
<1> DEFINE held == Batch(call, p) \o stderr[p]
           holds == Batch(call', p) \o stderr'[p]
           before == Recorded(log, p)
           added == Recorded(recs, p)
           new == NextLines(lines[p], m)
<1>1. log \in Seq(Record) /\ lines[p] \in Nat
  BY DEF TypeOK
<1>2. held \in Seq(Nat)
  <2>1. Batch(call, p) \in Seq(Nat) /\ stderr[p] \in Seq(Nat)
    BY BatchType DEF TypeOK
  <2> QED
    BY ONLY <2>1
<1>3. holds \in Seq(Nat)
  <2>1. Batch(call', p) \in Seq(Nat)
    <3>1. call' \in {Idle} \cup Registering \cup Draining
      BY DEF TypeOK
    <3>2. call'.op = "drain" => call'.evidence \in Seq(Nat)
      BY <3>1 DEF Idle, Registering, Draining
    <3>3. <<>> \in Seq(Nat)
      OBVIOUS
    <3> QED
      BY <3>2, <3>3, Zenon DEF Batch
  <2>2. stderr'[p] \in Seq(Nat)
    BY DEF TypeOK
  <2> QED
    BY ONLY <2>1, <2>2
<1>4. before \in Seq(Nat) /\ added \in Seq(Nat)
  BY <1>1, RecordedType
<1>5. new \in Seq(Nat) /\ FirstLines(lines[p]) \o new = FirstLines(lines[p] + m)
  BY <1>1, LinesFollow
<1>6. Recorded(log', p) = before \o added
  BY <1>1, RecordedConcat
<1>7. StopFailedIn(log, p) \/ before \o held = FirstLines(lines[p])
  BY ConservedEach DEF Conserves, EvidenceOf
<1>8. StopFailedIn(log, p) \/ StopFailedIn(recs, p) => StopFailedIn(log', p)
  BY <1>1, StopFailedStays
<1>9. StopFailedIn(recs, p) \/ added \o holds = held \o new
  OBVIOUS
<1>10. Conserves(p)' <=> \/ StopFailedIn(log', p)
                         \/ Recorded(log', p) \o holds = FirstLines(lines'[p])
  BY DEF Conserves, EvidenceOf
<1> HIDE DEF held, holds, before, added, new
<1>11. ASSUME before \o held = FirstLines(lines[p]), added \o holds = held \o new
       PROVE  Recorded(log', p) \o holds = FirstLines(lines'[p])
  <2>1. (before \o added) \o holds = before \o (added \o holds)
    BY ONLY <1>3, <1>4, Regroup
  <2>2. before \o (held \o new) = (before \o held) \o new
    BY ONLY <1>2, <1>4, <1>5, Regroup
  <2>3. Recorded(log', p) \o holds = (before \o held) \o new
    BY <1>6, <1>11, <2>1, <2>2, Zenon
  <2> QED
    BY <1>5, <1>11, <2>3, Zenon
<1> QED
  BY <1>7, <1>8, <1>9, <1>10, <1>11, Zenon

\* A step that has nothing to do with p's evidence.
LEMMA EvidenceRests ==
  ASSUME TypeOK, TypeOK', EvidenceConserved, faults = 0, NEW p \in Plugins,
         NEW recs \in Seq(Record), log' = log \o recs,
         Recorded(recs, p) = <<>>,
         lines'[p] = lines[p], stderr'[p] = stderr[p],
         Batch(call', p) = Batch(call, p)
  PROVE  Conserves(p)'
<1> DEFINE held == Batch(call, p) \o stderr[p]
<1>1. held \in Seq(Nat)
  <2>1. Batch(call, p) \in Seq(Nat) /\ stderr[p] \in Seq(Nat)
    BY BatchType DEF TypeOK
  <2> QED
    BY ONLY <2>1
<1>2. NextLines(lines[p], 0) = <<>> /\ lines[p] \in Nat
  BY DEF NextLines, TypeOK
<1> DEFINE none == <<>>
<1>3. held \o none = held /\ none \o held = held
  BY ONLY <1>1
<1>4. Recorded(recs, p) \o held = held \o NextLines(lines[p], 0)
  BY <1>2, <1>3, Zenon
<1>5. Recorded(recs, p) \o (Batch(call', p) \o stderr'[p]) =
        (Batch(call, p) \o stderr[p]) \o NextLines(lines[p], 0)
  BY <1>4, Zenon
<1>6. lines'[p] = lines[p] + 0
  BY <1>2
<1> HIDE DEF held
<1> QED
  BY <1>5, <1>6, EvidencePasses

LEMMA NothingRecorded ==
  ASSUME EvidenceConserved, faults = 0, NEW p \in Plugins,
         UNCHANGED log, lines'[p] = lines[p],
         Batch(call', p) \o stderr'[p] = Batch(call, p) \o stderr[p]
  PROVE  Conserves(p)'
<1>1. StopFailedIn(log, p) \/ EvidenceOf(p) = FirstLines(lines[p])
  BY ConservedEach DEF Conserves
<1>2. EvidenceOf(p)' = EvidenceOf(p)
  BY Zenon DEF EvidenceOf
<1> QED
  BY <1>1, <1>2, Zenon DEF Conserves

-----------------------------------------------------------------------------
(* The methods.                                                            *)

LEMMA OtherRecord ==
  ASSUME NEW r \in Record, r.kind # "evidence", NEW p
  PROVE  <<r>> \in Seq(Record) /\ Recorded(<<r>>, p) = <<>>
<1> DEFINE one == <<r>>
<1>1. one \in Seq(Record) /\ DOMAIN one = {1} /\ one[1] = r
  OBVIOUS
<1>2. r \notin EvidenceRecords(p)
  BY DEF EvidenceRecords
<1> HIDE DEF one
<1>3. Recorded(one, p) = <<>>
  BY <1>1, <1>2, NoneRecorded
<1> QED
  BY <1>1, <1>3 DEF one

LEMMA OtherRecords ==
  ASSUME NEW r \in Record, r.kind # "evidence",
         NEW s \in Record, s.kind # "evidence", NEW p
  PROVE  <<r, s>> \in Seq(Record) /\ Recorded(<<r, s>>, p) = <<>>
<1> DEFINE two == <<r, s>>
<1>1. two \in Seq(Record) /\ DOMAIN two = {1, 2} /\ two[1] = r /\ two[2] = s
  OBVIOUS
<1>2. r \notin EvidenceRecords(p) /\ s \notin EvidenceRecords(p)
  BY DEF EvidenceRecords
<1> HIDE DEF two
<1>3. Recorded(two, p) = <<>>
  BY <1>1, <1>2, NoneRecorded
<1> QED
  BY <1>1, <1>3 DEF two

LEMMA AppendRests ==
  ASSUME TypeOK, TypeOK', EvidenceConserved, faults' = 0, NEW p \in Plugins,
         NEW recs \in Seq(Record), NEW k, Append_k(recs, k),
         Recorded(recs, p) = <<>>,
         lines'[p] = lines[p], stderr'[p] = stderr[p],
         Batch(call', p) = Batch(call, p)
  PROVE  Conserves(p)'
BY FaultlessAppend, EvidenceRests

Passage(p, entry, between, exit) ==
  <<Lifecycle(p, entry)>> \o between \o <<Lifecycle(p, exit)>>

\* What a method that passes through a state records is what it records there.
LEMMA TraverseRecords ==
  ASSUME TypeOK, faults' = 0, NEW p \in Plugins,
         NEW entry \in RuntimeStates, NEW exit \in RuntimeStates,
         NEW between \in Seq(Record), NEW k, Traverse(p, entry, between, exit, k),
         NEW q
  PROVE  /\ faults = 0 /\ k = Len(between) + 2
         /\ Passage(p, entry, between, exit) \in Seq(Record)
         /\ log' = log \o Passage(p, entry, between, exit)
         /\ Recorded(Passage(p, entry, between, exit), q) = Recorded(between, q)
         /\ StopFailedIn(between, q) =>
              StopFailedIn(Passage(p, entry, between, exit), q)
<1> DEFINE first == <<Lifecycle(p, entry)>>
           last == <<Lifecycle(p, exit)>>
           recs == first \o between \o last
<1>0. Passage(p, entry, between, exit) = recs
  BY DEF Passage
<1>1. Lifecycle(p, entry) \in Record /\ Lifecycle(p, exit) \in Record
  BY PluginRecordTypes
<1>2. /\ first \in Seq(Record) /\ Recorded(first, q) = <<>>
      /\ last \in Seq(Record) /\ Recorded(last, q) = <<>>
  <2>1. Lifecycle(p, entry).kind # "evidence" /\ Lifecycle(p, exit).kind # "evidence"
    BY DEF Lifecycle
  <2> QED
    BY <1>1, <2>1, OtherRecord
<1>3. Append_k(recs, k)
  BY DEF Traverse
<1> HIDE DEF first, last
<1>4. /\ first \in Seq(Record) /\ last \in Seq(Record)
      /\ first \o between \in Seq(Record) /\ recs \in Seq(Record)
  <2>1. first \in Seq(Record) /\ last \in Seq(Record) /\ between \in Seq(Record)
    BY <1>2
  <2> QED
    BY ONLY <2>1
<1>5. Len(recs) = Len(between) + 2
  <2>1. Len(first) = 1 /\ Len(last) = 1
    BY DEF first, last
  <2>2. first \in Seq(Record) /\ last \in Seq(Record) /\ between \in Seq(Record)
    BY <1>4
  <2>3. Len(recs) = Len(first) + Len(between) + Len(last) /\ Len(between) \in Nat
    BY ONLY <2>2
  <2> HIDE DEF recs
  <2> QED
    BY <2>1, <2>3
<1>6. /\ Recorded(recs, q) = Recorded(between, q)
      /\ StopFailedIn(between, q) => StopFailedIn(recs, q)
  <2> DEFINE mid == Recorded(between, q)  none == <<>>
  <2>1. Recorded(recs, q) = Recorded(first \o between, q) \o Recorded(last, q)
    BY <1>4, RecordedConcat
  <2>2. Recorded(first \o between, q) = Recorded(first, q) \o mid
    BY <1>4, RecordedConcat
  <2>3. mid \in Seq(Nat)
    BY RecordedType
  <2>4. (none \o mid) \o none = mid
    <3> HIDE DEF mid
    <3> QED
      BY ONLY <2>3
  <2>5. Recorded(recs, q) = (none \o mid) \o none
    BY <1>2, <2>1, <2>2, Zenon
  <2>6. StopFailedIn(between, q) => StopFailedIn(recs, q)
    BY <1>4, StopFailedStays
  <2> QED
    BY <2>4, <2>5, <2>6, Zenon
<1> HIDE DEF recs
<1>7. faults = 0 /\ k = Len(recs) /\ log' = log \o recs
  BY <1>3, <1>4, FaultlessAppend
<1> QED
  BY <1>0, <1>4, <1>5, <1>6, <1>7, Zenon

LEMMA RegisteringCall ==
  ASSUME TypeOK, RegisterNext
  PROVE  /\ Profile[call.next] \in Plugins
         /\ call.op = "register" /\ call'.op # "drain"
<1>1. call \in Registering
  BY DEF RegisterNext, TypeOK, Idle, Draining
<1>2. call.next \in 1 .. Len(Profile)
  BY <1>1, ConstantTypes DEF RegisterNext, Registering
<1>3. Profile[call.next] \in Plugins
  BY <1>2, ConstantTypes
<1>4. call.op = "register" /\ call'.op \in {"register", "idle"}
  BY <1>1 DEF RegisterNext, Registering, Idle
<1> QED
  BY <1>3, <1>4

LEMMA RegisterNextConserves ==
  ASSUME TypeOK, TypeOK', EvidenceConserved, faults' = 0, RegisterNext,
         NEW q \in Plugins
  PROVE  Conserves(q)'
<1> DEFINE p == Profile[call.next]
           none == <<>>
           recs == Passage(p, "Registered", none, "Admitted")
<1>1. p \in Plugins /\ call.op = "register" /\ call'.op # "drain"
  BY RegisteringCall
<1>2. PICK k : Traverse(p, "Registered", <<>>, "Admitted", k)
  BY DEF RegisterNext
<1>3. Batch(call', q) = Batch(call, q)
  BY <1>1 DEF Batch
<1>4. lines'[q] = lines[q] /\ stderr'[q] = stderr[q]
  BY DEF RegisterNext, sidecarVars
<1>5. none \in Seq(Record) /\ Recorded(none, q) = <<>>
  <2>1. none \in Seq(Record) /\ DOMAIN none = {}
    OBVIOUS
  <2> HIDE DEF none
  <2>2. Recorded(none, q) = <<>>
    BY <2>1, NoneRecorded
  <2> QED
    BY <2>1, <2>2
<1>6. Traverse(p, "Registered", none, "Admitted", k)
  BY <1>2
<1> HIDE DEF p, none
<1>7. /\ faults = 0 /\ recs \in Seq(Record) /\ log' = log \o recs
      /\ Recorded(recs, q) = Recorded(none, q)
  <2>1. "Registered" \in RuntimeStates /\ "Admitted" \in RuntimeStates
    BY DEF RuntimeStates
  <2> QED
    BY <1>1, <1>5, <1>6, <2>1, TraverseRecords
<1> HIDE DEF recs
<1> QED
  BY <1>3, <1>4, <1>5, <1>7, EvidenceRests

LEMMA RefuseConserves ==
  ASSUME TypeOK, TypeOK', EvidenceConserved, faults' = 0, NEW p \in Plugins, NEW to,
         RefuseTransition(p, to), NEW q \in Plugins
  PROVE  Conserves(q)'
<1>1. PICK d \in DenialKinds, k \in Appends : Append_k(<<RuntimeDenied(p, d)>>, k)
  BY DEF RefuseTransition
<1> DEFINE recs == <<RuntimeDenied(p, d)>>
<1>2. recs \in Seq(Record) /\ Recorded(recs, q) = <<>>
  <2>1. RuntimeDenied(p, d) \in Record
    BY PluginRecordTypes DEF Denials
  <2>2. RuntimeDenied(p, d).kind # "evidence"
    BY DEF RuntimeDenied
  <2> QED
    BY <2>1, <2>2, OtherRecord
<1>3. /\ Append_k(recs, k) /\ lines'[q] = lines[q] /\ stderr'[q] = stderr[q]
      /\ Batch(call', q) = Batch(call, q)
  BY <1>1 DEF RefuseTransition, sidecarVars
<1> HIDE DEF recs
<1> QED
  BY <1>2, <1>3, AppendRests

LEMMA StartEvidenceRests ==
  ASSUME NEW p \in Plugins, NEW host, NEW i \in 1 .. Len(StartChecks(p, host)), NEW q
  PROVE  Recorded(StartChecks(p, host)[i].evidence, q) = <<>>
<1> DEFINE e == StartChecks(p, host)[i].evidence
<1>1. \/ e = <<>>
      \/ \E s \in Stages : e = <<TransportFailed(p, s)>>
      \/ \E d \in Denials : e = Refusal(p, d)
  BY StartEvidence
<1>2. e \in Seq(Record)
  BY StartEvidenceTypes
<1> HIDE DEF e
<1>3. CASE e = <<>>
  <2>1. DOMAIN e = {}
    BY <1>3
  <2> QED
    BY <1>2, <2>1, NoneRecorded DEF e
<1>4. ASSUME NEW s \in Stages, e = <<TransportFailed(p, s)>>
      PROVE  Recorded(e, q) = <<>>
  <2>1. TransportFailed(p, s) \in Record
    BY PluginRecordTypes
  <2>2. TransportFailed(p, s).kind # "evidence"
    BY DEF TransportFailed
  <2> QED
    BY <1>4, <2>1, <2>2, OtherRecord
<1>5. ASSUME NEW d \in Denials, e = Refusal(p, d)
      PROVE  Recorded(e, q) = <<>>
  <2>1. RuntimeDenied(p, d) \in Record /\ TransportFailed(p, "start") \in Record
    BY PluginRecordTypes DEF Stages
  <2>2. RuntimeDenied(p, d).kind # "evidence" /\ TransportFailed(p, "start").kind # "evidence"
    BY DEF TransportFailed, RuntimeDenied
  <2> QED
    BY <1>5, <2>1, <2>2, OtherRecords DEF Refusal
<1> QED
  BY <1>1, <1>3, <1>4, <1>5 DEF e

\* A method that passes through a state, recording no evidence of q there.
LEMMA TraverseRests ==
  ASSUME TypeOK, TypeOK', EvidenceConserved, faults' = 0, NEW p \in Plugins,
         NEW entry \in RuntimeStates, NEW exit \in RuntimeStates,
         NEW between \in Seq(Record), NEW k, Traverse(p, entry, between, exit, k),
         NEW q \in Plugins, Recorded(between, q) = <<>>,
         lines'[q] = lines[q], stderr'[q] = stderr[q],
         Batch(call', q) = Batch(call, q)
  PROVE  Conserves(q)'
<1> DEFINE recs == Passage(p, entry, between, exit)
<1>1. /\ faults = 0 /\ recs \in Seq(Record) /\ log' = log \o recs
      /\ Recorded(recs, q) = Recorded(between, q)
  BY TraverseRecords
<1> HIDE DEF recs
<1> QED
  BY <1>1, EvidenceRests

LEMMA StartConserves ==
  ASSUME TypeOK, TypeOK', EvidenceConserved, faults' = 0, NEW p \in Plugins,
         StartPlugin(p), NEW q \in Plugins
  PROVE  Conserves(q)'
<1>1. PICK host \in HostFailures \cup {"none"}, k \in Appends :
        LET checks == StartChecks(p, host)
        IN \/ \E i \in 1 .. Len(checks) :
                /\ FirstFailing(checks, i)
                /\ StartAborted(p, checks[i], k) \/ StartFailed(p, checks[i], k)
           \/ AllPass(checks) /\ StartSucceeded(p, k)
  BY DEF StartPlugin
<1>2. /\ lines'[q] = lines[q] /\ stderr'[q] = stderr[q]
      /\ Batch(call', q) = Batch(call, q)
  BY DEF StartPlugin, sidecarVars
<1>3. ASSUME NEW i \in 1 .. Len(StartChecks(p, host)),
             StartAborted(p, StartChecks(p, host)[i], k)
      PROVE  Conserves(q)'
  <2> DEFINE recs == <<Lifecycle(p, "Starting")>>
  <2>1. recs \in Seq(Record) /\ Recorded(recs, q) = <<>>
    <3>1. Lifecycle(p, "Starting") \in Record
      BY PluginRecordTypes DEF RuntimeStates
    <3>2. Lifecycle(p, "Starting").kind # "evidence"
      BY DEF Lifecycle
    <3> QED
      BY <3>1, <3>2, OtherRecord
  <2>2. Append_k(recs, k)
    BY <1>3 DEF StartAborted, Enter
  <2> HIDE DEF recs
  <2> QED
    BY <1>2, <2>1, <2>2, AppendRests
<1>4. ASSUME NEW i \in 1 .. Len(StartChecks(p, host)),
             StartFailed(p, StartChecks(p, host)[i], k)
      PROVE  Conserves(q)'
  <2> DEFINE between == StartChecks(p, host)[i].evidence
  <2>1. between \in Seq(Record) /\ Recorded(between, q) = <<>>
    BY StartEvidenceTypes, StartEvidenceRests
  <2>2. Traverse(p, "Starting", between, "Failed", k)
    BY <1>4 DEF StartFailed
  <2>3. "Starting" \in RuntimeStates /\ "Failed" \in RuntimeStates
    BY DEF RuntimeStates
  <2> HIDE DEF between
  <2> QED
    BY <1>2, <2>1, <2>2, <2>3, TraverseRests
<1>5. ASSUME StartSucceeded(p, k) PROVE Conserves(q)'
  <2> DEFINE none == <<>>
  <2>1. none \in Seq(Record) /\ DOMAIN none = {}
    OBVIOUS
  <2>2. Traverse(p, "Starting", none, "Running", k)
    BY <1>5 DEF StartSucceeded
  <2>3. "Starting" \in RuntimeStates /\ "Running" \in RuntimeStates
    BY DEF RuntimeStates
  <2> HIDE DEF none
  <2>4. Recorded(none, q) = <<>>
    BY <2>1, NoneRecorded
  <2> QED
    BY <1>2, <2>1, <2>2, <2>3, <2>4, TraverseRests
<1> QED
  BY <1>1, <1>3, <1>4, <1>5

LEMMA StopSucceededConserves ==
  ASSUME TypeOK, TypeOK', EvidenceConserved, faults' = 0, NEW p \in Plugins,
         call = Idle, UNCHANGED call, NEW n \in Nat, NEW k, StopSucceeded(p, n, k),
         NEW q \in Plugins
  PROVE  Conserves(q)'
<1> DEFINE held == stderr[p] \o NextLines(lines[p], n)
           between == [i \in 1 .. Len(held) |-> Evidence(p, held[i])]
           recs == Passage(p, "Stopping", between, "Stopped")
           none == <<>>
<1>1. /\ stderr \in [Plugins -> Seq(Nat)] /\ lines \in [Plugins -> Nat]
      /\ stderr[p] \in Seq(Nat) /\ lines[p] \in Nat
  BY DEF TypeOK
<1>2. held \in Seq(Nat)
  <2>1. NextLines(lines[p], n) \in Seq(Nat) /\ stderr[p] \in Seq(Nat)
    BY <1>1, LinesFollow
  <2> QED
    BY ONLY <2>1
<1>3. /\ Traverse(p, "Stopping", between, "Stopped", k) /\ DropTransport(p, k > 0)
      /\ lines' = IF k > 0 THEN [lines EXCEPT ![p] = @ + n] ELSE lines
  BY DEF StopSucceeded, NextLines
<1>4. \A r : Batch(call, r) = none /\ Batch(call', r) = none
  BY DEF Batch, Idle
<1>5. between \in Seq(Record) /\ Recorded(between, p) = held
  <2> HIDE DEF held
  <2> QED
    BY <1>2, EvidenceRecorded
<1>6. q # p => Recorded(between, q) = <<>>
  <2>1. \A i \in DOMAIN between : between[i].plugin = p
    <3> HIDE DEF held
    <3> QED
      BY DEF Evidence
  <2> HIDE DEF between
  <2>2. q # p => \A i \in DOMAIN between : between[i] \notin EvidenceRecords(q)
    BY <2>1 DEF EvidenceRecords
  <2> QED
    BY <1>5, <2>2, NoneRecorded
<1>7. "Stopping" \in RuntimeStates /\ "Stopped" \in RuntimeStates
  BY DEF RuntimeStates
<1> HIDE DEF held, between
<1>8. /\ faults = 0 /\ recs \in Seq(Record) /\ log' = log \o recs
      /\ Recorded(recs, p) = Recorded(between, p) /\ k = Len(between) + 2
  BY <1>3, <1>5, <1>7, TraverseRecords
<1>9. /\ stderr' = [stderr EXCEPT ![p] = <<>>] /\ lines' = [lines EXCEPT ![p] = @ + n]
  <2>1. k > 0
    <3>1. Len(between) \in Nat
      BY <1>5
    <3> QED
      BY <1>8, <3>1
  <2> QED
    BY <1>3, <2>1 DEF DropTransport
<1>10. CASE q = p
  <2>1. /\ stderr'[p] = none /\ lines'[p] = lines[p] + n
    BY <1>1, <1>9
  <2>2. /\ held \o (none \o none) = held
        /\ (none \o stderr[p]) \o NextLines(lines[p], n) = held
    <3>1. held \in Seq(Nat) /\ stderr[p] \in Seq(Nat)
      BY <1>1, <1>2
    <3>2. held \o (none \o none) = held
      BY ONLY <3>1
    <3>3. none \o stderr[p] = stderr[p]
      BY ONLY <3>1
    <3> QED
      BY <3>2, <3>3, Zenon DEF held
  <2>3. Recorded(recs, p) \o (Batch(call', p) \o stderr'[p]) =
          (Batch(call, p) \o stderr[p]) \o NextLines(lines[p], n)
    BY <1>4, <1>5, <1>8, <2>1, <2>2, Zenon
  <2> HIDE DEF recs
  <2> QED
    BY <1>8, <1>10, <2>1, <2>3, EvidencePasses
<1>11. CASE q # p
  <2>1. /\ stderr'[q] = stderr[q] /\ lines'[q] = lines[q]
    BY <1>1, <1>9, <1>11
  <2>2. Batch(call', q) = Batch(call, q)
    BY <1>4
  <2> QED
    BY <1>3, <1>5, <1>6, <1>7, <1>11, <2>1, <2>2, TraverseRests
<1> QED
  BY <1>10, <1>11

LEMMA StopFailedConserves ==
  ASSUME TypeOK, TypeOK', EvidenceConserved, faults' = 0, NEW p \in Plugins,
         UNCHANGED call, NEW k, StopFailed(p, k),
         NEW q \in Plugins
  PROVE  Conserves(q)'
<1> DEFINE between == <<TransportFailed(p, "stop")>>
           recs == Passage(p, "Stopping", between, "Failed")
<1>1. TransportFailed(p, "stop") \in Record
  BY PluginRecordTypes DEF Stages
<1>2. between \in Seq(Record) /\ Recorded(between, q) = <<>> /\ StopFailedIn(between, p)
  <2>1. TransportFailed(p, "stop").kind # "evidence"
    BY DEF TransportFailed
  <2>2. between \in Seq(Record) /\ Recorded(between, q) = <<>>
    BY <1>1, <2>1, OtherRecord
  <2>3. DOMAIN between = {1} /\ between[1] = TransportFailed(p, "stop")
    OBVIOUS
  <2> HIDE DEF between
  <2>4. StopFailedIn(between, p)
    BY <2>3, Zenon DEF StopFailedIn
  <2> QED
    BY <2>2, <2>4
<1>3. /\ Traverse(p, "Stopping", between, "Failed", k) /\ DropTransport(p, k > 0)
      /\ UNCHANGED lines
  BY DEF StopFailed
<1>4. "Stopping" \in RuntimeStates /\ "Failed" \in RuntimeStates
  BY DEF RuntimeStates
<1> HIDE DEF between
<1>5. /\ faults = 0 /\ recs \in Seq(Record) /\ log' = log \o recs
      /\ StopFailedIn(recs, p)
  BY <1>2, <1>3, <1>4, TraverseRecords
<1> HIDE DEF recs
<1>6. CASE q = p
  <2>1. lines'[p] = lines[p] + 0
    BY <1>3 DEF TypeOK
  <2> QED
    BY <1>5, <1>6, <2>1, EvidencePasses
<1>7. CASE q # p
  <2>1. /\ stderr'[q] = stderr[q] /\ lines'[q] = lines[q]
    BY <1>3, <1>7 DEF TypeOK, DropTransport
  <2>2. Batch(call', q) = Batch(call, q)
    OBVIOUS
  <2> QED
    BY <1>2, <1>3, <1>4, <2>1, <2>2, TraverseRests
<1> QED
  BY <1>6, <1>7

LEMMA StopConserves ==
  ASSUME TypeOK, TypeOK', EvidenceConserved, faults' = 0, NEW p \in Plugins,
         StopPlugin(p), NEW q \in Plugins
  PROVE  Conserves(q)'
<1>1. PICK k \in Appends :
        \/ \E n \in IF Sidecar(p) /\ p \in transports THEN StopEvidence ELSE {0} :
             StopSucceeded(p, n, k)
        \/ StopFailed(p, k)
  BY DEF StopPlugin
<1>2. call = Idle /\ UNCHANGED call
  BY DEF StopPlugin, Ready
<1>3. ASSUME NEW n \in Nat, StopSucceeded(p, n, k) PROVE Conserves(q)'
  BY <1>2, <1>3, StopSucceededConserves
<1>4. ASSUME StopFailed(p, k) PROVE Conserves(q)'
  BY <1>2, <1>4, StopFailedConserves
<1> QED
  BY <1>1, <1>3, <1>4, ConstantTypes

LEMMA AdmitConserves ==
  ASSUME TypeOK, TypeOK', EvidenceConserved, faults' = 0,
         NEW e \in Envelopes, AdmitEvent(e), NEW q \in Plugins
  PROVE  Conserves(q)'
<1>1. PICK k \in Appends : Append_k(<<Decision(e, Admissible(e))>>, k)
  BY DEF AdmitEvent
<1> DEFINE recs == <<Decision(e, Admissible(e))>>
<1>2. recs \in Seq(Record) /\ Recorded(recs, q) = <<>>
  <2>1. e \in Event
    BY OfferedTypes
  <2>2. Decision(e, Admissible(e)) \in Record
    BY <2>1, EventRecordTypes DEF Admissible
  <2>3. Decision(e, Admissible(e)).kind # "evidence"
    BY DEF Decision
  <2> QED
    BY <2>2, <2>3, OtherRecord
<1>3. /\ Append_k(recs, k) /\ lines'[q] = lines[q] /\ stderr'[q] = stderr[q]
      /\ Batch(call', q) = Batch(call, q)
  BY <1>1 DEF AdmitEvent, sidecarVars
<1> HIDE DEF recs
<1> QED
  BY <1>2, <1>3, AppendRests

LEMMA PublishConserves ==
  ASSUME TypeOK, TypeOK', EvidenceConserved, faults' = 0,
         NEW t \in tokens, PublishAdmitted(t), NEW q \in Plugins
  PROVE  Conserves(q)'
<1> DEFINE one == <<Published(t)>>
           none == <<>>
           recs == IF dead[t.event.topic] = 0 THEN one ELSE none
<1>1. PICK k \in Appends : Append_k(recs, k)
  BY DEF PublishAdmitted
<1>2. one \in Seq(Record) /\ Recorded(one, q) = <<>>
  <2>1. Published(t) \in Record
    BY EventRecordTypes DEF TypeOK
  <2>2. Published(t).kind # "evidence"
    BY DEF Published
  <2> QED
    BY <2>1, <2>2, OtherRecord
<1>3. none \in Seq(Record) /\ Recorded(none, q) = <<>>
  <2>1. none \in Seq(Record) /\ DOMAIN none = {}
    OBVIOUS
  <2> HIDE DEF none
  <2> QED
    BY <2>1, NoneRecorded
<1>4. /\ lines'[q] = lines[q] /\ stderr'[q] = stderr[q]
      /\ Batch(call', q) = Batch(call, q)
  BY DEF PublishAdmitted, sidecarVars
<1> HIDE DEF one, none
<1>5. recs \in Seq(Record) /\ Recorded(recs, q) = <<>>
  BY <1>2, <1>3
<1> HIDE DEF recs
<1> QED
  BY <1>1, <1>4, <1>5, AppendRests

\* A line that comes is the transport's last.
LEMMA LineAdded ==
  ASSUME TypeOK, TypeOK', EvidenceConserved, faults = 0, NEW p \in Plugins,
         NEW recs \in Seq(Record), log' = log \o recs, Recorded(recs, p) = <<>>,
         lines'[p] = lines[p] + 1, stderr'[p] = Append(stderr[p], lines[p] + 1),
         Batch(call', p) = Batch(call, p)
  PROVE  Conserves(p)'
<1> DEFINE batch == Batch(call, p)  held == stderr[p]  line == lines[p] + 1
           one == NextLines(lines[p], 1)  none == <<>>
<1>1. batch \in Seq(Nat) /\ held \in Seq(Nat) /\ line \in Nat
  <2>1. batch \in Seq(Nat)
    BY BatchType
  <2>2. stderr \in [Plugins -> Seq(Nat)] /\ lines \in [Plugins -> Nat]
    BY DEF TypeOK
  <2> HIDE DEF batch
  <2> QED
    BY <2>1, <2>2
<1>2. one = <<line>>
  BY <1>1 DEF NextLines
<1>3. one \in Seq(Nat)
  <2>1. lines[p] \in Nat
    BY DEF TypeOK
  <2> QED
    BY <2>1, LinesFollow
<1>4. Append(held, line) = held \o one
  <2> HIDE DEF held, line, one
  <2> QED
    BY <1>1, <1>2
<1> HIDE DEF batch, held, line, one
<1>5. none \o (batch \o (held \o one)) = (batch \o held) \o one
  <2>1. (batch \o held) \o one = batch \o (held \o one)
    BY ONLY <1>1, <1>3, Regroup
  <2>2. (batch \o held) \o one \in Seq(Nat)
    BY ONLY <1>1, <1>3
  <2>3. none \o ((batch \o held) \o one) = (batch \o held) \o one
    <3> DEFINE all == (batch \o held) \o one
    <3> HIDE DEF all
    <3>1. all \in Seq(Nat)
      BY <2>2 DEF all
    <3>2. none \o all = all
      BY ONLY <3>1
    <3> QED
      BY <3>2 DEF all
  <2> QED
    BY <2>1, <2>3, Zenon
<1>6. Recorded(recs, p) \o (Batch(call', p) \o stderr'[p]) =
        (Batch(call, p) \o stderr[p]) \o NextLines(lines[p], 1)
  BY <1>4, <1>5, Zenon DEF batch, held, line, one
<1> QED
  BY <1>6, EvidencePasses

LEMMA SendConserves ==
  ASSUME TypeOK, TypeOK', EvidenceConserved, faults' = 0, NEW p \in Plugins,
         NEW t \in tokens, SendToPlugin(p, t), NEW q \in Plugins
  PROVE  Conserves(q)'
<1>1. PICK k \in Appends :
        \/ SendRefused(p, t, k) \/ SendInactive(p, t, k) \/ SendFailed(p, t, k)
        \/ \E n \in {0, 1} : SendSucceeds(p, t, n, k)
  BY DEF SendToPlugin
<1>2. Batch(call', q) = Batch(call, q)
  BY DEF SendToPlugin
<1>3. /\ RuntimeDenied(p, "SubscriptionDenied") \in Record
      /\ TransportFailed(p, "send") \in Record
      /\ RuntimeDenied(p, "SubscriptionDenied").kind # "evidence"
      /\ TransportFailed(p, "send").kind # "evidence"
  BY PluginRecordTypes DEF Denials, Stages, RuntimeDenied, TransportFailed
<1>4. /\ SendAttempted(p, t.event) \in Record /\ SendSucceeded(p, t.event) \in Record
      /\ SendAttempted(p, t.event).kind # "evidence"
      /\ SendSucceeded(p, t.event).kind # "evidence"
  <2>1. t.event \in Event
    BY DEF TypeOK, Token
  <2> QED
    BY <2>1, EventRecordTypes DEF SendAttempted, SendSucceeded
<1>5. ASSUME SendRefused(p, t, k) PROVE Conserves(q)'
  <2> DEFINE recs == <<RuntimeDenied(p, "SubscriptionDenied"), TransportFailed(p, "send")>>
  <2>1. recs \in Seq(Record) /\ Recorded(recs, q) = <<>>
    BY <1>3, OtherRecords
  <2>2. Append_k(recs, k) /\ lines'[q] = lines[q] /\ stderr'[q] = stderr[q]
    BY <1>5 DEF SendRefused
  <2> HIDE DEF recs
  <2> QED
    BY <1>2, <2>1, <2>2, AppendRests
<1>6. ASSUME SendInactive(p, t, k) PROVE Conserves(q)'
  <2> DEFINE recs == <<TransportFailed(p, "send")>>
  <2>1. recs \in Seq(Record) /\ Recorded(recs, q) = <<>>
    BY <1>3, OtherRecord
  <2>2. Append_k(recs, k) /\ lines'[q] = lines[q] /\ stderr'[q] = stderr[q]
    BY <1>6 DEF SendInactive
  <2> HIDE DEF recs
  <2> QED
    BY <1>2, <2>1, <2>2, AppendRests
<1>7. ASSUME SendFailed(p, t, k) PROVE Conserves(q)'
  <2> DEFINE recs == <<SendAttempted(p, t.event), TransportFailed(p, "send")>>
  <2>1. recs \in Seq(Record) /\ Recorded(recs, q) = <<>>
    BY <1>3, <1>4, OtherRecords
  <2>2. Append_k(recs, k) /\ lines'[q] = lines[q] /\ stderr'[q] = stderr[q]
    BY <1>7 DEF SendFailed
  <2> HIDE DEF recs
  <2> QED
    BY <1>2, <2>1, <2>2, AppendRests
<1>8. ASSUME NEW n \in {0, 1}, SendSucceeds(p, t, n, k) PROVE Conserves(q)'
  <2> DEFINE recs == <<SendAttempted(p, t.event), SendSucceeded(p, t.event)>>
  <2>1. recs \in Seq(Record) /\ Recorded(recs, q) = <<>>
    BY <1>4, OtherRecords
  <2>2. Append_k(recs, k) /\ Len(recs) = 2
    BY <1>8 DEF SendSucceeds
  <2> HIDE DEF recs
  <2>3. faults = 0 /\ k = 2 /\ log' = log \o recs
    BY <2>1, <2>2, FaultlessAppend
  <2>4. /\ lines' = [lines EXCEPT ![p] = @ + n]
        /\ stderr' = IF n = 1 THEN [stderr EXCEPT ![p] = Append(@, lines[p] + 1)]
                              ELSE stderr
    BY <1>8, <2>3 DEF SendSucceeds
  <2>5. CASE q = p /\ n = 1
    <3>1. lines'[q] = lines[q] + 1 /\ stderr'[q] = Append(stderr[q], lines[q] + 1)
      BY <2>4, <2>5 DEF TypeOK
    <3> QED
      BY <1>2, <2>1, <2>3, <3>1, LineAdded
  <2>6. CASE q # p \/ n = 0
    <3>1. lines'[q] = lines[q] /\ stderr'[q] = stderr[q]
      BY <2>4, <2>6 DEF TypeOK
    <3> QED
      BY <1>2, <2>1, <2>3, <3>1, EvidenceRests
  <2> QED
    BY <2>5, <2>6
<1> QED
  BY <1>1, <1>5, <1>6, <1>7, <1>8

LEMMA ComplainsConserves ==
  ASSUME TypeOK, TypeOK', EvidenceConserved, faults = 0, NEW p \in Plugins,
         SidecarComplains(p), NEW q \in Plugins
  PROVE  Conserves(q)'
<1>1. /\ lines' = [lines EXCEPT ![p] = @ + 1] /\ UNCHANGED <<log, call>>
      /\ stderr' = [stderr EXCEPT ![p] = Append(@, lines[p] + 1)]
  BY DEF SidecarComplains
<1>2. Batch(call', q) = Batch(call, q)
  BY <1>1
<1>3. CASE q = p
  <2> DEFINE none == <<>>
  <2>1. none \in Seq(Record) /\ DOMAIN none = {}
    OBVIOUS
  <2>2. log' = log \o none
    <3>1. log \in Seq(Record)
      BY DEF TypeOK
    <3>2. log \o none = log
      BY ONLY <3>1
    <3> QED
      BY <1>1, <3>2
  <2> HIDE DEF none
  <2>3. Recorded(none, q) = <<>>
    BY <2>1, NoneRecorded
  <2>4. lines'[q] = lines[q] + 1 /\ stderr'[q] = Append(stderr[q], lines[q] + 1)
    BY <1>1, <1>3 DEF TypeOK
  <2> QED
    BY <1>2, <2>1, <2>2, <2>3, <2>4, LineAdded
<1>4. CASE q # p
  <2>1. lines'[q] = lines[q] /\ stderr'[q] = stderr[q]
    BY <1>1, <1>4 DEF TypeOK
  <2> QED
    BY <1>1, <1>2, <2>1, NothingRecorded
<1> QED
  BY <1>3, <1>4

LEMMA DrainBeginConserves ==
  ASSUME TypeOK, TypeOK', EvidenceConserved, faults = 0, NEW p \in Plugins,
         NEW m \in 0 .. Len(stderr[p]), DrainBegin(p, m), NEW q \in Plugins
  PROVE  Conserves(q)'
<1> DEFINE s == stderr[p]  taken == SubSeq(s, 1, m)  left == SubSeq(s, m + 1, Len(s))
           none == <<>>
<1>1. /\ stderr \in [Plugins -> Seq(Nat)] /\ s \in Seq(Nat) /\ m \in 0 .. Len(s)
  BY DEF TypeOK
<1>2. /\ UNCHANGED <<log, lines>> /\ stderr' = [stderr EXCEPT ![p] = left]
      /\ call.op # "drain"
      /\ call'.op = "drain" /\ call'.plugin = p /\ call'.evidence = taken
  BY DEF DrainBegin, Ready, Idle
<1>3. lines'[q] = lines[q]
  BY <1>2
<1>4. CASE q = p
  <2>1. Batch(call, q) = none /\ Batch(call', q) = taken
    BY <1>2, <1>4 DEF Batch
  <2>2. stderr'[q] = left
    BY <1>1, <1>2, <1>4
  <2> HIDE DEF s
  <2>3. taken \o left = none \o s
    <3>1. taken \o left = s
      <4>1. s \in Seq(Nat) /\ m \in 0 .. Len(s)
        BY <1>1
      <4>2. SubSeq(s, 1, m) \o SubSeq(s, m + 1, Len(s)) = SubSeq(s, 1, Len(s))
        <5>1. 1 \in 1 .. Len(s) + 1 /\ m \in 1 - 1 .. Len(s) /\ Len(s) \in m .. Len(s)
          BY ONLY <4>1
        <5> QED
          BY ONLY <4>1, <5>1, ConcatAdjacentSubSeq
      <4>3. SubSeq(s, 1, Len(s)) = s
        BY ONLY <4>1
      <4> QED
        BY <4>2, <4>3, Zenon
    <3>2. none \o s = s
      BY ONLY <1>1
    <3> QED
      BY <3>1, <3>2
  <2>4. Batch(call', q) \o stderr'[q] = Batch(call, q) \o stderr[q]
    BY <1>4, <2>1, <2>2, <2>3, Zenon DEF s
  <2> QED
    BY <1>2, <1>3, <2>4, NothingRecorded
<1>5. CASE q # p
  <2>1. Batch(call', q) = Batch(call, q)
    BY <1>2, <1>5 DEF Batch
  <2>2. stderr'[q] = stderr[q]
    BY <1>1, <1>2, <1>5
  <2> QED
    BY <1>2, <1>3, <2>1, <2>2, NothingRecorded
<1> QED
  BY <1>4, <1>5

LEMMA DrainEvidenceConserves ==
  ASSUME TypeOK, TypeOK', EvidenceConserved, faults' = 0, DrainEvidence,
         NEW q \in Plugins
  PROVE  Conserves(q)'
<1> DEFINE p == call.plugin  batch == call.evidence  held == stderr[p]
           first == Head(batch)  rest == Tail(batch)
           one == <<first>>  none == <<>>  recs == <<Evidence(p, first)>>
<1>1. /\ call.op = "drain" /\ p \in Plugins /\ batch \in Seq(Nat) /\ batch # <<>>
      /\ call \in Draining
  BY DrainingCall DEF DrainEvidence
<1>2. first \in Nat /\ rest \in Seq(Nat) /\ one \in Seq(Nat) /\ batch = one \o rest
  <2> HIDE DEF batch
  <2> QED
    BY ONLY <1>1
<1>3. recs \in Seq(Record) /\ Recorded(recs, p) = one /\ Len(recs) = 1
  <2>1. [i \in 1 .. Len(one) |-> Evidence(p, one[i])] = recs
    <3> HIDE DEF first
    <3> QED
      OBVIOUS
  <2>2. recs \in Seq(Record) /\ Recorded(recs, p) = one
    <3> HIDE DEF p, one, recs
    <3> QED
      BY <1>1, <1>2, <2>1, EvidenceRecorded
  <2> QED
    BY <2>2
<1>4. PICK k \in Appends :
        /\ Append_k(recs, k)
        /\ call' = IF k = 1 THEN [call EXCEPT !.evidence = Tail(@)] ELSE Idle
  BY DEF DrainEvidence
<1>5. faults = 0 /\ k = 1 /\ log' = log \o recs
  <2> HIDE DEF recs
  <2> QED
    BY <1>3, <1>4, FaultlessAppend
<1>6. call'.op = "drain" /\ call'.plugin = p /\ call'.evidence = rest
  BY <1>1, <1>4, <1>5 DEF Draining
<1>7. UNCHANGED <<stderr, lines>>
  BY DEF DrainEvidence, sidecarVars
<1>8. CASE q = p
  <2>1. Batch(call, q) = batch /\ Batch(call', q) = rest
    BY <1>1, <1>6, <1>8 DEF Batch
  <2>2. held \in Seq(Nat) /\ lines[p] \in Nat
    BY <1>1 DEF TypeOK
  <2>3. NextLines(lines[p], 0) = none
    BY DEF NextLines
  <2> HIDE DEF p, batch, held, first, rest, one, recs
  <2>4. one \o (rest \o held) = ((one \o rest) \o held) \o none
    <3> DEFINE all == (one \o rest) \o held
    <3>1. all = one \o (rest \o held)
      BY ONLY <1>2, <2>2, Regroup
    <3>2. all \in Seq(Nat)
      BY ONLY <1>2, <2>2
    <3> HIDE DEF all
    <3>3. all \o none = all
      BY ONLY <3>2
    <3> QED
      BY <3>1, <3>3, Zenon DEF all
  <2>5. Recorded(recs, q) \o (Batch(call', q) \o stderr'[q]) =
          (Batch(call, q) \o stderr[q]) \o NextLines(lines[q], 0)
    <3>1. stderr'[q] = held /\ stderr[q] = held
      BY <1>7, <1>8 DEF held
    <3>2. Recorded(recs, q) = one /\ NextLines(lines[q], 0) = none
      BY <1>3, <1>8, <2>3
    <3> QED
      BY <1>2, <2>1, <2>4, <3>1, <3>2, Zenon
  <2>6. lines'[q] = lines[q] + 0
    BY <1>7, <1>8, <2>2
  <2>7. 0 \in Nat
    OBVIOUS
  <2> QED
    BY <1>3, <1>5, <2>5, <2>6, <2>7, EvidencePasses
<1>9. CASE q # p
  <2>1. Batch(call', q) = Batch(call, q)
    BY <1>1, <1>6, <1>9 DEF Batch
  <2>2. Recorded(recs, q) = <<>>
    <3>1. DOMAIN recs = {1} /\ recs[1] = Evidence(p, first)
      OBVIOUS
    <3>2. Evidence(p, first) \notin EvidenceRecords(q)
      BY <1>9 DEF Evidence, EvidenceRecords
    <3> HIDE DEF recs
    <3> QED
      BY <1>3, <3>1, <3>2, NoneRecorded
  <2>3. lines'[q] = lines[q] /\ stderr'[q] = stderr[q]
    BY <1>7
  <2> HIDE DEF recs
  <2> QED
    BY <1>3, <1>5, <2>1, <2>2, <2>3, EvidenceRests
<1> QED
  BY <1>8, <1>9

\* A drain handles candidates when its batch of evidence is recorded.
LEMMA BatchSpent ==
  ASSUME TypeOK, call.op = "drain", call.evidence = <<>>, NEW c, NEW q,
         c = Idle \/ \E candidates, admitted :
           c = [call EXCEPT !.candidates = candidates, !.admitted = admitted]
  PROVE  Batch(c, q) = Batch(call, q)
<1>1. call \in Draining
  BY DrainingCall
<1>2. CASE c = Idle
  BY <1>2 DEF Idle, Batch
<1>3. ASSUME NEW candidates, NEW admitted,
             c = [call EXCEPT !.candidates = candidates, !.admitted = admitted]
      PROVE  c.evidence = call.evidence
  <2> DEFINE between == [call EXCEPT !.candidates = candidates]
  <2>1. DOMAIN call = {"op", "plugin", "evidence", "candidates", "admitted"}
    BY <1>1 DEF Draining
  <2>2. DOMAIN between = DOMAIN call /\ between.evidence = call.evidence
    BY <2>1
  <2> QED
    BY <1>3, <2>1, <2>2
<1> QED
  BY <1>2, <1>3, Zenon DEF Batch

LEMMA DrainRefusedConserves ==
  ASSUME TypeOK, TypeOK', EvidenceConserved, faults' = 0, DrainRefused,
         NEW q \in Plugins
  PROVE  Conserves(q)'
<1> DEFINE checks == CandidateChecks(call.plugin, Head(call.candidates))
<1>1. PICK i \in 1 .. 3, k \in Appends :
        /\ Append_k(<<RuntimeDenied(call.plugin, checks[i].denial),
                      TransportFailed(call.plugin, "candidate_canonicalization")>>, k)
        /\ call' = IF k = 2 THEN [call EXCEPT !.candidates = Tail(@)] ELSE Idle
  BY DEF DrainRefused
<1>2. call \in Draining /\ call.plugin \in Plugins /\ call.op = "drain"
      /\ call.evidence = <<>>
  BY DrainingCall DEF DrainRefused
<1>3. checks[i].denial \in Denials
  <2>1. CASE i = 1  BY <2>1 DEF CandidateChecks, Denials
  <2>2. CASE i = 2  BY <2>2 DEF CandidateChecks, Denials
  <2>3. CASE i = 3  BY <2>3 DEF CandidateChecks, Denials
  <2> QED
    BY <2>1, <2>2, <2>3
<1> HIDE DEF checks
<1> DEFINE recs == <<RuntimeDenied(call.plugin, checks[i].denial),
                     TransportFailed(call.plugin, "candidate_canonicalization")>>
<1>4. recs \in Seq(Record) /\ Recorded(recs, q) = <<>>
  <2>1. /\ RuntimeDenied(call.plugin, checks[i].denial) \in Record
        /\ TransportFailed(call.plugin, "candidate_canonicalization") \in Record
    BY <1>2, <1>3, PluginRecordTypes DEF Stages
  <2>2. /\ RuntimeDenied(call.plugin, checks[i].denial).kind # "evidence"
        /\ TransportFailed(call.plugin, "candidate_canonicalization").kind # "evidence"
    BY DEF RuntimeDenied, TransportFailed
  <2> QED
    BY <2>1, <2>2, OtherRecords
<1>5. Append_k(recs, k)
  BY <1>1
<1>6. Batch(call', q) = Batch(call, q)
  <2>1. call' = Idle \/ \E candidates, admitted :
          call' = [call EXCEPT !.candidates = candidates, !.admitted = admitted]
    <3>1. [call EXCEPT !.candidates = Tail(@)] =
            [call EXCEPT !.candidates = Tail(call.candidates), !.admitted = call.admitted]
      BY <1>2 DEF Draining
    <3> QED
      BY <1>1, <3>1, Zenon
  <2> QED
    BY <1>2, <2>1, BatchSpent
<1>7. lines'[q] = lines[q] /\ stderr'[q] = stderr[q]
  BY DEF DrainRefused, sidecarVars
<1> HIDE DEF recs
<1> QED
  BY <1>4, <1>5, <1>6, <1>7, AppendRests

LEMMA DrainAdmissionConserves ==
  ASSUME TypeOK, TypeOK', EvidenceConserved, faults' = 0, NEW parent,
         DrainAdmission(parent), NEW q \in Plugins
  PROVE  Conserves(q)'
<1>1. /\ call \in Draining /\ call.plugin \in Plugins /\ call.op = "drain"
      /\ call.candidates \in Seq(Candidate) /\ call.evidence = <<>>
  BY DrainingCall DEF DrainAdmission
<1>2. Head(call.candidates) \in Candidate
  BY <1>1 DEF DrainAdmission
<1>3. parent \in Event
  BY <1>1 DEF DrainAdmission, InFlight, TypeOK
<1> DEFINE e == Canonical(call.plugin, Head(call.candidates), parent)
           recs == <<Decision(e, Admissible(e))>>
<1>4. e \in Event
  BY <1>1, <1>2, <1>3, CanonicalTypes DEF DrainAdmission
<1>5. PICK k \in Appends :
        /\ Append_k(<<Decision(e, Admissible(e))>>, k)
        /\ call' = IF k = 0 THEN Idle
                   ELSE [call EXCEPT !.candidates = Tail(@),
                                     !.admitted = @ \cup Granted(e, k = 1)]
  BY DEF DrainAdmission
<1> HIDE DEF e
<1>6. recs \in Seq(Record) /\ Recorded(recs, q) = <<>>
  <2>1. Decision(e, Admissible(e)) \in Record
    BY <1>4, EventRecordTypes DEF Admissible
  <2>2. Decision(e, Admissible(e)).kind # "evidence"
    BY DEF Decision
  <2> QED
    BY <2>1, <2>2, OtherRecord
<1>7. Append_k(recs, k)
  BY <1>5
<1>8. Batch(call', q) = Batch(call, q)
  <2>1. call' = Idle \/ \E candidates, admitted :
          call' = [call EXCEPT !.candidates = candidates, !.admitted = admitted]
    BY <1>5, Zenon
  <2> QED
    BY <1>1, <2>1, BatchSpent
<1>9. lines'[q] = lines[q] /\ stderr'[q] = stderr[q]
  BY DEF DrainAdmission, sidecarVars
<1> HIDE DEF recs
<1> QED
  BY <1>6, <1>7, <1>8, <1>9, AppendRests

LEMMA DrainReturnConserves ==
  ASSUME TypeOK, EvidenceConserved, faults = 0, DrainReturn, NEW q \in Plugins
  PROVE  Conserves(q)'
<1>1. call' = Idle /\ UNCHANGED <<log, lines, stderr>>
  BY DEF DrainReturn, sidecarVars
<1>2. Batch(call', q) = Batch(call, q)
  BY <1>1, BatchSpent DEF DrainReturn
<1> QED
  BY <1>1, <1>2, NothingRecorded

\* Between the methods and in those that record nothing the evidence rests.
LEMMA QuietConserves ==
  ASSUME EvidenceConserved, faults = 0, NEW q \in Plugins,
         UNCHANGED <<log, lines, stderr>>,
         UNCHANGED call \/ (call.op # "drain" /\ call'.op # "drain")
  PROVE  Conserves(q)'
<1>1. Batch(call', q) = Batch(call, q)
  BY DEF Batch
<1> QED
  BY <1>1, NothingRecorded

LEMMA InitConserves == Init => EvidenceConserved
<1> SUFFICES ASSUME Init, NEW p \in Plugins PROVE Conserves(p)
  BY ConservedEach
<1> DEFINE none == <<>>
<1>1. log = none /\ stderr[p] = none /\ lines[p] = 0 /\ Batch(call, p) = none
  BY DEF Init, Batch, Idle
<1>2. Recorded(none, p) = none
  <2>1. none \in Seq(Record) /\ DOMAIN none = {}
    OBVIOUS
  <2> HIDE DEF none
  <2>2. Recorded(none, p) = <<>>
    BY <2>1, NoneRecorded
  <2> QED
    BY <2>2 DEF none
<1>3. none \o (none \o none) = none /\ FirstLines(0) = none
  BY DEF FirstLines
<1>4. EvidenceOf(p) = FirstLines(lines[p])
  BY <1>1, <1>2, <1>3, Zenon DEF EvidenceOf
<1> QED
  BY <1>4 DEF Conserves

LEMMA NextConserves ==
  TypeOK /\ EvidenceConserved /\ [Next]_vars => EvidenceConserved'
<1> SUFFICES ASSUME TypeOK, EvidenceConserved, [Next]_vars, faults' = 0,
                    NEW q \in Plugins
             PROVE  Conserves(q)'
  BY ConservedEach DEF EvidenceConserved, Conserves, StopFailedIn, FirstLines
<1>0. TypeOK'
  BY NextTypeOK
<1>1. CASE RegisterPlugins
  <2>1. call.op # "drain" /\ call'.op # "drain"
    BY <1>1 DEF RegisterPlugins, Ready, Idle
  <2> QED
    BY <1>1, <2>1, QuietConserves DEF RegisterPlugins, sidecarVars
<1>2. CASE RegisterNext
  BY <1>0, <1>2, RegisterNextConserves
<1>3. CASE RegisterReturn
  <2>1. call.op # "drain" /\ call'.op # "drain"
    BY <1>3 DEF RegisterReturn, Idle
  <2> QED
    BY <1>3, <2>1, QuietConserves DEF RegisterReturn, sidecarVars
<1>4. ASSUME NEW n \in 0 .. Len(SchemaFiles), RegisterSchemas(n) PROVE Conserves(q)'
  BY <1>4, QuietConserves DEF RegisterSchemas, sidecarVars
<1>5. ASSUME NEW e \in Envelopes, AdmitEvent(e) PROVE Conserves(q)'
  BY <1>0, <1>5, AdmitConserves
<1>6. ASSUME NEW t \in tokens, PublishAdmitted(t) PROVE Conserves(q)'
  BY <1>0, <1>6, PublishConserves
<1>7. ASSUME NEW p \in Plugins, NEW to \in {"Starting", "Stopping"},
             RefuseTransition(p, to)
      PROVE  Conserves(q)'
  BY <1>0, <1>7, RefuseConserves
<1>8. ASSUME NEW p \in Plugins, StartPlugin(p) PROVE Conserves(q)'
  BY <1>0, <1>8, StartConserves
<1>9. ASSUME NEW p \in Plugins, StopPlugin(p) PROVE Conserves(q)'
  BY <1>0, <1>9, StopConserves
<1>10. ASSUME NEW p \in Plugins, NEW t \in tokens, SendToPlugin(p, t)
       PROVE  Conserves(q)'
  BY <1>0, <1>10, SendConserves
<1>11. ASSUME NEW p \in Plugins, NEW m \in 0 .. Len(stderr[p]), DrainBegin(p, m)
       PROVE  Conserves(q)'
  <2>1. faults = 0
    BY <1>11 DEF DrainBegin
  <2> QED
    BY <1>0, <1>11, <2>1, DrainBeginConserves
<1>12. ASSUME NEW p \in Plugins, NEW c \in Candidate, SidecarWrites(p, c)
       PROVE  Conserves(q)'
  BY <1>12, QuietConserves DEF SidecarWrites
<1>13. ASSUME NEW p \in Plugins, SidecarComplains(p) PROVE Conserves(q)'
  <2>1. faults = 0
    BY <1>13 DEF SidecarComplains
  <2> QED
    BY <1>0, <1>13, <2>1, ComplainsConserves
<1>14. CASE DrainEvidence
  BY <1>0, <1>14, DrainEvidenceConserves
<1>15. CASE DrainRefused
  BY <1>0, <1>15, DrainRefusedConserves
<1>16. CASE DrainReturn
  <2>1. faults = 0
    BY <1>16 DEF DrainReturn
  <2> QED
    BY <1>16, <2>1, DrainReturnConserves
<1>17. ASSUME NEW e \in UNION {inflight[p] : p \in Plugins}, DrainAdmission(e)
       PROVE  Conserves(q)'
  BY <1>0, <1>17, DrainAdmissionConserves
<1>18. ASSUME NEW valid \in BOOLEAN, NEW extra \in {0, 1}, SealRun(valid, extra)
       PROVE  Conserves(q)'
  BY <1>18, QuietConserves DEF SealRun, sidecarVars
<1>19. CASE UNCHANGED vars
  BY <1>19, QuietConserves DEF vars
<1> QED
  BY <1>1, <1>2, <1>3, <1>4, <1>5, <1>6, <1>7, <1>8, <1>9, <1>10, <1>11, <1>12,
     <1>13, <1>14, <1>15, <1>16, <1>17, <1>18, <1>19 DEF Next

\* However pumps, drains and stops interleave with a sidecar that keeps
\* complaining, what reached the transport's channel reaches the log complete and
\* in order, unless an append failed or the stop of the plugin itself did.
THEOREM EvidenceConservedHolds == Spec => []EvidenceConserved
<1>1. Init => TypeOK /\ EvidenceConserved
  BY InitTypeOK, InitConserves
<1>2. TypeOK /\ EvidenceConserved /\ [Next]_vars => (TypeOK /\ EvidenceConserved)'
  BY NextTypeOK, NextConserves
<1> QED
  BY <1>1, <1>2, PTL DEF Spec
=============================================================================
