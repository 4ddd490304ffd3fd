--------------------------- MODULE KernelProperties ---------------------------
(***************************************************************************)
(* What KernelRuntime promises.  Properties that compare the replay log     *)
(* with the state of the kernel are about runs in which no append failed    *)
(* (faults = 0) unless they say otherwise; the others hold whatever fails.  *)
(***************************************************************************)
EXTENDS KernelRuntime, Subsequences

IsLifecycle(r, p) == r.kind = "lifecycle" /\ r.plugin = p

\* The last lifecycle record of p among the first n says that p is in state s.
LoggedState(p, s, n) ==
  \E i \in 1 .. n :
    /\ IsLifecycle(log[i], p)
    /\ log[i].state = s
    /\ \A j \in (i + 1) .. n : ~IsLifecycle(log[j], p)

\* Record i of the log is the decision that admitted event e.
AdmittedAt(i, e) == i \in DOMAIN log /\ log[i] = Decision(e, TRUE)

-----------------------------------------------------------------------------
(* Lifecycle.                                                              *)

\* The replay log is the record of the supervisor: in a run without append
\* failures the last lifecycle record of a plugin is the state the supervisor
\* holds, after every method, whichever way it returned.
ReplayMirrorsLifecycle ==
  faults = 0 =>
    \A p \in Plugins :
      IF pstate[p] = "Unregistered"
      THEN \A i \in DOMAIN log : ~IsLifecycle(log[i], p)
      ELSE LoggedState(p, pstate[p], Len(log))

\* Read alone, the log tells a legal history of every plugin: it begins with
\* Registered, and two consecutive records are a transition of the table.
LegalHistory ==
  faults = 0 =>
    \A p \in Plugins, j \in DOMAIN log :
      IsLifecycle(log[j], p) =>
        \/ /\ log[j].state = "Registered"
           /\ \A i \in 1 .. (j - 1) : ~IsLifecycle(log[i], p)
        \/ \E t \in ValidTransitions :
             t[2] = log[j].state /\ LoggedState(p, t[1], j - 1)

\* A transport is in the map exactly while its plugin runs; only a failed
\* append can leave one behind, with a plugin stuck in Stopping.
TransportMatchesLifecycle ==
  \A p \in Plugins :
    /\ pstate[p] = "Running" => p \in transports
    /\ p \in transports =>
         pstate[p] = "Running" \/ (pstate[p] = "Stopping" /\ faults > 0)

\* What a plugin's enabled claims need of the profile's permissions.
Needs(claim) ==
  {n \in {"network", "filesystem", "gpu", "projection_only"} : claim[n]} \cup
  (IF claim.deterministic THEN {} ELSE {"nondeterministic"})

\* No plugin gets to Starting, let alone runs, with an enabled claim that needs
\* a permission the profile withholds, on any path through failure and restart.
StartedWithinPermissions ==
  \A i \in DOMAIN log :
    log[i].kind = "lifecycle" /\ log[i].state \in {"Starting", "Running"} =>
      \A c \in DOMAIN Claims[log[i].plugin] :
        LET claim == Claims[log[i].plugin][c]
        IN claim.enabled => \A n \in Needs(claim) : Permissions[n]

\* Between two methods no plugin is left half-way through a start or a stop: a
\* start that fails ends in Failed with its evidence.  (For hosts and manifests
\* none of whose failures the method meets with a bare `?`.)
NoPluginLeftInTransit ==
  /\ faults = 0
  /\ "ExecutableUnreadable" \notin HostFailures
  /\ "ArgsUnreadable" \notin HostFailures
  /\ \A p \in Plugins : Manifest[p].working_dir # "escapes"
  => \A p \in Plugins : pstate[p] \notin {"Registered", "Starting", "Stopping"}

-----------------------------------------------------------------------------
(* Authority.                                                              *)

\* Every token a caller holds is backed by the replay record that admitted its
\* event, at the position the token names: also after appends that failed.
TokensBacked ==
  \A t \in tokens : AdmittedAt(t.policy, t.event)

\* Nothing is published that policy had not admitted, and recorded as admitted,
\* before; the publication names the decision it rests on.
PublishedWasAdmitted ==
  \A i \in DOMAIN log :
    log[i].kind = "published" =>
      log[i].policy < i /\ AdmittedAt(log[i].policy, log[i].event)

\* The log justifies each admission by itself: when the decision was recorded
\* the log showed the source Running, and the source declares the topic.
AdmissionsJustified ==
  \A i \in DOMAIN log :
    log[i].kind = "decision" /\ log[i].allowed =>
      /\ log[i].event.topic \in Manifest[log[i].event.source].publishes
      /\ faults = 0 => LoggedState(log[i].event.source, "Running", i - 1)

\* Tokens a caller holds, or will hold when the drain in progress returns.
HeldTokens == tokens \cup (IF call.op = "drain" THEN call.admitted ELSE {})

\* No admission is lost: in a run without append failures every event the log
\* shows as admitted has its token with the caller, or is in the batch a drain
\* will return.
AdmissionsReachCaller ==
  faults = 0 =>
    \A i \in DOMAIN log :
      log[i].kind = "decision" /\ log[i].allowed =>
        [event |-> log[i].event, policy |-> i] \in HeldTokens

\* A sealed manifest closes the run: it verifies, counts every record, and
\* lists the artifact of every publication the log holds.
SealedClosure ==
  manifest # Unsealed /\ faults = 0 =>
    /\ manifest.valid /\ manifest.records = Len(log)
    /\ \A i \in DOMAIN log :
         log[i].kind = "published" =>
           \E a \in DOMAIN manifest.artifacts :
             manifest.artifacts[a] = [event |-> log[i].event, policy |-> log[i].policy]

-----------------------------------------------------------------------------
(* Sidecars.                                                               *)

\* Record r is of the sending of a request to p that e answers, on its trace.
IsRequest(r, p, e) ==
  /\ r.kind = "send_attempted" /\ r.plugin = p
  /\ r.event.id = e.parent /\ r.event.trace = e.trace

\* A sidecar speaks only when spoken to, and for itself: whatever is decided while
\* its outputs are drained is an event of that plugin that names a request which the
\* log shows was sent to that very plugin before, and carries on its trace.  (Events
\* that callers offer between drains may name any parent.)
SidecarCausality ==
  [][call.op = "drain" =>
       \A i \in (Len(log) + 1) .. Len(log') :
         log'[i].kind = "decision" =>
           /\ log'[i].event.source = call.plugin
           /\ \E j \in DOMAIN log : IsRequest(log[j], call.plugin, log'[i].event)]_vars

\* Whatever is sent to a sidecar had been admitted before.
SentWasAdmitted ==
  \A i \in DOMAIN log :
    log[i].kind = "send_attempted" =>
      \E j \in 1 .. (i - 1) : AdmittedAt(j, log[i].event)

\* What makes the properties above inductive: the tokens of a drain in progress
\* are backed as well, and an event in flight was sent to that plugin.
AuthorityInv ==
  /\ TokensBacked /\ PublishedWasAdmitted /\ SentWasAdmitted
  /\ \A t \in HeldTokens : AdmittedAt(t.policy, t.event)
  /\ \A p \in Plugins : \A e \in inflight[p] :
       \E j \in DOMAIN log : log[j] = SendAttempted(p, e)

-----------------------------------------------------------------------------
(* The contract.                                                           *)

AdmittedEvents ==
  {log[i].event : i \in {j \in DOMAIN log : log[j].kind = "decision" /\ log[j].allowed}}
RunningPlugins == {p \in Plugins : pstate[p] = "Running"}
AskedEvents(p) ==
  {log[i].event : i \in {j \in DOMAIN log : log[j].kind = "send_attempted"
                                           /\ log[j].plugin = p}}
PublishedEvents ==
  {log[i].event : i \in {j \in DOMAIN log : log[j].kind = "published"}}
Heard == IF call.op = "drain" THEN {call.plugin} ELSE {}
ArtifactEvents == {ledger[i].event : i \in DOMAIN ledger}
ClosureEvents ==
  IF manifest = Unsealed THEN {}
  ELSE {manifest.artifacts[i].event : i \in DOMAIN manifest.artifacts}

Contract == INSTANCE StationContract WITH
  Permitted <- {p \in Plugins : ManifestPermitted(p)}, Events <- Event,
  running <- RunningPlugins, heard <- Heard,
  admitted <- AdmittedEvents, asked <- [p \in Plugins |-> AskedEvents(p)],
  artifacts <- ArtifactEvents, published <- PublishedEvents,
  sealed <- manifest # Unsealed, closure <- ClosureEvents

\* "No plugin-originating event becomes authoritative until it is admitted by
\* policy, recorded into replay, and included in run closure" (README): read off
\* the replay log, the supervisor, the ledger and the manifest, every step of the
\* kernel is one of the contract or none, whichever append fails in it.
KeepsContract == Contract!Spec

-----------------------------------------------------------------------------
(* Evidence.                                                               *)

EvidenceRecords(p) == [kind : {"evidence"}, plugin : {p}, line : Nat]

\* The evidence of p that a sequence of replay records holds.
Recorded(records, p) ==
  LET evidence == Only(records, EvidenceRecords(p))
  IN [i \in 1 .. Len(evidence) |-> evidence[i].line]

\* The evidence of p in the batch of a drain in progress.
Batch(c, p) == IF c.op = "drain" /\ c.plugin = p THEN c.evidence ELSE <<>>

\* The evidence of p in the log, in the batch being drained and in the
\* transport's buffer, in that order.
EvidenceOf(p) == Recorded(log, p) \o (Batch(call, p) \o stderr[p])

\* Sidecar evidence that reached the transport's channel is neither lost, nor
\* repeated, nor reordered on its way through pump, drain and stop into the replay
\* log, as long as no append fails and no stop of its plugin did.
EvidenceConserved ==
  faults = 0 =>
    \A p \in Plugins :
      (\A i \in DOMAIN log : log[i] # TransportFailed(p, "stop")) =>
        EvidenceOf(p) = [i \in 1 .. lines[p] |-> i]

\* A transport as the kernel uses it is a feed, which SubprocessTransport is:
\* only the sidecar adds to it, while it is started, and what leaves it leaves
\* from the front to a drain, or when a stop drops the transport.
Feed(p) == INSTANCE SidecarFeed WITH
  open <- p \in transports, offered <- outbox[p], complaints <- stderr[p]

TransportsAreFeeds ==
  /\ \A p \in Plugins : Feed(p)!Init
  /\ [][\A p \in Plugins : Feed(p)!Next \/ UNCHANGED Feed(p)!feed]_vars

-----------------------------------------------------------------------------
(* What the repository's documents say and the code does not keep.          *)

\* README, flow of an event: publish_admitted leads to "replay + artifact +
\* manifest closure".  Every artifact a publication left in the ledger belongs
\* to an event the replay log shows as published.
ArtifactsReplayed ==
  faults = 0 =>
    \A a \in DOMAIN ledger :
      \E i \in DOMAIN log :
        log[i] = Published(ledger[a])

=============================================================================
