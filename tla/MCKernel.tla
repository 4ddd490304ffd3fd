------------------------------- MODULE MCKernel -------------------------------
(***************************************************************************)
(* The instances of KernelRuntime that TLC checks.  Plugins are named for   *)
(* what their manifest makes of them.                                       *)
(***************************************************************************)
EXTENDS KernelProperties

DefaultPermissions ==
  [network |-> FALSE, filesystem |-> FALSE, gpu |-> FALSE,
   projection_only |-> TRUE, nondeterministic |-> FALSE]

PlainClaim ==
  [enabled |-> TRUE, network |-> FALSE, filesystem |-> FALSE, gpu |-> FALSE,
   projection_only |-> FALSE, deterministic |-> TRUE]

LocalManifest ==
  [kind |-> "local", publishes |-> {}, subscribes |-> {}, working_dir |-> "none",
   command |-> FALSE, executable_hash |-> FALSE, args |-> FALSE, args_hash |-> FALSE]

SidecarManifest ==
  [kind |-> "subprocess", publishes |-> {}, subscribes |-> {},
   working_dir |-> "inside", command |-> TRUE, executable_hash |-> TRUE,
   args |-> TRUE, args_hash |-> TRUE]

\* Bounds on the log by kind of record, for the question each run asks.
CapOf(lifecycle, denied, failed, sent, evidence, decisions, published) ==
  [lifecycle |-> lifecycle, runtime_denied |-> denied, transport_failed |-> failed,
   send_attempted |-> sent, send_succeeded |-> sent, evidence |-> evidence,
   decision |-> decisions, published |-> published]

\* The envelopes EventEnvelope::new makes, and those child_of makes of them.
Roots == {e \in Event : e.parent = 0 /\ e.trace = e.id}
Children == {e \in Event : e.parent = 1 /\ e.trace = 1 /\ e.id = 2}

-----------------------------------------------------------------------------
(* Lifecycle: a sidecar that everything may happen to, a plugin that claims *)
(* a resource the profile withholds, one that is in no profile.             *)

LifecyclePlugins == {"sidecar", "networked", "stranger"}
LifecycleProfile == <<"sidecar", "networked", "sidecar">>
LifecycleSchemas == <<>>
LifecycleEnvelopes == {}
LifecycleClaims ==
  [p \in LifecyclePlugins |->
    IF p = "networked"
    THEN <<[PlainClaim EXCEPT !.projection_only = TRUE],
           [PlainClaim EXCEPT !.enabled = FALSE, !.gpu = TRUE],
           [PlainClaim EXCEPT !.network = TRUE, !.deterministic = FALSE]>>
    ELSE <<PlainClaim>>]
LifecycleManifest ==
  [p \in LifecyclePlugins |-> IF p = "sidecar" THEN SidecarManifest ELSE LocalManifest]
LifecycleCap == CapOf(10, 2, 2, 0, 4, 0, 0)
LifecycleFailures ==
  {"ManifestRejected", "ExecutableHashMismatch", "SpawnFailed", "KillFailed"}

-----------------------------------------------------------------------------
(* Publication: a local adapter with two topics, one of which may have no   *)
(* schema yet, and a second plugin that does not publish.                   *)

PublicationPlugins == {"adapter", "reader"}
PublicationProfile == <<"adapter">>
PublicationTopics == {"state", "result"}
\* Any first event, a second one of the adapter, or one derived from the first.
PublicationEnvelopes ==
  {e \in Roots \cup Children : e.id = 1 \/ (e.source = "adapter" /\ e.valid)}
PublicationSchemas == <<"state", "result", "state">>
PublicationClaims == [p \in PublicationPlugins |-> <<PlainClaim>>]
PublicationManifest ==
  [p \in PublicationPlugins |->
    IF p = "adapter"
    THEN [LocalManifest EXCEPT !.publishes = {"state"}, !.subscribes = {"state"}]
    ELSE LocalManifest]
PublicationCap == CapOf(6, 0, 0, 1, 0, 2, 2)
PublicationFailures == {"SchemaUnreadable"}

-----------------------------------------------------------------------------
(* Sidecars: one that may answer requests that were sent to the other       *)
(* plugin, write lines in its name and to stderr, stop reading, and die     *)
(* after a send.                                                           *)

SidecarPlugins == {"echo", "local"}
SidecarProfile == <<"local", "echo">>
SidecarTopics == {"topic"}
\* An event of the other plugin, and events derived from it in either plugin's name.
SidecarEnvelopes == {e \in Roots : e.id = 1 /\ e.source = "local"} \cup Children
SidecarSchemas == <<"topic">>
SidecarClaims == [p \in SidecarPlugins |-> <<PlainClaim>>]
SidecarManifests ==
  [p \in SidecarPlugins |->
    [(IF p = "echo" THEN SidecarManifest ELSE LocalManifest)
     EXCEPT !.publishes = {"topic"}, !.subscribes = {"topic"}]]
SidecarCap == CapOf(8, 0, 1, 1, 1, 2, 0)
SidecarFailures == {"NonzeroExit", "WriteFailed", "ArgsUnreadable"}

-----------------------------------------------------------------------------
(* Batch: one sidecar whose answers, good and bad, are drained two at once   *)
(* and may be published, with an append that fails somewhere on the way.    *)

BatchPlugins == {"echo"}
BatchProfile == <<"echo">>
BatchTopics == {"topic"}
\* An event, and one derived from it.
BatchEnvelopes == {e \in Roots : e.id = 1} \cup Children
BatchSchemas == <<"topic">>
BatchClaims == [p \in BatchPlugins |-> <<PlainClaim>>]
BatchManifests ==
  [p \in BatchPlugins |->
    [SidecarManifest EXCEPT !.publishes = {"topic"}, !.subscribes = {"topic"}]]
BatchCap == CapOf(4, 1, 1, 1, 0, 2, 1)
BatchFailures == {}
=============================================================================
