SPECIFICATION Spec
CONSTANTS
  Cap <- LifecycleCap
  Plugins <- LifecyclePlugins
  Profile <- LifecycleProfile
  Claims <- LifecycleClaims
  Envelopes <- LifecycleEnvelopes
  Permissions <- DefaultPermissions
  Manifest <- LifecycleManifest
  HostFailures <- LifecycleFailures
  Payloads = {TRUE, FALSE}
  SubprocessEnabled = TRUE
  StopEvidence = {0, 3}
  Topics = {}
  SchemaFiles <- LifecycleSchemas
  MaxEvents = 0
  MaxRecords = 10
  MaxArtifacts = 0
  MaxLines = 2
  MaxPending = 0
  MaxFaults = 1
INVARIANTS
  ReplayMirrorsLifecycle
  LegalHistory
  TransportMatchesLifecycle
  StartedWithinPermissions
  NoPluginLeftInTransit
  EvidenceConserved
CHECK_DEADLOCK FALSE
