SPECIFICATION Spec
CONSTANTS
  Cap <- SidecarCap
  Plugins <- SidecarPlugins
  Profile <- SidecarProfile
  Claims <- SidecarClaims
  HostFailures <- SidecarFailures
  Topics <- SidecarTopics
  SchemaFiles <- SidecarSchemas
  Envelopes <- SidecarEnvelopes
  Permissions <- DefaultPermissions
  Manifest <- SidecarManifests
  Payloads = {TRUE}
  SubprocessEnabled = TRUE
  StopEvidence = {0}
  MaxEvents = 2
  MaxRecords = 14
  MaxArtifacts = 0
  MaxLines = 2
  MaxPending = 1
  MaxFaults = 0
PROPERTIES
  SidecarCausality
  TransportsAreFeeds
CHECK_DEADLOCK FALSE
