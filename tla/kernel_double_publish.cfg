SPECIFICATION Spec
CONSTANTS
  Cap <- PublicationCap
  Plugins <- PublicationPlugins
  Profile <- PublicationProfile
  Claims <- PublicationClaims
  HostFailures <- PublicationFailures
  Topics <- PublicationTopics
  SchemaFiles <- PublicationSchemas
  Envelopes <- PublicationEnvelopes
  Permissions <- DefaultPermissions
  Manifest <- PublicationManifest
  Payloads = {TRUE}
  SubprocessEnabled = TRUE
  StopEvidence = {0}
  MaxEvents = 2
  MaxRecords = 10
  MaxArtifacts = 2
  MaxLines = 0
  MaxPending = 0
  MaxFaults = 0
INVARIANTS
  ArtifactsReplayed
CHECK_DEADLOCK FALSE
