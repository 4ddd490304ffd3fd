SPECIFICATION Spec
CONSTANTS
  Cap <- PublicationCap
  Plugins <- PublicationPlugins
  Profile <- PublicationProfile
  Claims <- PublicationClaims
  HostFailures <- PublicationFailures
  Topics <- PublicationTopics
  SchemaFiles <- PublicationSchemas
  Envelopes <- PublicationEnvelopes
  Permissions <- DefaultPermissions
  Manifest <- PublicationManifest
  Payloads = {TRUE, FALSE}
  SubprocessEnabled = TRUE
  StopEvidence = {0}
  MaxEvents = 2
  MaxRecords = 10
  MaxArtifacts = 2
  MaxLines = 0
  MaxPending = 0
  MaxFaults = 1
INVARIANTS
  PublishedWasAdmitted
  AdmissionsJustified
  SealedClosure
CHECK_DEADLOCK FALSE
