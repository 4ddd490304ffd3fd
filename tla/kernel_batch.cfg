SPECIFICATION Spec
CONSTANTS
  Cap <- BatchCap
  Plugins <- BatchPlugins
  Profile <- BatchProfile
  Claims <- BatchClaims
  HostFailures <- BatchFailures
  Topics <- BatchTopics
  SchemaFiles <- BatchSchemas
  Envelopes <- BatchEnvelopes
  Permissions <- DefaultPermissions
  Manifest <- BatchManifests
  Payloads = {TRUE}
  SubprocessEnabled = TRUE
  StopEvidence = {0}
  MaxEvents = 2
  MaxRecords = 10
  MaxArtifacts = 1
  MaxLines = 0
  MaxPending = 2
  MaxFaults = 1
INVARIANTS
  TypeOK
  AdmissionsReachCaller
PROPERTIES
  KeepsContract
CHECK_DEADLOCK FALSE
