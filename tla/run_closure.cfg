SPECIFICATION Spec
CONSTANTS
  Manifests <- SomeManifests
  Schemas <- SomeSchemas
  Payloads = {1, 2}
  HexDigits = 2
  MaxPublished = 3
INVARIANTS ClosureComplete CanonicalOrder ReplayedIsListed
CHECK_DEADLOCK FALSE
