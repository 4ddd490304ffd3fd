SPECIFICATION Spec
CONSTANTS
  StdoutKinds = {"candidate", "text"}
  StderrKinds = {"text", "not_utf8"}
  StdinCapacity = 1
  PipeCapacity = 2
  KillMayFail = TRUE
  MaxLines = 2
  MaxSessions = 1
INVARIANTS LinesConserved HeardInOrder LossIsATail ExitsReported
PROPERTIES ImplementsFeed ImplementsProgress
CHECK_DEADLOCK FALSE
