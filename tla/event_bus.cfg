SPECIFICATION Spec
CONSTANTS
  Topics <- TwoTopics
  PrefixPatterns <- TwoPrefixes
  MaxSubs = 3
  MaxEvents = 2
INVARIANTS EveryMatchOnce ReportTrue FailsOnce
CHECK_DEADLOCK FALSE
