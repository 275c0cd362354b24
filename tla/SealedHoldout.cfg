CONSTANTS
  a = a
  b = b
  Strategy = {a, b}
  Layout <- Layouts
  Request = {q1, q2}
  Verdict = {incubation, holdout_reject}
  NoOutcome = none
  MaxFaults = 2
SPECIFICATION FairSpec
CHECK_DEADLOCK FALSE
INVARIANTS TypeOK BurnedBeforeRead SingleExposure
PROPERTIES UnsharedCandidatesSettle
