SPECIFICATION LiveSpec
CONSTANTS
  Width = 2
  Buckets = 3
  Watermark = 1
  Overlap = 3
  Retention = 6
  PollSlack = 2
  ReconcileFrom = 4
  ReconcileTo = 4
  ClosePhases <- MCPhases
  MaxCorrections = 0
  MaxFaults = 0
INVARIANTS FinalizesOnce
CHECK_DEADLOCK FALSE
