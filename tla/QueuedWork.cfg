SPECIFICATION QueuedWorkSpec
CONSTANTS
  Backfills = {f, g}
  Months = {m1, m2}
  Handlers = {h1, h2}
  Versions = {1, 2}
  None = None
  MaxStarts = 2
  MaxBackfillFaults = 1
  Sessions = 1
  Trials = {t1, t2}
  Sampled = {t1}
  Worthy = {t2}
  FinalistCap = 1
  Final = Final
  Requests = {r1, r2}
  MaxAttempts = 2
  MaxPools = 2
  MaxResearchFaults = 1
INVARIANTS QueuedWorkTypeOK SealedIsWhole CohortIsWhole
PROPERTIES  CohortCompletes
CHECK_DEADLOCK FALSE
