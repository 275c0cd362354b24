SPECIFICATION Spec
CONSTANTS
  cohort = cohort
  target = target
  review = review
  pause = pause
  NoCommand = NoCommand
  Scheduled = {cohort, target}
  Stage = {}
  Direct = {pause}
  Followup <- NoFollowup
  Ticker = {t1, t2}
  Deliverer = {d1}
  Operator = {o1}
  MaxFaults = 0
INVARIANTS TypeOK CommittedApplied DoneMeansRan
CHECK_DEADLOCK FALSE
