SPECIFICATION Spec
CONSTANTS
  cohort = cohort
  target = target
  review = review
  pause = pause
  NoCommand = NoCommand
  Scheduled = {cohort, target}
  Stage = {review}
  Direct = {pause}
  Followup <- MCFollowup
  Ticker = {t1}
  Deliverer = {d1}
  Operator = {o1}
  MaxFaults = 0
INVARIANTS AckedControlHolds
CHECK_DEADLOCK FALSE
