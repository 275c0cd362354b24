SPECIFICATION FairSpec
CONSTANTS
  cohort = cohort
  target = target
  review = review
  pause = pause
  NoCommand = NoCommand
  Scheduled = {cohort, target}
  Stage = {review}
  Direct = {}
  Followup <- MCFollowup
  Ticker = {t1}
  Deliverer = {d1}
  Operator = {}
  MaxFaults = 1
PROPERTIES ScheduledWorkCommits CommittedRuns
CHECK_DEADLOCK FALSE
