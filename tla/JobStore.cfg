SPECIFICATION FairSpec
CONSTANTS
  Command = {c1}
  Consumer = {w1, w2}
  Dispatcher = {d1, d2}
  Repairer = {p1}
  Result = {r1}
  NoResult = NoResult
  NoMessage = NoMessage
  MaxAttempts = 2
  MaxRetries = 2
  MaxFaults = 1
INVARIANTS TypeOK CommandCarried LeaseExclusive CompletedHasObject
PROPERTIES SettledStaysSettled EventuallySettled DeliveryContract
CHECK_DEADLOCK FALSE
