SPECIFICATION MCSpec
CONSTANTS
  bar1 = bar1
  bar2 = bar2
  flat = flat
  kill = kill
  cancel = cancel
  verify = verify
  Command = {bar1, flat}
  Kind <- MCKind
  Desired = {1}
  Marks = {1, 2}
  w1 = w1
  w2 = w2
  Worker = {w1}
  NoIntent = NoIntent
  Troubles = {"restart"}
  MaxCommands = 2
  MaxEvents = 1
PROPERTIES RetriedFlattenCloses
CHECK_DEADLOCK FALSE
