SPECIFICATION MCSpec
CONSTANTS
  bar1 = bar1
  bar2 = bar2
  flat = flat
  kill = kill
  cancel = cancel
  verify = verify
  Command = {bar1, bar2, flat, kill, cancel, verify}
  Kind <- MCKind
  Desired <- MCDesired
  Marks = {1}
  w1 = w1
  w2 = w2
  Worker = {w1, w2}
  NoIntent = NoIntent
  Troubles = {"restart", "post", "store", "late", "torn"}
  MaxCommands = 3
  MaxEvents = 1
INVARIANTS TypeOK OneLiveOrder FillsCountOnce
PROPERTIES NoOvershoot StopsHold FlattenCloses
SYMMETRY Alike
CHECK_DEADLOCK FALSE
