SPECIFICATION FairSpec
CONSTANTS
  a = a
  b = b
  Strategy = {a, b}
  Founders = {a}
  Shorts = {b}
  Nobody = Nobody
  Elsewhere = Elsewhere
  MaxRework = 1
  Troubles = {"calm", "stores_fail", "paused_in_run", "paused_twice"}
INVARIANTS TypeOK TradesOnlyReleased ReleaseIsWhole
PROPERTIES NoWayBack HardFindingStops
CHECK_DEADLOCK FALSE
