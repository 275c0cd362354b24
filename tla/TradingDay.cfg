SPECIFICATION TradingDaySpec
CONSTANTS
  Symbols = {x}
  Sources = {x}
  Days = 2
  Bars = 2
  FlattenBars = 1
  Directions = {0, 1}
  Covered = 1
  MinDays = 1
  MaxDays = 2
  MinTrades = 1
  HardTrades = 1
  MinSymbols = 1
  MaxLag = 1
  Sessions = 3
  PerSession = 1
  CoveredEvents = 1
  WatchWeak = 1
  QuarantineWeak = 2
  RecoverySessions = 2
  RetireWeak = 3
  RetireTrades = 1
  Phases = 3
  CutoverPhase = 2
  Gates = {g}
  Rehearsal = g
  Domains = {d}
  Keys = {k1, k2}
  Handlers = {h1, h2}
  Times = {1}
  MaxObservations = 3
  Width = 2
  Buckets = 2
  Watermark = 1
  Overlap = 2
  Retention = 3
  PollSlack = 2
  ReconcileFrom = 3
  ReconcileTo = 3
  ClosePhases <- MCPhases
  MaxCorrections = 1
  MaxFaults = 1
INVARIANTS TradingDayTypeOK JournalHolds InfrastructureNeverDrops EvidenceBacked OneDecision ClosePhasesInOrder
PROPERTIES ReleaseEarned BlockLifts
CHECK_DEADLOCK FALSE
