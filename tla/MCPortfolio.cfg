CONSTANTS
  Trades <- MCTrades
  Ledgers <- MCLedgers
  Desks <- AllDesks
  Weights <- MCWeights
  Friction = 121
  Initial = 10000
  Whole = 100000
  Slot = 20000
  HeatCap = 25000
  MaxTime = 4
  Cartridges = 3
SPECIFICATION Spec
INVARIANTS
  TypeOK
  HeatCapped
  BucketShared
  DrawdownLimited
  EverythingSettled
  LastResultMeasured
PROPERTIES
  HaltIsFinal
  SettledOnTime
