CONSTANTS
  s1 = s1
  s2 = s2
  s3 = s3
  s4 = s4
  s5 = s5
  t1 = t1
  t2 = t2
  t3 = t3
  t4 = t4
  Signals <- MCSignals
  Buys <- MCBuys
  Oversized <- MCOversized
  MaxPositions = 2
  Fills = {t1, t2, t3, t4}
  Symbols = {"BTC", "ETH"}
  Fill <- MCFill
  Seed = 10000
  MaxCrashes = 3
  MaxQueue = 3
  MaxPackets = 4
  MaxSessions = 2
  Instruments = {"ETHUSDT", "BTCUSDT"}
  Signalling = {"ETHUSDT"}
  MaxSlots = 1
  MaxErrors = 2
  Window = 2
  Seconds = {0, 1, 2}
  MaxReboots = 2
SPECIFICATION Spec
INVARIANTS
  OrdersKnown
  LedgerAgrees
  OrdersRecovered
PROPERTIES
  ShutdownCompletes
