SPECIFICATION FairSpec
CONSTANTS
    Symbols = {btc, eth}
    Fresh = 1
    Poll = 2
    Stale = 9
    Quiet = 12
    MaxAttempts = 3
INVARIANTS TypeOK BreakerHolds
PROPERTIES RestartsAreSpaced ReadableDeathHandled
