CONSTANTS
    Programs <- MCLookahead
    Prices <- MCPrices
    Stops <- MCStops
    Targets <- MCTargets
    Ratio = 3
    Widest = 5
    MaxTrades = 2
SPECIFICATION Spec
INVARIANT LookaheadFree
