CONSTANTS
    Programs <- MCPrograms
    Prices <- MCPrices
    Stops <- MCStops
    Targets <- MCTargets
    Ratio = 1
    Widest = 5
    MaxTrades = 2
SPECIFICATION Spec
INVARIANTS
    TypeOK
    Bracketed
    Reported
PROPERTIES
    FillsArePassed
    StopsOnlyTighten
    LossesAreBounded
    DrawdownKnown
    FreshSetup
