SPECIFICATION WritersSpec
CONSTANTS
    btc = btc
    Assets = {btc}
    Crypto = {btc}
    Styles = {"SET_4"}
    TrailExitStyles = {"SET_4"}
    EngineStyle = "SET_4"
    Price = {1, 2, 3, 4}
    MinRR = 2
    MaxSlots = 6
    MaxCrypto = 3
    SampleSize = 2
    MaxRows = 2
    MaxCrashes = 1
    AssetOrder <- MCOrder
INVARIANT DuplicateShield
