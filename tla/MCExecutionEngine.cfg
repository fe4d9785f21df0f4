SPECIFICATION Spec
CONSTANTS
    btc = btc
    eth = eth
    xau = xau
    Assets = {btc, eth, xau}
    Crypto = {btc, eth}
    Styles = {"SET_4"}
    EngineStyle = "SET_4"
    Price = {1, 2, 3, 4}
    MinRR = 2
    MaxSlots = 2
    MaxCrypto = 1
    SampleSize = 2
    MaxRows = 3
    MaxCrashes = 1
    AssetOrder <- MCOrder
INVARIANTS TypeOK ExposureBounded WalletMatchesBook HalvedAfterLosses
PROPERTIES StopsOnlyRise FrozenEntersOnce
