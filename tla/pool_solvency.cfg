SPECIFICATION Spec
CONSTANTS
    col = col
    usd = usd
    u1 = u1
    u2 = u2
    Assets = {usd}
    Users = {u1, u2}
    Params <- MCParamChoice
    Amounts = {27, 9999}
    Prices = {10}
    Unit <- MCUnit
    Ray = 100
    Wad = 100
    Bps = 10
    Year = 1
    MaxUint = 9999
    Base = 0
    Slope1 = 10
    Slope2 = 20
    Kink = 80
    MaxRate = 100
    MaxElapsed = 1
    MaxIndex = 107
    MaxCash = 85
SYMMETRY MCSymmetry
INVARIANTS TypeOK TotalsAreSums InterestCovered FullExitClears
PROPERTIES RoundingBounded
CONSTRAINT MCFirstChoice
