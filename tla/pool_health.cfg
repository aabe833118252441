SPECIFICATION Spec
CONSTANTS
    col = col
    usd = usd
    u1 = u1
    u2 = u2
    Assets = {col, usd}
    Users = {u1, u2}
    Params <- MCParams
    Amounts = {27, 9999}
    Prices = {0, 6, 10}
    Unit <- MCUnit
    Ray = 100
    Wad = 100
    Bps = 10
    Year = 1
    MaxUint = 9999
    Base = 0
    Slope1 = 10
    Slope2 = 20
    Kink = 80
    MaxRate = 100
    MaxElapsed = 1
    MaxIndex = 103
    MaxCash = 55
INVARIANTS LiquidationFair
PROPERTIES HealthKept
CONSTRAINT MCRoles
