CONSTANTS
    CurveUnit = 2
    MaxCurveSupply = 120
    MaxLot = 12
SPECIFICATION WalkSpec
INVARIANTS
    PaidIsReference
