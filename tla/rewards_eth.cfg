\* The distributor working with plain ETH.
CONSTANTS
    zero = zero
    alice = alice
    bob = bob
    curve = curve
    stranger = stranger
    ali = ali
    Addresses <- MCAddresses
    NoAddress <- zero
    SharesContracts <- MCSharesContracts
    PaymentToken <- zero
    RewardScale = 5
    MaxDiscrepancy = 3
    MaxFee = 2
    MaxShares = 4
    MaxReceived = 5
    MaxSettlements = 6
SPECIFICATION AccountingSpec
INVARIANTS
    AccountingTypeOK
    SharesAddUp
    DebtCovered
    Solvent
    NobodyLockedOut
PROPERTIES
    RewardsKept
    FairSplit
