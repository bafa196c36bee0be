CONSTANTS
    alice = alice
    bob = bob
    zero = zero
    shares = shares
    distributor = distributor
    stranger = stranger
    nft = nft
    otherNft = otherNft
    nothing = nothing
    garbage = garbage
    CurveUnit = 2
    Accounts <- MCAccounts
    NoAddress <- zero
    ThisContract <- shares
    Distributor <- distributor
    Subjects = {nft}
    NoSubject <- nothing
    Unreadable <- garbage
    FeeScale = 10
    FeeSettings <- MCRewardsSettings
    UserRoles <- MCUserRoles
    PaymentToken <- zero
    RewardScale = 2
    MaxDiscrepancy = 2
    OtherContract <- stranger
    Payments = {9}
    Amounts = {0, 1, 2}
    Destinations = {zero, shares}
    SubjectOwners = {bob, garbage}
    Donations = {1}
    MaxSupply = 3
    MaxVolume = 8
    MaxRewards = 2
    MaxSettlements = 4
SPECIFICATION AccountedSpec
INVARIANTS
    TypeOK
    ReserveExact
    DistributorInSync
    HolderCanExit
PROPERTIES
    ImplementsMarket
    ImplementsAccounting
