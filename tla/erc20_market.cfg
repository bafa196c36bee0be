CONSTANTS
    alice = alice
    ali = ali
    zero = zero
    shares = shares
    distributor = distributor
    stranger = stranger
    nft = nft
    nothing = nothing
    garbage = garbage
    CurveUnit = 2
    Accounts <- MCAccounts
    NoAddress <- zero
    ThisContract <- shares
    Distributor <- distributor
    Subjects = {nft}
    NoSubject <- nothing
    Unreadable <- garbage
    FeeScale = 10
    FeeSettings <- MCSettings
    UserRoles <- MCUserRoles
    PaymentToken <- ali
    RewardScale = 2
    MaxDiscrepancy = 2
    OtherContract <- stranger
    Refusing = {zero, ali}
    Amounts = {0, 1, 2}
    Destinations = {ali, shares}
    SubjectOwners = {alice, shares}
    Donations = {1}
    Gifts = {100000}
    MaxReserve = 200000
    MaxSupply = 2
    MaxVolume = 400000
    MaxRewards = 1
SPECIFICATION Spec
INVARIANTS
    HolderCanExit
PROPERTIES
    SurplusKept
    ImplementsMarket
