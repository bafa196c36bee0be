CONSTANTS
    alice = alice
    bob = bob
    zero = zero
    shares = shares
    distributor = distributor
    stranger = stranger
    nft = nft
    otherNft = otherNft
    nothing = nothing
    garbage = garbage
    CurveUnit = 4
    Accounts <- MCAccounts
    NoAddress <- zero
    ThisContract <- shares
    Distributor <- distributor
    Subjects = {nft}
    NoSubject <- nothing
    Unreadable <- garbage
    FeeScale = 10
    FeeSettings <- MCMarketSettings
    UserRoles <- MCUserRoles
    PaymentToken <- zero
    RewardScale = 2
    MaxDiscrepancy = 2
    OtherContract <- stranger
    Payments = {0, 20, 60}
    Amounts = {0, 1, 2}
    Destinations = {bob, zero}
    SubjectOwners = {alice, zero, garbage}
    Donations = {}
    MaxSupply = 4
    MaxVolume = 60
    MaxRewards = 4
SPECIFICATION Spec
INVARIANT HolderCanExitAnySubject
