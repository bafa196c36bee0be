CONSTANTS
    admin = admin
    bob = bob
    zero = zero
    c1 = c1
    c2 = c2
    none = none
    nft1 = nft1
    nft2 = nft2
    nothing = nothing
    garbage = garbage
    Users <- MCUsers
    NoAddress <- zero
    Contracts <- MCContracts
    NoContract <- none
    Subjects <- MCSubjects
    NoSubject <- nothing
    Unreadable <- garbage
    CollectionOwner <- MCCollectionOwner
    UserRoles <- MCUserRoles
    MinPercent = 1
    MaxPercent = 3
    Requests <- MCRequests
    MaxTime = 1
    MaxNonce = 2
    Masks <- MCMasks
    Destinations = {bob, zero}
    Percents = {0, 1, 2, 3}
    Amounts = {0, 1, 2}
    Issuers = {bob}
    NftOwners <- MCNftOwners
SYMMETRY MCSymmetry
SPECIFICATION Spec
INVARIANT RelayedAsSigned
