CONSTANTS
    alice = alice
    bob = bob
    pod1 = pod1
    pod2 = pod2
    nft1 = nft1
    nft2 = nft2
    pods = pods
    art = art
    zero = zero
    intelligence = intelligence
    gpu = gpu
    token = token
    uri = uri
    burnt = burnt
    Users <- MCUsers
    UserRoles <- MCUserRoles
    Tokens <- MCTokens
    Collection <- MCCollection
    personalityContract = pods
    NoAddress = zero
    HiveIds <- MCHiveIds
    CategoryNames <- MCCategoryNames
    IntelligencePod = intelligence
    Collections = {pods, art}
    HiveTokens = {token}
    URIs = {uri}
    Custodies <- MCCustodies
    Burnt = burnt
    Masks <- MCMasks
    Uint16Range = 65536
SPECIFICATION Spec
INVARIANTS
    TypeOK
    IndexCorrect
    FoundsOrJoins
    HiveIndexInverse
    OwnerCanUnlink
PROPERTIES
    ImplementsMembership
