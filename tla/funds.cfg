CONSTANTS
    alice = alice
    bob = bob
    distributor = distributor
    rewards = rewards
    treasury = treasury
    vault = vault
    eth = eth
    ali = ali
    zero = zero
    Users = {alice, bob}
    UserRoles <- MCUserRoles
    Accounts = {alice, bob, distributor, rewards, treasury, vault}
    FeeDistributor = distributor
    ETH = eth
    Token = ali
    RecipientLists <- MCRecipientLists
    MaxRecipients = 3
    Whole = 10
    ZeroAddress = zero
    RewardSystemAddress = rewards
    Claimants = {alice, bob}
    Totals = {1, 2, 3}
    Roots <- MCRoots
    OtherRecipients = {vault}
    Amounts = {3}
    MaxIncome = 6
    MaxLedgers = 2
    MaxClaimed = 5
SPECIFICATION FundsSpec
INVARIANTS
    NeverOverpaid
    MoneyAccounted
    PartsAffordable
PROPERTIES
    DustOnly
