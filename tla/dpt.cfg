CONSTANTS
    alice = alice
    bob = bob
    carol = carol
    hiveRegistry = hiveRegistry
    dpt1 = dpt1
    dpt2 = dpt2
    Accounts = {alice, bob}
    ThisContract = hiveRegistry
    Deployer = alice
    Owners = {bob, carol}
    DPTs = {dpt1, dpt2}
    Windows <- MCWindows
    OtherPermissions = {"hive creation"}
    MaxNonce = 3
    MaxTime = 2
SPECIFICATION DPTSpec
INVARIANTS
    NoncesUsedOnce
PROPERTIES
    NoEscalation
CHECK_DEADLOCK FALSE
