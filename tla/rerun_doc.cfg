CONSTANTS
    Networks = {"goerli", "base_goerli"}
    Commands = {"deploy", "setup", "upgrade"}
    Program <- MCProgram
    NamedAccounts <- MCNamedAccounts
    Environments <- MCEnvironments
    ServiceAccount <- serviceAccount
    Accepts <- acceptsValue
    Names <- MCNames
    Labels <- MCLabels
    None <- NoName
    Fields <- MCFields
    Values <- MCValues
    Zero <- ZERO_ADDRESS
    Preset <- MCPreset
    AdminChanges <- MCAdminChanges
    Discards <- MCDiscards
    MaxGeneration = 3
    MaxDisturbances = 2
SPECIFICATION Spec
INVARIANTS
    OnlyNotExecutedBefore
