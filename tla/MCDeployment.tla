---------------------------- MODULE MCDeployment ----------------------------
EXTENDS Deployment, TLC

MCNames == {"SharesFactoryV1", "ETHShares", "ERC20Shares", "HoldersRewardsDistributor",
            "ProtocolFeeDistributorV1", "RewardSystem", "HiveRegistryV1", "SubjectNFT",
            "SharesFactory_Proxy", "ProtocolFeeDistributor_Proxy", "RewardSystem_Proxy",
            "HiveRegistry_Proxy", "OpAliERC20v2"}
MCLabels == {"AliERC20v2", "PersonalityPodERC721"}
MCFields == FactoryFields \cup {"implementation", "paymentToken", "personalityContract",
                                "features", "tokenCreator"}

\* The operator has a key, and sets a mnemonic besides; the administrator is a multisig.
KeyOnly == [p_key |-> "key", mnemonic |-> NoName]
KeyAndMnemonic == [p_key |-> "key", mnemonic |-> "mnemonic"]
MCEnvironments == {KeyOnly, KeyAndMnemonic}
multisig == <<"multisig", 0>>

AllValues == (MCNames \X (0 .. MaxGeneration)) \cup (MCLabels \X {0})
            \cup {ZERO_ADDRESS, multisig, <<"key", 0>>, <<"mnemonic", 0>>}
            \cup {percent(n) : n \in 3 .. 5} \cup {mask(n) : n \in {3, 7}}
MCValues == AllValues

MCNamedAccounts == [n \in Networks |-> namedAccounts(n)]

\* The payment token of the second layers was deployed by a script of another repository.
MCPreset == [n \in Networks |-> [name \in MCNames |->
    IF name = "OpAliERC20v2" /\ n = "base_goerli" THEN <<name, 0>> ELSE ZERO_ADDRESS]]

\* TLC evaluates a definition once, but what a constant stands for every time.
Programs == [c \in Commands |-> StepsOf(c)] @@ <<>>
MCProgram == Programs

Owners == {<<factory, "sharesOwnerAddress", multisig>>}
FeeChanges == {<<factory, "protocolFeePercent", ZERO_ADDRESS>>,
               <<factory, "protocolFeeDestination", ZERO_ADDRESS>>,
               <<factory, "holdersFeePercent", percent(5)>>}
NFTChanges == {<<"SubjectNFT", "features", mask(7)>>}
MCAdminChanges == Owners \cup FeeChanges \cup NFTChanges

\* A fresh deployment, or a new implementation for an upgrade
Everything == MCNames \ {"OpAliERC20v2"}
MCDiscards == {Everything, {"SharesFactoryV1"}}
=============================================================================
