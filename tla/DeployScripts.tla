--------------------------- MODULE DeployScripts ---------------------------
(***************************************************************************)
(* deploy/v3_0: the deployment and the setup scripts, each a record of its *)
(* tags, of the tags it depends on, and of what it asks the plugin and the *)
(* contracts for, in order; the accounts and the named accounts of         *)
(* hardhat.config.js; what the contracts require of the new values.        *)
(*                                                                         *)
(* What a script prints is left out, with the calls it makes only to print *)
(* the answer.                                                             *)
(***************************************************************************)
EXTENDS Integers, Sequences

NoName == ""
ZERO_ADDRESS == <<"zero", 0>>
percent(n) == IF n = 0 THEN ZERO_ADDRESS ELSE <<"percent", n>>
mask(n) == IF n = 0 THEN ZERO_ADDRESS ELSE <<"mask", n>>

FEATURE_TRANSFERS == 1
FEATURE_TRANSFERS_ON_BEHALF == 2
-----------------------------------------------------------------------------
(* What the scripts await *)

recorded(name)  == [from |-> "record", name |-> name]
literal(value)  == [from |-> "literal", value |-> value]
named(label)    == [from |-> "named", label |-> label, name |-> NoName]
A0              == [from |-> "account"]

\* The ALI token: a named account, or deployed before
ali             == [from |-> "named", label |-> "AliERC20v2", name |-> "OpAliERC20v2"]
getAli          == [do |-> "get", name |-> "OpAliERC20v2", label |-> "AliERC20v2"]

get(name)       == [do |-> "get", name |-> name, label |-> NoName]
deploy(name, fields) == [do |-> "deploy", name |-> name, fields |-> fields]
call(name, field)    == [do |-> "read", name |-> name, field |-> field]
print_contract_details(name, fields) == [do |-> "inspect", name |-> name, fields |-> fields]
rawTx(field, required, when) ==
    [do |-> "set", field |-> field, required |-> required, when |-> when]

NoFields == [f \in {} |-> literal(ZERO_ADDRESS)]

\* A contract is deployed, unless there is a record of it, and its record is read.
deployPlain(name, fields) == <<deploy(name, fields), get(name)>>

\* postConstruct() initializes a proxy when it is constructed.
Initialized(implementation, fields) ==
    [f \in {"implementation"} \cup DOMAIN fields |->
       IF f = "implementation" THEN recorded(implementation) ELSE fields[f]]

\* A setting that is made to agree with an address or a mask
ensure(proxy, field, required) ==
    <<call(proxy, field)>>
    \o (IF required.from = "record" THEN <<get(required.name)>> ELSE <<>>)
    \o <<rawTx(field, required, "!==")>>

\* A percentage that is set only if it is zero
ensureNonzero(proxy, field, required) == <<call(proxy, field), rawTx(field, required, "0")>>
-----------------------------------------------------------------------------
(* Contracts *)

deploy_SharesFactoryV1 ==
    [tags |-> {"SharesFactoryV1", "v3_0", "deploy"}, dependencies |-> <<>>,
     steps |-> deployPlain("SharesFactoryV1", NoFields)]

deploy_ETHShares ==
    [tags |-> {"ETHShares", "v3_0", "deploy"}, dependencies |-> <<>>,
     steps |-> deployPlain("ETHShares", NoFields)]

deploy_ERC20Shares ==
    [tags |-> {"ERC20Shares", "v3_0-", "deploy"}, dependencies |-> <<>>,
     steps |-> deployPlain("ERC20Shares", NoFields)]

deploy_HoldersRewardsDistributor ==
    [tags |-> {"HoldersRewardsDistributor", "v3_0", "deploy"}, dependencies |-> <<>>,
     steps |-> deployPlain("HoldersRewardsDistributor", NoFields)]

deploy_ProtocolFeeDistributorV1 ==
    [tags |-> {"ProtocolFeeDistributorV1", "v3_0", "deploy"}, dependencies |-> <<>>,
     steps |-> deployPlain("ProtocolFeeDistributorV1", NoFields)]

deploy_RewardSystem ==
    [tags |-> {"RewardSystem", "v3_0_1", "deploy"}, dependencies |-> <<>>,
     steps |-> deployPlain("RewardSystem", NoFields)]

\* Two scripts deploy the same contract under the same name.
deploy_HiveRegistry ==
    [tags |-> {"HiveRegistryV1", "v3_0_2", "deploy"}, dependencies |-> <<>>,
     steps |-> deployPlain("HiveRegistryV1", NoFields)]

deploy_HiveRegistryV1 ==
    [tags |-> {"HiveRegistryV1", "v3_0_3", "deploy"}, dependencies |-> <<>>,
     steps |-> deployPlain("HiveRegistryV1", NoFields)]

deploy_SubjectNFT ==
    [tags |-> {"SubjectNFT", "v3_0", "deploy"}, dependencies |-> <<>>,
     steps |-> deployPlain("SubjectNFT",
        [f \in {"features", "tokenCreator"} |-> literal(ZERO_ADDRESS)])]
-----------------------------------------------------------------------------
(* Proxies *)

FactoryFields == {"sharesImplETH", "sharesImplERC20", "distributorImplETH", "distributorImplERC20",
                  "protocolFeeDestination", "protocolFeePercent", "holdersFeePercent",
                  "subjectFeePercent", "sharesOwnerAddress"}

deploy_SharesFactory_Proxy ==
    [tags |-> {"SharesFactory_Proxy", "v3_0", "deploy"}, dependencies |-> <<"SharesFactoryV1">>,
     steps |-> <<getAli, get("SharesFactoryV1")>>
               \o deployPlain("SharesFactory_Proxy", Initialized("SharesFactoryV1",
                    [f \in {"paymentToken"} \cup FactoryFields |->
                       IF f = "paymentToken" THEN ali ELSE literal(ZERO_ADDRESS)]))]

deploy_ProtocolFeeDistributor_Proxy ==
    [tags |-> {"ProtocolFeeDistributor_Proxy", "v3_0", "deploy"},
     dependencies |-> <<"ProtocolFeeDistributorV1">>,
     steps |-> <<getAli, get("ProtocolFeeDistributorV1")>>
               \o deployPlain("ProtocolFeeDistributor_Proxy",
                    Initialized("ProtocolFeeDistributorV1", [f \in {"paymentToken"} |-> ali]))]

deploy_RewardSystem_Proxy ==
    [tags |-> {"RewardSystem_Proxy", "v3_0_1", "deploy"}, dependencies |-> <<"RewardSystem">>,
     steps |-> <<getAli, get("RewardSystem")>>
               \o deployPlain("RewardSystem_Proxy",
                    Initialized("RewardSystem", [f \in {"paymentToken"} |-> ali]))]

\* The pod, iNFT and staking contracts have named accounts on mainnet and goerli, and are
\* left zero on other networks.
deploy_HiveRegistry_Proxy ==
    [tags |-> {"HiveRegistry_Proxy", "v3_0_3", "deploy"}, dependencies |-> <<"HiveRegistryV1">>,
     steps |-> <<get("HiveRegistryV1")>>
               \o deployPlain("HiveRegistry_Proxy", Initialized("HiveRegistryV1",
                    [f \in {"personalityContract"} |-> named("PersonalityPodERC721")]))]
-----------------------------------------------------------------------------
(* Setup *)

factory == "SharesFactory_Proxy"

setup_SharesFactory_eth_impl ==
    [tags |-> {"setup-SharesFactory-eth_impl", "v3_0", "setup", "eth_impl"},
     dependencies |-> <<"SharesFactory_Proxy", "SharesFactoryV1", "ETHShares",
                        "HoldersRewardsDistributor">>,
     steps |-> <<get("SharesFactoryV1"), get(factory)>>
               \o ensure(factory, "sharesImplETH", recorded("ETHShares"))
               \o ensure(factory, "distributorImplETH", recorded("HoldersRewardsDistributor"))]

setup_SharesFactory_erc20_impl ==
    [tags |-> {"setup-SharesFactory-erc20_impl", "v3_0-", "setup", "erc20_impl"},
     dependencies |-> <<"SharesFactory_Proxy", "SharesFactoryV1", "ERC20Shares",
                        "HoldersRewardsDistributor">>,
     steps |-> <<get("SharesFactoryV1"), get(factory)>>
               \o ensure(factory, "sharesImplERC20", recorded("ERC20Shares"))
               \o ensure(factory, "distributorImplERC20", recorded("HoldersRewardsDistributor"))]

\* Mistake for a mutant: the destination is set after the percentage, which needs it.
setup_fees_unordered ==
    [tags |-> {"setup-SharesFactory-fees", "v3_0", "setup", "fees"},
     dependencies |-> <<"SharesFactory_Proxy", "SharesFactoryV1", "ProtocolFeeDistributor_Proxy">>,
     steps |-> <<get("SharesFactoryV1"), get(factory)>>
               \o ensureNonzero(factory, "protocolFeePercent", literal(percent(4)))
               \o ensure(factory, "protocolFeeDestination",
                         recorded("ProtocolFeeDistributor_Proxy"))
               \o ensureNonzero(factory, "holdersFeePercent", literal(percent(3)))
               \o ensureNonzero(factory, "subjectFeePercent", literal(percent(3)))]

\* Mistake for a mutant: the fee of the holders is taken back before it is set.
setup_fees_reset ==
    [tags |-> {"setup-SharesFactory-fees", "v3_0", "setup", "fees"},
     dependencies |-> <<"SharesFactory_Proxy", "SharesFactoryV1", "ProtocolFeeDistributor_Proxy">>,
     steps |-> <<get("SharesFactoryV1"), get(factory)>>
               \o ensure(factory, "protocolFeeDestination",
                         recorded("ProtocolFeeDistributor_Proxy"))
               \o ensureNonzero(factory, "protocolFeePercent", literal(percent(4)))
               \o ensure(factory, "holdersFeePercent", literal(ZERO_ADDRESS))
               \o ensureNonzero(factory, "holdersFeePercent", literal(percent(3)))
               \o ensureNonzero(factory, "subjectFeePercent", literal(percent(3)))]

setup_SharesFactory_fees ==
    [tags |-> {"setup-SharesFactory-fees", "v3_0", "setup", "fees"},
     dependencies |-> <<"SharesFactory_Proxy", "SharesFactoryV1", "ProtocolFeeDistributor_Proxy">>,
     steps |-> <<get("SharesFactoryV1"), get(factory)>>
               \o ensure(factory, "protocolFeeDestination",
                         recorded("ProtocolFeeDistributor_Proxy"))
               \o ensureNonzero(factory, "protocolFeePercent", literal(percent(4)))
               \o ensureNonzero(factory, "holdersFeePercent", literal(percent(3)))
               \o ensureNonzero(factory, "subjectFeePercent", literal(percent(3)))]

setup_SharesFactory_shares_owner ==
    [tags |-> {"setup-SharesFactory-shares_owner", "v3_0", "setup", "shares_owner"},
     dependencies |-> <<"SharesFactory_Proxy", "SharesFactoryV1">>,
     steps |-> <<get("SharesFactoryV1"), get(factory)>>
               \o ensure(factory, "sharesOwnerAddress", A0)]

\* The features and the role of the factory are read together, before either is set.
setup_SubjectNFT ==
    [tags |-> {"setup-SubjectNFT", "v3_0", "setup"},
     dependencies |-> <<"SubjectNFT", "SharesFactory_Proxy">>,
     steps |-> <<get("SubjectNFT"), get(factory),
                 print_contract_details("SubjectNFT", <<"features", "tokenCreator">>),
                 rawTx("features",
                       literal(mask(FEATURE_TRANSFERS + FEATURE_TRANSFERS_ON_BEHALF)), "!eq"),
                 rawTx("tokenCreator", recorded(factory), "!eq")>>]
-----------------------------------------------------------------------------
(* Upgrades *)

upgrade(implementation, proxy) ==
    <<get(implementation), get(proxy),
      print_contract_details(proxy, <<"implementation">>),
      rawTx("implementation", recorded(implementation), "!==")>>

upgrade_SharesFactoryV1 ==
    [tags |-> {"upgrade-SharesFactoryV1", "v3_0-", "upgrade"},
     dependencies |-> <<"SharesFactoryV1", "SharesFactory_Proxy">>,
     steps |-> upgrade("SharesFactoryV1", "SharesFactory_Proxy")]

upgrade_ProtocolFeeDistributorV1 ==
    [tags |-> {"upgrade-ProtocolFeeDistributorV1", "v3_0-", "upgrade"},
     dependencies |-> <<"ProtocolFeeDistributorV1", "ProtocolFeeDistributor_Proxy">>,
     steps |-> upgrade("ProtocolFeeDistributorV1", "ProtocolFeeDistributor_Proxy")]
-----------------------------------------------------------------------------
(* The order of the plugin *)

\* The scripts in the order of their file names, a byte at a time
Scripts == <<
    deploy_ERC20Shares, deploy_ETHShares, deploy_HiveRegistry, deploy_HiveRegistryV1,
    deploy_HiveRegistry_Proxy, deploy_HoldersRewardsDistributor, deploy_ProtocolFeeDistributorV1,
    deploy_ProtocolFeeDistributor_Proxy, deploy_RewardSystem, deploy_RewardSystem_Proxy,
    deploy_SharesFactoryV1, deploy_SharesFactory_Proxy, deploy_SubjectNFT,
    setup_SharesFactory_erc20_impl, setup_SharesFactory_eth_impl, setup_SharesFactory_fees,
    setup_SharesFactory_shares_owner, setup_SubjectNFT,
    upgrade_ProtocolFeeDistributorV1, upgrade_SharesFactoryV1 >>

Tagged(tag) == SelectSeq([i \in DOMAIN Scripts |-> i], LAMBDA i : tag \in Scripts[i].tags)

\* The sequences f[x] of the elements x of a sequence, one after the other
Concatenated(f, seq) ==
    LET first[k \in 0 .. Len(seq)] == IF k = 0 THEN <<>> ELSE first[k - 1] \o f[seq[k]]
    IN first[Len(seq)]

Tags == UNION {Scripts[i].tags : i \in DOMAIN Scripts}

\* A script goes after the scripts it depends on.
WithDependencies[i \in DOMAIN Scripts] ==
    Concatenated([tag \in Tags |-> Concatenated(WithDependencies, Tagged(tag))],
                 Scripts[i].dependencies) \o <<i>>

\* No script goes twice.
Once(order) ==
    LET first == SelectSeq([k \in DOMAIN order |-> k],
                           LAMBDA k : \A j \in 1 .. k - 1 : order[j] # order[k])
    IN [k \in DOMAIN first |-> order[first[k]]]

StepsOf(tag) ==
    Concatenated([i \in DOMAIN Scripts |-> Scripts[i].steps],
                 Once(Concatenated(WithDependencies, Tagged(tag))))
-----------------------------------------------------------------------------
(* Configuration *)

\* The private key, if there is one, is the only account; if there is neither a key nor
\* a mnemonic, everybody knows the mnemonic.
FAKE_MNEMONIC == "test test test test test test test test test test test junk"

WithFallback(env) ==
    IF env.p_key = NoName /\ env.mnemonic = NoName THEN [env EXCEPT !.mnemonic = FAKE_MNEMONIC]
    ELSE env

\* Mistake for a mutant: the mnemonic goes first.
get_accounts_by_mnemonic(p_key, mnemonic) ==
    IF mnemonic # NoName THEN <<<<mnemonic, 0>>, <<mnemonic, 1>>>> ELSE <<<<p_key, 0>>>>

get_accounts(p_key, mnemonic) ==
    IF p_key # NoName THEN <<<<p_key, 0>>>> ELSE <<<<mnemonic, 0>>, <<mnemonic, 1>>>>

\* "do not use the default account for tests"
serviceAccount(networkName, env) ==
    IF networkName = "hardhat" THEN get_accounts(NoName, FAKE_MNEMONIC)[2]
    ELSE get_accounts(WithFallback(env).p_key, WithFallback(env).mnemonic)[1]

namedAccounts(networkName) ==
    [label \in {"AliERC20v2", "PersonalityPodERC721"} |->
       IF networkName \in {"mainnet", "goerli"} THEN <<label, 0>> ELSE ZERO_ADDRESS]

\* The setters of SharesFactoryV1 refuse a fee without a destination.
acceptsValue(fields, field, value) ==
    /\ field = "protocolFeeDestination" =>
          value # ZERO_ADDRESS \/ fields["protocolFeePercent"] = ZERO_ADDRESS
    /\ field = "protocolFeePercent" =>
          value = ZERO_ADDRESS \/ fields["protocolFeeDestination"] # ZERO_ADDRESS
=============================================================================
