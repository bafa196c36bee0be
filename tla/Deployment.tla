----------------------------- MODULE Deployment -----------------------------
(***************************************************************************)
(* The scripts of deploy/v3_0 run by the plugin, again and again: what the *)
(* contracts and the records have to look like for the protocol to work.   *)
(***************************************************************************)
EXTENDS HardhatDeploy, DeployScripts

Proxies == {"SharesFactory_Proxy", "ProtocolFeeDistributor_Proxy", "RewardSystem_Proxy",
            "HiveRegistry_Proxy"}

\* proxy -> the contract it is a proxy of
ImplementationOf(proxy) ==
    CASE proxy = "SharesFactory_Proxy"          -> "SharesFactoryV1"
      [] proxy = "ProtocolFeeDistributor_Proxy" -> "ProtocolFeeDistributorV1"
      [] proxy = "RewardSystem_Proxy"           -> "RewardSystem"
      [] proxy = "HiveRegistry_Proxy"           -> "HiveRegistryV1"

\* field -> the contract it holds the address of
Referred == [
    sharesImplETH          |-> "ETHShares",
    sharesImplERC20        |-> "ERC20Shares",
    distributorImplETH     |-> "HoldersRewardsDistributor",
    distributorImplERC20   |-> "HoldersRewardsDistributor",
    protocolFeeDestination |-> "ProtocolFeeDistributor_Proxy",
    tokenCreator           |-> "SharesFactory_Proxy"]
-----------------------------------------------------------------------------
(* What a script has to be like, read line by line, for the contracts to be wired well *)

Reads(step, f) ==
    \/ step.do = "read" /\ step.field = f
    \/ step.do = "inspect" /\ \E k \in DOMAIN step.fields : step.fields[k] = f

\* A value is looked up before it is used, which stops the run if there is none.
LookedUp(steps, i, name, label) ==
    \E j \in 1 .. i - 1 :
       steps[j].do = "get" /\ steps[j].name = name /\ steps[j].label \in {None, label}

\* The last contract whose field was read, and which a transaction will go to
LastRead(steps, i, f, name) ==
    \E j \in 1 .. i - 1 : /\ Reads(steps[j], f) /\ steps[j].name = name
                         /\ \A k \in j + 1 .. i - 1 : ~Reads(steps[k], f)

\* A proxy is constructed with its own implementation and with a payment token; what
\* refers to another contract is left to the setup.
DeploysWired(steps, i) ==
    LET name == steps[i].name
        fields == steps[i].fields
    IN  /\ name \in Proxies =>
             /\ "implementation" \in DOMAIN fields
             /\ fields["implementation"] = recorded(ImplementationOf(name))
             /\ LookedUp(steps, i, ImplementationOf(name), None)
        /\ "paymentToken" \in DOMAIN fields =>
             fields["paymentToken"] = ali /\ LookedUp(steps, i, ali.name, ali.label)
        /\ \A f \in DOMAIN fields \cap DOMAIN Referred : fields[f] = literal(Zero)

SetsWired(steps, i) ==
    LET f == steps[i].field IN
    /\ f # "paymentToken"
    /\ f = "implementation" =>
          \E proxy \in Proxies : /\ steps[i].required = recorded(ImplementationOf(proxy))
                                 /\ LookedUp(steps, i, ImplementationOf(proxy), None)
                                 /\ LastRead(steps, i, f, proxy)
    /\ f \in DOMAIN Referred => steps[i].required = recorded(Referred[f])

\* No script of another repository deploys a proxy, and no administrator wires contracts.
ASSUME WiringAssumption ==
    /\ \A c \in Commands : \A i \in DOMAIN Program[c] :
          /\ Program[c][i].do = "deploy" => DeploysWired(Program[c], i)
          /\ Program[c][i].do = "set" => SetsWired(Program[c], i)
    /\ \A change \in AdminChanges :
          /\ change[2] \notin {"implementation", "paymentToken"}
          /\ change[2] \in DOMAIN Referred => change[3] = Zero
    /\ \A n \in Networks, proxy \in Proxies \cap Names : Preset[n][proxy] = Zero
-----------------------------------------------------------------------------
(* What the runs are for *)

Core == {"SharesFactoryV1", "ETHShares", "HoldersRewardsDistributor", "ProtocolFeeDistributorV1",
         "SubjectNFT", "SharesFactory_Proxy", "ProtocolFeeDistributor_Proxy"}

\* A field of a contract, and the value it should have
setting(name, field, required) == [name |-> name, field |-> field, required |-> required]
reference(name, field) == setting(name, field, recorded(Referred[field]))
\* Any value but zero, which an administrator may choose
nonzero == [from |-> "nonzero"]

EthImpl == {reference(factory, f) : f \in {"sharesImplETH", "distributorImplETH"}}
Erc20Impl == {reference(factory, f) : f \in {"sharesImplERC20", "distributorImplERC20"}}
Fees ==
    {reference(factory, "protocolFeeDestination")} \cup
    {setting(factory, f, nonzero) :
        f \in {"protocolFeePercent", "holdersFeePercent", "subjectFeePercent"}}
SharesOwner == {setting(factory, "sharesOwnerAddress", A0)}
NFT ==
    {reference("SubjectNFT", "tokenCreator"),
     setting("SubjectNFT", "features",
             literal(mask(FEATURE_TRANSFERS + FEATURE_TRANSFERS_ON_BEHALF)))}
Upgrades ==
    {setting(p, "implementation", recorded(ImplementationOf(p))) :
        p \in {"SharesFactory_Proxy", "ProtocolFeeDistributor_Proxy"}}

\* What a run of a command is for: contracts that are recorded, and their settings
Goal(c) ==
    CASE c = "v3_0"    -> [names |-> Core, settings |-> EthImpl \cup Fees \cup SharesOwner \cup NFT]
      [] c = "deploy"  -> [names |-> Names \ {"OpAliERC20v2"}, settings |-> {}]
      [] c = "setup"   -> [names |-> Core \cup {"ERC20Shares"},
                           settings |-> EthImpl \cup Erc20Impl \cup Fees \cup SharesOwner \cup NFT]
      [] c = "upgrade" -> [names |-> {"SharesFactoryV1", "SharesFactory_Proxy",
                                      "ProtocolFeeDistributorV1", "ProtocolFeeDistributor_Proxy"},
                           settings |-> Upgrades]

Held(s) == chain[records[s.name]].fields[s.field]

Configured(c) ==
    /\ \A n \in Goal(c).names : records[n] \in DOMAIN chain
    /\ \A s \in Goal(c).settings :
          IF s.required = nonzero THEN Held(s) # Zero ELSE Held(s) = Value(s.required)
-----------------------------------------------------------------------------
(* What a script has to be like, read line by line, to do what it is for *)

Touches(step, f) == Reads(step, f) \/ (step.do = "set" /\ step.field = f)

\* Step `i` sets the field of the contract that was the last to be asked for it.
SetsOf(steps, i, name, f) ==
    /\ steps[i].do = "set" /\ steps[i].field = f
    /\ \E r \in 1 .. i - 1 : /\ Reads(steps[r], f) /\ steps[r].name = name
                            /\ \A k \in r + 1 .. i - 1 : ~Touches(steps[k], f)

\* Step `i` is the last to do so before step `n`.
LastSet(steps, n, i, name, f) ==
    i \in 1 .. n - 1 /\ SetsOf(steps, i, name, f) /\ \A k \in i + 1 .. n - 1 : ~SetsOf(steps, k, name, f)

DeployedBefore(steps, i, name) == \E j \in 1 .. i - 1 : steps[j].do = "deploy" /\ steps[j].name = name

\* Whoever deployed a contract of this name gave it the field.
Has(name, f) ==
    /\ \A n \in Networks : Preset[n][name] = Zero
    /\ \A c \in Commands : \A i \in DOMAIN Program[c] :
          Program[c][i].do = "deploy" /\ Program[c][i].name = name
             => f \in DOMAIN Program[c][i].fields

GetsRecorded(steps, i) ==
    \/ DeployedBefore(steps, i, steps[i].name)
    \/ \A n \in Networks : \/ Preset[n][steps[i].name] # Zero
                           \/ steps[i].label # None /\ NamedAccounts[n][steps[i].label] # Zero

ReadsDeployed(steps, i) ==
    /\ DeployedBefore(steps, i, steps[i].name)
    /\ \A f \in Fields : Reads(steps[i], f) => Has(steps[i].name, f)

\* What is set was read, what it is set to is known; a fee is set after its destination.
SetsAccepted(steps, i) ==
    LET f == steps[i].field
        required == steps[i].required
    IN  /\ required.from # "named"
        /\ required.from = "record" => DeployedBefore(steps, i, required.name)
        /\ f = "protocolFeeDestination" => required.from = "record"
        /\ \E name \in Names :
              /\ SetsOf(steps, i, name, f)
              /\ f = "protocolFeePercent" =>
                    \E j \in 1 .. i - 1 : LastSet(steps, i, j, name, "protocolFeeDestination")

\* The last step that sets a field sets it to what the command is for.
Reaches(steps, s) ==
    \E j \in DOMAIN steps :
       /\ LastSet(steps, Len(steps) + 1, j, s.name, s.field)
       /\ IF s.required = nonzero THEN steps[j].when = "0"
          ELSE steps[j].when # "0" /\ steps[j].required = s.required
\* Whatever command a step belongs to, it sets nothing that another command would undo.
KeepsGoals(steps, i) ==
    \A name \in Names : LastRead(steps, i, steps[i].field, name) =>
       \A c \in Commands : \A s \in Goal(c).settings :
          s.name = name /\ s.field = steps[i].field =>
             IF s.required = nonzero THEN steps[i].when = "0" ELSE steps[i].required = s.required

\* What a command is for are contracts that scripts deploy, their settings, and values
\* that refer to these contracts.
GoalFits(c) ==
    /\ \A n \in Goal(c).names, w \in Networks : Preset[w][n] = Zero
    /\ \A s \in Goal(c).settings :
          /\ s.name \in Goal(c).names
          /\ s.required.from = "record" => s.required.name \in Goal(c).names

\* A command looks up, reads and sets what an earlier step of it deployed or read, and
\* the last steps to set a field agree with what the command is for.
CommandFits(c) ==
    LET steps == Program[c] IN
    /\ DOMAIN steps = 1 .. Len(steps) /\ Len(steps) \in Nat
    /\ \A i \in DOMAIN steps :
          /\ steps[i].do = "get" => GetsRecorded(steps, i)
          /\ steps[i].do \in {"read", "inspect"} => ReadsDeployed(steps, i)
          /\ steps[i].do = "set" => SetsAccepted(steps, i) /\ KeepsGoals(steps, i)
    /\ GoalFits(c)
    /\ \A n \in Goal(c).names : DeployedBefore(steps, Len(steps) + 1, n)
    /\ \A s \in Goal(c).settings : Reaches(steps, s)

\* Operators keep their account, and the records that no script can restore.
OperatorsFit ==
    /\ \A names \in Discards : \A n \in names : \A w \in Networks : Preset[w][n] = Zero
    /\ \A n \in Networks, e1 \in Environments, e2 \in Environments :
          ServiceAccount(n, e1) = ServiceAccount(n, e2)

FitCommands == {c \in Commands : CommandFits(c)}

ScriptsFit == OperatorsFit /\ Commands = FitCommands
-----------------------------------------------------------------------------
(* Properties *)

\* Whatever command is started, and with whatever in the environment: its scripts, put in
\* order by their tags and dependencies, deploy a contract before they ask for it, ask for
\* a field before they set it, set the fee percentage after its destination (a setter
\* that reverts otherwise), and set at last what the command is for.
StartsFit == phase = "running" => OperatorsFit /\ command \in FitCommands

\* Whatever was interrupted, forgotten and deployed again, a record leads to a contract
\* of its name, a proxy to an implementation of its own kind and to a payment token, and
\* every setting of the factory and of the NFT to a contract of the kind it is for.
WellWired ==
    /\ \A n \in Names : records[n] # Zero => records[n] \in DOMAIN chain /\ records[n][1] = n
    /\ \A a \in DOMAIN chain :
       /\ a[1] \in Proxies => chain[a].fields["implementation"][1] = ImplementationOf(a[1])
       /\ HasField(a, "paymentToken") => chain[a].fields["paymentToken"] # Zero
       /\ \A f \in DOMAIN chain[a].fields \cap DOMAIN Referred :
             /\ chain[a].fields[f] # Zero => chain[a].fields[f][1] = Referred[f]
             /\ chain[a].fields[f] # Zero => chain[a].fields[f] \in DOMAIN chain

\* A run that nothing interfered with does not fail, of a missing record or of a
\* transaction that reverts, and leaves everything as its command is for, in whatever
\* state earlier runs and administrators left the contracts and the records.
RunConfigures ==
    ~disturbed => /\ phase # "failed"
                  /\ phase = "done" => Configured(command)

Complete == \A c \in Commands : Configured(c)

\* Once every command has done what it is for, no run takes anything of it back, neither
\* halfway nor when it fails, whatever it could not read: the commands that deploy, set
\* up and upgrade leave one another's results alone, and so does a run that goes on with
\* values it read before an administrator changed and restored them.
StaysComplete == [][Complete /\ disturbances' = disturbances => Complete']_vars

\* If the operator goes on running the commands, then after the last failure, change
\* and deletion the deployment is complete for good.
Converges == <>[]Complete
=============================================================================
