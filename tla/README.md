# Formal model of the AI Protocol periphery contracts

TLA+ modules, TLC configurations and TLAPS proofs about the Solidity contracts in
`src/contracts`: a friend.tech style market of "shares" bound to NFTs, the distributor
that shares a part of every trade among the holders, the factory that deploys both, the
registry of hives, the way of the fees to the users; and about the JavaScript that deploys
and sets up these contracts, `src/deploy/v3_0` with `src/hardhat.config.js`.
File names below are those of `src/contracts/bonding_curves` unless a path is given.

## The system

| component | state | operations | interacts with |
|---|---|---|---|
| Bonding curve (`FriendTechBondingCurve`, overridden in the shares contracts) | none | `getPrice(supply, amount)` | called by every trade |
| Shares contract (`AbstractShares`, `ETHShares`, `ERC20Shares`) | subject, fee setting, supply, balances, trade volume, own money | `postConstruct`, `buyShares[To]`, `sellShares[To]`, `updateSharesSubject`, `updateProtocolFeeDestination`, `disableHoldersFee` | reads the owner of an NFT, pays three fees, reports every trade to the distributor, tells the factory of a new subject |
| Holders rewards distributor (`HoldersRewardsDistributorV1`) | accumulated reward per share, registered shares, debt, unclaimed and claimed amount of each user | fee and trade synchronisation, donations, `claimTheReward`, `initializeSharesContractAddressIfRequired` | called by the shares contract, pays holders |
| Shares factory (`SharesFactoryV1`) | features, fees, nonces, two mappings subject <-> contract | fee setters, four ways to deploy, `executeDeploymentRequest`, `rewindNonce`, `registerSharesContract`, `notifySubjectUpdated` | creates shares contracts and distributors, mints NFTs, is called back by shares contracts |
| Hive registry (`HiveRegistryV1`) | hives, linked assets in lists with an index, DPT registrations, categories, whitelist | `createHive`, `linkAsset`, `unlinkAsset`, `registerDPT`, ... | reads NFT owners, staking and iNFT contracts |
| Reward system (`RewardSystem`) | Merkle root, generations of claim ledgers | `claimReward`, `setInputDataRoot`, `resetClaimedRewards` | pays ETH or tokens |
| Protocol fee distributor (`ProtocolFeeDistributorV1`) | recipients with percents | `distributeETH`, `distributeERC20`, `updateRecipientsList` | receives the protocol fee, pays recipients |
| Access control (`utils/*AccessControl`) | features and roles as bit masks | `updateFeatures`, `updateRole` | inherited by every contract |
| Transfers (`utils/Transfers`) | none | `send`, `transfer` with 4,900 gas | used for every payment of ETH |
| Deployment scripts (`src/deploy/v3_0`, `src/hardhat.config.js`, run by the hardhat-deploy plugin) | the records of `deployments/<network>`, the settings of the contracts | `npx hardhat deploy --tags ...`: `deploy`, `setup`, `upgrade` | the operator, the administrators, the network, the owners of contracts |

### What is hard

**Contracts.** Transactions are atomic and run one at a time, so there is no interleaving
inside an operation: what is hard is the *order* of operations of many independent actors, and the
*failures of the calls an operation makes*. The fee recipients may refuse ETH (the trade
continues) or tokens (the trade reverts); the NFT contract may lose its token, change its
owner or answer garbage; the distributor may be bound to the wrong contract, must be told
about every trade, and divides with truncation; administrators redirect and disable fees
in the middle of a market's life; a contract may move to another NFT with or without the
factory knowing; a signed request may be relayed late, twice, or by the wrong account. In the
hive registry every removal moves another owner's NFT to a new index, which a later removal
relies on, while the NFTs themselves are sold, staked, fused or burnt. Registrars come and go
while requests they signed are still on their way. Merkle roots replace one another and ledgers
start over between two claims of a user; a fee distribution meets recipients that refuse.

**Scripts.** A run is a long sequence of awaited calls over a network. It can be killed between
a transaction that was mined and the record of it; a call can fail; `print_contract_details()`
swallows errors and returns what it has read so far, possibly nothing; a value is read,
compared and then set, while an administrator may set it too; some settings depend on the order
(a fee percent needs a destination); the operator deletes records to deploy again, and the
next run starts over with whatever it finds, perhaps from another account.

What makes each component correct:

* curve: consecutive lots cost as much as one lot, and both formulas equal the sum of squares;
* shares: the contract always owns what its shares can be sold for; holders can sell; the
  market never restarts; the ledgers of the shares contract and the distributor agree;
* distributor: nobody loses an earned reward, fees go to those who held shares before the
  trade, claims are covered but for rounding, no checked subtraction locks a user out;
* factory: the two mappings are inverse, no contract is evicted, nonces are used once, fees
  are within their limits, a deployment ends bound to an NFT that exists;
* DPT registrations and access control: no nonce counts twice, nobody gives what nobody has;
* fee distributor and reward system: every part can be paid, only dust stays, a user is paid
  what was published and no more, money neither appears nor disappears;
* scripts: a rerun repeats no transaction that stands and that it could know of, what is recorded
  fits together, a run that nothing disturbs succeeds from any state earlier runs left, reruns end with a complete
  deployment;
* hive registry: a linked NFT stands at its index of one list and nowhere else, its owner can
  always take it out, an NFT founds a hive or joins one and never both, hives and their pods
  are in bijection, the counter counts.

`PROJECT.json` lists the hazards behind these properties, each at its line.

## Modules

| module | models | remarks |
|---|---|---|
| `BondingCurve` | `FriendTechBondingCurve.getPrice` and its two overrides | the truncating divisions are kept; 1 ether / 16000 is the constant `CurveUnit` |
| `CurveWalk` | the curve under buys and sales of any lot | compared with a plain sum of squares |
| `HoldersRewardsDistributor` | the distributor alone | one action per entry point; 10^18 is `RewardScale`, 1 gwei is `MaxDiscrepancy` |
| `RewardsAccounting` | the distributor with its callers | a history variable counts the roundings |
| `AbstractShares` | state, fees and emergency functions of a shares contract, `SharesSubjectLib` | 1 ether (100%) is `FeeScale` |
| `RewardedShares` | a shares contract together with its distributor | what both currencies share; the sync message is part of the trade |
| `ETHShares`, `ERC20Shares` | the two markets | `Pushed` fees, which may be refused, and `Charged` ones; change, gifts; fees and payouts to the contract itself, which refuses ETH (`Pushed`) and keeps tokens (`Kept`, `Paid`) |
| `ETHAccounting` | an ETH market whose distributor refines `RewardsAccounting` | adds the history variable of the accounting, no state of the code |
| `TradeableShares` | the interface as an abstract specification | both markets refine it (`ImplementsMarket`) |
| `SharesFactory` | one operator per function of the factory | `deploy` is the whole of `__mintSubjectAndDeployShares` |
| `FactoryRegistry` | the factory with its users | next-state relation, properties |
| `AccessControl` | `_evaluateBy`: which bits of a mask an account may set or clear | used by factory and hive registry |
| `HiveRegistry` | hives, categories, whitelist and linked assets | arrays lose their dummy at index 0; 2^16 is `Uint16Range` |
| `HiveMembership` | founders, and members per hive and category, as an abstract specification | the registry refines it (`ImplementsMembership`) |
| `DPTRegistration` | registrations of DPTs, nonces, and roles that change, of `HiveRegistryV1` | shares no state with the hives; features are the roles of the contract itself |
| `ProtocolFeeDistributor` | the list of recipients, the distribution | currencies share the operators; 1,000,000 is `Whole` |
| `RewardSystem` | roots, ledgers, claims | a root is the set of pairs it proves; extends the distributor: one balance of money |
| `ProtocolFunds` | both with the payers, users and administrators | next-state relation, properties |
| `HardhatDeploy` | a run of the plugin: records, contracts, one action per awaited call | for any scripts; the plugin is external and modelled as the scripts use it |
| `DeployScripts` | the twenty scripts, their tags, dependencies and steps; accounts and named accounts of `hardhat.config.js`; what setters require | pure operators; a step is a record |
| `Deployment` | the scripts run by the plugin | properties |
| `MC*` | instances for TLC | users, contracts and subjects as model values |
| `FiniteSums` | lemmas about finite sums, and induction, that the proofs cite | models no code |
| `RewardedShares_proofs` | theorems: integer division, the curve (`CurveWalk`), what both markets share | proved |
| `ETHShares_proofs`, `ERC20Shares_proofs` | theorems about one market each, and about `ETHAccounting` | proved |
| `Distributors_proofs` | theorems about `RewardsAccounting` and `ProtocolFunds` | proved |
| `SharesFactory_proofs` | theorems about `FactoryRegistry` | proved |
| `HiveRegistry_proofs` | theorems about `HiveRegistry` and `DPTRegistration` | proved |
| `HardhatDeploy_proofs` | theorems about `HardhatDeploy` with any scripts, and about `Deployment` | proved |

A variable has the name of the Solidity field it stands for, an action the name of the
function. A `require` is a conjunct of the guard: a transaction that reverts is no step.
An operation includes every call it makes, so that a trade changes the shares contract and
the distributor in one step.

A script is not atomic: each call it awaits is a step of its own, and a deployment is two, the
transaction and its record. `HardhatDeploy` has one action per kind of call: `GetRecord`
(`deployments.get`), `SkipDeployed` / `DeployContract` / `SaveRecord` (`deployments.deploy` with
`skipIfAlreadyDeployed`), `ReadField` (a read that throws), `InspectContract` (a read whose error is
swallowed), `SetField` (a comparison and `deployments.rawTx`), `Finish`; and around them `Start`, `Abort`,
`ChangeSetting` and `DeleteRecords`. An error that nothing catches ends the run. The comparison is
the script's: `!==`, `!eq` (which throws on a value that was not read) or "if it is zero". The
order of the scripts is computed from their tags, their dependencies and the order of their files.

Operators commented as a "mistake for a mutant" model a
plausible bug in the code; they are used by no specification and serve to confirm that the
properties would notice it.

## What TLC checks

| run | module | question |
|---|---|---|
| `rewards_eth` | `MCRewardsAccounting` | is the distributor solvent up to one unit per rounding, is nobody locked out or robbed, does every holder get its part of a fee by the shares held before the trade, neither more nor less but for rounding, does no subtraction underflow, do the totals add up? |
| `eth_market` | `MCETHAccounting` | the reserve is exact, both ledgers agree after every trade, holders can exit, the market refines its interface and drives its distributor in no way that `rewards_eth` does not consider: with refused and redirected fees, fees that take the whole price, a rebound, detached or donated-to distributor, an NFT that is sold or unreadable |
| `erc20_market` | `MCERC20Shares` | exits, surplus and refinement for tokens, with gifts, refusing recipients, and fees and payouts that go to the contract itself |
| `curve` | `CurveWalk` | closed formula = sum of squares, for every lot up to 12 at every supply up to 120 |
| `factory` | `MCFactory` | the factory's five properties with two NFTs, two contracts, three requests |
| `hive` | `MCHiveRegistry` | lists, indexes and counter agree, owners can unlink, hives and pods stay apart, refinement of plain membership |
| `dpt` | `MCDPTRegistration` | is a nonce ever used twice, does a permission ever come from nowhere, can a request outlive the last registrar? |
| `funds` | `MCProtocolFunds` | are users paid what was published, are the totals right, can every distribution be afforded, does more than dust stay behind? |
| `deployment` | `MCDeployment` | is a transaction that stands ever repeated but for a lost record or a swallowed error, does what is recorded fit together, does an undisturbed run succeed and configure, does a complete deployment survive every further run, do reruns converge? Do the scripts keep what the proofs of the third and the fourth ask of them? |
| `subject_errors_doc`, `relay_doc`, `rerun_doc` | | three statements of the documentation that the code does not keep, below |

### Bounds and why they are enough

* Two holders, plus the zero address and the shares contract itself (shares can be bought for
  either, neither can sell them), suffice for every
  property that relates the trader to "everybody else". Two NFTs and two contracts are the
  smallest registry in which contracts can swap places, two actors the smallest relay.
* `MaxSupply` of 2 to 4 shares with lots of 0, 1, 2 covers a first lot of one and of more
  shares, partial sales, the last share and an empty trade. `MaxVolume`, `MaxRewards`,
  `MaxReceived`, `MaxReserve`, `MaxFee`, `MaxShares` and `MaxSettlements` end the histories;
  each leaves room for several trades and claims after the first donation. The mutants
  confirm that the interesting cases are within the bounds.
* `FeeScale = 10`, `RewardScale` of 2 or 5 and `MaxDiscrepancy` of 2 or 3 make rounding and the
  discrepancy limit *frequent*, where the deployed constants make them rare.
* `CurveUnit` (even) keeps prices small; in the code it is 10^18/16000 = 62,500,000,000,000,
  also even, which is why halving the price of ETH shares loses nothing.
* `MinPercent = 1`, `MaxPercent = 3` with percents 0..3 hit both sides of both limits.
* `MaxTime = 1` with windows that open late or close early, `MaxNonce = 2` with two requests
  for the same nonce and one for the next: every order of executing, rewinding and expiring.
* Two pods and two other NFTs, two hives and two categories: lists of up to four, where the
  first, a middle or the last NFT leaves; a pod that founds and one that joins; one NFT that is
  staked and sold, one fused, one burnt while linked.
* `eth_market`: a payment that pays for all but the dearest lots, owners of the NFT that are one of the
  holders or unreadable, a protocol fee redirected to nobody or to the contract itself, `MaxSupply` 3:
  every refusal, redirection and emergency function happens
  between two trades. `MaxSettlements` 4 lets a first trade, which counts
  twice, be followed by more trades or claims that touch a user of the distributor; trades without a distributor are not counted.
* `erc20_market`: the protocol fee goes to a holder, to the contract itself or to the token contract, which
  refuses it, the owner's fee to a holder or to the contract itself; up to two gifts, each as large as the price of the
  second share; four trades (`MaxVolume`) around it, in lots of 0, 1 and 2 (`MaxSupply` 2: the third share costs four times as much).
* `dpt`: two accounts (each can be the deployer's heir or rival, and sign for the other), two
  owners of which one has an account, two DPTs, `MaxNonce = 3` (one nonce used, one skipped, one
  left), `MaxTime = 2` with one window that is open from the start and one that opens later.
* `funds`: `Whole = 10` and fees of 3 make every division uneven; nine lists, four of them
  accepted, at most three recipients (`MaxRecipients`), of which one may refuse and one is the fee distributor
  itself; three roots in which totals grow, shrink and name a user twice; two ledgers (`MaxLedgers`),
  `MaxIncome = 6` and `MaxClaimed = 5`: several claims before and after a reset, with and without enough money.
* `deployment`: a first layer (`goerli`, all named accounts) and a second one (`base_goerli`, none);
  an operator who has a key, or a key and a mnemonic; the three commands; at most two disturbances (`MaxDisturbances`)
  anywhere, each a killed run, a failed or half answered call, one of five administrative changes, or
  the deletion of all records or of one implementation; up to three contracts of one name
  (`MaxGeneration`), one more than two disturbances can make necessary. Two disturbances
  suffice for a run that is interrupted, and whose repetition is interrupted or changed under.
* The contracts of the factory are symmetric; nothing else is.

Solidity 0.8 reverts on overflow, so integers are not reduced modulo 2^256; the explicit
conversions of the hive registry to 16 bits, which do not revert, are kept (`uint16`). Checked
subtractions appear as guards or, where a revert would lock a user, as the properties
`DebtCovered`, `HolderCanExit` and `OwnerCanUnlink`.

Deadlock is checked in every run but one: in `dpt` everybody may give up all roles once time has
run out, after which only empty changes of roles are left.

### Fairness

The contracts have none. A contract has no thread of its own: every step is the decision of some
account to send a transaction, which no scheduler owes anybody. What could be a liveness
property is therefore stated as the safety property that the operation is possible in every
reachable state: `HolderCanExit` (every check of a sale passes, for every choice of the
recipients), `NobodyLockedOut` (a claim passes the discrepancy check), `OwnerCanUnlink` (no
read, `pop` or subtraction of `unlinkAsset` reverts), `PartsAffordable` (a distribution can be paid).

The scripts have it. `FairSpec` of `HardhatDeploy` assumes two things. A run that is left alone
goes on (weak fairness of `RunStep`, the event loop of the process: an awaited call either returns
or throws). And the operator runs every command again and again (strong fairness of `Start(c)`,
since no command can start while another one runs); this is what `src/README.md:369-371` tells operators
to do after a failure. Faults are not fair, and finitely many. Under this `Converges` says that the
deployment is complete for good some day. `StaysComplete` is the half of it that needs no
fairness: what is complete is not undone, at any step of any run, before the next fault. `NothingNeedless`, `WellWired` and `RunConfigures` need none either;
`StartsFit` speaks of the scripts that a run executes.

### Documentation and code disagree

Each of these three is a run with a counterexample:

1. `HolderCanExitAnySubject`: an NFT contract that answers with data that cannot be decoded reverts every trade, where the comment promises the zero address.
2. `RelayedAsSigned`: a deployment request signed by the owner of an NFT can be sent by that owner only; the code compares the owner with the sender, not with the signer.
3. `OnlyNotExecutedBefore`: `src/README.md:369-371` says that reruns execute only the transactions which were not
   executed in previous runs. A contract whose deployment was mined by a run that was killed before
   recording it is deployed again by the next run, unless that one is asked to wait for pending transactions; and a
   setting whose present value could not be read, because `print_contract_details()` swallowed the error, is set
   again although it stands. `NothingNeedless` shows that these are the only two reasons.

Others were met while modelling and are facts of a single line, which need no run:

* `ERC20Shares` requires every transfer of a fee to succeed (lines 259-263 and 325-329), while
  `bonding_curves/README.md:52-53` says that a fee "is send in a non-blocking way": a recipient the token refuses, as ALI
  refuses itself, blocks every sale. `HolderCanExit` of `ERC20Shares` excludes such recipients by name.
* The token distributor accepts an additional reward only from the shares contract, although the
  comment at `HoldersRewardsDistributorV1.sol:295` speaks of anybody.
* The index of a linked asset is declared with 224 bits but stored through a `uint16`, and no list
  is bounded: the 65,537th asset of a list gets index 0. `FewerThanIndexes` assumes it away.
* A rerun of the setup sets `sharesOwnerAddress` back to the deployer, whatever an administrator
  chose, while `SharesFactoryV1.sol:239-241` says that it should be a multisig. `SharesOwner` of
  `Deployment` states what the script does.
* `src/README.md:378` has the operator delete all of `deployments/<network>` to deploy
  anew; this also deletes the record of `OpAliERC20v2`, which no script of the repository restores, so
  that the proxies of a second layer cannot be deployed. The run deletes the records of this
  repository's scripts only.
* The header of `hardhat.config.js` names the variables `P_KEY41` and `MNEMONIC41`; the code reads those ending in 42.
* `tasks/share_admin_role.js` requires `../scripts/config`, which does not exist.

## What is proved

All theorems hold for every value of the constants that satisfies the named assumptions: any
number of accounts (finitely many wherever their money is added up), of NFTs, fees, percents, recipients
and amounts, and any precision. Together they state every property of a passing run that a behaviour can break by a step: all but `Converges` and `StartsFit`.

**Sums.** What a contract owes to all users together is a sum over a finite set, and the sums of
the community modules are folds over a recursive function on sets. `FiniteSums` shows once that this
function is well defined (`TablesAgree`, `TableExists`), derives `SumRemove`, and never unfolds the recursion
again; the other lemmas say how a sum changes with one of its entries (`SumUpdate`, `SumMove`,
`SumHandOut`), compare two sums, or group one by classes (`SumByClass`). Their inductions cannot cite the library's
theorems, which take an operator as a parameter. They speak of a *set* instead: a nonempty family of subsets
of a finite set has a minimal member (`MinimalSubset`), hence `AddElementInduction`; in the same way
`NextNumberInduction` for sets of numbers. What is to be shown of all subsets, or of all
numbers, then defines the set of those it holds for.

**The curve.** `RewardedShares_proofs` begins with integer division and the curve. It proves that a price is a difference of two values of a
function of the supply alone, and from it `EthPricesAddUp` and `Erc20PricesAddUp`: two consecutive
lots cost what one lot of both costs, although the price in ETH is divided twice: `CurveUnit` is even
(`CurveUnitAssumption`). `NextShareIsWorth` says that one more share is worth the square of the number before it:
the six-fold square goes through the division by 6 without a remainder, whatever is left of the
rest. `NextNumberInduction` makes this `PriceIsSumOfSquares`, for every supply and every lot: the closed formula is
the sum it abbreviates. From it `PriceIsAlwaysReference` and
`PaidIsAlwaysReference`: lots of any size, in any order, cost what the shares in existence are worth.

**The ETH market.** The inductive invariant is `IInv` of `ETHShares_proofs`: the types;
the sum of the fee percents is at most 100% (it survives `disableHoldersFee`, which moves one
fee into another); nobody's reward debt exceeds what the shares accumulated (otherwise a sale
could revert in the distributor); before deployment all ledgers are empty; a distributor that
registered shares is bound to this contract; both ledgers agree; the reserve is exact. None of
the parts is inductive alone: the exit of a holder needs the sync to pass, which needs the
binding and the debt, which need the ledgers to agree; the reserve needs the curve to be
additive. `RewardedShares_proofs` proves what both currencies share, one lemma per operation.
From `IInv`: `TypeCorrect`, `ReserveStaysExact`, `DistributorStaysInSync`, `HoldersCanExit`,
`MarketStaysLaunched`, `VolumeFollowsReserve`, and `ImplementsTradeableShares`, the refinement
of the interface, whose steps are classified once in the lemma `StepShapes`. `SupplyAddsUp` says that the supply is
the sum of the balances: one balance changes by as much as the supply.

**The token market.** `IInv` of `ERC20Shares_proofs` is the part both markets share (`CommonInv`) and
`Surplus >= 0`: the tokens of the contract cover the price of the whole supply. This inequality
takes the place of the exact reserve, since anybody can send tokens, and since the protocol's fee destination, the owner of the NFT and the
recipient of a sale may be the contract itself: a fee of a buy then adds to the surplus (`Kept`), a fee of a sale does not leave it
(`Paid`). `BuyKeeps` and `SellKeeps` bound what is kept and paid. The theorems are those of the ETH market, `SupplyAddsUp` among them, with `SurplusNeverPaid` instead of
`ReserveStaysExact`; `HoldersCanExit` holds as long as the token refuses nobody who is to be paid.

**A market and the accounting.** `RewardsAccounting` lets any shares contract report any trades to a distributor, but
for one assumption about its caller, that the last share is never sold. `ImplementsRewardsAccounting` discharges it: whatever an ETH
market does, its distributor sees a behaviour of `RewardsAccounting`, so that solvency, the fair split and the
kept rewards hold inside every ETH market, although neither the invariant of the market nor its interface
mentions them. `StepSeen` reduces every step of the market to one of three things: nothing, one
report (`Reported`), or something around the trades. That a reported sale leaves a share of those *registered* follows
from `DistributorInSync`, and at the deployment from the ledgers that are empty before it. The bounds of the accounting are kept by `Bounded`, on top of `IInv`: what the distributor ever
received is at most the volume of the trades, of which each fee is a part, and the donations. `SameSync`, `SameClaim`
and `SameDonate` identify the operators of the two instances of the distributor. `AccountingAssumptions` says
that what `RewardsAccounting` assumes of its constants holds of the values the market gives them. The token market is left out: a plain
transfer of tokens to its distributor is no step of `RewardsAccounting`, which it only makes better off.

**The holders rewards distributor.** `IInv` of `Distributors_proofs` is the types and `DebtCovered`: a settlement
leaves no debt, and the rate of rewards never falls. From it `DebtsStayCovered` and `RewardsStayKept`.
`FeesSplitFairly` is about two truncating divisions in a row. `AccrualIsFair` reduces every step
that brings money to the change of the rate over the shares held before, for traders that are
settled (`SettledAccrues`) and everybody else (`UntouchedAccrues`). `EarnedInProportion` bounds what
the two divisions can add, `EarnedInFull` what they can take away: a holder of `s` shares gets at least
its proportion, less one unit and the `s / RewardScale` that rounding the rate may cost it; both bounds are in `FairSplit`.

Solvency is not inductive: what users are owed is rounded user by user, while the rate is rounded once.
`SolvencyInv` states it before rounding. `Backed` compares, in units of 1/`RewardScale`, what the
shares are entitled to at the present rate, less the debts, with the money plus one unit for
every settlement so far: a settlement truncates a debt, which raises the claim by less than one unit;
a fee raises both sides, the left one by no more than the right one, because
the registered shares add up (`SharesAddUp`, the other half of the invariant). `BackedIsSolvent` returns
to the rounded amounts. From it `SharesAlwaysAddUp`, `AlwaysSolvent` and `NobodyEverLockedOut`: the distributor
never misses more than one unit per settlement, so that the "discrepancy error" keeps no user from a
reward before there were as many settlements as it allows units.

**The funds.** `FundsInv` of `Distributors_proofs` is the types, `NeverOverpaid`, `MoneyAccounted` and two parts
that say where the money goes. `RootGranted`: what the present root grants a user was granted since
the last reset, without which a claim could pay what nobody published. `ListDivides`: the list in force
divides the whole among addresses that are not zero, without which a distribution could pay more than it
has. `InvParts` splits it into money and rewards. The heart of it is `PartsFit`: the truncated parts
of a balance sum to at most the balance, and fall short of it by less than one unit per recipient; and
`PaidInFull`, which sums what one account gets from all its places in the list. The theorems are the
four properties of the run, `NobodyOverpaid`, `MoneyStaysAccounted`, `PartsStayAffordable` and `DustAlone`, and
the types. The proof of `DustAlone` showed that the property used to be false where a list names the distributor
itself, which the code does not forbid; it now leaves that part (`PaidToItself`) aside, and the run has such a list.

**The factory.** `IInv` of `SharesFactory_proofs` is the three invariants, the types and
`DeployedOnly`: an address that is not a contract yet is not registered, without which a new
clone could take an address that is. The lemma `Parts` splits it into four parts with disjoint
variables (registry, nonces, fees, rest); each operation is shown to keep the part it touches.
The theorems are the five properties of the run `factory` and the types.

**The hive registry.** `IInv` of `HiveRegistry_proofs` is the types, `IndexCorrect`,
`FoundsOrJoins`, `HiveIndexInverse` and two counts. `Counted` says that the counter is the number of
linked assets: without it its decrement could revert, and `OwnerCanUnlink` would not follow.
`CategoriesCounted` says that every category has a name of its own, so that there are fewer
categories than 16 bits can number. The lemma `Parts` splits the invariant by the variables it speaks
of. The heart of it is the removal of an asset, in `UnlinkEffect` and `UnlinkKeeps`: the last of the
list fills the gap and takes over its index. The refinement of `HiveMembership` rests on
`MembersAreLinked`: the members of a place are exactly the assets whose records name it. The theorems
are the six properties of the run. Each assumes `FewerThanIndexes`, that there are at most 2^16
NFTs, so that no list outgrows its index: what the code does not ensure.

**DPT registrations.** `DPTInv`, also in `HiveRegistry_proofs`, is the types, `NoncesUsedOnce` and
`NoncesPast`: every nonce in an event of an owner is below its next one, without which a new event could
repeat an old nonce. The lemma `EvaluateByBounds` says that an evaluated mask stays between what
the target and the sender have, from which `NothingFromNobody` follows: a permission without
a holder stays without one. The theorems are both properties of the run and the types, for any
number of accounts, owners, requests and permissions.

**The plugin and the scripts.** `HardhatDeploy_proofs` is about *any* scripts: the program is a
constant. `IInv` adds three parts to the types and `NothingNeedless`. `Lead`: a record leads to an
existing contract of its name, and one that waits for its record belongs to the current step.
`Stands`: what the history calls deployed is recorded, about to be, or listed as `lost`, and what it calls set is what
the contract holds; without it a skipped deployment would prove nothing. `Fresh`: a value that was
read is still the value of the contract, or somebody changed it since and no setting of that field
stands; without it a script that reads two values before it sets the first might act on a stale one.
The history leaves nothing out: a contract whose record was lost stays among the deployed ones, and `repeated` collects the
reason of every repetition, the lost record and the swallowed error included, which `OnlyNotExecutedBefore` has TLC find.
The theorems are `RunsRepeatNothing`, `RecordsLeadToContracts` and `TypeCorrect`.

`WiredForEver` is `WellWired`: a recorded proxy runs on its own implementation, and contracts refer to contracts of
the right kind. It holds of every program that keeps `WiringAssumption`, a condition on the texts
of the scripts which TLC evaluates on the twenty of the repository: a value is set in a
field only if the script got it from the record of the right name before, the field of a proxy is the one
that the script read last, and nobody else wires contracts. `WiringInv` carries this through a run:
`Gotten`, what a run has looked up is there, also after somebody redeployed it; `Remembered`, a value that was read belongs
to the contract whose name the last reading step gives; `FieldsWired`, the fields of all contracts, recorded
or forgotten, since a forgotten one may be found again.

`UndisturbedRunsConfigure` is `RunConfigures`: a run that nothing interferes with does not fail and
leaves what its command is for, whatever came before it. It has two hypotheses. `ScriptsFit` is a condition on the
texts of the scripts: whatever a script gets, reads or sets was deployed by an earlier step of the same run, or by
another repository, with that field; a value it sets is an address recorded earlier in the run, a literal or the account; the
fee percentage is set after its destination; the last step to set a field sets what `Goal` asks for; the
environment does not change the service account; operators do not delete the records of other repositories.
It is `CommandFits` of every command and `OperatorsFit`. TLC finds both true of the commands of the run
`deployment`: its invariant `StartsFit` says that only such commands are started.
`RepositorySetters` says that `Accepts` is `acceptsValue` of `DeployScripts` and `Zero` its zero address, as in that run.
The invariant is `RunInv`. `Reliable`, in every state, disturbed or not: contracts have the fields their
scripts deploy them with and belong to the service account, and what a run has deployed is recorded.
`Achieved`, as long as nothing disturbs the run: what a script asked for last it remembers, and it is
what the contract holds; what it set last is still so. One lemma per action (`SetAchieves`,
`DeployAchieves`, ...) keeps it. `SetSucceeds` shows that no comparison meets an undefined value and no transaction
reverts; at the last step (`FinishConfigures`) `Achieved` and the goal of the command coincide.

`CompleteStays` is `StaysComplete`, the safety half of `Converges`: a deployment that is as every command wants it is
left so by every step of every run, also of one that fails or is killed later, until somebody changes or deletes something. Its
hypothesis is the same `ScriptsFit`, two parts of which are there for this theorem. `KeepsGoals`: a step that sets a field some
command has a goal for, whichever command the step belongs to, sets what that goal requires, or, where anything but zero
will do, sets it only if it is zero. `GoalFits`: the goals are settings of contracts that scripts deploy, and refer to such contracts.
`KeptInv` adds to `Reliable` what holds between runs (`Kept`): no record is in the way of a contract that waits for its
record, and there is one account. The heart of it is `TransactionKeepsGoals`: a transaction goes to
the contract that was the last to be asked for the field, also in a run that read it long before, and gives
it what every command wants it to have; hence no goal has to be compared with what a run has read.

`RunsAdvance` is the rest of what can be said about `Converges` without fairness: every step of a run ends it or makes
`Remaining`, a natural number, smaller. A run is finite, whatever fails or changes in between.

Assumptions, named in the module of the constants and evaluated by TLC, except
`FewerThanIndexes`, `ScriptsFit` and `RepositorySetters`, which the theorems state: addresses of accounts, contracts and the zero address are
distinct, and finitely many where sums are taken; fees deployed with sum to at most 100%
(the factory limits each of three to below 30%); `CurveUnit` even and positive; scales positive; and
`WiringAssumption`.

**Only model-checked.** `Converges`, since liveness is out of the prover's reach, and `StartsFit`, which
says something of twenty given texts and of the order that a recursive function puts them in. The three statements of the documentation are refuted by TLC.

Some of what is proved is no property of a run, since it follows from one. `NeverRelaunched` and `SupplyIsSum` follow from the
refinement of the interface, in which a sale leaves a share and changes one balance and the supply alike; `VolumeTracksReserve`
follows from `ReserveExact` and the refinement; `PriceIsReference`, between reachable supplies, from `PaidIsReference`.

## Abstractions

* The zero subject is one value; a subject with a zero address but a token id is not considered.
* The 4,900 gas a payment forwards are taken to be too few to call back; the distributor and
  the ALI token are trusted, as the code says, and do not call back either.
* ETH forced into a contract without a call is excluded, so that `ReserveExact` is an equality;
  for tokens, which anybody can send, it is the inequality `SurplusKept`.
* A buyer has the ETH or the allowance it offers. In the ETH market the seller's own refusal
  to be paid reverts the sale, and is no step.
* The roles of accounts are constants everywhere but in `DPTRegistration`, where `updateRole` changes
  them; `updateFeatures` is modelled with its evaluation in the other contracts.
* The factory leaves out the payment of a deployment's first shares (`ETHShares` and
  `ERC20Shares` model that purchase), the two kinds of contracts, implementation addresses and
  the owner handed to clones: a deployment they would make fail is no step.
* A re-entrant `mint` of an NFT contract during a deployment is not modelled: the check that the
  subject is free comes after it in the code.
* Linking to a hive id that was not created is possible, in the code and in its tests, and here.
* DPT registrations and their nonces share no state with the hives and have their own module,
  `DPTRegistration`; in `HiveRegistry` the whitelist and the categories take one name or any set of pods at a time.
* Where an NFT is (in a wallet, staked, fused in an iNFT, burnt) is one external variable; the
  truncation of token ids to 32 bits in the staking lookup is left out.
* Hashing and signatures: a request carries the signer its signature recovers to. A Merkle root is
  the set of the pairs of user and total that have a proof; it may name a user twice.
* ALI reverts a transfer that cannot be made; the reward system, which ignores the returned value,
  relies on that. A reward system for tokens refuses ETH.
* A contract is an owner and the fields the scripts read or set. A proxy's upgrade is the change of
  its field `implementation`; a deployed proxy is initialized by the transaction that deploys it. The role that the factory gets in
  the NFT contract is the field `tokenCreator`.
* A contract deployed by a run that did not live to record it is recorded by the next run (the
  plugin can wait for pending transactions) or lost; both happen.
* Neither the protocol's fees nor the NFT of a market belong to the market's own distributor (`Accounts` leaves
  it out): a fee pushed to it in ETH would be a donation, one transferred in tokens would reach nobody.
* A fee recipient that is the shares contract refuses ETH, since the contract has no `receive()`, and keeps tokens: ALI lets an address
  transfer to itself (the check is commented out in its source, `deployments/mainnet/solcInputs`).
* Transactions that the network replaces, reorganizes or leaves pending for good are left out, and so
  are gas, balances and the bytecode comparison of the plugin, which `skipIfAlreadyDeployed` bypasses.

## Not modelled

* `scripts/include/bn_utils.js`, `big_number_utils.js`, `features_roles.js`, `ali_*`: random
  numbers, formatting and constants for the tests; pure data. `scripts/erc165_check`: one query, no state.
  `scripts/erc721_snapshot`: a one-off computation on an exported file that no other part reads.
* `get_endpoint_url` and the rest of `hardhat.config.js` beside accounts and named accounts: compiler and network settings.
* `tasks/share_admin_role.js`: it cannot be loaded, see above.
* The mocks and tests; `interfaces/NFTStaking.sol`, whose answer is the custody of an NFT in
  `HiveRegistry`; events, views; on-chain proxies, and who may upgrade them.

## Plan

Done, in this order: the curve, the distributor, both markets and their interface, the factory, the
hives and linked assets; DPT registrations with changing roles; the fee distributor composed with
the reward system; the deployment scripts with their faults; proofs of the curve, both markets,
the distributors, the factory, the registry, the DPT registrations, the plugin, the wiring, what undisturbed runs
achieve and complete deployments keep, and the accounting inside an ETH market. What is left:

1. The payment of a deployment's first shares in `SharesFactory`, composed with the markets.
2. The tag `v3_0`, which `Configured` already describes, as a fourth command of `deployment`: with two
   disturbances the run takes longer than five minutes.
