--------------------------- MODULE RewardedShares ---------------------------
(***************************************************************************)
(* A shares contract together with the holders rewards distributor the     *)
(* factory deploys for it: the state of both, how a trade is reported to   *)
(* the distributor, and everything that happens around the trades.  The    *)
(* trades themselves are in ETHShares and ERC20Shares.                     *)
(***************************************************************************)
EXTENDS AbstractShares, Functions

CONSTANTS
    PaymentToken, RewardScale, MaxDiscrepancy,  \* see HoldersRewardsDistributor
    OtherContract,  \* another address the distributor may get bound to
    Amounts,        \* amounts of shares of one trade
    Destinations,   \* values of updateProtocolFeeDestination
    SubjectOwners,  \* what the NFT contracts may answer about an owner
    Donations,      \* values sent to the distributor as additional rewards
    MaxSupply,      \* bound: the largest number of shares in existence
    MaxVolume,      \* bound: the largest trade volume
    MaxRewards      \* bound: what the distributor receives with donations included

ASSUME RewardsAssumption ==
    /\ OtherContract \notin Addresses
    /\ RewardScale \in Nat \ {0}
    /\ MaxDiscrepancy \in Nat \ {0}
    /\ Amounts \subseteq Nat
    /\ Destinations \subseteq Addresses
    /\ SubjectOwners \subseteq Addresses \cup {Unreadable}
    /\ Donations \subseteq Nat
    /\ {MaxSupply, MaxVolume, MaxRewards} \subseteq Nat

VARIABLES
    reserve,  \* what the shares contract owns in the payment currency
    sharesContractAddress, accRewardPerShare, totalShares, userInfo, rewardsBalance

D == INSTANCE HoldersRewardsDistributor
        WITH SharesContracts <- {ThisContract, OtherContract}

rewardsVars ==
    <<sharesContractAddress, accRewardPerShare, totalShares, userInfo, rewardsBalance>>
vars == <<sharesVars, reserve, rewardsVars>>

TypeOK ==
    /\ SharesTypeOK
    /\ reserve \in Nat
    /\ D!TypeOK

Init ==
    /\ SharesInit
    /\ subjectOwner \in [Subjects -> SubjectOwners]
    /\ reserve = 0
    /\ D!Init
-----------------------------------------------------------------------------
\* Mistake for a mutant: trades of one share are not synced.
SyncRequiredOffByOne(destination, amount) == destination # NoAddress /\ amount > 1

\* __processHoldersFeeAndNotify: with a distributor attached every trade of a
\* non-zero amount is synced, also when the fee is zero.
SyncRequired(destination, amount) == destination # NoAddress /\ amount # 0

notifyDistributor(destination, fee, trader, isBuy, amount) ==
    IF SyncRequired(destination, amount)
    THEN D!sync(ThisContract, fee, trader, isBuy, amount)
    ELSE UNCHANGED rewardsVars

\* Mistake for a mutant: a second buy replaces what the holder already has.
mintOver(holder, amount, price) ==
    /\ sharesSupply + amount <= MaxSupply
    /\ tradeVolume + price <= MaxVolume
    /\ sharesBalances' = [sharesBalances EXCEPT ![holder] = amount]
    /\ sharesSupply' = sharesSupply + amount
    /\ tradeVolume' = tradeVolume + price

\* The ledger after `amount` shares were bought for, or sold by, a holder
mint(holder, amount, price) ==
    /\ sharesSupply + amount <= MaxSupply
    /\ tradeVolume + price <= MaxVolume
    /\ sharesBalances' = [sharesBalances EXCEPT ![holder] = @ + amount]
    /\ sharesSupply' = sharesSupply + amount
    /\ tradeVolume' = tradeVolume + price

burn(holder, amount, price) ==
    /\ tradeVolume + price <= MaxVolume
    /\ sharesBalances' = [sharesBalances EXCEPT ![holder] = @ - amount]
    /\ sharesSupply' = sharesSupply - amount
    /\ tradeVolume' = tradeVolume + price

\* Mistakes for mutants: the last share can be sold; the balance is not checked.
SalePassesLast(sender, amount, price, protocolFee, holdersFee, subjectFee) ==
    /\ sharesSupply >= amount
    /\ sharesBalances[sender] >= amount
    /\ reserve >= price

SalePassesUnowned(sender, amount, price, protocolFee, holdersFee, subjectFee) ==
    /\ sharesSupply > amount
    /\ reserve >= price
    /\ SyncRequired(holdersFeeDestination, amount) =>
          D!SyncPasses(ThisContract, holdersFee, sender, FALSE, amount)

\* Every check a sale makes before money moves, the checked subtraction of the
\* fees and the sync included.
SalePasses(sender, amount, price, protocolFee, holdersFee, subjectFee) ==
    /\ sharesSupply > amount
    /\ sharesBalances[sender] >= amount
    /\ getSharesIssuer # Unreadable
    /\ price - protocolFee - holdersFee - subjectFee >= 0
    /\ reserve >= price
    /\ SyncRequired(holdersFeeDestination, amount) =>
          D!SyncPasses(ThisContract, holdersFee, sender, FALSE, amount)
-----------------------------------------------------------------------------
Administer ==
    /\ \/ \E sender \in Accounts, subject \in Subjects \cup {NoSubject} :
             updateSharesSubject(sender, subject)
       \/ \E sender \in Accounts, destination \in Destinations :
             updateProtocolFeeDestination(sender, destination)
       \/ \E sender \in Accounts : disableHoldersFee(sender)
    /\ UNCHANGED <<reserve, rewardsVars>>

SubjectContracts ==
    /\ \E subject \in Subjects, owner \in SubjectOwners : changeSubjectOwner(subject, owner)
    /\ UNCHANGED <<reserve, rewardsVars>>

\* What the distributor has paid out
Claimed == SumFunction([a \in Addresses |-> userInfo[a].claimedAmount])

WithinRewards(value) == rewardsBalance + Claimed + value <= MaxRewards

Rewards ==
    /\ \/ \E sender \in Accounts, value \in Donations :
             WithinRewards(value) /\ D!donate(sender, value)
       \/ \E value \in Donations : WithinRewards(value) /\ D!plainTransfer(value)
       \/ \E holder \in Accounts : D!claimTheReward(holder)
       \/ \E contract \in {ThisContract, OtherContract} :
             D!initializeSharesContractAddressIfRequired(contract)
    /\ UNCHANGED <<sharesVars, reserve>>
-----------------------------------------------------------------------------
(* Safety *)

\* The supply is the sum of all individual balances, as the comment on
\* sharesSupply says.
SupplyIsSum == sharesSupply = SumFunction(sharesBalances)

\* As long as the distributor is attached it registers exactly the shares of
\* every holder: no trade, of whatever amount and whoever benefits, escapes it.
DistributorInSync ==
    holdersFeeDestination # NoAddress =>
        /\ totalShares = sharesSupply
        /\ \A a \in Addresses : userInfo[a].shares = sharesBalances[a]

\* A launched market stays launched: the supply never returns to zero, where the
\* issuer alone could buy and the distributor would take no more rewards.
NeverRelaunched == [][sharesSupply > 0 => sharesSupply' > 0]_vars
=============================================================================
