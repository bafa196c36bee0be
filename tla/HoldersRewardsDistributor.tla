---------------------- MODULE HoldersRewardsDistributor ----------------------
(***************************************************************************)
(* HoldersRewardsDistributorV1.sol: accepts the holders fee of every trade *)
(* of one shares contract together with a sync message (trader, isBuy,     *)
(* amount), and lets the holders pull their part of it.                    *)
(*                                                                         *)
(* Every transaction is atomic and a failed `require` reverts it, so an    *)
(* operation is one action whose conjuncts hold the requires.  The sync    *)
(* message is the payload of fallback() when the distributor works with    *)
(* plain ETH and of onTransferReceived() when it works with an ERC1363     *)
(* token; an empty message is the payload of receive().                    *)
(***************************************************************************)
EXTENDS Integers, FiniteSets

CONSTANTS
    Addresses,        \* everything that can trade or hold shares
    NoAddress,        \* the zero address
    SharesContracts,  \* addresses the distributor may be bound to
    PaymentToken,     \* the payment token, NoAddress for plain ETH
    RewardScale,      \* 1e18, the precision of accRewardPerShare
    MaxDiscrepancy    \* 1_000_000_000, the tolerated rounding discrepancy

ASSUME DistributorAssumption ==
    /\ IsFiniteSet(Addresses)
    /\ NoAddress \in Addresses
    /\ NoAddress \notin SharesContracts
    /\ RewardScale \in Nat \ {0}
    /\ MaxDiscrepancy \in Nat \ {0}

VARIABLES
    sharesContractAddress,  \* the contract the distributor is bound to
    accRewardPerShare,      \* accumulated reward per share, times RewardScale
    totalShares,            \* number of shares registered
    userInfo,               \* address -> UserInfo
    rewardsBalance          \* what the distributor has in the payment currency

distributorVars ==
    <<sharesContractAddress, accRewardPerShare, totalShares, userInfo, rewardsBalance>>

UserInfo == [shares: Nat, rewardDebt: Nat, claimedAmount: Nat, unclaimedAmount: Nat]

NoUser == [shares |-> 0, rewardDebt |-> 0, claimedAmount |-> 0, unclaimedAmount |-> 0]

TypeOK ==
    /\ sharesContractAddress \in SharesContracts \cup {NoAddress}
    /\ accRewardPerShare \in Nat
    /\ totalShares \in Nat
    /\ userInfo \in [Addresses -> UserInfo]
    /\ rewardsBalance \in Nat

Init ==
    /\ sharesContractAddress \in SharesContracts \cup {NoAddress}
    /\ accRewardPerShare = 0
    /\ totalShares = 0
    /\ userInfo = [a \in Addresses |-> NoUser]
    /\ rewardsBalance = 0
-----------------------------------------------------------------------------
\* What `shares` have accumulated since the beginning at the rate `acc`
Accumulated(shares, acc) == (shares * acc) \div RewardScale

\* Reward of a user not yet moved to unclaimedAmount; the source computes it
\* with a checked subtraction, which reverts on a negative result.
Unsettled(user, acc) == Accumulated(user.shares, acc) - user.rewardDebt

\* Mistake for a mutant: the debt is computed before the shares change.
SettleStale(user, acc, newShares) ==
    [shares          |-> newShares,
     rewardDebt      |-> Accumulated(user.shares, acc),
     claimedAmount   |-> user.claimedAmount,
     unclaimedAmount |-> user.unclaimedAmount + Unsettled(user, acc)]

\* The user record after a change of its shares: what is pending is settled
\* into unclaimedAmount and the debt restarts from the current rate.
Settle(user, acc, newShares) ==
    [shares          |-> newShares,
     rewardDebt      |-> Accumulated(newShares, acc),
     claimedAmount   |-> user.claimedAmount,
     unclaimedAmount |-> user.unclaimedAmount + Unsettled(user, acc)]

\* __sharesBought: a user without shares has nothing to settle
SharesBought(user, acc, amount) ==
    IF user.shares > 0
    THEN Settle(user, acc, user.shares + amount)
    ELSE [shares          |-> amount,
          rewardDebt      |-> Accumulated(amount, acc),
          claimedAmount   |-> user.claimedAmount,
          unclaimedAmount |-> user.unclaimedAmount]

\* __sharesSold
SharesSold(user, acc, amount) == Settle(user, acc, user.shares - amount)

\* Mistake for a mutant: divided before it is scaled, a fee of less than one unit per
\* share is kept and credited to nobody.
AcceptDividedFirst(acc, total, fee) ==
    IF fee = 0 \/ total = 0 THEN acc ELSE acc + (fee \div total) * RewardScale

\* __accept: the rate after the fee is spread over `total` shares
Accept(acc, total, fee) ==
    IF fee = 0 \/ total = 0 THEN acc ELSE acc + (fee * RewardScale) \div total
-----------------------------------------------------------------------------
\* The check on msg.sender in fallback(), and on the operator of the transfer in
\* onTransferReceived() whether or not it carries a message
MaySync(operator) == operator = sharesContractAddress

\* Every require and checked subtraction of __parseTrade on a sync message: the
\* first trade must be a buy, a seller must have registered what it sells.
SyncPasses(operator, fee, trader, isBuy, amount) ==
    /\ MaySync(operator)
    /\ totalShares = 0 => isBuy /\ amount >= 1
    /\ totalShares # 0 /\ ~isBuy =>
          amount <= userInfo[trader].shares /\ amount <= totalShares
    /\ Unsettled(userInfo[trader], Accept(accRewardPerShare, totalShares, fee)) >= 0

\* Mistake for a mutant: only the first share is counted in.
ParseFirstTradeOne(fee, trader, amount) ==
    /\ totalShares = 0
    /\ accRewardPerShare' = Accept(accRewardPerShare, 1, fee)
    /\ totalShares' = 1
    /\ userInfo' = [userInfo EXCEPT ![trader] = SharesBought(@, accRewardPerShare, amount)]

\* __parseFirstTrade: the very first share is registered before the fee is
\* accepted, so that the fee of the first trade has somebody to go to; the fee
\* of a first trade of exactly one share is not accepted.
ParseFirstTrade(fee, trader, amount) ==
    LET one == SharesBought(userInfo[trader], accRewardPerShare, 1)
        acc == IF amount > 1 THEN Accept(accRewardPerShare, 1, fee) ELSE accRewardPerShare
    IN  /\ totalShares = 0
        /\ accRewardPerShare' = acc
        /\ totalShares' = amount
        /\ userInfo' = [userInfo EXCEPT ![trader] =
                          IF amount > 1 THEN SharesBought(one, acc, amount - 1) ELSE one]

\* Mistake for a mutant: the fee is accepted after the trade, so that it is shared
\* with the shares that have just been bought.
ParseNextTradeLate(fee, trader, isBuy, amount) ==
    LET total == IF isBuy THEN totalShares + amount ELSE totalShares - amount
    IN  /\ totalShares # 0
        /\ accRewardPerShare' = Accept(accRewardPerShare, total, fee)
        /\ totalShares' = total
        /\ userInfo' = [userInfo EXCEPT ![trader] =
                          IF isBuy THEN SharesBought(@, accRewardPerShare, amount)
                                   ELSE SharesSold(@, accRewardPerShare, amount)]

\* __parseNextTrade: the fee goes to the holders as they were before the trade
ParseNextTrade(fee, trader, isBuy, amount) ==
    LET acc == Accept(accRewardPerShare, totalShares, fee)
    IN  /\ totalShares # 0
        /\ accRewardPerShare' = acc
        /\ totalShares' = IF isBuy THEN totalShares + amount ELSE totalShares - amount
        /\ userInfo' = [userInfo EXCEPT ![trader] =
                          IF isBuy THEN SharesBought(@, acc, amount)
                                   ELSE SharesSold(@, acc, amount)]

\* fallback() and onTransferReceived() with a sync message of one trade
sync(operator, fee, trader, isBuy, amount) ==
    /\ SyncPasses(operator, fee, trader, isBuy, amount)
    /\ \/ ParseFirstTrade(fee, trader, amount)
       \/ ParseNextTrade(fee, trader, isBuy, amount)
    /\ rewardsBalance' = rewardsBalance + fee
    /\ UNCHANGED sharesContractAddress

\* receive() and onTransferReceived() with an empty message: an additional
\* reward.  With no shares registered the message is required, and it reverts.
donate(sender, value) ==
    /\ PaymentToken # NoAddress => MaySync(sender)
    /\ totalShares # 0
    /\ accRewardPerShare' = Accept(accRewardPerShare, totalShares, value)
    /\ rewardsBalance' = rewardsBalance + value
    /\ UNCHANGED <<sharesContractAddress, totalShares, userInfo>>

\* A plain ERC20 transfer calls nothing: the tokens arrive unaccounted for.
plainTransfer(value) ==
    /\ PaymentToken # NoAddress
    /\ rewardsBalance' = rewardsBalance + value
    /\ UNCHANGED <<sharesContractAddress, accRewardPerShare, totalShares, userInfo>>

\* The amount owed to a user at the current rate
Pending(holder) ==
    userInfo[holder].unclaimedAmount + Unsettled(userInfo[holder], accRewardPerShare)

\* pendingReward() reverts when the debt exceeds the balance by a gwei or more
WithinDiscrepancy(holder) == Pending(holder) < MaxDiscrepancy + rewardsBalance

\* Mistake for a mutant: the reward is not cut down to what the distributor has.
pendingRewardUncapped(holder) == Pending(holder)

\* pendingReward(): no more than what the distributor has
pendingReward(holder) ==
    IF Pending(holder) > rewardsBalance THEN rewardsBalance ELSE Pending(holder)

\* Mistake for a mutant: the unclaimed amount survives the claim.
claimTheRewardAgain(sender) ==
    LET claimable == pendingReward(sender)
    IN  /\ WithinDiscrepancy(sender)
        /\ claimable > 0
        /\ userInfo' = [userInfo EXCEPT ![sender] =
               [@ EXCEPT !.claimedAmount = @ + claimable,
                         !.rewardDebt = Accumulated(userInfo[sender].shares, accRewardPerShare)]]
        /\ rewardsBalance' = rewardsBalance - claimable
        /\ UNCHANGED <<sharesContractAddress, accRewardPerShare, totalShares>>

\* What the holder has earned is paid out, and the debt restarts from here.
claimTheReward(sender) ==
    LET claimable == pendingReward(sender)
    IN  /\ WithinDiscrepancy(sender)
        /\ claimable > 0
        /\ userInfo' = [userInfo EXCEPT ![sender] =
               [shares          |-> @.shares,
                rewardDebt      |-> Accumulated(@.shares, accRewardPerShare),
                claimedAmount   |-> @.claimedAmount + claimable,
                unclaimedAmount |-> 0]]
        /\ rewardsBalance' = rewardsBalance - claimable
        /\ UNCHANGED <<sharesContractAddress, accRewardPerShare, totalShares>>

\* initializeSharesContractAddressIfRequired(): anyone, once
initializeSharesContractAddressIfRequired(contract) ==
    /\ sharesContractAddress = NoAddress
    /\ contract # NoAddress
    /\ sharesContractAddress' = contract
    /\ UNCHANGED <<accRewardPerShare, totalShares, userInfo, rewardsBalance>>
=============================================================================
