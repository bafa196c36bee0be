-------------------------- MODULE RewardsAccounting --------------------------
(***************************************************************************)
(* The holders rewards distributor in its environment: a shares contract   *)
(* that reports trades, senders of additional rewards, holders that claim. *)
(* A history variable counts the times a reward debt was rounded down,     *)
(* which is what the accounting can be wrong by.  Tokens that arrive       *)
(* without a message only make it better off; RewardedShares has them.     *)
(***************************************************************************)
EXTENDS HoldersRewardsDistributor, Functions

CONSTANTS
    MaxFee,       \* bound: the largest fee or donation of one transaction
    MaxShares,    \* bound: the largest number of shares registered
    MaxReceived,  \* bound: the most money the distributor ever holds or paid
    MaxSettlements  \* bound: how many reward debts are recomputed

ASSUME BoundsAssumption == {MaxFee, MaxShares, MaxReceived, MaxSettlements} \subseteq Nat

VARIABLE settlements  \* history: how many times a reward debt was recomputed

accountingVars == <<distributorVars, settlements>>

Claimed == SumFunction([a \in Addresses |-> userInfo[a].claimedAmount])

\* What one transaction may bring in within the bounds
Fees ==
    LET room == MaxReceived - rewardsBalance - Claimed
    IN  {fee \in 0 .. MaxFee : fee <= room}

AccountingInit == Init /\ settlements = 0

\* A trade reported by the shares contract, which never sells the last share
\* (ETHShares.sol:193, ERC20Shares.sol:209)
Sync(operator, fee, trader, isBuy, amount) ==
    /\ ~isBuy => amount < totalShares
    /\ settlements < MaxSettlements
    /\ isBuy => totalShares + amount <= MaxShares
    /\ settlements' = settlements + (IF totalShares = 0 THEN 2 ELSE 1)
    /\ sync(operator, fee, trader, isBuy, amount)

Claim(holder) ==
    /\ settlements' = settlements + 1
    /\ claimTheReward(holder)

Donate(sender, value) == donate(sender, value) /\ UNCHANGED settlements

Bind(contract) ==
    /\ initializeSharesContractAddressIfRequired(contract)
    /\ UNCHANGED settlements

AccountingNext ==
    \/ \E holder \in Addresses \ {NoAddress} : Claim(holder)
    \/ \E contract \in SharesContracts : Bind(contract)
    \/ \E fee \in Fees :
          \/ \E operator \in SharesContracts, trader \in Addresses, isBuy \in BOOLEAN,
                amount \in 1 .. MaxShares : Sync(operator, fee, trader, isBuy, amount)
          \/ \E sender \in Addresses \cup SharesContracts : Donate(sender, fee)

AccountingSpec == AccountingInit /\ [][AccountingNext]_accountingVars
-----------------------------------------------------------------------------
(* Safety *)

AccountingTypeOK == TypeOK /\ settlements \in Nat

\* The registered total is the sum of what the users hold.
SharesAddUp ==
    totalShares = SumFunction([a \in Addresses |-> userInfo[a].shares])

\* The debt of a user never exceeds what its shares accumulated, so that none of
\* the checked subtractions in __sharesBought, __sharesSold and pendingReward can
\* revert: a user in debt could neither trade nor claim, ever again.
DebtCovered ==
    \A a \in Addresses : Unsettled(userInfo[a], accRewardPerShare) >= 0

\* What all holders could claim never exceeds what the distributor has by more
\* than one unit per recomputed debt: the rounding discrepancy the comment in
\* pendingReward allows for has no other source.
Solvent ==
    SumFunction([a \in Addresses |-> Pending(a)]) <= rewardsBalance + settlements

\* As long as fewer than MaxDiscrepancy debts have been recomputed the
\* "discrepancy error" of pendingReward cannot keep any holder from its reward.
NobodyLockedOut ==
    settlements < MaxDiscrepancy => \A a \in Addresses : WithinDiscrepancy(a)

\* What is owed to a holder falls only when that holder claims it: no trade of
\* anybody, no fee and nobody else's claim takes a reward away.
RewardsKept ==
    [][\A a \in Addresses :
          Pending(a)' < Pending(a) =>
              userInfo'[a].claimedAmount > userInfo[a].claimedAmount]_accountingVars

\* Money that arrives is shared in proportion to the shares held before the step, in
\* full: nobody gains more than its part by more than one unit, so that a trader earns
\* nothing from its own fee on the shares it is just buying, and nobody less by more than
\* one unit and what the rate per share was rounded down by (shares / RewardScale).
FairSplit ==
    [][\A a \in Addresses : totalShares # 0 /\ rewardsBalance' > rewardsBalance =>
          LET arrived  == rewardsBalance' - rewardsBalance
              gain     == Pending(a)' - Pending(a)
              held     == userInfo[a].shares
          IN  /\ (gain - 1) * totalShares <= arrived * held
              /\ arrived * held * RewardScale
                    <= (gain + 1) * totalShares * RewardScale + held * totalShares
      ]_accountingVars
=============================================================================
