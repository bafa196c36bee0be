---------------------------- MODULE ProtocolFunds ----------------------------
(***************************************************************************)
(* The way of the protocol's money: the fees of the trades gather in the   *)
(* fee distributor, which divides them among its recipients, the reward    *)
(* system among them, which pays the users their rewards.                  *)
(***************************************************************************)
EXTENDS RewardSystem

CONSTANTS
    OtherRecipients,   \* addresses that refuse ETH, contracts with no receive()
    Amounts,           \* amounts that come in at once
    MaxIncome,         \* bound: what comes in altogether, in each currency
    MaxLedgers,        \* bound: ledgers
    MaxClaimed         \* bound: rewards paid out

VARIABLES
    income,            \* history: currency -> all that came in from outside
    granted,           \* history: user -> the totals published since the last reset
    received           \* history: user -> what it was paid since the last reset

recipientVars == <<recipients>>
rewardVars == <<erc20RewardToken, features, root, claimedRewards, totalClaimedReward>>
historyVars == <<income, granted, received>>
fundsVars == <<recipientVars, balance, rewardVars, historyVars>>

ASSUME FundsAssumption ==
    /\ OtherRecipients \subseteq Accounts
    /\ Amounts \subseteq Nat
    /\ MaxIncome \in Nat /\ MaxLedgers \in Nat /\ MaxClaimed \in Nat

\* A reward system for tokens has no use for ETH and refuses it.
Refusing(currency) ==
    IF currency # ETH THEN {}
    ELSE OtherRecipients \cup (IF rewardSystemType THEN {} ELSE {RewardSystemAddress})

Nothing == [u \in Claimants |-> 0]

FundsInit ==
    /\ recipients = <<>>
    /\ balance = [c \in Currencies |-> [a \in Accounts |-> 0]]
    /\ erc20RewardToken \in {Token, ZeroAddress}
    /\ features = {}
    /\ root = {}
    /\ claimedRewards = <<Nothing>>
    /\ totalClaimedReward = 0
    /\ income = [c \in Currencies |-> 0]
    /\ granted = [u \in Claimants |-> {}]
    /\ received = Nothing

\* Trades push fees to the distributor; somebody pays into the reward system.
PayIn(currency, a, amount) ==
    /\ income[currency] + amount <= MaxIncome
    /\ a \notin Refusing(currency)
    /\ balance' = [balance EXCEPT ![currency][a] = @ + amount]
    /\ income' = [income EXCEPT ![currency] = @ + amount]
    /\ UNCHANGED <<recipientVars, rewardVars, granted, received>>

Distribute(sender, currency) ==
    /\ distribute(sender, currency, Refusing(currency))
    /\ UNCHANGED <<rewardVars, historyVars>>

UpdateRecipients(sender, list) ==
    /\ updateRecipientsList(sender, list)
    /\ UNCHANGED <<rewardVars, historyVars>>

UpdateFeatures(sender, mask) ==
    /\ updateFeatures(sender, mask)
    /\ UNCHANGED <<recipientVars, balance, historyVars>>

\* The totals in a root, in which a user may be named more than once
Grants(newRoot, user) == {total \in Totals : <<user, total>> \in newRoot}

Publish(sender, newRoot) ==
    /\ setInputDataRoot(sender, newRoot)
    /\ granted' = [u \in Claimants |-> granted[u] \cup Grants(newRoot, u)]
    /\ UNCHANGED <<recipientVars, balance, income, received>>

Reset(sender) ==
    /\ Len(claimedRewards) < MaxLedgers
    /\ resetClaimedRewards(sender)
    /\ granted' = [u \in Claimants |-> {}]
    /\ received' = Nothing
    /\ UNCHANGED <<recipientVars, balance, income>>

ClaimReward(to, totalReward) ==
    /\ totalClaimedReward + Claimable(to, totalReward) <= MaxClaimed
    /\ claimReward(to, totalReward, Refusing(Currency))
    /\ received' = [received EXCEPT ![to] = @ + balance'[Currency][to] - balance[Currency][to]]
    /\ UNCHANGED <<recipientVars, income, granted>>

ProtocolFees ==
    \/ \E currency \in Currencies, a \in {FeeDistributor, RewardSystemAddress}, amount \in Amounts :
          PayIn(currency, a, amount)
    \/ \E sender \in Users, currency \in Currencies : Distribute(sender, currency)
    \/ \E sender \in Users, list \in RecipientLists : UpdateRecipients(sender, list)

Rewards ==
    \/ \E sender \in Users :
          \/ \E mask \in SUBSET {FEATURE_CLAIM_ACTIVE} : UpdateFeatures(sender, mask)
          \/ \E newRoot \in Roots : Publish(sender, newRoot)
          \/ Reset(sender)
    \/ \E to \in Claimants, totalReward \in Totals : ClaimReward(to, totalReward)

FundsNext == ProtocolFees \/ Rewards

FundsSpec == FundsInit /\ [][FundsNext]_fundsVars
-----------------------------------------------------------------------------
(* Safety *)

FundsTypeOK ==
    /\ recipients \in Seq(RecipientDetails)
    /\ balance \in [Currencies -> [Accounts -> Nat]]
    /\ erc20RewardToken \in {Token, ZeroAddress}
    /\ features \subseteq {FEATURE_CLAIM_ACTIVE}
    /\ root \subseteq Claimants \X Totals
    /\ claimedRewards \in Seq([Claimants -> Nat]) /\ Len(claimedRewards) > 0
    /\ totalClaimedReward \in Nat
    /\ income \in [Currencies -> Nat]
    /\ granted \in [Claimants -> SUBSET Totals] /\ received \in [Claimants -> Nat]

\* Between two resets a user is paid exactly what the ledger says, which is one of the
\* totals that were published for it meanwhile, or nothing: never more than the largest of
\* them, whatever roots replaced one another between its claims, however often it claims.
NeverOverpaid ==
    \A u \in Claimants : received[u] = claimedReward(u) /\ received[u] \in granted[u] \cup {0}

\* totalClaimedReward is the sum of all the ledgers that there ever were, and no money
\* comes or goes on the way from the fees to the rewards.
MoneyAccounted ==
    /\ totalClaimedReward =
          Total([k \in DOMAIN claimedRewards |-> Total(claimedRewards[k], Claimants)],
                DOMAIN claimedRewards)
    /\ \A c \in Currencies : income[c] = Total(balance[c], Accounts)

\* A distribution is never refused because the parts are more than there is to divide,
\* whatever list of recipients is in force.
PartsAffordable ==
    \A c \in Currencies :
       Total([i \in DOMAIN recipients |-> Part(balance[c][FeeDistributor], recipients[i])],
             DOMAIN recipients) <= balance[c][FeeDistributor]

\* What a distribution pays the distributor itself, if its list names it
PaidToItself(c) ==
    PaidTo(FeeDistributor, recipients,
           [i \in DOMAIN recipients |-> Part(balance[c][FeeDistributor], recipients[i])])

\* A distribution leaves less than a unit per recipient behind, the dust of the division,
\* besides the part that its list gives the distributor itself, which nothing forbids:
\* nothing gathers in the distributor that the next distribution would not pay out.
DustOnly ==
    [][\A c \in Currencies : balance'[c][FeeDistributor] < balance[c][FeeDistributor] =>
          balance'[c][FeeDistributor] - PaidToItself(c) < Len(recipients)]_fundsVars
=============================================================================
