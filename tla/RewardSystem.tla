---------------------------- MODULE RewardSystem ----------------------------
(***************************************************************************)
(* RewardSystem.sol: pays rewards, in ETH or in a token, to whoever proves *)
(* against the current Merkle root a total that the ledger says is not     *)
(* paid out yet.  The data manager replaces the root as totals grow, and   *)
(* starts a new ledger when they shall start from zero.                    *)
(*                                                                         *)
(* A root is the set of the pairs it proves: hashing is taken to have no   *)
(* collisions.  Both transfers are taken to revert if the money is not     *)
(* there; the return value of the token's is ignored.                      *)
(***************************************************************************)
EXTENDS ProtocolFeeDistributor

CONSTANTS
    RewardSystemAddress,
    Claimants,            \* users who earn rewards
    Totals,               \* totals that a root grants
    Roots                 \* roots that are tried: sets of pairs <<user, total>>

ROLE_DATA_ROOT_MANAGER == "data root manager"
FEATURE_CLAIM_ACTIVE   == "claim active"

ASSUME RewardAssumption ==
    /\ ZeroAddress \notin Currencies
    /\ Claimants \subseteq Accounts \ {RewardSystemAddress}
    /\ Totals \subseteq Nat
    /\ Roots \subseteq SUBSET (Claimants \X Totals)
    /\ RewardSystemAddress \in Accounts \ {FeeDistributor}

VARIABLES
    erc20RewardToken,    \* Token, or ZeroAddress if rewards are paid in ETH
    features,
    root,                \* pairs that can be proved; {}: bytes32(0), which nothing proves
    claimedRewards,      \* Seq of ledgers: user -> total paid; the last one is active
    totalClaimedReward

rewardSystemType == erc20RewardToken = ZeroAddress

Currency == IF rewardSystemType THEN ETH ELSE Token

claimedReward(user) == claimedRewards[Len(claimedRewards)][user]

updateClaimedReward(user, value) ==
    claimedRewards' = [claimedRewards EXCEPT ![Len(claimedRewards)][user] = value]

updateFeatures(sender, mask) ==
    /\ InRole(sender, ROLE_ACCESS_MANAGER)
    /\ features' = EvaluateBy(UserRoles[sender], features, mask)
    /\ UNCHANGED <<erc20RewardToken, root, claimedRewards, totalClaimedReward>>

setInputDataRoot(sender, newRoot) ==
    /\ InRole(sender, ROLE_DATA_ROOT_MANAGER)
    /\ root' = newRoot
    /\ UNCHANGED <<erc20RewardToken, features, claimedRewards, totalClaimedReward>>

NewLedger == Append(claimedRewards, [u \in Claimants |-> 0])

\* Mistake for a mutant: the root stays, and with it the totals of the old ledger.
resetLedgerOnly(sender) ==
    /\ InRole(sender, ROLE_DATA_ROOT_MANAGER)
    /\ claimedRewards' = NewLedger
    /\ UNCHANGED <<erc20RewardToken, features, root, totalClaimedReward>>

resetClaimedRewards(sender) ==
    /\ InRole(sender, ROLE_DATA_ROOT_MANAGER)
    /\ root' = {}
    /\ claimedRewards' = NewLedger
    /\ UNCHANGED <<erc20RewardToken, features, totalClaimedReward>>

\* Mistake for a mutant: the whole total is paid every time.
ClaimableWhole(user, totalReward) == totalReward

Claimable(user, totalReward) == totalReward - claimedReward(user)

claimReward(to, totalReward, refusing) ==
    LET amount == Claimable(to, totalReward) IN
    /\ FEATURE_CLAIM_ACTIVE \in features
    /\ <<to, totalReward>> \in root
    /\ claimedReward(to) < totalReward
    /\ to \notin refusing
    /\ amount <= balance[Currency][RewardSystemAddress]
    /\ updateClaimedReward(to, totalReward)
    /\ totalClaimedReward' = totalClaimedReward + amount
    /\ balance' = [balance EXCEPT ![Currency][RewardSystemAddress] = @ - amount,
                                  ![Currency][to] = @ + amount]
    /\ UNCHANGED <<erc20RewardToken, features, root>>
=============================================================================
