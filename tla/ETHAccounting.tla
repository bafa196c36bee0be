---------------------------- MODULE ETHAccounting ----------------------------
(***************************************************************************)
(* The holders rewards distributor of an ETH market is the one that        *)
(* RewardsAccounting speaks of: the only trades that reach it are those    *)
(* the accounting allows for, in the order the market makes them, so that  *)
(* what is shown there of solvency and shares holds inside every market.   *)
(* The history variable of the accounting is added to the market here.     *)
(***************************************************************************)
EXTENDS ETHShares

CONSTANT MaxSettlements  \* bound: how many reward debts are recomputed

ASSUME SettlementsAssumption == MaxSettlements \in Nat

VARIABLE settlements  \* history: how many times a reward debt was recomputed

\* The first trade settles its trader twice: for the first share and for the rest.
Recomputed == IF totalShares = 0 /\ totalShares' # 0 THEN 2 ELSE 1

\* A step that touches a user of the distributor recomputes a debt.
Counted ==
    \/ userInfo' = userInfo /\ settlements' = settlements
    \/ /\ userInfo' # userInfo
       /\ settlements < MaxSettlements
       /\ settlements' = settlements + Recomputed

AccountedInit == Init /\ settlements = 0

AccountedNext == Next /\ Counted

AccountedSpec == AccountedInit /\ [][AccountedNext]_<<vars, settlements>>
-----------------------------------------------------------------------------
\* All the money of the market and of its donors bounds what the distributor gets.
Accounting == INSTANCE RewardsAccounting
                 WITH SharesContracts <- {ThisContract, OtherContract},
                      MaxShares <- MaxSupply, MaxFee <- MaxVolume + MaxRewards,
                      MaxReceived <- MaxVolume + MaxRewards

\* The market drives its distributor as the accounting of the rewards assumes: a
\* trade is reported once, with the fee it paid, never sells the last share, and
\* the distributor is never told of a sale it has to refuse.
ImplementsAccounting == Accounting!AccountingSpec
=============================================================================
