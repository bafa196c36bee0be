------------------------------ MODULE CurveWalk ------------------------------
(***************************************************************************)
(* The bonding curve against its definition: shares are bought and sold in *)
(* lots of any size, in any order, at the price the curve gives, and the   *)
(* money paid so far is compared with a plain sum of squares.              *)
(***************************************************************************)
EXTENDS BondingCurve, Functions

CONSTANTS
    MaxCurveSupply,  \* bound: the largest supply the walk reaches
    MaxLot           \* bound: the largest number of shares in one lot

ASSUME WalkAssumption == {MaxCurveSupply, MaxLot} \subseteq Nat

VARIABLES
    curveSupply,  \* shares in existence
    paid          \* what was paid in minus what was paid out

walkVars == <<curveSupply, paid>>

WalkInit == curveSupply = 0 /\ paid = 0

BuyLot(lot) ==
    /\ curveSupply + lot <= MaxCurveSupply
    /\ curveSupply' = curveSupply + lot
    /\ paid' = paid + ethPrice(curveSupply, lot)

SellLot(lot) ==
    /\ lot < curveSupply
    /\ curveSupply' = curveSupply - lot
    /\ paid' = paid - ethPrice(curveSupply - lot, lot)

WalkNext == \E lot \in 0 .. MaxLot : BuyLot(lot) \/ SellLot(lot)

WalkSpec == WalkInit /\ [][WalkNext]_walkVars
-----------------------------------------------------------------------------
\* The curve as README.md and the interface describe it: the price of a share is
\* the square of the number of shares before it, the first one is free.
ReferencePrice(supply, amount) ==
    LET price == [i \in supply .. (supply + amount - 1) |-> i * i * (CurveUnit \div 2)]
    IN  SumFunctionOnSet(price, DOMAIN price)

\* Buying and selling in lots of any size and order costs what the reference says
\* the shares in existence are worth: the closed formula, its special cases for
\* the first share and its two divisions lose nothing.
PaidIsReference == paid = ReferencePrice(0, curveSupply)

\* For every lot at every supply the closed formula is the reference sum, also
\* for the lots no seller could form (starting at the first share).  Where a lot can be
\* bought, PaidIsReference before and after it says so too: this one is proved only.
PriceIsReference ==
    \A lot \in 0 .. MaxLot : ethPrice(curveSupply, lot) = ReferencePrice(curveSupply, lot)
=============================================================================
