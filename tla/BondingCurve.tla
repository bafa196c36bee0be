---------------------------- MODULE BondingCurve ----------------------------
(***************************************************************************)
(* The friend.tech bonding curve: the price of `amount` shares bought when *)
(* `supply` shares exist (FriendTechBondingCurve.sol).  Amounts of money   *)
(* are integers in the smallest unit of the payment currency.              *)
(***************************************************************************)
EXTENDS Integers

CONSTANT CurveUnit  \* 1 ether / 16000, an integer (62_500_000_000_000) and even

ASSUME CurveUnitAssumption ==
    /\ CurveUnit \in Nat \ {0}
    /\ CurveUnit % 2 = 0

\* Mistake for a mutant: the closed formula up to n instead of n - 1
SumOfSquaresTooFar(n) == (n * (n + 1) * (2 * n + 1)) \div 6

\* 1^2 + 2^2 + ... + (n - 1)^2 as the code computes it: the product of three
\* consecutive factors divided by 6.
SumOfSquares(n) == ((n - 1) * n * (2 * (n - 1) + 1)) \div 6

\* sum1 of the source: zero at an empty supply, where (s - 1) would underflow
SumBefore(s) == IF s = 0 THEN 0 ELSE SumOfSquares(s)

\* Mistake for a mutant: the first lot is free, however large.
SumAfterFree(s, a) == IF s = 0 THEN 0 ELSE SumOfSquares(s + a)

\* sum2 of the source: zero when the result is at most the first, free share
SumAfter(s, a) == IF s = 0 /\ a <= 1 THEN 0 ELSE SumOfSquares(s + a)

\* FriendTechBondingCurve.getPrice.  The source multiplies by 1 ether and
\* divides by 16000; 16000 divides 1 ether, so this is a whole CurveUnit.
friendTechPrice(s, a) == (SumAfter(s, a) - SumBefore(s)) * CurveUnit

\* ETHShares.getPrice: the curve shifted down by 2
ethPrice(supply, amount) == friendTechPrice(supply, amount) \div 2

\* ERC20Shares.getPrice: the curve shifted up by 50,000
PriceFactor == 50000
erc20Price(supply, amount) == PriceFactor * friendTechPrice(supply, amount)
=============================================================================
