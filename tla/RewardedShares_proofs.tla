------------------------- MODULE RewardedShares_proofs -------------------------
(***************************************************************************)
(* What the two shares contracts have in common in their proofs: integer   *)
(* division; the curve, where the price of a lot is the difference of two  *)
(* values of one function of the supply, in spite of the special cases for *)
(* the first share and the two divisions of the source, so that the prices *)
(* of consecutive lots add up; and how one call of the rewards distributor *)
(* and one emergency function change the parts of the inductive invariant. *)
(***************************************************************************)
EXTENDS RewardedShares, CurveWalk, FiniteSums
-----------------------------------------------------------------------------
(* Integer division, which rounds prices, fees and rewards *)

\* A product of naturals is a natural.
LEMMA ProductNat ==
    ASSUME NEW a \in Nat, NEW b \in Nat
    PROVE  a * b \in Nat
  BY SMT

\* A product grows with its second factor.
LEMMA ProductMonotone ==
    ASSUME NEW a \in Nat, NEW b \in Int, NEW c \in Int, b <= c
    PROVE  a * b <= a * c
  BY SMT

\* Integer division is the largest multiple that fits.
LEMMA DivBounds ==
    ASSUME NEW a \in Int, NEW n \in Nat \ {0}
    PROVE  /\ a \div n \in Int
           /\ n * (a \div n) <= a
           /\ a < n * (a \div n) + n
  BY SMT

\* A natural divided by a positive number is a natural.
LEMMA DivNat ==
    ASSUME NEW a \in Nat, NEW n \in Nat \ {0}
    PROVE  a \div n \in Nat
  BY SMT

\* A larger dividend gives no smaller quotient.
LEMMA DivMonotone ==
    ASSUME NEW a \in Int, NEW b \in Int, NEW n \in Nat \ {0}, a <= b
    PROVE  a \div n <= b \div n
  BY SMT
-----------------------------------------------------------------------------
(* The curve *)

\* What all of `n` shares are worth, in units of the curve
Worth(n) == IF n = 0 THEN 0 ELSE SumOfSquares(n)

\* More shares are worth at least as much, and never less than nothing.
LEMMA WorthMonotone ==
    ASSUME NEW n \in Nat, NEW m \in Nat, n <= m
    PROVE  /\ Worth(n) \in Nat
           /\ Worth(n) <= Worth(m)
PROOF
  <1> DEFINE Factors(k) == (k - 1) * k * (2 * (k - 1) + 1)
  <1>1. ASSUME NEW k \in Nat \ {0}
        PROVE  Factors(k) \in Nat /\ Factors(k) \div 6 \in Nat
    <2>1. k - 1 \in Nat /\ 2 * (k - 1) + 1 \in Nat
      OBVIOUS
    <2>2. (k - 1) * k \in Nat
      BY <2>1, ProductNat
    <2>3. Factors(k) \in Nat
      BY <2>1, <2>2, ProductNat
    <2> QED
      BY <2>3, DivNat
  <1>2. CASE n = 0
    <2>1. m # 0 => Worth(m) \in Nat
      BY <1>1 DEF Worth, SumOfSquares
    <2> QED
      BY <1>2, <2>1 DEF Worth
  <1>3. CASE n # 0
    <2>1. (n - 1) * n <= (m - 1) * m /\ (n - 1) * n \in Nat /\ (m - 1) * m \in Nat
      BY <1>3, SMT
    <2>2. 2 * (n - 1) + 1 <= 2 * (m - 1) + 1 /\ 2 * (n - 1) + 1 \in Nat /\ 2 * (m - 1) + 1 \in Nat
      BY <1>3
    <2>3. Factors(n) <= Factors(m)
      <3>1. ASSUME NEW a \in Nat, NEW b \in Nat, NEW c \in Nat, NEW d \in Nat, a <= b, c <= d
            PROVE  a * c <= b * d
        BY <3>1, SMT
      <3> QED
        BY <2>1, <2>2, <3>1
    <2>4. Factors(n) \div 6 <= Factors(m) \div 6
      BY <1>1, <1>3, <2>3, DivMonotone
    <2> QED
      BY <1>1, <1>3, <2>4 DEF Worth, SumOfSquares
  <1> QED
    BY <1>2, <1>3

\* The curve price is the difference of the worth after and before.
LEMMA PriceIsDifference ==
    ASSUME NEW s \in Nat, NEW a \in Nat
    PROVE  friendTechPrice(s, a) = (Worth(s + a) - Worth(s)) * CurveUnit
PROOF
  <1>1. SumOfSquares(1) = 0
    BY DEF SumOfSquares
  <1>2. SumAfter(s, a) = Worth(s + a)
    BY <1>1 DEF SumAfter, Worth
  <1>3. SumBefore(s) = Worth(s)
    BY DEF SumBefore, Worth
  <1> QED
    BY <1>2, <1>3 DEF friendTechPrice

\* Half of an even curve unit is exact: the ETH price divides without remainder.
LEMMA EthPriceIsDifference ==
    ASSUME NEW s \in Nat, NEW a \in Nat
    PROVE  ethPrice(s, a) = (Worth(s + a) - Worth(s)) * (CurveUnit \div 2)
PROOF
  <1> DEFINE half == CurveUnit \div 2
  <1>1. half \in Nat /\ CurveUnit = 2 * half
    BY CurveUnitAssumption
  <1>2. Worth(s + a) - Worth(s) \in Int
    BY WorthMonotone
  <1>3. ASSUME NEW d \in Int, NEW h \in Nat
        PROVE  (d * (2 * h)) \div 2 = d * h
    <2>1. d * h \in Int /\ d * (2 * h) = 2 * (d * h)
      BY SMT
    <2> QED
      BY <2>1
  <1> HIDE DEF half
  <1> QED
    BY <1>1, <1>2, <1>3, PriceIsDifference DEF ethPrice, half

\* A price is a natural number: buying never pays out.
LEMMA EthPriceNat ==
    ASSUME NEW s \in Nat, NEW a \in Nat
    PROVE  ethPrice(s, a) \in Nat
PROOF
  <1>1. CurveUnit \div 2 \in Nat
    BY CurveUnitAssumption
  <1>2. Worth(s + a) - Worth(s) \in Nat
    BY WorthMonotone
  <1> QED
    BY <1>1, <1>2, EthPriceIsDifference, ProductNat

\* Two lots bought one after the other cost what one lot of both would cost.
THEOREM EthPricesAddUp ==
    ASSUME NEW s \in Nat, NEW a \in Nat, NEW b \in Nat
    PROVE  ethPrice(s, a) + ethPrice(s + a, b) = ethPrice(s, a + b)
PROOF
  <1>1. /\ Worth(s) \in Int
        /\ Worth(s + a) \in Int
        /\ Worth(s + a + b) \in Int
        /\ CurveUnit \div 2 \in Int
    BY WorthMonotone, CurveUnitAssumption
  <1>2. ASSUME NEW x \in Int, NEW y \in Int, NEW z \in Int, NEW u \in Int
        PROVE  (y - x) * u + (z - y) * u = (z - x) * u
    BY SMT
  <1>3. ethPrice(s + a, b) = (Worth(s + a + b) - Worth(s + a)) * (CurveUnit \div 2)
    <2>1. s + a \in Nat
      OBVIOUS
    <2> QED
      BY <2>1, EthPriceIsDifference
  <1>4. ethPrice(s, a + b) = (Worth(s + a + b) - Worth(s)) * (CurveUnit \div 2)
    <2>1. s + (a + b) = s + a + b
      OBVIOUS
    <2> QED
      BY <2>1, EthPriceIsDifference
  <1> QED
    BY <1>1, <1>2, <1>3, <1>4, EthPriceIsDifference

-----------------------------------------------------------------------------
(* The closed formula of the curve is the sum it stands for *)

\* One more share is worth the square of the number of shares before it: the division
\* by six loses nothing that matters from one share to the next.
LEMMA NextShareIsWorth ==
    ASSUME NEW n \in Nat
    PROVE  Worth(n + 1) = Worth(n) + n * n
PROOF
  <1> DEFINE Factors(k) == (k - 1) * k * (2 * (k - 1) + 1)
             x == Factors(n)
             q == n * n
  <1>1. Factors(n + 1) = x + 6 * q
    BY SMT
  <1>2. x \in Int /\ q \in Int
    BY SMT
  <1>3. Worth(n) = x \div 6
    <2>1. CASE n = 0
      BY <2>1 DEF Worth
    <2>2. CASE n # 0
      BY <2>2 DEF Worth, SumOfSquares
    <2> QED
      BY <2>1, <2>2
  <1>4. Worth(n + 1) = (x + 6 * q) \div 6
    BY <1>1 DEF Worth, SumOfSquares
  <1> HIDE DEF x
  <1>5. ASSUME NEW a \in Int, NEW b \in Int
        PROVE  (a + 6 * b) \div 6 = a \div 6 + b
    BY <1>5
  <1> QED
    BY <1>2, <1>3, <1>4, <1>5

\* The price of a lot is the sum of the prices of its shares, each the square of the
\* number of shares before it, for every supply and every lot.
THEOREM PriceIsSumOfSquares ==
    ASSUME NEW s \in Nat, NEW a \in Nat
    PROVE  ethPrice(s, a) = ReferencePrice(s, a)
PROOF
  <1> DEFINE half == CurveUnit \div 2
             Price(n) == [i \in s .. (s + n - 1) |-> i * i * half]
             T == {n \in Nat : ReferencePrice(s, n) = (Worth(s + n) - Worth(s)) * half}
  <1>1. half \in Nat
    BY CurveUnitAssumption
  <1>2. \A n \in Nat : ReferencePrice(s, n) = Sum(Price(n), s .. (s + n - 1))
    BY DEF ReferencePrice, Sum
  <1> HIDE DEF half
  <1>3. 0 \in T
    <2>1. s .. (s + 0 - 1) = {}
      OBVIOUS
    <2>2. ReferencePrice(s, 0) = 0
      BY <1>2, <2>1, SumEmpty
    <2>3. (Worth(s + 0) - Worth(s)) * half = 0
      <3>1. Worth(s) \in Nat
        BY WorthMonotone
      <3> QED
        BY <1>1, <3>1
    <2> QED
      BY <2>2, <2>3
  <1>4. ASSUME NEW n \in Nat, n \in T
        PROVE  n + 1 \in T
    <2> DEFINE m == s + n
               S == s .. (m - 1)
               R == s .. m
               p == Price(n + 1)
               r == Price(n)
    <2>1. /\ m \in Nat /\ m \in R \ S /\ S \in SUBSET R /\ R = S \cup {m}
          /\ R = s .. (s + (n + 1) - 1)
      OBVIOUS
    <2>2. IsFiniteSet(R) /\ IsFiniteSet(S)
      BY <2>1, FS_Interval
    <2>3. \A i \in R : p[i] = i * i * half /\ p[i] \in Int
      <3>1. ASSUME NEW i \in R
            PROVE  i * i * half \in Int
        <4>1. i \in Nat /\ i * i \in Nat
          BY ProductNat
        <4> QED
          BY <1>1, <4>1, ProductNat
      <3> QED
        BY <2>1, <3>1
    <2>4. \A i \in S : p[i] \in Int /\ r[i] = p[i]
      BY <2>1, <2>3
    <2> HIDE DEF p, r
    <2>5. Sum(p, R) = m * m * half + Sum(p, S)
      <3>1. Sum(p, S \cup {m}) = p[m] + Sum(p, S)
        <4> HIDE DEF m, S, R
        <4> QED
          BY <2>1, <2>2, <2>3, SumAdd
      <3> QED
        BY <2>1, <2>3, <3>1
    <2>6. Sum(r, S) = Sum(p, S)
      BY <2>2, <2>4, SumSame
    <2>7. ReferencePrice(s, n + 1) = Sum(p, R) /\ ReferencePrice(s, n) = Sum(r, S)
      BY <1>2, <2>1 DEF p, r
    <2>8. ReferencePrice(s, n) = (Worth(m) - Worth(s)) * half
      BY <1>4
    <2>9. Worth(m + 1) = Worth(m) + m * m /\ s + (n + 1) = m + 1
      BY <2>1, NextShareIsWorth
    <2>10. Worth(m) \in Nat /\ Worth(s) \in Nat /\ m * m \in Nat
      BY <2>1, WorthMonotone, ProductNat
    <2>11. ASSUME NEW w \in Nat, NEW v \in Nat, NEW q \in Nat, NEW h \in Nat
           PROVE  q * h + (w - v) * h = ((w + q) - v) * h
      BY <2>11, SMT
    <2> HIDE DEF m
    <2>12. ReferencePrice(s, n + 1) = (Worth(m + 1) - Worth(s)) * half
      BY <1>1, <2>5, <2>6, <2>7, <2>8, <2>9, <2>10, <2>11
    <2> QED
      BY <2>9, <2>12
  <1>5. a \in T
    <2> HIDE DEF T
    <2> QED
      BY <1>3, <1>4, NextNumberInduction
  <1> QED
    BY <1>5, EthPriceIsDifference DEF half

\* The walk pays for what there is, at the worth the formula gives it.
WalkInv == curveSupply \in Nat /\ paid = Worth(curveSupply) * (CurveUnit \div 2)

\* Every lot bought or sold moves the money from one worth to the other.
LEMMA WalkInvariance == WalkSpec => []WalkInv
PROOF
  <1> DEFINE half == CurveUnit \div 2
  <1>1. half \in Nat
    BY CurveUnitAssumption
  <1>2. WalkInit => WalkInv
    BY <1>1 DEF WalkInit, WalkInv, Worth
  <1>3. ASSUME NEW w \in Int, NEW v \in Int, NEW h \in Int
        PROVE  w * h + (v - w) * h = v * h /\ v * h - (v - w) * h = w * h
    BY <1>3, SMT
  <1>4. WalkInv /\ [WalkNext]_walkVars => WalkInv'
    <2> SUFFICES ASSUME WalkInv, [WalkNext]_walkVars PROVE WalkInv'
      OBVIOUS
    <2>1. curveSupply \in Nat /\ paid = Worth(curveSupply) * half
      BY DEF WalkInv
    <2>2. ASSUME NEW lot \in 0 .. MaxLot, BuyLot(lot)
          PROVE  WalkInv'
      <3>1. /\ lot \in Nat /\ curveSupply + lot \in Nat
            /\ curveSupply' = curveSupply + lot /\ paid' = paid + ethPrice(curveSupply, lot)
        BY <2>1, <2>2, WalkAssumption DEF BuyLot
      <3>2. /\ ethPrice(curveSupply, lot) = (Worth(curveSupply + lot) - Worth(curveSupply)) * half
            /\ Worth(curveSupply) \in Nat /\ Worth(curveSupply + lot) \in Nat
        BY <2>1, <3>1, EthPriceIsDifference, WorthMonotone
      <3> HIDE DEF half
      <3>3. paid' = Worth(curveSupply') * half
        BY <1>1, <1>3, <2>1, <3>1, <3>2
      <3> QED
        BY <3>1, <3>3 DEF WalkInv, half
    <2>3. ASSUME NEW lot \in 0 .. MaxLot, SellLot(lot)
          PROVE  WalkInv'
      <3> DEFINE left == curveSupply - lot
      <3>1. /\ lot \in Nat /\ left \in Nat /\ left + lot = curveSupply
            /\ curveSupply' = left /\ paid' = paid - ethPrice(left, lot)
        BY <2>1, <2>3, WalkAssumption DEF SellLot
      <3> HIDE DEF left
      <3>2. /\ ethPrice(left, lot) = (Worth(curveSupply) - Worth(left)) * half
            /\ Worth(curveSupply) \in Nat /\ Worth(left) \in Nat
        <4>1. ethPrice(left, lot) = (Worth(left + lot) - Worth(left)) * half
          BY <3>1, EthPriceIsDifference
        <4>2. Worth(curveSupply) \in Nat /\ Worth(left) \in Nat
          BY <2>1, <3>1, WorthMonotone
        <4> QED
          BY <3>1, <4>1, <4>2
      <3> HIDE DEF half
      <3>3. paid' = Worth(curveSupply') * half
        BY <1>1, <1>3, <2>1, <3>1, <3>2
      <3> QED
        BY <3>1, <3>3 DEF WalkInv, half
    <2>4. CASE UNCHANGED walkVars
      BY <2>1, <2>4 DEF WalkInv, walkVars
    <2> QED
      BY <2>2, <2>3, <2>4 DEF WalkNext
  <1> QED
    BY <1>2, <1>4, PTL DEF WalkSpec

\* Whatever lots are bought and sold, in whatever order, the money paid is the plain sum
\* of the prices of the shares there are.
THEOREM PaidIsAlwaysReference == WalkSpec => []PaidIsReference
PROOF
  <1>1. WalkInv => PaidIsReference
    <2> SUFFICES ASSUME WalkInv PROVE paid = ReferencePrice(0, curveSupply)
      BY DEF PaidIsReference
    <2> DEFINE half == CurveUnit \div 2
    <2>1. curveSupply \in Nat /\ paid = Worth(curveSupply) * half
      BY DEF WalkInv
    <2>2. ReferencePrice(0, curveSupply) = (Worth(0 + curveSupply) - Worth(0)) * half
      BY <2>1, PriceIsSumOfSquares, EthPriceIsDifference
    <2>3. Worth(0) = 0 /\ 0 + curveSupply = curveSupply /\ Worth(curveSupply) \in Nat
      BY <2>1, WorthMonotone DEF Worth
    <2> HIDE DEF half
    <2> QED
      BY <2>1, <2>2, <2>3
  <1> QED
    BY <1>1, WalkInvariance, PTL

\* At every supply that can be reached the formula prices every lot as the sum does.
THEOREM PriceIsAlwaysReference == WalkSpec => []PriceIsReference
PROOF
  <1>1. WalkInv => PriceIsReference
    BY PriceIsSumOfSquares, WalkAssumption DEF WalkInv, PriceIsReference
  <1> QED
    BY <1>1, WalkInvariance, PTL
-----------------------------------------------------------------------------
(* The curve in tokens *)

\* The same for the curve in tokens, which is not divided again.
LEMMA Erc20PriceIsDifference ==
    ASSUME NEW s \in Nat, NEW a \in Nat
    PROVE  erc20Price(s, a) = (Worth(s + a) - Worth(s)) * (PriceFactor * CurveUnit)
PROOF
  <1>1. CurveUnit \in Nat /\ PriceFactor \in Nat
    BY CurveUnitAssumption DEF PriceFactor
  <1>2. Worth(s + a) - Worth(s) \in Int
    BY WorthMonotone
  <1>3. ASSUME NEW d \in Int, NEW u \in Nat, NEW p \in Nat
        PROVE  p * (d * u) = d * (p * u)
    BY SMT
  <1> QED
    BY <1>1, <1>2, <1>3, PriceIsDifference DEF erc20Price

\* So is a price in tokens.
LEMMA Erc20PriceNat ==
    ASSUME NEW s \in Nat, NEW a \in Nat
    PROVE  erc20Price(s, a) \in Nat
PROOF
  <1>1. PriceFactor * CurveUnit \in Nat
    BY CurveUnitAssumption DEF PriceFactor
  <1>2. Worth(s + a) - Worth(s) \in Nat
    BY WorthMonotone
  <1> QED
    BY <1>1, <1>2, Erc20PriceIsDifference, ProductNat

\* Two lots bought one after the other cost what one lot of both would cost.
THEOREM Erc20PricesAddUp ==
    ASSUME NEW s \in Nat, NEW a \in Nat, NEW b \in Nat
    PROVE  erc20Price(s, a) + erc20Price(s + a, b) = erc20Price(s, a + b)
PROOF
  <1> DEFINE unit == PriceFactor * CurveUnit
  <1>1. /\ Worth(s) \in Int
        /\ Worth(s + a) \in Int
        /\ Worth(s + a + b) \in Int
        /\ unit \in Int
    BY WorthMonotone, CurveUnitAssumption DEF PriceFactor
  <1>2. ASSUME NEW x \in Int, NEW y \in Int, NEW z \in Int, NEW u \in Int
        PROVE  (y - x) * u + (z - y) * u = (z - x) * u
    BY SMT
  <1>3. erc20Price(s, a) = (Worth(s + a) - Worth(s)) * unit
    BY Erc20PriceIsDifference
  <1>4. erc20Price(s + a, b) = (Worth(s + a + b) - Worth(s + a)) * unit
    <2>1. s + a \in Nat
      OBVIOUS
    <2> QED
      BY <2>1, Erc20PriceIsDifference
  <1>5. erc20Price(s, a + b) = (Worth(s + a + b) - Worth(s)) * unit
    <2>1. s + (a + b) = s + a + b /\ a + b \in Nat
      OBVIOUS
    <2> QED
      BY <2>1, Erc20PriceIsDifference
  <1> HIDE DEF unit
  <1> QED
    BY <1>1, <1>2, <1>3, <1>4, <1>5
-----------------------------------------------------------------------------
(* The shares contract and its distributor *)

\* No user is in debt to the distributor (RewardsAccounting checks it on its own).
DebtCovered ==
    \A a \in Addresses : D!Unsettled(userInfo[a], accRewardPerShare) >= 0

\* Before postConstruct() there is no subject, so no issuer, and nobody has shares,
\* here or in the distributor.
Unstarted ==
    ~initialized =>
        /\ sharesSubject = NoSubject
        /\ sharesSupply = 0
        /\ totalShares = 0
        /\ holdersFeeDestination = NoAddress
        /\ \A a \in Addresses : sharesBalances[a] = 0 /\ userInfo[a].shares = 0

\* A market with a distributor and shares in existence got past the sync of its
\* first trade, so the distributor is bound to it.
BoundWhenTraded ==
    holdersFeeDestination # NoAddress /\ sharesSupply > 0 =>
        sharesContractAddress = ThisContract

\* The three fees together never exceed the price.
FeesWithinPrice ==
    protocolFeePercent + holdersFeePercent + subjectFeePercent <= FeeScale

CommonInv ==
    /\ TypeOK
    /\ DebtCovered
    /\ Unstarted
    /\ BoundWhenTraded
    /\ FeesWithinPrice
    /\ DistributorInSync
-----------------------------------------------------------------------------
\* A fee is a natural number.
LEMMA FeeNat ==
    ASSUME NEW price \in Nat, NEW percent \in Nat
    PROVE  Fee(price, percent) \in Nat
  BY ProductNat, DivNat, SharesAssumption DEF Fee

\* Three fees rounded down one by one never add up to more than the price.
LEMMA FeesFit ==
    ASSUME NEW price \in Nat, NEW p \in Nat, NEW h \in Nat, NEW s \in Nat,
           p + h + s <= FeeScale
    PROVE  Fee(price, p) + Fee(price, h) + Fee(price, s) <= price
PROOF
  <1> DEFINE P == Fee(price, p)
             H == Fee(price, h)
             S == Fee(price, s)
  <1>1. FeeScale \in Nat \ {0}
    BY SharesAssumption
  <1>2. P \in Nat /\ H \in Nat /\ S \in Nat
    BY FeeNat
  <1>3. FeeScale * P <= price * p /\ FeeScale * H <= price * h /\ FeeScale * S <= price * s
    BY <1>1, ProductNat, DivBounds DEF Fee
  <1>4. price * (p + h + s) <= price * FeeScale
    BY <1>1, ProductMonotone
  <1> HIDE DEF P, H, S
  <1>5. FeeScale * (P + H + S) <= price * FeeScale
    BY <1>1, <1>2, <1>3, <1>4, SMT
  <1>6. ASSUME NEW n \in Nat \ {0}, NEW x \in Nat, NEW y \in Nat, n * x <= y * n
        PROVE  x <= y
    BY <1>6, SMT
  <1>7. P + H + S <= price
    BY <1>1, <1>2, <1>5, <1>6
  <1> QED
    BY <1>7 DEF P, H, S

\* The percents in force are naturals and no more than what is stored.
LEMMA EffectiveFeesBounded ==
    ASSUME TypeOK, FeesWithinPrice
    PROVE  /\ CurrentFees.protocol \in Nat /\ CurrentFees.holders \in Nat /\ CurrentFees.subject \in Nat
           /\ CurrentFees.protocol + CurrentFees.holders + CurrentFees.subject <= FeeScale
PROOF
  <1>1. /\ CurrentFees.protocol = IF protocolFeeDestination = NoAddress THEN 0 ELSE protocolFeePercent
        /\ CurrentFees.holders = IF holdersFeeDestination = NoAddress THEN 0 ELSE holdersFeePercent
        /\ CurrentFees.subject = IF getSharesIssuer = NoAddress THEN 0 ELSE subjectFeePercent
    BY DEF CurrentFees, EffectiveFees, Setting
  <1> QED
    BY <1>1, SharesAssumption DEF TypeOK, SharesTypeOK, FeesWithinPrice

\* What shares have accumulated is a natural number that grows with the rate.
LEMMA AccumulatedNat ==
    ASSUME NEW shares \in Nat, NEW acc \in Nat
    PROVE  D!Accumulated(shares, acc) \in Nat
PROOF
  <1>1. shares * acc \in Nat
    BY ProductNat
  <1> QED
    BY <1>1, DivNat, RewardsAssumption DEF D!Accumulated

\* The same shares have earned more if every share has.
LEMMA AccumulatedMonotone ==
    ASSUME NEW shares \in Nat, NEW acc \in Nat, NEW acc2 \in Nat, acc <= acc2
    PROVE  D!Accumulated(shares, acc) <= D!Accumulated(shares, acc2)
PROOF
  <1>1. shares * acc <= shares * acc2 /\ shares * acc \in Int /\ shares * acc2 \in Int
    BY ProductMonotone, ProductNat
  <1> QED
    BY <1>1, DivMonotone, RewardsAssumption DEF D!Accumulated

\* Accepting a fee never lowers the rate.
LEMMA AcceptGrows ==
    ASSUME NEW acc \in Nat, NEW total \in Nat, NEW fee \in Nat
    PROVE  D!Accept(acc, total, fee) \in Nat /\ acc <= D!Accept(acc, total, fee)
PROOF
  <1>1. CASE fee = 0 \/ total = 0
    BY <1>1 DEF D!Accept
  <1>2. CASE ~(fee = 0 \/ total = 0)
    <2>1. fee * RewardScale \in Nat
      BY ProductNat, RewardsAssumption
    <2>2. (fee * RewardScale) \div total \in Nat
      BY <1>2, <2>1, DivNat
    <2> QED
      BY <1>2, <2>2 DEF D!Accept
  <1> QED
    BY <1>1, <1>2

\* Settling a user keeps its record well-formed and leaves it without debt.
LEMMA SettledUser ==
    ASSUME NEW user \in D!UserInfo, NEW acc \in Nat, NEW newShares \in Nat,
           D!Unsettled(user, acc) >= 0
    PROVE  /\ D!Settle(user, acc, newShares) \in D!UserInfo
           /\ D!Settle(user, acc, newShares).shares = newShares
           /\ D!Unsettled(D!Settle(user, acc, newShares), acc) = 0
PROOF
  <1>1. D!Accumulated(user.shares, acc) \in Nat /\ D!Accumulated(newShares, acc) \in Nat
    BY AccumulatedNat DEF D!UserInfo
  <1>2. D!Unsettled(user, acc) \in Nat
    BY <1>1 DEF D!UserInfo, D!Unsettled
  <1> QED
    BY <1>1, <1>2 DEF D!Settle, D!UserInfo, D!Unsettled

\* The same for a buyer, who may have had no shares.
LEMMA BuyerSettled ==
    ASSUME NEW user \in D!UserInfo, NEW acc \in Nat, NEW amount \in Nat,
           D!Unsettled(user, acc) >= 0
    PROVE  /\ D!SharesBought(user, acc, amount) \in D!UserInfo
           /\ D!SharesBought(user, acc, amount).shares = user.shares + amount
           /\ D!Unsettled(D!SharesBought(user, acc, amount), acc) = 0
PROOF
  <1>1. CASE user.shares > 0
    <2>1. user.shares + amount \in Nat
      BY DEF D!UserInfo
    <2>2. D!SharesBought(user, acc, amount) = D!Settle(user, acc, user.shares + amount)
      BY <1>1 DEF D!SharesBought
    <2> QED
      BY <2>1, <2>2, SettledUser
  <1>2. CASE user.shares = 0
    <2>1. D!Accumulated(amount, acc) \in Nat
      BY AccumulatedNat
    <2> QED
      BY <1>2, <2>1 DEF D!SharesBought, D!UserInfo, D!Unsettled
  <1> QED
    BY <1>1, <1>2 DEF D!UserInfo
-----------------------------------------------------------------------------
\* What a sync message does: the shares of the trader and the total change by the
\* traded amount, nobody else's do, and nobody ends up in debt.
LEMMA SyncStep ==
    ASSUME D!TypeOK, DebtCovered, NEW fee \in Nat, NEW trader \in Addresses,
           NEW isBuy \in BOOLEAN, NEW amount \in Nat,
           D!sync(ThisContract, fee, trader, isBuy, amount)
    PROVE  /\ D!TypeOK'
           /\ DebtCovered'
           /\ sharesContractAddress = ThisContract
           /\ sharesContractAddress' = sharesContractAddress
           /\ totalShares' = (IF isBuy THEN totalShares + amount ELSE totalShares - amount)
           /\ userInfo'[trader].shares = (IF isBuy THEN userInfo[trader].shares + amount
                                                  ELSE userInfo[trader].shares - amount)
           /\ \A a \in Addresses \ {trader} : userInfo'[a] = userInfo[a]
PROOF
  <1> DEFINE user == userInfo[trader]
             acc  == accRewardPerShare
             new  == accRewardPerShare'
  <1>1. user \in D!UserInfo /\ acc \in Nat /\ totalShares \in Nat /\ rewardsBalance \in Nat
    BY DEF D!TypeOK
  <1>2. /\ sharesContractAddress = ThisContract
        /\ sharesContractAddress' = sharesContractAddress
        /\ rewardsBalance' = rewardsBalance + fee
    BY DEF D!sync, D!SyncPasses, D!MaySync
  <1>3. SUFFICES
          /\ new \in Nat /\ acc <= new
          /\ totalShares' \in Nat
          /\ totalShares' = (IF isBuy THEN totalShares + amount ELSE totalShares - amount)
          /\ userInfo'[trader] \in D!UserInfo
          /\ userInfo'[trader].shares = (IF isBuy THEN user.shares + amount
                                                 ELSE user.shares - amount)
          /\ D!Unsettled(userInfo'[trader], new) >= 0
    <2>0. PICK u : userInfo' = [userInfo EXCEPT ![trader] = u]
      BY DEF D!sync, D!ParseFirstTrade, D!ParseNextTrade
    <2>1. userInfo' \in [Addresses -> D!UserInfo]
      BY <1>3, <2>0 DEF D!TypeOK
    <2>2. \A a \in Addresses \ {trader} : userInfo'[a] = userInfo[a]
      BY <2>0 DEF D!TypeOK
    <2>3. ASSUME NEW a \in Addresses
          PROVE  D!Unsettled(userInfo'[a], new) >= 0
      <3>1. CASE a = trader
        BY <1>3, <3>1
      <3>2. CASE a # trader
        <4>1. userInfo[a] \in D!UserInfo /\ D!Unsettled(userInfo[a], acc) >= 0
          BY DEF D!TypeOK, DebtCovered
        <4>2. /\ D!Accumulated(userInfo[a].shares, acc) <= D!Accumulated(userInfo[a].shares, new)
              /\ D!Accumulated(userInfo[a].shares, acc) \in Nat
              /\ D!Accumulated(userInfo[a].shares, new) \in Nat
          BY <1>1, <1>3, <4>1, AccumulatedMonotone, AccumulatedNat DEF D!UserInfo
        <4> QED
          BY <2>2, <3>2, <4>1, <4>2 DEF D!Unsettled, D!UserInfo
      <3> QED
        BY <3>1, <3>2
    <2>4. DebtCovered'
      BY <2>3 DEF DebtCovered, D!Unsettled, D!Accumulated
    <2> QED
      BY <1>1, <1>2, <1>3, <2>1, <2>2, <2>4 DEF D!TypeOK
  <1>4. D!Unsettled(user, D!Accept(acc, totalShares, fee)) >= 0 /\ D!Unsettled(user, acc) >= 0
    BY DEF D!sync, D!SyncPasses, DebtCovered
  <1>5. CASE D!ParseFirstTrade(fee, trader, amount)
    <2> DEFINE one == D!SharesBought(user, acc, 1)
    <2>1. totalShares = 0 /\ isBuy /\ amount >= 1
      BY <1>5 DEF D!ParseFirstTrade, D!sync, D!SyncPasses
    <2>2. /\ one \in D!UserInfo
          /\ one.shares = user.shares + 1
          /\ D!Unsettled(one, acc) = 0
      BY <1>1, <1>4, BuyerSettled
    <2>3. new \in Nat /\ acc <= new
      BY <1>1, <1>5, AcceptGrows DEF D!ParseFirstTrade
    <2>4. D!Unsettled(one, new) >= 0
      <3>1. /\ D!Accumulated(one.shares, acc) <= D!Accumulated(one.shares, new)
            /\ D!Accumulated(one.shares, acc) \in Nat
            /\ D!Accumulated(one.shares, new) \in Nat
        BY <1>1, <2>2, <2>3, AccumulatedMonotone, AccumulatedNat DEF D!UserInfo
      <3> QED
        BY <2>2, <3>1 DEF D!Unsettled, D!UserInfo
    <2>5. userInfo' = [userInfo EXCEPT ![trader] =
                         IF amount > 1 THEN D!SharesBought(one, new, amount - 1) ELSE one]
      BY <1>5 DEF D!ParseFirstTrade
    <2>6. userInfo'[trader] = IF amount > 1 THEN D!SharesBought(one, new, amount - 1) ELSE one
      BY <2>5 DEF D!TypeOK
    <2>7. CASE amount > 1
      <3>1. /\ userInfo'[trader] \in D!UserInfo
            /\ userInfo'[trader].shares = one.shares + (amount - 1)
            /\ D!Unsettled(userInfo'[trader], new) = 0
        BY <2>2, <2>3, <2>4, <2>6, <2>7, BuyerSettled
      <3> QED
        BY <1>1, <1>5, <2>1, <2>2, <2>3, <2>5, <2>6, <3>1 DEF D!ParseFirstTrade, D!UserInfo
    <2>8. CASE ~(amount > 1)
      BY <1>1, <1>5, <2>1, <2>2, <2>3, <2>4, <2>5, <2>6, <2>8 DEF D!ParseFirstTrade, D!UserInfo
    <2> QED
      BY <2>7, <2>8
  <1>6. CASE D!ParseNextTrade(fee, trader, isBuy, amount)
    <2>1. /\ new = D!Accept(acc, totalShares, fee)
          /\ totalShares' = (IF isBuy THEN totalShares + amount ELSE totalShares - amount)
          /\ userInfo' = [userInfo EXCEPT ![trader] =
                             IF isBuy THEN D!SharesBought(user, new, amount)
                                      ELSE D!SharesSold(user, new, amount)]
      BY <1>6 DEF D!ParseNextTrade
    <2>2. new \in Nat /\ acc <= new
      BY <1>1, <2>1, AcceptGrows
    <2>3. userInfo'[trader] = IF isBuy THEN D!SharesBought(user, new, amount)
                                       ELSE D!SharesSold(user, new, amount)
      BY <2>1 DEF D!TypeOK
    <2>4. CASE isBuy
      <3>1. /\ userInfo'[trader] \in D!UserInfo
            /\ userInfo'[trader].shares = user.shares + amount
            /\ D!Unsettled(userInfo'[trader], new) = 0
        <4>1. D!Unsettled(user, new) >= 0
          BY <1>4, <2>1
        <4>2. /\ D!SharesBought(user, new, amount) \in D!UserInfo
              /\ D!SharesBought(user, new, amount).shares = user.shares + amount
              /\ D!Unsettled(D!SharesBought(user, new, amount), new) = 0
          BY <1>1, <2>2, <4>1, BuyerSettled
        <4> QED
          BY <2>3, <2>4, <4>2
      <3> QED
        BY <1>1, <2>1, <2>2, <2>3, <2>4, <3>1
    <2>5. CASE ~isBuy
      <3>1. amount <= user.shares /\ amount <= totalShares
        BY <1>6, <2>5 DEF D!ParseNextTrade, D!sync, D!SyncPasses
      <3>2. user.shares - amount \in Nat
        BY <1>1, <3>1 DEF D!UserInfo
      <3>3. /\ userInfo'[trader] \in D!UserInfo
            /\ userInfo'[trader].shares = user.shares - amount
            /\ D!Unsettled(userInfo'[trader], new) = 0
        BY <1>1, <1>4, <2>1, <2>2, <2>3, <2>5, <3>2, SettledUser DEF D!SharesSold
      <3> QED
        BY <1>1, <2>1, <2>2, <2>3, <2>5, <3>1, <3>3
    <2> QED
      BY <2>4, <2>5
  <1> QED
    BY <1>5, <1>6 DEF D!sync

\* Donations, claims and the binding touch neither the shares nor, once it is
\* bound, the contract the distributor works for.
LEMMA RewardsStep ==
    ASSUME D!TypeOK, DebtCovered, Rewards
    PROVE  /\ D!TypeOK'
           /\ DebtCovered'
           /\ totalShares' = totalShares
           /\ \A a \in Addresses : userInfo'[a].shares = userInfo[a].shares
           /\ sharesContractAddress # NoAddress =>
                 sharesContractAddress' = sharesContractAddress
PROOF
  <1>1. CASE \E sender \in Accounts, value \in Donations : D!donate(sender, value)
    <2>1. PICK sender \in Accounts, value \in Donations : D!donate(sender, value)
      BY <1>1
    <2>2. value \in Nat
      BY RewardsAssumption
    <2>3. /\ accRewardPerShare' \in Nat /\ accRewardPerShare <= accRewardPerShare'
          /\ rewardsBalance' \in Nat
          /\ userInfo' = userInfo
      BY <2>1, <2>2, AcceptGrows DEF D!donate, D!TypeOK
    <2>4. ASSUME NEW a \in Addresses
          PROVE  D!Unsettled(userInfo'[a], accRewardPerShare') >= 0
      <3>1. userInfo[a] \in D!UserInfo /\ D!Unsettled(userInfo[a], accRewardPerShare) >= 0
        BY DEF D!TypeOK, DebtCovered
      <3>2. LET old == D!Accumulated(userInfo[a].shares, accRewardPerShare)
                new == D!Accumulated(userInfo[a].shares, accRewardPerShare')
            IN  old <= new /\ old \in Nat /\ new \in Nat
        BY <2>3, <3>1, AccumulatedMonotone, AccumulatedNat DEF D!UserInfo, D!TypeOK
      <3> QED
        BY <2>3, <3>1, <3>2 DEF D!Unsettled, D!UserInfo
    <2>5. DebtCovered'
      BY <2>4 DEF DebtCovered, D!Unsettled, D!Accumulated
    <2> QED
      BY <2>1, <2>3, <2>5 DEF D!TypeOK, D!donate
  <1>2. CASE \E value \in Donations : D!plainTransfer(value)
    BY <1>2, RewardsAssumption
       DEF D!plainTransfer, D!TypeOK, DebtCovered, D!Unsettled, D!Accumulated
  <1>3. CASE \E holder \in Accounts : D!claimTheReward(holder)
    <2>1. PICK holder \in Accounts : D!claimTheReward(holder)
      BY <1>3
    <2> DEFINE user == userInfo[holder]
               debt == D!Accumulated(user.shares, accRewardPerShare)
               payout == D!pendingReward(holder)
               settled == [shares          |-> user.shares,
                           rewardDebt      |-> debt,
                           claimedAmount   |-> user.claimedAmount + payout,
                           unclaimedAmount |-> 0]
    <2>2. holder \in Addresses /\ user \in D!UserInfo
      BY DEF Addresses, D!TypeOK
    <2>3. debt \in Nat
      BY <2>2, AccumulatedNat DEF D!UserInfo, D!TypeOK
    <2>4. payout \in Nat /\ payout <= rewardsBalance
      <3>1. D!Pending(holder) \in Int
        BY <2>2, <2>3 DEF D!Pending, D!Unsettled, D!UserInfo
      <3> QED
        BY <2>1, <3>1 DEF D!claimTheReward, D!pendingReward, D!TypeOK
    <2>5. settled \in D!UserInfo
      BY <2>2, <2>3, <2>4 DEF D!UserInfo
    <2>6. /\ userInfo' = [userInfo EXCEPT ![holder] = settled]
          /\ rewardsBalance' = rewardsBalance - payout
          /\ UNCHANGED <<sharesContractAddress, accRewardPerShare, totalShares>>
      BY <2>1 DEF D!claimTheReward
    <2>7. D!TypeOK'
      <3> HIDE DEF settled, payout
      <3>1. userInfo' \in [Addresses -> D!UserInfo]
        BY <2>5, <2>6 DEF D!TypeOK
      <3> QED
        BY <2>4, <2>6, <3>1 DEF D!TypeOK
    <2>8. \A a \in Addresses : userInfo'[a].shares = userInfo[a].shares
      BY <2>2, <2>6 DEF D!TypeOK
    <2>9. ASSUME NEW a \in Addresses
          PROVE  D!Unsettled(userInfo'[a], accRewardPerShare) >= 0
      <3>1. CASE a = holder
        <4>1. userInfo'[a] = settled
          BY <2>2, <2>6, <3>1 DEF D!TypeOK
        <4> QED
          BY <2>3, <4>1 DEF D!Unsettled
      <3>2. CASE a # holder
        BY <2>6, <3>2 DEF D!TypeOK, DebtCovered
      <3> QED
        BY <3>1, <3>2
    <2>10. DebtCovered'
      BY <2>6, <2>9 DEF DebtCovered, D!Unsettled, D!Accumulated
    <2> QED
      BY <2>6, <2>7, <2>8, <2>10
  <1>4. CASE \E contract \in {ThisContract, OtherContract} :
                D!initializeSharesContractAddressIfRequired(contract)
    BY <1>4 DEF D!initializeSharesContractAddressIfRequired, D!TypeOK, DebtCovered,
                D!Unsettled, D!Accumulated
  <1> QED
    BY <1>1, <1>2, <1>3, <1>4 DEF Rewards
-----------------------------------------------------------------------------
\* What __processHoldersFeeAndNotify does to the distributor, sync sent or not.
LEMMA NotifyStep ==
    ASSUME D!TypeOK, DebtCovered, NEW destination, NEW fee \in Nat,
           NEW trader \in Addresses, NEW isBuy \in BOOLEAN, NEW amount \in Nat,
           notifyDistributor(destination, fee, trader, isBuy, amount)
    PROVE  /\ D!TypeOK'
           /\ DebtCovered'
           /\ destination # NoAddress =>
                 /\ isBuy => /\ totalShares' = totalShares + amount
                             /\ userInfo'[trader].shares = userInfo[trader].shares + amount
                 /\ ~isBuy => /\ totalShares' = totalShares - amount
                              /\ userInfo'[trader].shares = userInfo[trader].shares - amount
                 /\ \A a \in Addresses \ {trader} : userInfo'[a] = userInfo[a]
                 /\ sharesContractAddress' = sharesContractAddress
                 /\ amount # 0 => sharesContractAddress' = ThisContract
PROOF
  <1>1. CASE SyncRequired(destination, amount)
    BY <1>1, SyncStep DEF notifyDistributor, SyncRequired
  <1>2. CASE ~SyncRequired(destination, amount)
    <2>1. UNCHANGED rewardsVars
      BY <1>2 DEF notifyDistributor
    <2>2. D!TypeOK' /\ DebtCovered'
      BY <2>1 DEF rewardsVars, D!TypeOK, DebtCovered, D!Unsettled, D!Accumulated
    <2>3. destination # NoAddress => amount = 0
      BY <1>2 DEF SyncRequired
    <2>4. totalShares \in Nat /\ userInfo[trader].shares \in Nat
      BY DEF D!TypeOK, D!UserInfo
    <2> QED
      BY <2>1, <2>2, <2>3, <2>4 DEF rewardsVars
  <1> QED
    BY <1>1, <1>2

\* In the initial state nobody has anything.
LEMMA CommonInit == Init => CommonInv
PROOF
  <1> SUFFICES ASSUME Init PROVE CommonInv
    OBVIOUS
  <1>1. TypeOK
    BY SharesAssumption, RewardsAssumption
       DEF Init, SharesInit, TypeOK, SharesTypeOK, Addresses, D!Init, D!TypeOK, D!UserInfo, D!NoUser
  <1>2. DebtCovered
    <2>1. D!Accumulated(0, 0) \in Nat
      BY AccumulatedNat
    <2> QED
      BY <2>1 DEF Init, D!Init, D!NoUser, DebtCovered, D!Unsettled
  <1>3. Unstarted /\ BoundWhenTraded /\ DistributorInSync
    BY DEF Init, SharesInit, D!Init, D!NoUser, Unstarted, BoundWhenTraded, DistributorInSync
  <1>4. FeesWithinPrice
    BY SharesAssumption DEF Init, SharesInit, FeesWithinPrice
  <1> QED
    BY <1>1, <1>2, <1>3, <1>4 DEF CommonInv

\* The emergency functions move percents from one fee to another and no shares.
LEMMA AdministerKeeps == CommonInv /\ Administer => CommonInv'
PROOF
  <1> SUFFICES ASSUME CommonInv, Administer PROVE CommonInv'
    OBVIOUS
  <1> USE DEF CommonInv
  <1>1. UNCHANGED <<ledgerVars, subjectOwner, reserve, rewardsVars>>
    BY DEF Administer, updateSharesSubject, updateProtocolFeeDestination, disableHoldersFee
  <1>2. initialized /\ initialized'
    BY DEF Administer, updateSharesSubject, updateProtocolFeeDestination, disableHoldersFee,
           TypeOK, SharesTypeOK
  <1>3. /\ sharesSubject' \in Subjects \cup {NoSubject}
        /\ protocolFeeDestination' \in Addresses
        /\ protocolFeePercent' \in Nat
        /\ holdersFeePercent' \in Nat
        /\ subjectFeePercent' \in Nat
        /\ holdersFeeDestination' \in {NoAddress, holdersFeeDestination}
        /\ protocolFeePercent' + holdersFeePercent' + subjectFeePercent'
              = protocolFeePercent + holdersFeePercent + subjectFeePercent
    BY RewardsAssumption
       DEF Administer, updateSharesSubject, updateProtocolFeeDestination, disableHoldersFee,
           feeVars, TypeOK, SharesTypeOK
  <1>4. TypeOK'
    BY <1>1, <1>2, <1>3
       DEF ledgerVars, rewardsVars, TypeOK, SharesTypeOK, D!TypeOK
  <1>5. DebtCovered' /\ FeesWithinPrice'
    BY <1>1, <1>3
       DEF rewardsVars, DebtCovered, D!Unsettled, D!Accumulated, FeesWithinPrice
  <1>6. Unstarted' /\ BoundWhenTraded' /\ DistributorInSync'
    BY <1>1, <1>2, <1>3
       DEF ledgerVars, rewardsVars, Unstarted, BoundWhenTraded, DistributorInSync
  <1> QED
    BY <1>4, <1>5, <1>6

\* Neither do the NFT contracts.
LEMMA SubjectContractsKeep == CommonInv /\ SubjectContracts => CommonInv'
PROOF
  <1> SUFFICES ASSUME CommonInv, SubjectContracts PROVE CommonInv'
    OBVIOUS
  <1> USE DEF CommonInv
  <1>1. UNCHANGED <<initialized, sharesSubject, feeVars, ledgerVars, reserve, rewardsVars>>
    BY DEF SubjectContracts, changeSubjectOwner
  <1>2. subjectOwner' \in [Subjects -> Addresses \cup {Unreadable}]
    BY RewardsAssumption DEF SubjectContracts, changeSubjectOwner, TypeOK, SharesTypeOK
  <1>3. TypeOK'
    BY <1>1, <1>2 DEF feeVars, ledgerVars, rewardsVars, TypeOK, SharesTypeOK, D!TypeOK
  <1>4. DebtCovered' /\ FeesWithinPrice' /\ Unstarted' /\ BoundWhenTraded' /\ DistributorInSync'
    BY <1>1
       DEF feeVars, ledgerVars, rewardsVars, DebtCovered, D!Unsettled, D!Accumulated,
           FeesWithinPrice, Unstarted, BoundWhenTraded, DistributorInSync
  <1> QED
    BY <1>3, <1>4

\* Claims, donations and the binding leave the shares contract alone.
LEMMA RewardsKeep == CommonInv /\ Rewards => CommonInv'
PROOF
  <1> SUFFICES ASSUME CommonInv, Rewards PROVE CommonInv'
    OBVIOUS
  <1> USE DEF CommonInv
  <1>1. UNCHANGED <<sharesVars, reserve>>
    BY DEF Rewards
  <1>2. D!TypeOK /\ DebtCovered
    BY DEF TypeOK
  <1>3. TypeOK' /\ DebtCovered'
    BY <1>1, <1>2, RewardsStep DEF sharesVars, feeVars, ledgerVars, TypeOK, SharesTypeOK
  <1>4. FeesWithinPrice' /\ Unstarted' /\ DistributorInSync'
    BY <1>1, <1>2, RewardsStep
       DEF sharesVars, feeVars, ledgerVars, FeesWithinPrice, Unstarted, DistributorInSync
  <1>5. BoundWhenTraded'
    <2>1. ThisContract # NoAddress
      BY SharesAssumption DEF Addresses
    <2> QED
      BY <1>1, <1>2, <2>1, RewardsStep DEF sharesVars, feeVars, ledgerVars, BoundWhenTraded
  <1> QED
    BY <1>3, <1>4, <1>5

\* A stuttering step.
LEMMA CommonStutter == CommonInv /\ UNCHANGED vars => CommonInv'
  BY DEF vars, sharesVars, feeVars, ledgerVars, rewardsVars, CommonInv, TypeOK, SharesTypeOK,
         D!TypeOK, DebtCovered, D!Unsettled, D!Accumulated, FeesWithinPrice, Unstarted,
         BoundWhenTraded, DistributorInSync
-----------------------------------------------------------------------------
\* A buy, the one in postConstruct() included: the ledger of the shares contract
\* and the one of the distributor grow by the same amount for the same holder.
LEMMA MintKeeps ==
    ASSUME CommonInv, NEW beneficiary \in Addresses, NEW amount \in Amounts,
           NEW price \in Nat, NEW fee \in Nat, NEW destination,
           mint(beneficiary, amount, price),
           notifyDistributor(destination, fee, beneficiary, TRUE, amount),
           holdersFeeDestination' = destination,
           initialized',
           ~initialized \/ holdersFeeDestination = destination
    PROVE  /\ sharesSupply' \in Nat /\ sharesBalances' \in [Addresses -> Nat] /\ tradeVolume' \in Nat
           /\ D!TypeOK'
           /\ DebtCovered' /\ Unstarted' /\ BoundWhenTraded' /\ DistributorInSync'
PROOF
  <1> USE DEF CommonInv
  <1>1. amount \in Nat /\ D!TypeOK
    BY RewardsAssumption DEF TypeOK
  <1>2. /\ sharesBalances' = [sharesBalances EXCEPT ![beneficiary] = @ + amount]
        /\ sharesSupply' = sharesSupply + amount
        /\ tradeVolume' = tradeVolume + price
    BY DEF mint
  <1>3. sharesSupply' \in Nat /\ sharesBalances' \in [Addresses -> Nat] /\ tradeVolume' \in Nat
    BY <1>1, <1>2 DEF TypeOK, SharesTypeOK
  <1>4. D!TypeOK' /\ DebtCovered'
    BY <1>1, NotifyStep
  <1>5. ASSUME destination # NoAddress
        PROVE  /\ totalShares = sharesSupply
               /\ \A a \in Addresses : userInfo[a].shares = sharesBalances[a]
    BY <1>5 DEF DistributorInSync, Unstarted
  <1>6. ASSUME destination # NoAddress
        PROVE  /\ totalShares' = sharesSupply'
               /\ \A a \in Addresses : userInfo'[a].shares = sharesBalances'[a]
    <2>1. /\ totalShares' = totalShares + amount
          /\ userInfo'[beneficiary].shares = userInfo[beneficiary].shares + amount
          /\ \A a \in Addresses \ {beneficiary} : userInfo'[a] = userInfo[a]
      <3>1. totalShares' = totalShares + amount
        BY <1>1, <1>6, NotifyStep
      <3>2. userInfo'[beneficiary].shares = userInfo[beneficiary].shares + amount
        BY <1>1, <1>6, NotifyStep
      <3>3. \A a \in Addresses \ {beneficiary} : userInfo'[a] = userInfo[a]
        BY <1>1, <1>6, NotifyStep
      <3> QED
        BY <3>1, <3>2, <3>3
    <2>2. /\ sharesBalances'[beneficiary] = sharesBalances[beneficiary] + amount
          /\ \A a \in Addresses \ {beneficiary} : sharesBalances'[a] = sharesBalances[a]
      BY <1>2 DEF TypeOK, SharesTypeOK
    <2> QED
      BY <1>2, <1>5, <1>6, <2>1, <2>2
  <1>7. ASSUME destination # NoAddress, sharesSupply' > 0
        PROVE  sharesContractAddress' = ThisContract
    <2>1. CASE amount # 0
      BY <1>1, <1>7, <2>1, NotifyStep
    <2>2. CASE amount = 0
      <3>1. sharesSupply > 0
        BY <1>2, <1>7, <2>2 DEF TypeOK, SharesTypeOK
      <3>2. sharesContractAddress = ThisContract
        BY <1>7, <3>1 DEF Unstarted, BoundWhenTraded
      <3> QED
        BY <1>1, <1>7, <3>2, NotifyStep
    <2> QED
      BY <2>1, <2>2
  <1>8. Unstarted' /\ BoundWhenTraded' /\ DistributorInSync'
    BY <1>6, <1>7 DEF Unstarted, BoundWhenTraded, DistributorInSync
  <1> QED
    BY <1>3, <1>4, <1>8

\* A sale of less than all the shares
LEMMA BurnKeeps ==
    ASSUME CommonInv, NEW sender \in Accounts, NEW amount \in Amounts,
           NEW price \in Nat, NEW fee \in Nat,
           burn(sender, amount, price),
           notifyDistributor(holdersFeeDestination, fee, sender, FALSE, amount),
           sharesSupply > amount, sharesBalances[sender] >= amount,
           UNCHANGED <<initialized, holdersFeeDestination>>
    PROVE  /\ sharesSupply' \in Nat /\ sharesBalances' \in [Addresses -> Nat] /\ tradeVolume' \in Nat
           /\ D!TypeOK'
           /\ DebtCovered' /\ Unstarted' /\ BoundWhenTraded' /\ DistributorInSync'
PROOF
  <1> USE DEF CommonInv
  <1>1. amount \in Nat /\ D!TypeOK /\ sender \in Addresses
    BY RewardsAssumption DEF TypeOK, Addresses
  <1>2. /\ sharesBalances' = [sharesBalances EXCEPT ![sender] = @ - amount]
        /\ sharesSupply' = sharesSupply - amount
        /\ tradeVolume' = tradeVolume + price
    BY DEF burn
  <1>3. /\ sharesBalances'[sender] = sharesBalances[sender] - amount
        /\ \A a \in Addresses \ {sender} : sharesBalances'[a] = sharesBalances[a]
    BY <1>1, <1>2 DEF TypeOK, SharesTypeOK
  <1>4. sharesSupply' \in Nat /\ sharesBalances' \in [Addresses -> Nat] /\ tradeVolume' \in Nat
    <2>1. sharesBalances[sender] - amount \in Nat
      BY <1>1 DEF TypeOK, SharesTypeOK
    <2> QED
      BY <1>1, <1>2, <2>1 DEF TypeOK, SharesTypeOK
  <1>5. D!TypeOK' /\ DebtCovered'
    BY <1>1, NotifyStep
  <1>6. ASSUME holdersFeeDestination # NoAddress
        PROVE  /\ totalShares' = sharesSupply'
               /\ \A a \in Addresses : userInfo'[a].shares = sharesBalances'[a]
               /\ sharesContractAddress' = ThisContract
    <2>1. /\ totalShares' = totalShares - amount
          /\ userInfo'[sender].shares = userInfo[sender].shares - amount
          /\ \A a \in Addresses \ {sender} : userInfo'[a] = userInfo[a]
          /\ sharesContractAddress' = sharesContractAddress
      <3>1. totalShares' = totalShares - amount
        BY <1>1, <1>6, NotifyStep
      <3>2. userInfo'[sender].shares = userInfo[sender].shares - amount
        BY <1>1, <1>6, NotifyStep
      <3>3. \A a \in Addresses \ {sender} : userInfo'[a] = userInfo[a]
        BY <1>1, <1>6, NotifyStep
      <3>4. sharesContractAddress' = sharesContractAddress
        BY <1>1, <1>6, NotifyStep
      <3> QED
        BY <3>1, <3>2, <3>3, <3>4
    <2>2. sharesContractAddress = ThisContract
      BY <1>1, <1>6 DEF BoundWhenTraded, TypeOK, SharesTypeOK
    <2> QED
      BY <1>2, <1>3, <1>6, <2>1, <2>2 DEF DistributorInSync
  <1>7. Unstarted' /\ BoundWhenTraded' /\ DistributorInSync'
    <2>1. initialized
      BY <1>1 DEF Unstarted, TypeOK, SharesTypeOK
    <2> QED
      BY <1>6, <2>1 DEF Unstarted, BoundWhenTraded, DistributorInSync
  <1> QED
    BY <1>4, <1>5, <1>7

\* A holder of shares passes the sync check of the distributor when it sells.
LEMMA SalesSync ==
    ASSUME CommonInv, NEW sender \in Addresses, NEW amount \in Nat, NEW fee \in Nat,
           sharesSupply > amount, sharesBalances[sender] >= amount,
           SyncRequired(holdersFeeDestination, amount)
    PROVE  D!SyncPasses(ThisContract, fee, sender, FALSE, amount)
PROOF
  <1> USE DEF CommonInv
  <1>1. holdersFeeDestination # NoAddress
    BY DEF SyncRequired
  <1>2. /\ totalShares = sharesSupply
        /\ userInfo[sender].shares = sharesBalances[sender]
    BY <1>1 DEF DistributorInSync
  <1>3. sharesContractAddress = ThisContract
    BY <1>1 DEF BoundWhenTraded, TypeOK, SharesTypeOK
  <1>4. D!Unsettled(userInfo[sender], D!Accept(accRewardPerShare, totalShares, fee)) >= 0
    <2> DEFINE new == D!Accept(accRewardPerShare, totalShares, fee)
    <2>1. /\ userInfo[sender] \in D!UserInfo /\ accRewardPerShare \in Nat /\ totalShares \in Nat
          /\ D!Unsettled(userInfo[sender], accRewardPerShare) >= 0
      BY DEF TypeOK, D!TypeOK, DebtCovered
    <2>2. new \in Nat /\ accRewardPerShare <= new
      BY <2>1, AcceptGrows
    <2>3. userInfo[sender].shares \in Nat /\ userInfo[sender].rewardDebt \in Nat
      BY <2>1 DEF D!UserInfo
    <2> HIDE DEF new
    <2>4. /\ D!Accumulated(userInfo[sender].shares, accRewardPerShare)
                <= D!Accumulated(userInfo[sender].shares, new)
          /\ D!Accumulated(userInfo[sender].shares, accRewardPerShare) \in Nat
          /\ D!Accumulated(userInfo[sender].shares, new) \in Nat
      BY <2>1, <2>2, <2>3, AccumulatedMonotone, AccumulatedNat
    <2>5. D!Unsettled(userInfo[sender], new) >= 0
      BY <2>1, <2>3, <2>4 DEF D!Unsettled
    <2> QED
      BY <2>5 DEF new
  <1> QED
    BY <1>2, <1>3, <1>4 DEF D!SyncPasses, D!MaySync, TypeOK, SharesTypeOK
-----------------------------------------------------------------------------
(* The supply and the balances *)

\* There are finitely many 160-bit addresses, so the balances have a sum.
LEMMA AddressesFinite == IsFiniteSet(Addresses)
PROOF
  <1>1. Addresses = (Accounts \cup {NoAddress}) \cup {ThisContract}
    BY DEF Addresses
  <1> QED
    BY <1>1, SharesAssumption, FS_AddElement

\* The sum of all balances is the sum over the addresses.
LEMMA TotalOfBalances ==
    ASSUME NEW b \in [Addresses -> Nat]
    PROVE  SumFunction(b) = Sum(b, Addresses)
PROOF
  <1>1. DOMAIN b = Addresses
    OBVIOUS
  <1> QED
    BY <1>1, Zenon DEF SumFunction, Sum

\* What one holder gains is gained by the sum.
LEMMA OneBalanceMoves ==
    ASSUME SharesTypeOK, SupplyIsSum, NEW holder \in Addresses, NEW change \in Int,
           sharesBalances[holder] + change \in Nat,
           sharesBalances' = [sharesBalances EXCEPT ![holder] = @ + change],
           sharesSupply' = sharesSupply + change
    PROVE  SupplyIsSum'
PROOF
  <1>1. /\ sharesBalances \in [Addresses -> Nat] /\ sharesBalances' \in [Addresses -> Nat]
        /\ sharesBalances'[holder] = sharesBalances[holder] + change
        /\ \A a \in Addresses \ {holder} : sharesBalances'[a] = sharesBalances[a]
    BY DEF SharesTypeOK
  <1>2. /\ SumFunction(sharesBalances) = Sum(sharesBalances, Addresses)
        /\ SumFunction(sharesBalances') = Sum(sharesBalances', Addresses)
    BY <1>1, TotalOfBalances
  <1>3. /\ \A a \in Addresses : sharesBalances[a] \in Int /\ sharesBalances'[a] \in Int
        /\ sharesBalances'[holder] - sharesBalances[holder] = change
    BY <1>1
  <1> DEFINE before == sharesBalances
             after  == sharesBalances'
  <1>4. /\ \A a \in Addresses : before[a] \in Int /\ after[a] \in Int
        /\ \A a \in Addresses \ {holder} : after[a] = before[a]
    BY <1>1, <1>3
  <1> HIDE DEF before, after
  <1>5. /\ Sum(after, Addresses) = Sum(before, Addresses) + after[holder] - before[holder]
        /\ Sum(before, Addresses) \in Int
    <2>1. Addresses \in SUBSET Addresses
      OBVIOUS
    <2> QED
      BY <1>4, <2>1, AddressesFinite, SumUpdate, SumIsInt, Zenon
  <1>6. Sum(after, Addresses) = Sum(before, Addresses) + change
    BY <1>3, <1>4, <1>5 DEF before, after
  <1> QED
    BY <1>2, <1>6 DEF SupplyIsSum, before, after

\* A buy credits one holder and the supply with the same amount.
LEMMA MintAddsUp ==
    ASSUME SharesTypeOK, SupplyIsSum, NEW holder \in Addresses, NEW amount \in Nat,
           NEW price, mint(holder, amount, price)
    PROVE  SupplyIsSum'
PROOF
  <1>1. sharesBalances[holder] + amount \in Nat /\ amount \in Int
    BY DEF SharesTypeOK
  <1>2. /\ sharesBalances' = [sharesBalances EXCEPT ![holder] = @ + amount]
        /\ sharesSupply' = sharesSupply + amount
    BY DEF mint
  <1> QED
    BY <1>1, <1>2, OneBalanceMoves

\* A sale takes from one holder, and from the supply, the amount the holder has.
LEMMA BurnAddsUp ==
    ASSUME SharesTypeOK, SupplyIsSum, NEW holder \in Addresses, NEW amount \in Nat,
           sharesBalances[holder] >= amount,
           NEW price, burn(holder, amount, price)
    PROVE  SupplyIsSum'
PROOF
  <1> DEFINE change == -amount
  <1>1. change \in Int /\ sharesBalances[holder] + change \in Nat
    BY DEF SharesTypeOK
  <1>2. sharesBalances' = [sharesBalances EXCEPT ![holder] = @ + change]
    <2>1. sharesBalances[holder] \in Nat
      BY DEF SharesTypeOK
    <2>2. sharesBalances[holder] - amount = sharesBalances[holder] + change
      BY <2>1
    <2> QED
      BY <2>2 DEF burn
  <1>3. sharesSupply' = sharesSupply + change
    BY DEF burn, SharesTypeOK
  <1> HIDE DEF change
  <1> QED
    BY <1>1, <1>2, <1>3, OneBalanceMoves

\* Nobody has any of no shares.
LEMMA InitAddsUp == Init => SupplyIsSum
PROOF
  <1> SUFFICES ASSUME Init PROVE SupplyIsSum
    OBVIOUS
  <1>1. sharesSupply = 0 /\ sharesBalances = [a \in Addresses |-> 0]
    BY DEF Init, SharesInit
  <1>2. /\ sharesBalances \in [Addresses -> Nat]
        /\ \A a \in Addresses : sharesBalances[a] = 0
    BY <1>1
  <1>3. Sum(sharesBalances, Addresses) = 0
    BY <1>2, AddressesFinite, SumZero
  <1> QED
    BY <1>1, <1>2, <1>3, TotalOfBalances DEF SupplyIsSum
===============================================================================
