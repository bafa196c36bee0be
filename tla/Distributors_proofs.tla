------------------------- MODULE Distributors_proofs -------------------------
(***************************************************************************)
(* Who divides money, for every number of users, shares, fees and          *)
(* recipients, and every precision.  First the holders rewards             *)
(* distributor: it is solvent, and what it owes adds up.  Then the         *)
(* protocol's funds, from the fee distributor to the reward system:        *)
(* nothing is lost on the way, and nobody is paid more than was granted.   *)
(***************************************************************************)
EXTENDS RewardsAccounting, ProtocolFunds, FiniteSums

IInv == AccountingTypeOK /\ DebtCovered
-----------------------------------------------------------------------------
(* Integer division *)

\* A product of naturals is a natural.
LEMMA ProductIsNat ==
    ASSUME NEW a \in Nat, NEW b \in Nat
    PROVE  a * b \in Nat
  BY SMT

\* Integer division is the largest multiple that fits.
LEMMA QuotientBounds ==
    ASSUME NEW a \in Nat, NEW n \in Nat \ {0}
    PROVE  /\ a \div n \in Nat
           /\ n * (a \div n) <= a
           /\ a < n * (a \div n) + n
  BY SMT

\* A larger dividend gives no smaller quotient.
LEMMA QuotientGrows ==
    ASSUME NEW a \in Nat, NEW b \in Nat, NEW n \in Nat \ {0}, a <= b
    PROVE  a \div n <= b \div n
  BY SMT

\* What two divisions round off is less than two units, so that they differ from the
\* division of the difference by at most one.
LEMMA QuotientOfDifference ==
    ASSUME NEW a \in Nat, NEW d \in Nat, NEW n \in Nat \ {0}
    PROVE  n * ((a + d) \div n - a \div n - 1) <= d
PROOF
  <1> DEFINE q == (a + d) \div n
             r == a \div n
  <1>1. q \in Nat /\ n * q <= a + d
    BY QuotientBounds
  <1>2. r \in Nat /\ a < n * r + n
    BY QuotientBounds
  <1> HIDE DEF q, r
  <1>3. n * (q - r - 1) = n * q - (n * r + n)
    BY <1>1, <1>2, SMT
  <1>4. n * q \in Nat /\ n * r \in Nat
    BY <1>1, <1>2, ProductIsNat
  <1> QED
    BY <1>1, <1>2, <1>3, <1>4 DEF q, r

\* Nor are they less by as much as one.
LEMMA QuotientsFallShort ==
    ASSUME NEW a \in Nat, NEW d \in Nat, NEW n \in Nat \ {0}
    PROVE  d <= n * ((a + d) \div n - a \div n + 1)
PROOF
  <1> DEFINE q == (a + d) \div n
             r == a \div n
  <1>1. q \in Nat /\ a + d < n * q + n
    BY QuotientBounds
  <1>2. r \in Nat /\ n * r <= a
    BY QuotientBounds
  <1> HIDE DEF q, r
  <1>3. n * (q - r + 1) = (n * q + n) - n * r
    BY <1>1, <1>2, SMT
  <1>4. n * q \in Nat /\ n * r \in Nat
    BY <1>1, <1>2, ProductIsNat
  <1> QED
    BY <1>1, <1>2, <1>3, <1>4 DEF q, r
-----------------------------------------------------------------------------
(* Shares and rates *)

\* What shares have accumulated is a natural number that grows with the rate.
LEMMA AccumulatedGrows ==
    ASSUME NEW shares \in Nat, NEW acc \in Nat, NEW acc2 \in Nat, acc <= acc2
    PROVE  /\ Accumulated(shares, acc) \in Nat
           /\ Accumulated(shares, acc2) \in Nat
           /\ Accumulated(shares, acc) <= Accumulated(shares, acc2)
PROOF
  <1>1. shares * acc \in Nat /\ shares * acc2 \in Nat /\ shares * acc <= shares * acc2
    BY SMT
  <1> QED
    BY <1>1, QuotientBounds, QuotientGrows, DistributorAssumption DEF Accumulated

\* The same for one rate.
LEMMA AccumulatedNat ==
    ASSUME NEW shares \in Nat, NEW acc \in Nat
    PROVE  Accumulated(shares, acc) \in Nat
  BY AccumulatedGrows

\* Accepting a fee never lowers the rate.
LEMMA AcceptGrows ==
    ASSUME NEW acc \in Nat, NEW total \in Nat, NEW fee \in Nat
    PROVE  Accept(acc, total, fee) \in Nat /\ acc <= Accept(acc, total, fee)
PROOF
  <1>1. CASE fee = 0 \/ total = 0
    BY <1>1 DEF Accept
  <1>2. CASE ~(fee = 0 \/ total = 0)
    <2>1. fee * RewardScale \in Nat
      BY ProductIsNat, DistributorAssumption
    <2>2. (fee * RewardScale) \div total \in Nat
      BY <1>2, <2>1, QuotientBounds
    <2> QED
      BY <1>2, <2>2 DEF Accept
  <1> QED
    BY <1>1, <1>2

\* The part of a fee that shares earn is at most the fee by the shares, but for one
\* unit: the two divisions on the way cannot favour anybody by more.
LEMMA EarnedInProportion ==
    ASSUME NEW shares \in Nat, NEW acc \in Nat, NEW total \in Nat \ {0}, NEW fee \in Nat
    PROVE  (Accumulated(shares, Accept(acc, total, fee)) - Accumulated(shares, acc) - 1) * total
              <= fee * shares
PROOF
  <1> DEFINE step   == (fee * RewardScale) \div total
             earned == Accumulated(shares, acc + step) - Accumulated(shares, acc) - 1
  <1>0. RewardScale \in Nat \ {0}
    BY DistributorAssumption
  <1>1. step \in Nat /\ total * step <= fee * RewardScale
    BY <1>0, ProductIsNat, QuotientBounds
  <1> HIDE DEF step
  <1>2. Accept(acc, total, fee) = acc + step
    <2>1. CASE fee = 0
      <3>1. step = 0
        <4>1. fee * RewardScale = 0
          BY <1>0, <2>1
        <4> QED
          BY <4>1 DEF step
      <3> QED
        BY <2>1, <3>1 DEF Accept
    <2>2. CASE fee # 0
      BY <2>2 DEF Accept, step
    <2> QED
      BY <2>1, <2>2
  <1>3. /\ shares * acc \in Nat /\ shares * step \in Nat
        /\ shares * (acc + step) = shares * acc + shares * step
    BY <1>1, SMT
  <1>4. earned \in Int /\ RewardScale * earned <= shares * step
    <2>1. Accumulated(shares, acc + step) = (shares * acc + shares * step) \div RewardScale
      BY <1>3 DEF Accumulated
    <2>2. Accumulated(shares, acc + step) \in Nat /\ Accumulated(shares, acc) \in Nat
      <3>1. acc + step \in Nat
        BY <1>1
      <3> QED
        BY <3>1, AccumulatedNat
    <2>3. RewardScale * ((shares * acc + shares * step) \div RewardScale
                           - (shares * acc) \div RewardScale - 1) <= shares * step
      BY <1>0, <1>3, QuotientOfDifference
    <2> QED
      BY <2>1, <2>2, <2>3 DEF Accumulated
  <1> HIDE DEF earned
  <1>5. RewardScale * (earned * total) <= RewardScale * (fee * shares)
    <2>1. (RewardScale * earned) * total <= (shares * step) * total
      <3>1. ASSUME NEW x \in Int, NEW y \in Int, x <= y PROVE x * total <= y * total
        BY <3>1, SMT
      <3>2. RewardScale * earned \in Int
        BY <1>0, <1>4, SMT
      <3> QED
        BY <1>3, <1>4, <3>1, <3>2
    <2>2. (shares * step) * total = shares * (total * step)
      BY <1>1, SMT
    <2>3. shares * (total * step) <= shares * (fee * RewardScale)
      <3>1. total * step \in Nat /\ fee * RewardScale \in Nat
        BY <1>0, <1>1, ProductIsNat
      <3>2. ASSUME NEW x \in Nat, NEW y \in Nat, x <= y PROVE shares * x <= shares * y
        BY <3>2, SMT
      <3> QED
        BY <1>1, <3>1, <3>2
    <2>4. shares * (fee * RewardScale) = RewardScale * (fee * shares)
      BY <1>0, SMT
    <2>5. (RewardScale * earned) * total = RewardScale * (earned * total)
      BY <1>0, <1>4, SMT
    <2>6. (shares * step) * total \in Int /\ shares * (fee * RewardScale) \in Int
          /\ RewardScale * (earned * total) \in Int
      BY <1>0, <1>1, <1>4, SMT
    <2> QED
      BY <2>1, <2>2, <2>3, <2>4, <2>5, <2>6
  <1>6. earned * total <= fee * shares
    <2>1. ASSUME NEW n \in Nat \ {0}, NEW x \in Int, NEW y \in Int, n * x <= n * y
          PROVE  x <= y
      BY <2>1, SMT
    <2>2. earned * total \in Int /\ fee * shares \in Int
      BY <1>4, SMT
    <2> QED
      BY <1>0, <1>5, <2>1, <2>2
  <1> QED
    BY <1>2, <1>6 DEF earned

\* Nor is it less by more than one unit, and by the part of a unit that the rate of a
\* share was rounded down by, for each of the shares.
LEMMA EarnedInFull ==
    ASSUME NEW shares \in Nat, NEW acc \in Nat, NEW total \in Nat \ {0}, NEW fee \in Nat
    PROVE  fee * shares * RewardScale
              <= (Accumulated(shares, Accept(acc, total, fee)) - Accumulated(shares, acc) + 1)
                     * total * RewardScale
                 + shares * total
PROOF
  <1> DEFINE step   == (fee * RewardScale) \div total
             earned == Accumulated(shares, acc + step) - Accumulated(shares, acc) + 1
  <1>0. RewardScale \in Nat \ {0} /\ fee * RewardScale \in Nat
    BY DistributorAssumption, ProductIsNat
  <1>1. step \in Nat /\ fee * RewardScale <= total * step + total
    BY <1>0, QuotientBounds
  <1>2. Accept(acc, total, fee) = acc + step
    <2>1. CASE fee = 0
      <3>1. step = 0
        <4>1. fee * RewardScale = 0
          BY <1>0, <2>1
        <4> QED
          BY <4>1 DEF step
      <3> QED
        BY <2>1, <3>1 DEF Accept
    <2>2. CASE fee # 0
      BY <2>2 DEF Accept, step
    <2> QED
      BY <2>1, <2>2
  <1> HIDE DEF step
  <1>3. /\ shares * acc \in Nat /\ shares * step \in Nat
        /\ shares * (acc + step) = shares * acc + shares * step
    BY <1>1, SMT
  <1>4. earned \in Int /\ shares * step <= RewardScale * earned
    <2>1. Accumulated(shares, acc + step) = (shares * acc + shares * step) \div RewardScale
      BY <1>3 DEF Accumulated
    <2>2. Accumulated(shares, acc + step) \in Nat /\ Accumulated(shares, acc) \in Nat
      <3>1. acc + step \in Nat
        BY <1>1
      <3> QED
        BY <3>1, AccumulatedNat
    <2>3. shares * step <= RewardScale * ((shares * acc + shares * step) \div RewardScale
                                            - (shares * acc) \div RewardScale + 1)
      BY <1>0, <1>3, QuotientsFallShort
    <2> QED
      BY <2>1, <2>2, <2>3 DEF Accumulated
  <1> HIDE DEF earned
  <1>5. (shares * step) * total <= earned * total * RewardScale
    <2>1. ASSUME NEW x \in Int, NEW y \in Int, x <= y PROVE x * total <= y * total
      BY <2>1, SMT
    <2>2. RewardScale * earned \in Int
      BY <1>0, <1>4, SMT
    <2>3. (shares * step) * total <= (RewardScale * earned) * total
      BY <1>3, <1>4, <2>1, <2>2
    <2>4. (RewardScale * earned) * total = earned * total * RewardScale
      BY <1>0, <1>4, SMT
    <2> QED
      BY <2>3, <2>4
  <1>6. fee * shares * RewardScale <= (shares * step) * total + shares * total
    <2>1. total * step \in Nat
      BY <1>1, ProductIsNat
    <2>2. ASSUME NEW x \in Nat, NEW y \in Nat, x <= y PROVE shares * x <= shares * y
      BY <2>2, SMT
    <2>3. shares * (fee * RewardScale) <= shares * (total * step + total)
      BY <1>0, <1>1, <2>1, <2>2
    <2>4. shares * (fee * RewardScale) = fee * shares * RewardScale
      BY <1>0, SMT
    <2>5. shares * (total * step + total) = (shares * step) * total + shares * total
      BY <1>1, SMT
    <2> QED
      BY <2>3, <2>4, <2>5
  <1>7. /\ fee * shares * RewardScale \in Int /\ (shares * step) * total \in Int
        /\ shares * total \in Int /\ earned * total * RewardScale \in Int
    BY <1>0, <1>1, <1>4, SMT
  <1>8. fee * shares * RewardScale <= earned * total * RewardScale + shares * total
    BY <1>5, <1>6, <1>7
  <1> QED
    BY <1>2, <1>8 DEF earned

\* Settling a user moves all it has earned to the unclaimed amount and leaves it
\* without debt.
LEMMA UserSettled ==
    ASSUME NEW user \in UserInfo, NEW acc \in Nat, NEW newShares \in Nat,
           Unsettled(user, acc) >= 0
    PROVE  /\ Settle(user, acc, newShares) \in UserInfo
           /\ Settle(user, acc, newShares).unclaimedAmount = user.unclaimedAmount + Unsettled(user, acc)
           /\ Settle(user, acc, newShares).claimedAmount = user.claimedAmount
           /\ Unsettled(Settle(user, acc, newShares), acc) = 0
PROOF
  <1>1. Accumulated(user.shares, acc) \in Nat /\ Accumulated(newShares, acc) \in Nat
    BY AccumulatedNat DEF UserInfo
  <1>2. Unsettled(user, acc) \in Nat
    BY <1>1 DEF UserInfo, Unsettled
  <1> QED
    BY <1>1, <1>2 DEF Settle, UserInfo, Unsettled

\* The same for a buyer: without shares it has earned nothing since it was settled.
LEMMA BuyerSettled ==
    ASSUME NEW user \in UserInfo, NEW acc \in Nat, NEW amount \in Nat,
           Unsettled(user, acc) >= 0
    PROVE  /\ SharesBought(user, acc, amount) \in UserInfo
           /\ SharesBought(user, acc, amount).unclaimedAmount = user.unclaimedAmount + Unsettled(user, acc)
           /\ SharesBought(user, acc, amount).claimedAmount = user.claimedAmount
           /\ Unsettled(SharesBought(user, acc, amount), acc) = 0
PROOF
  <1>1. CASE user.shares > 0
    <2>1. user.shares + amount \in Nat
      BY DEF UserInfo
    <2>2. SharesBought(user, acc, amount) = Settle(user, acc, user.shares + amount)
      BY <1>1 DEF SharesBought
    <2> QED
      BY <2>1, <2>2, UserSettled
  <1>2. CASE user.shares = 0
    <2>1. Accumulated(amount, acc) \in Nat
      BY AccumulatedNat
    <2>2. Accumulated(user.shares, acc) = 0
      <3>1. user.shares * acc = 0
        BY <1>2
      <3> QED
        BY <3>1, DistributorAssumption DEF Accumulated
    <2>3. Unsettled(user, acc) = 0
      BY <2>2 DEF Unsettled, UserInfo
    <2> QED
      BY <1>2, <2>1, <2>3 DEF SharesBought, UserInfo, Unsettled
  <1> QED
    BY <1>1, <1>2 DEF UserInfo
-----------------------------------------------------------------------------
(* Operations *)

\* What a step that brings money does to the reward of every user: its debt is
\* covered at a rate that is not lower, and what it is owed is what its old shares
\* have earned by then.
Accrued(a) ==
    Pending(a)' = userInfo[a].unclaimedAmount + Unsettled(userInfo[a], accRewardPerShare')

\* A user nothing was done to accrues by the rate alone.
LEMMA UntouchedAccrues ==
    ASSUME TypeOK, DebtCovered, NEW a \in Addresses, userInfo'[a] = userInfo[a],
           accRewardPerShare' \in Nat, accRewardPerShare <= accRewardPerShare'
    PROVE  /\ Accrued(a)
           /\ Pending(a) <= Pending(a)'
           /\ Unsettled(userInfo'[a], accRewardPerShare') >= 0
PROOF
  <1>1. userInfo[a] \in UserInfo /\ Unsettled(userInfo[a], accRewardPerShare) >= 0
        /\ accRewardPerShare \in Nat
    BY DEF TypeOK, DebtCovered
  <1>2. /\ Accumulated(userInfo[a].shares, accRewardPerShare) \in Nat
        /\ Accumulated(userInfo[a].shares, accRewardPerShare') \in Nat
        /\ Accumulated(userInfo[a].shares, accRewardPerShare)
              <= Accumulated(userInfo[a].shares, accRewardPerShare')
    BY <1>1, AccumulatedGrows DEF UserInfo
  <1>3. Accrued(a)
    BY DEF Accrued, Pending, Unsettled, Accumulated
  <1>4. Pending(a) = userInfo[a].unclaimedAmount + Unsettled(userInfo[a], accRewardPerShare)
    BY DEF Pending
  <1>5. /\ Unsettled(userInfo[a], accRewardPerShare)
              = Accumulated(userInfo[a].shares, accRewardPerShare) - userInfo[a].rewardDebt
        /\ Unsettled(userInfo[a], accRewardPerShare')
              = Accumulated(userInfo[a].shares, accRewardPerShare') - userInfo[a].rewardDebt
    BY DEF Unsettled
  <1> QED
    BY <1>1, <1>2, <1>3, <1>4, <1>5 DEF UserInfo, Accrued

\* A user that was settled at the new rate accrues the same.
LEMMA SettledAccrues ==
    ASSUME TypeOK, DebtCovered, NEW a \in Addresses,
           accRewardPerShare' \in Nat, accRewardPerShare <= accRewardPerShare',
           userInfo'[a].unclaimedAmount
              = userInfo[a].unclaimedAmount + Unsettled(userInfo[a], accRewardPerShare'),
           Unsettled(userInfo'[a], accRewardPerShare') = 0
    PROVE  Accrued(a) /\ Pending(a) <= Pending(a)'
PROOF
  <1>1. userInfo[a] \in UserInfo /\ accRewardPerShare \in Nat
    BY DEF TypeOK
  <1>2. /\ Accumulated(userInfo[a].shares, accRewardPerShare) \in Nat
        /\ Accumulated(userInfo[a].shares, accRewardPerShare') \in Nat
        /\ Accumulated(userInfo[a].shares, accRewardPerShare)
              <= Accumulated(userInfo[a].shares, accRewardPerShare')
    BY <1>1, AccumulatedGrows DEF UserInfo
  <1>3. Pending(a)' = userInfo'[a].unclaimedAmount + Unsettled(userInfo'[a], accRewardPerShare')
    BY DEF Pending, Unsettled, Accumulated
  <1>4. Unsettled(userInfo[a], accRewardPerShare') \in Int
    BY <1>1, <1>2 DEF Unsettled, UserInfo
  <1>5. Accrued(a)
    BY <1>1, <1>3, <1>4 DEF Accrued, UserInfo
  <1> QED
    BY <1>1, <1>2, <1>5 DEF Accrued, Pending, Unsettled, UserInfo

\* A trade leaves nobody in debt and takes from nobody what it has earned; but for the
\* first trade everybody accrues by the rate that the shares held before it give.
LEMMA SyncKeeps ==
    ASSUME TypeOK, DebtCovered, NEW operator, NEW fee \in Nat, NEW trader \in Addresses,
           NEW isBuy \in BOOLEAN, NEW amount \in Nat \ {0},
           sync(operator, fee, trader, isBuy, amount)
    PROVE  /\ TypeOK' /\ DebtCovered'
           /\ \A a \in Addresses : Pending(a) <= Pending(a)'
           /\ totalShares # 0 => /\ accRewardPerShare' = Accept(accRewardPerShare, totalShares, fee)
                                 /\ \A a \in Addresses : Accrued(a)
PROOF
  <1> DEFINE user == userInfo[trader]
  <1>1. /\ user \in UserInfo /\ Unsettled(user, accRewardPerShare) >= 0
        /\ accRewardPerShare \in Nat /\ totalShares \in Nat
    BY DEF TypeOK, DebtCovered
  <1>2. /\ sharesContractAddress' \in SharesContracts \cup {NoAddress}
        /\ rewardsBalance' \in Nat
    BY DEF sync, TypeOK
  <1>3. CASE ParseFirstTrade(fee, trader, amount)
    <2> DEFINE one == SharesBought(user, accRewardPerShare, 1)
               two == SharesBought(one, accRewardPerShare', amount - 1)
    <2>1. accRewardPerShare' \in Nat /\ accRewardPerShare <= accRewardPerShare'
      BY <1>1, <1>3, AcceptGrows DEF ParseFirstTrade
    <2>2. /\ one \in UserInfo /\ Unsettled(one, accRewardPerShare) = 0
          /\ one.unclaimedAmount = user.unclaimedAmount + Unsettled(user, accRewardPerShare)
      BY <1>1, BuyerSettled
    <2>3. userInfo' = [userInfo EXCEPT ![trader] = IF amount > 1 THEN two ELSE one]
      BY <1>3 DEF ParseFirstTrade
    <2>4. amount = 1 => accRewardPerShare' = accRewardPerShare
      BY <1>3 DEF ParseFirstTrade
    <2>5. Unsettled(one, accRewardPerShare') >= 0 /\ Unsettled(one, accRewardPerShare') \in Nat
      <3>1. /\ Accumulated(one.shares, accRewardPerShare) \in Nat
            /\ Accumulated(one.shares, accRewardPerShare') \in Nat
            /\ Accumulated(one.shares, accRewardPerShare)
                  <= Accumulated(one.shares, accRewardPerShare')
        BY <1>1, <2>1, <2>2, AccumulatedGrows DEF UserInfo
      <3> HIDE DEF one
      <3> QED
        BY <2>2, <3>1 DEF Unsettled, UserInfo
    <2>6. /\ two \in UserInfo /\ Unsettled(two, accRewardPerShare') = 0
          /\ two.unclaimedAmount = one.unclaimedAmount + Unsettled(one, accRewardPerShare')
      <3>1. amount - 1 \in Nat
        OBVIOUS
      <3> HIDE DEF one
      <3> QED
        BY <2>1, <2>2, <2>5, <3>1, BuyerSettled
    <2> HIDE DEF one, two
    <2>7. userInfo' \in [Addresses -> UserInfo]
      BY <2>2, <2>3, <2>6 DEF TypeOK
    <2>8. totalShares = 0 /\ totalShares' \in Nat
      BY <1>3 DEF ParseFirstTrade
    <2>9. TypeOK'
      BY <1>2, <2>1, <2>7, <2>8 DEF TypeOK
    <2>10. ASSUME NEW a \in Addresses
           PROVE  Unsettled(userInfo'[a], accRewardPerShare') >= 0 /\ Pending(a) <= Pending(a)'
      <3>1. CASE a # trader
        <4>1. userInfo'[a] = userInfo[a]
          BY <2>3, <3>1 DEF TypeOK
        <4> QED
          BY <2>1, <4>1, UntouchedAccrues
      <3>2. CASE a = trader
        <4>1. userInfo'[a] = IF amount > 1 THEN two ELSE one
          BY <2>3, <3>2 DEF TypeOK
        <4>2. Unsettled(userInfo'[a], accRewardPerShare') = 0
          BY <2>2, <2>4, <2>6, <4>1
        <4>3. userInfo'[a].unclaimedAmount >= user.unclaimedAmount + Unsettled(user, accRewardPerShare)
          BY <2>2, <2>5, <2>6, <4>1 DEF UserInfo
        <4>4. Pending(a)' = userInfo'[a].unclaimedAmount + Unsettled(userInfo'[a], accRewardPerShare')
          BY DEF Pending, Unsettled, Accumulated
        <4>5. Pending(a) = user.unclaimedAmount + Unsettled(user, accRewardPerShare)
          BY <3>2 DEF Pending
        <4>6. userInfo'[a].unclaimedAmount \in Nat
          BY <2>7 DEF UserInfo
        <4> QED
          BY <4>2, <4>3, <4>4, <4>5, <4>6
      <3> QED
        BY <3>1, <3>2
    <2>11. DebtCovered'
      BY <2>10 DEF DebtCovered, Unsettled, Accumulated
    <2> QED
      BY <2>8, <2>9, <2>10, <2>11
  <1>4. CASE ParseNextTrade(fee, trader, isBuy, amount)
    <2> DEFINE settled == IF isBuy THEN SharesBought(user, accRewardPerShare', amount)
                                   ELSE SharesSold(user, accRewardPerShare', amount)
    <2>1. /\ accRewardPerShare' \in Nat /\ accRewardPerShare <= accRewardPerShare'
          /\ accRewardPerShare' = Accept(accRewardPerShare, totalShares, fee)
      BY <1>1, <1>4, AcceptGrows DEF ParseNextTrade
    <2>2. userInfo' = [userInfo EXCEPT ![trader] = settled]
      BY <1>4 DEF ParseNextTrade
    <2>3. /\ totalShares # 0
          /\ Unsettled(user, accRewardPerShare') >= 0
          /\ ~isBuy => amount <= user.shares /\ amount <= totalShares
      BY <1>4, <2>1 DEF sync, SyncPasses, ParseNextTrade
    <2>4. /\ settled \in UserInfo /\ Unsettled(settled, accRewardPerShare') = 0
          /\ settled.unclaimedAmount = user.unclaimedAmount + Unsettled(user, accRewardPerShare')
      <3>1. CASE isBuy
        BY <1>1, <2>1, <2>3, <3>1, BuyerSettled
      <3>2. CASE ~isBuy
        <4>1. user.shares - amount \in Nat
          BY <1>1, <2>3, <3>2 DEF UserInfo
        <4>2. settled = Settle(user, accRewardPerShare', user.shares - amount)
          BY <3>2 DEF SharesSold
        <4> QED
          BY <1>1, <2>1, <2>3, <4>1, <4>2, UserSettled
      <3> QED
        BY <3>1, <3>2
    <2> HIDE DEF settled
    <2>5. userInfo' \in [Addresses -> UserInfo]
      BY <2>2, <2>4 DEF TypeOK
    <2>6. totalShares' \in Nat
      BY <1>1, <1>4, <2>3 DEF ParseNextTrade
    <2>7. TypeOK'
      BY <1>2, <2>1, <2>5, <2>6 DEF TypeOK
    <2>8. ASSUME NEW a \in Addresses
          PROVE  /\ Unsettled(userInfo'[a], accRewardPerShare') >= 0
                 /\ Accrued(a) /\ Pending(a) <= Pending(a)'
      <3>1. CASE a # trader
        <4>1. userInfo'[a] = userInfo[a]
          BY <2>2, <3>1 DEF TypeOK
        <4> QED
          BY <2>1, <4>1, UntouchedAccrues
      <3>2. CASE a = trader
        <4>1. userInfo'[a] = settled
          BY <2>2, <3>2 DEF TypeOK
        <4> QED
          BY <2>1, <2>4, <3>2, <4>1, SettledAccrues
      <3> QED
        BY <3>1, <3>2
    <2>9. DebtCovered'
      BY <2>8 DEF DebtCovered, Unsettled, Accumulated
    <2> QED
      BY <2>1, <2>7, <2>8, <2>9
  <1> QED
    BY <1>3, <1>4 DEF sync

\* An additional reward leaves the shares alone and raises the rate.
LEMMA DonateKeeps ==
    ASSUME TypeOK, DebtCovered, NEW sender, NEW value \in Nat, donate(sender, value)
    PROVE  /\ TypeOK' /\ DebtCovered'
           /\ \A a \in Addresses : Accrued(a) /\ Pending(a) <= Pending(a)'
PROOF
  <1>1. /\ accRewardPerShare' \in Nat /\ accRewardPerShare <= accRewardPerShare'
        /\ userInfo' = userInfo
    BY AcceptGrows DEF donate, TypeOK
  <1>2. TypeOK'
    BY <1>1 DEF donate, TypeOK
  <1>3. \A a \in Addresses : /\ Accrued(a) /\ Pending(a) <= Pending(a)'
                             /\ Unsettled(userInfo'[a], accRewardPerShare') >= 0
    BY <1>1, UntouchedAccrues
  <1> QED
    BY <1>2, <1>3 DEF DebtCovered, Unsettled, Accumulated

\* A claim empties what is owed to the claimer, counts it as claimed, and leaves
\* everybody else alone.
LEMMA ClaimKeeps ==
    ASSUME TypeOK, DebtCovered, NEW holder \in Addresses, claimTheReward(holder)
    PROVE  /\ TypeOK' /\ DebtCovered' /\ rewardsBalance' < rewardsBalance
           /\ userInfo'[holder].claimedAmount > userInfo[holder].claimedAmount
           /\ \A a \in Addresses \ {holder} : Pending(a)' = Pending(a)
PROOF
  <1> DEFINE user == userInfo[holder]
             emptied == [shares          |-> user.shares,
                         rewardDebt      |-> Accumulated(user.shares, accRewardPerShare),
                         claimedAmount   |-> user.claimedAmount + pendingReward(holder),
                         unclaimedAmount |-> 0]
  <1>1. /\ user \in UserInfo /\ accRewardPerShare \in Nat /\ rewardsBalance \in Nat
        /\ Accumulated(user.shares, accRewardPerShare) \in Nat
    BY AccumulatedNat DEF TypeOK, UserInfo
  <1>2. Pending(holder) \in Nat
    BY <1>1 DEF DebtCovered, Pending, Unsettled, UserInfo
  <1>3. pendingReward(holder) \in Nat /\ pendingReward(holder) <= rewardsBalance
    BY <1>1, <1>2 DEF pendingReward
  <1>4. /\ pendingReward(holder) > 0
        /\ userInfo' = [userInfo EXCEPT ![holder] = emptied]
        /\ rewardsBalance' = rewardsBalance - pendingReward(holder)
        /\ UNCHANGED <<sharesContractAddress, accRewardPerShare, totalShares>>
    BY DEF claimTheReward
  <1>5. emptied \in UserInfo /\ Unsettled(emptied, accRewardPerShare) = 0
    BY <1>1, <1>3 DEF UserInfo, Unsettled
  <1>6. emptied.claimedAmount > user.claimedAmount
    BY <1>1, <1>3, <1>4 DEF UserInfo
  <1> HIDE DEF emptied
  <1>7. TypeOK'
    BY <1>1, <1>3, <1>4, <1>5 DEF TypeOK
  <1>8. userInfo'[holder] = emptied /\ \A a \in Addresses \ {holder} : userInfo'[a] = userInfo[a]
    BY <1>4 DEF TypeOK
  <1>9. \A a \in Addresses : Unsettled(userInfo'[a], accRewardPerShare') >= 0
    BY <1>4, <1>5, <1>8 DEF DebtCovered
  <1>10. DebtCovered'
    BY <1>9 DEF DebtCovered, Unsettled, Accumulated
  <1>11. \A a \in Addresses \ {holder} : Pending(a)' = Pending(a)
    BY <1>4, <1>8 DEF Pending, Unsettled, Accumulated
  <1> QED
    BY <1>1, <1>3, <1>4, <1>6, <1>7, <1>8, <1>10, <1>11
-----------------------------------------------------------------------------
(* The invariant and the action properties *)

\* One step of RewardsKept and of FairSplit
KeptStep ==
    \A a \in Addresses :
        Pending(a)' < Pending(a) => userInfo'[a].claimedAmount > userInfo[a].claimedAmount

FairStep ==
    \A a \in Addresses : totalShares # 0 /\ rewardsBalance' > rewardsBalance =>
        LET arrived  == rewardsBalance' - rewardsBalance
            gain     == Pending(a)' - Pending(a)
            held     == userInfo[a].shares
        IN  /\ (gain - 1) * totalShares <= arrived * held
            /\ arrived * held * RewardScale
                  <= (gain + 1) * totalShares * RewardScale + held * totalShares

PendingNat == \A a \in Addresses : Pending(a) \in Nat

\* What is owed is a natural number as long as nobody is in debt.
LEMMA PendingIsNat == TypeOK /\ DebtCovered => PendingNat
PROOF
  <1> SUFFICES ASSUME TypeOK, DebtCovered, NEW a \in Addresses PROVE Pending(a) \in Nat
    BY DEF PendingNat
  <1>1. userInfo[a] \in UserInfo /\ accRewardPerShare \in Nat
    BY DEF TypeOK
  <1>2. Accumulated(userInfo[a].shares, accRewardPerShare) \in Nat
    BY <1>1, AccumulatedNat DEF UserInfo
  <1> QED
    BY <1>1, <1>2 DEF DebtCovered, Pending, Unsettled, UserInfo

\* The same after a step.
LEMMA PendingStaysNat == TypeOK' /\ DebtCovered' => \A a \in Addresses : Pending(a)' \in Nat
PROOF
  <1>1. TypeOK' /\ DebtCovered' => PendingNat'
    BY PendingIsNat, PTL
  <1> QED
    BY <1>1 DEF PendingNat, Pending, Unsettled, Accumulated

\* Users that accrue by the rate alone share what has arrived fairly.
LEMMA AccrualIsFair ==
    ASSUME TypeOK, DebtCovered, NEW fee \in Nat, totalShares # 0,
           rewardsBalance' = rewardsBalance + fee,
           accRewardPerShare' = Accept(accRewardPerShare, totalShares, fee),
           \A a \in Addresses : Accrued(a)
    PROVE  FairStep
PROOF
  <1> SUFFICES ASSUME NEW a \in Addresses
               PROVE  /\ (Pending(a)' - Pending(a) - 1) * totalShares
                            <= (rewardsBalance' - rewardsBalance) * userInfo[a].shares
                      /\ (rewardsBalance' - rewardsBalance) * userInfo[a].shares * RewardScale
                            <= (Pending(a)' - Pending(a) + 1) * totalShares * RewardScale
                               + userInfo[a].shares * totalShares
    BY DEF FairStep
  <1> DEFINE before == Accumulated(userInfo[a].shares, accRewardPerShare)
             after  == Accumulated(userInfo[a].shares, accRewardPerShare')
  <1>1. /\ userInfo[a] \in UserInfo /\ accRewardPerShare \in Nat
        /\ totalShares \in Nat \ {0} /\ rewardsBalance \in Nat
    BY DEF TypeOK
  <1>2. accRewardPerShare' \in Nat
    BY <1>1, AcceptGrows
  <1>3. before \in Nat /\ after \in Nat
    BY <1>1, <1>2, AccumulatedNat DEF UserInfo
  <1>4. /\ (after - before - 1) * totalShares <= fee * userInfo[a].shares
        /\ fee * userInfo[a].shares * RewardScale
              <= (after - before + 1) * totalShares * RewardScale + userInfo[a].shares * totalShares
    BY <1>1, EarnedInProportion, EarnedInFull DEF UserInfo
  <1>5. Pending(a)' = userInfo[a].unclaimedAmount + (after - userInfo[a].rewardDebt)
    BY DEF Accrued, Unsettled
  <1>6. Pending(a) = userInfo[a].unclaimedAmount + (before - userInfo[a].rewardDebt)
    BY DEF Pending, Unsettled
  <1> HIDE DEF before, after
  <1>7. Pending(a)' - Pending(a) = after - before
    BY <1>1, <1>3, <1>5, <1>6 DEF UserInfo
  <1>8. rewardsBalance' - rewardsBalance = fee
    BY <1>1
  <1> QED
    BY <1>4, <1>7, <1>8

\* No step leaves anybody in debt, and none breaks the two action properties.
LEMMA StepKeeps ==
    ASSUME IInv, AccountingNext
    PROVE  IInv' /\ KeptStep /\ FairStep
PROOF
  <1>0. /\ TypeOK /\ DebtCovered /\ settlements \in Nat
        /\ \A a \in Addresses : Pending(a) \in Nat
    BY PendingIsNat DEF IInv, AccountingTypeOK, PendingNat
  <1>1. ASSUME NEW operator \in SharesContracts, NEW fee \in Fees, NEW trader \in Addresses,
               NEW isBuy \in BOOLEAN, NEW amount \in 1 .. MaxShares,
               Sync(operator, fee, trader, isBuy, amount)
        PROVE  IInv' /\ KeptStep /\ FairStep
    <2>1. fee \in Nat /\ amount \in Nat \ {0}
      BY BoundsAssumption DEF Fees
    <2>2. sync(operator, fee, trader, isBuy, amount) /\ settlements' \in Nat
      BY <1>0, <1>1 DEF Sync
    <2>3. /\ TypeOK' /\ DebtCovered'
          /\ \A a \in Addresses : Pending(a) <= Pending(a)'
          /\ totalShares # 0 => /\ accRewardPerShare' = Accept(accRewardPerShare, totalShares, fee)
                                /\ \A a \in Addresses : Accrued(a)
      BY <1>0, <2>1, <2>2, SyncKeeps
    <2>4. IInv'
      BY <2>2, <2>3 DEF IInv, AccountingTypeOK
    <2>5. \A a \in Addresses : Pending(a)' \in Nat
      BY <2>3, PendingStaysNat
    <2>6. KeptStep
      BY <1>0, <2>3, <2>5 DEF KeptStep
    <2>7. FairStep
      <3>1. CASE totalShares = 0
        BY <3>1 DEF FairStep
      <3>2. CASE totalShares # 0
        <4>1. rewardsBalance' = rewardsBalance + fee
          BY <2>2 DEF sync
        <4> QED
          BY <1>0, <2>1, <2>3, <3>2, <4>1, AccrualIsFair
      <3> QED
        BY <3>1, <3>2
    <2> QED
      BY <2>4, <2>6, <2>7
  <1>2. ASSUME NEW sender \in Addresses \cup SharesContracts, NEW value \in Fees,
               Donate(sender, value)
        PROVE  IInv' /\ KeptStep /\ FairStep
    <2>1. value \in Nat
      BY BoundsAssumption DEF Fees
    <2>2. donate(sender, value) /\ settlements' = settlements
      BY <1>2 DEF Donate
    <2>3. /\ TypeOK' /\ DebtCovered'
          /\ \A a \in Addresses : Accrued(a) /\ Pending(a) <= Pending(a)'
      BY <1>0, <2>1, <2>2, DonateKeeps
    <2>4. IInv'
      BY <1>0, <2>2, <2>3 DEF IInv, AccountingTypeOK
    <2>5. \A a \in Addresses : Pending(a)' \in Nat
      BY <2>3, PendingStaysNat
    <2>6. KeptStep
      BY <1>0, <2>3, <2>5 DEF KeptStep
    <2>7. FairStep
      <3>1. /\ rewardsBalance' = rewardsBalance + value /\ totalShares # 0
            /\ accRewardPerShare' = Accept(accRewardPerShare, totalShares, value)
        BY <2>2 DEF donate
      <3> QED
        BY <1>0, <2>1, <2>3, <3>1, AccrualIsFair
    <2> QED
      BY <2>4, <2>6, <2>7
  <1>3. ASSUME NEW holder \in Addresses \ {NoAddress}, Claim(holder)
        PROVE  IInv' /\ KeptStep /\ FairStep
    <2>1. claimTheReward(holder) /\ settlements' \in Nat
      BY <1>0, <1>3 DEF Claim
    <2>2. /\ TypeOK' /\ DebtCovered' /\ rewardsBalance' < rewardsBalance
          /\ userInfo'[holder].claimedAmount > userInfo[holder].claimedAmount
          /\ \A a \in Addresses \ {holder} : Pending(a)' = Pending(a)
      BY <1>0, <2>1, ClaimKeeps
    <2>3. IInv'
      BY <2>1, <2>2 DEF IInv, AccountingTypeOK
    <2>4. KeptStep
      BY <1>0, <2>2 DEF KeptStep
    <2>5. FairStep
      BY <1>0, <2>2 DEF FairStep, TypeOK
    <2> QED
      BY <2>3, <2>4, <2>5
  <1>4. ASSUME NEW contract \in SharesContracts, Bind(contract)
        PROVE  IInv' /\ KeptStep /\ FairStep
    <2>1. /\ sharesContractAddress' = contract
          /\ UNCHANGED <<accRewardPerShare, totalShares, userInfo, rewardsBalance, settlements>>
      BY <1>4 DEF Bind, initializeSharesContractAddressIfRequired
    <2>2. IInv'
      BY <1>0, <2>1 DEF IInv, AccountingTypeOK, TypeOK, DebtCovered, Unsettled, Accumulated
    <2>3. \A a \in Addresses : Pending(a)' = Pending(a)
      BY <2>1 DEF Pending, Unsettled, Accumulated
    <2>4. KeptStep /\ FairStep
      BY <1>0, <2>1, <2>3 DEF KeptStep, FairStep, TypeOK
    <2> QED
      BY <2>2, <2>4
  <1> QED
    BY <1>1, <1>2, <1>3, <1>4 DEF AccountingNext

\* The invariant holds initially, where nobody has shares or rewards.
LEMMA InitInv == AccountingInit => IInv
PROOF
  <1> SUFFICES ASSUME AccountingInit PROVE IInv
    OBVIOUS
  <1>1. AccountingTypeOK
    BY DEF AccountingInit, Init, AccountingTypeOK, TypeOK, NoUser, UserInfo
  <1>2. \A a \in Addresses : userInfo[a] = NoUser
    BY DEF AccountingInit, Init
  <1>3. Unsettled(NoUser, 0) >= 0
    BY DistributorAssumption DEF Unsettled, Accumulated, NoUser
  <1>4. DebtCovered
    BY <1>2, <1>3 DEF DebtCovered, AccountingInit, Init
  <1> QED
    BY <1>1, <1>4 DEF IInv

\* Every step preserves the invariant, and so does one that changes nothing.
LEMMA NextInv == IInv /\ [AccountingNext]_accountingVars => IInv'
PROOF
  <1>1. ASSUME IInv, AccountingNext PROVE IInv'
    BY <1>1, StepKeeps
  <1>2. ASSUME IInv, UNCHANGED accountingVars PROVE IInv'
    BY <1>2 DEF IInv, AccountingTypeOK, TypeOK, DebtCovered, Unsettled, Accumulated,
                accountingVars, distributorVars
  <1> QED
    BY <1>1, <1>2

\* The invariant of the distributor holds in every reachable state.
THEOREM Invariance == AccountingSpec => []IInv
  BY InitInv, NextInv, PTL DEF AccountingSpec

\* The state of the distributor keeps its types: the balance and the counters never go
\* below zero, whatever is traded and claimed.
THEOREM TypeCorrect == AccountingSpec => []AccountingTypeOK
PROOF
  <1>1. IInv => AccountingTypeOK
    BY DEF IInv
  <1> QED
    BY <1>1, Invariance, PTL

\* No user is ever in debt, so that no subtraction of __sharesBought, __sharesSold and
\* pendingReward can revert and keep it from trading or claiming.
THEOREM DebtsStayCovered == AccountingSpec => []DebtCovered
PROOF
  <1>1. IInv => DebtCovered
    BY DEF IInv
  <1> QED
    BY <1>1, Invariance, PTL

\* What is owed to a holder falls only when that holder claims it.
THEOREM RewardsStayKept == AccountingSpec => RewardsKept
PROOF
  <1>1. IInv /\ [AccountingNext]_accountingVars => [KeptStep]_accountingVars
    BY StepKeeps
  <1> QED
    BY <1>1, Invariance, PTL DEF AccountingSpec, RewardsKept, KeptStep

\* Money that arrives is shared by the shares held before it did: every holder gains its
\* part, not one unit more, nor less by more than the two divisions round off, whatever
\* the precision and however many users there are.
THEOREM FeesSplitFairly == AccountingSpec => FairSplit
PROOF
  <1>1. IInv /\ [AccountingNext]_accountingVars => [FairStep]_accountingVars
    BY StepKeeps
  <1> QED
    BY <1>1, Invariance, PTL DEF AccountingSpec, FairSplit, FairStep
-----------------------------------------------------------------------------
(* Solvency *)

\* What a user was owed when it was last settled, less the debt it restarted with
Net(user) == user.unclaimedAmount - user.rewardDebt

Nets == [a \in Addresses |-> Net(userInfo[a])]
Shares == [a \in Addresses |-> userInfo[a].shares]

\* Every unit that is owed was received, but for one unit for every debt that was ever
\* recomputed: the claim of the shares at the full precision, nothing rounded.
Backed ==
    RewardScale * Sum(Nets, Addresses) + totalShares * accRewardPerShare
        <= RewardScale * (rewardsBalance + settlements)

SolvencyInv == SharesAddUp /\ Backed

\* Products with zero and one
LEMMA TrivialProducts ==
    ASSUME NEW x \in Int
    PROVE  0 * x = 0 /\ 1 * x = x
  BY SMT

\* A settled user is owed at most one unit more at the new rate than before: the debt
\* is rounded down.
LEMMA SettlingCosts ==
    ASSUME NEW user \in UserInfo, NEW acc \in Nat, NEW shares \in Nat
    PROVE  RewardScale * Net(Settle(user, acc, shares)) + shares * acc
              <= RewardScale * Net(user) + user.shares * acc + RewardScale
PROOF
  <1> DEFINE old == Accumulated(user.shares, acc)
             new == Accumulated(shares, acc)
             x == user.shares * acc
             y == shares * acc
             net == Net(user)
             R == RewardScale
  <1>1. /\ R \in Nat \ {0} /\ user.shares \in Nat
        /\ user.unclaimedAmount \in Nat /\ user.rewardDebt \in Nat
    BY DistributorAssumption DEF UserInfo
  <1>2. x \in Nat /\ y \in Nat /\ net \in Int
    BY <1>1, ProductIsNat DEF Net
  <1>3. old \in Nat /\ R * old <= x /\ new \in Nat /\ y < R * new + R
    BY <1>1, <1>2, QuotientBounds DEF Accumulated
  <1>4. Net(Settle(user, acc, shares)) = net + old - new
    BY <1>1, <1>3 DEF Net, Settle, Unsettled
  <1> HIDE DEF old, new, x, y, net, R
  <1>5. R * (net + old - new) + y <= R * net + x + R
    <2>1. R * (net + old - new) = R * net + R * old - R * new
      BY <1>1, <1>2, <1>3, SMT
    <2>2. R * net \in Int /\ R * old \in Int /\ R * new \in Int
      BY <1>1, <1>2, <1>3, SMT
    <2> QED
      BY <1>1, <1>2, <1>3, <2>1, <2>2
  <1> QED
    BY <1>4, <1>5 DEF x, y, net, R

\* A buyer is settled like anybody else: without shares it has no debt either.
LEMMA BuyerIsSettled ==
    ASSUME NEW user \in UserInfo, NEW acc \in Nat, NEW amount \in Nat,
           Unsettled(user, acc) >= 0
    PROVE  SharesBought(user, acc, amount) = Settle(user, acc, user.shares + amount)
PROOF
  <1>1. CASE user.shares > 0
    BY <1>1 DEF SharesBought
  <1>2. CASE user.shares = 0
    <2>1. Accumulated(user.shares, acc) = 0
      <3>1. user.shares * acc = 0
        BY <1>2
      <3> QED
        BY <3>1, DistributorAssumption DEF Accumulated
    <2>2. Unsettled(user, acc) = 0
      BY <2>1 DEF Unsettled, UserInfo
    <2> QED
      BY <1>2, <2>2 DEF SharesBought, Settle, UserInfo
  <1> QED
    BY <1>1, <1>2 DEF UserInfo

\* A fee adds no more to the claim of all shares than it brings.
LEMMA AcceptBacked ==
    ASSUME NEW acc \in Nat, NEW total \in Nat, NEW fee \in Nat
    PROVE  total * Accept(acc, total, fee) <= total * acc + RewardScale * fee
PROOF
  <1>0. RewardScale \in Nat \ {0}
    BY DistributorAssumption
  <1>1. RewardScale * fee \in Nat /\ fee * RewardScale = RewardScale * fee /\ total * acc \in Nat
    BY <1>0, ProductIsNat
  <1>2. CASE fee = 0 \/ total = 0
    BY <1>1, <1>2 DEF Accept
  <1>3. CASE ~(fee = 0 \/ total = 0)
    <2> DEFINE step == (RewardScale * fee) \div total
    <2>1. step \in Nat /\ total * step <= RewardScale * fee
      BY <1>1, <1>3, QuotientBounds
    <2>2. Accept(acc, total, fee) = acc + step
      BY <1>1, <1>3 DEF Accept
    <2> HIDE DEF step
    <2>3. total * (acc + step) = total * acc + total * step /\ total * step \in Nat
      BY <2>1, SMT
    <2> QED
      BY <1>1, <2>1, <2>2, <2>3
  <1> QED
    BY <1>2, <1>3

\* The sums behind the invariant
LEMMA SumsTyped ==
    ASSUME TypeOK
    PROVE  /\ IsFiniteSet(Addresses)
           /\ \A a \in Addresses : Nets[a] \in Int /\ Shares[a] \in Nat
           /\ Sum(Nets, Addresses) \in Int /\ Sum(Shares, Addresses) \in Nat
           /\ \A a \in Addresses : Shares[a] <= Sum(Shares, Addresses)
           /\ SharesAddUp <=> totalShares = Sum(Shares, Addresses)
PROOF
  <1>1. IsFiniteSet(Addresses) /\ Addresses \in SUBSET Addresses
    BY DistributorAssumption
  <1>2. \A a \in Addresses : Nets[a] \in Int /\ Shares[a] \in Nat
    BY DEF TypeOK, UserInfo, Nets, Net, Shares
  <1>3. Sum(Nets, Addresses) \in Int
    BY <1>1, <1>2, SumIsInt
  <1>4. /\ Sum(Shares, Addresses) \in Nat
        /\ \A a \in Addresses : Shares[a] <= Sum(Shares, Addresses)
    BY <1>1, <1>2, SumOfNaturals
  <1>5. SharesAddUp <=> totalShares = Sum(Shares, Addresses)
    BY DEF SharesAddUp, SumFunction, Sum, Shares
  <1> QED
    BY <1>1, <1>2, <1>3, <1>4, <1>5

\* The claim of all shares after one user record was replaced: the invariant goes on if
\* what the new record adds to it came in, or is one of the units for recomputed debts.
LEMMA ReplacedStaysSolvent ==
    ASSUME TypeOK, TypeOK', SolvencyInv, settlements \in Nat, settlements' \in Nat,
           NEW trader \in Addresses, NEW new \in UserInfo,
           userInfo' = [userInfo EXCEPT ![trader] = new],
           totalShares' = totalShares + new.shares - userInfo[trader].shares,
           RewardScale * Net(new) + totalShares' * accRewardPerShare'
              <= RewardScale * Net(userInfo[trader]) + totalShares * accRewardPerShare
                 + RewardScale * ((rewardsBalance' + settlements') - (rewardsBalance + settlements))
    PROVE  SolvencyInv'
PROOF
  <1> DEFINE user == userInfo[trader]
             sum == Sum(Nets, Addresses)
             R == RewardScale
             claim == totalShares * accRewardPerShare
             claim2 == totalShares' * accRewardPerShare'
             money == rewardsBalance + settlements
             money2 == rewardsBalance' + settlements'
  <1>1. /\ R \in Nat \ {0} /\ user \in UserInfo /\ IsFiniteSet(Addresses) /\ sum \in Int
        /\ money \in Nat /\ money2 \in Nat
    <2>1. rewardsBalance \in Nat /\ rewardsBalance' \in Nat /\ user \in UserInfo
      BY DEF TypeOK
    <2>2. IsFiniteSet(Addresses) /\ sum \in Int
      BY SumsTyped
    <2>3. money \in Nat /\ money2 \in Nat
      <3>1. ASSUME NEW x \in Nat, NEW y \in Nat PROVE x + y \in Nat
        OBVIOUS
      <3> QED
        BY <2>1, <3>1, Zenon
    <2>4. R \in Nat \ {0}
      BY DistributorAssumption, Zenon
    <2> HIDE DEF R, sum, money, money2, user
    <2> QED
      BY <2>1, <2>2, <2>3, <2>4
  <1>2. claim \in Nat /\ claim2 \in Nat
    <2>1. totalShares \in Nat /\ totalShares' \in Nat /\ accRewardPerShare \in Nat
          /\ accRewardPerShare' \in Nat
      BY DEF TypeOK
    <2> QED
      BY <2>1, ProductIsNat
  <1>3. /\ \A a \in Addresses : Nets[a] \in Int /\ Shares[a] \in Int
        /\ \A a \in Addresses : Nets'[a] \in Int /\ Shares'[a] \in Int
        /\ \A a \in Addresses \ {trader} : Nets'[a] = Nets[a] /\ Shares'[a] = Shares[a]
        /\ Nets'[trader] = Net(new) /\ Nets[trader] = Net(user)
        /\ Shares'[trader] = new.shares /\ Shares[trader] = user.shares
    BY DEF TypeOK, UserInfo, Nets, Net, Shares
  <1>4. Sum(Nets', Addresses) = sum + Net(new) - Net(user)
    <2>1. Sum(Nets', Addresses) = Sum(Nets, Addresses) + Nets'[trader] - Nets[trader]
      BY <1>1, <1>3, SumUpdate
    <2> QED
      BY <1>3, <2>1
  <1>5. Sum(Shares', Addresses) = Sum(Shares, Addresses) + new.shares - user.shares
    <2>1. Sum(Shares', Addresses) = Sum(Shares, Addresses) + Shares'[trader] - Shares[trader]
      BY <1>1, <1>3, SumUpdate
    <2> QED
      BY <1>3, <2>1
  <1>6. SharesAddUp'
    <2>1. totalShares = Sum(Shares, Addresses)
      BY SumsTyped DEF SolvencyInv
    <2>2. totalShares' = Sum(Shares', Addresses)
      BY <1>5, <2>1
    <2>3. Sum(Shares', Addresses) = SumFunction([a \in Addresses |-> userInfo[a].shares])'
      BY DEF SumFunction, Sum, Shares
    <2> QED
      BY <2>2, <2>3 DEF SharesAddUp
  <1>7. Net(new) \in Int /\ Net(user) \in Int
    BY <1>1 DEF Net, UserInfo
  <1>8. R * sum + claim <= R * money
    BY DEF SolvencyInv, Backed
  <1>9. R * Net(new) + claim2 <= R * Net(user) + claim + R * (money2 - money)
    OBVIOUS
  <1> DEFINE n == Net(new)
             m == Net(user)
  <1> HIDE DEF R, sum, claim, claim2, money, money2, n, m, user
  <1>10. R * (sum + n - m) + claim2 <= R * money2
    <2>1. /\ R * (sum + n - m) = R * sum + R * n - R * m
          /\ R * (money2 - money) = R * money2 - R * money
      BY <1>1, <1>7, SMT DEF n, m
    <2>2. /\ R * sum \in Int /\ R * n \in Int /\ R * m \in Int
          /\ R * money \in Int /\ R * money2 \in Int
      BY <1>1, <1>7, SMT DEF n, m
    <2>3. R * n + claim2 <= R * m + claim + (R * money2 - R * money)
      BY <1>9, <2>1 DEF n, m
    <2> QED
      BY <1>2, <1>8, <2>1, <2>2, <2>3
  <1>11. Sum(Nets, Addresses)' = sum + n - m
    BY <1>4 DEF n, m, sum
  <1>12. R * Sum(Nets, Addresses)' + claim2 <= R * money2
    BY <1>10, <1>11
  <1>13. Backed'
    BY <1>12 DEF Backed, R, claim2, money2
  <1> QED
    BY <1>6, <1>13 DEF SolvencyInv

\* A trade adds its fee and the rounding of one debt, or of two for the first trade.
LEMMA SyncStaysSolvent ==
    ASSUME TypeOK, TypeOK', DebtCovered, SolvencyInv, settlements \in Nat, settlements' \in Nat,
           NEW operator, NEW fee \in Nat, NEW trader \in Addresses,
           NEW isBuy \in BOOLEAN, NEW amount \in Nat \ {0},
           sync(operator, fee, trader, isBuy, amount),
           settlements' = settlements + (IF totalShares = 0 THEN 2 ELSE 1)
    PROVE  SolvencyInv'
PROOF
  <1> DEFINE user == userInfo[trader]
             acc == accRewardPerShare
             acc2 == accRewardPerShare'
             R == RewardScale
  <1>1. /\ user \in UserInfo /\ Unsettled(user, acc) >= 0 /\ user.shares \in Nat
        /\ acc \in Nat /\ acc2 \in Nat /\ totalShares \in Nat /\ rewardsBalance \in Nat
        /\ totalShares' \in Nat /\ R \in Nat \ {0} /\ Net(user) \in Int
    BY DistributorAssumption DEF TypeOK, DebtCovered, UserInfo, Net
  <1>2. rewardsBalance' = rewardsBalance + fee
    BY DEF sync
  <1>3. ASSUME NEW u \in UserInfo, NEW n \in Nat
        PROVE  Settle(u, acc2, n).shares = n /\ Settle(u, acc, n).shares = n
    BY DEF Settle
  <1>4. CASE ParseFirstTrade(fee, trader, amount)
    <2> DEFINE one == SharesBought(user, acc, 1)
               two == SharesBought(one, acc2, amount - 1)
    <2>1. totalShares = 0 /\ totalShares' = amount /\ settlements' = settlements + 2
      BY <1>4 DEF ParseFirstTrade
    <2>2. user.shares = 0
      <3>1. Shares[trader] <= totalShares
        BY SumsTyped DEF SolvencyInv
      <3> QED
        BY <1>1, <2>1, <3>1 DEF Shares
    <2>3. one = Settle(user, acc, 1) /\ one \in UserInfo /\ Unsettled(one, acc) >= 0
      <3>1. one = Settle(user, acc, user.shares + 1)
        BY <1>1, BuyerIsSettled
      <3> QED
        BY <1>1, <2>2, <3>1, BuyerSettled
    <2> HIDE DEF one
    <2>4. one.shares = 1 /\ Net(one) \in Int
      <3>1. one.shares = 1
        BY <1>1, <2>3 DEF Settle
      <3> QED
        BY <2>3, <3>1 DEF UserInfo, Net
    <2>5. R * Net(one) + acc <= R * Net(user) + R
      <3>1. R * Net(one) + 1 * acc <= R * Net(user) + user.shares * acc + R
        BY <1>1, <2>3, SettlingCosts
      <3>2. user.shares * acc = 0 /\ 1 * acc = acc /\ R * Net(user) \in Int
        BY <1>1, <2>2, SMT
      <3> QED
        BY <1>1, <3>1, <3>2
    <2>6. acc <= acc2 /\ acc2 <= acc + R * fee
      <3>1. CASE amount > 1
        <4>1. acc2 = Accept(acc, 1, fee)
          BY <1>4, <3>1 DEF ParseFirstTrade
        <4>2. 1 * acc2 <= 1 * acc + R * fee
          BY <1>1, <4>1, AcceptBacked
        <4>3. acc <= acc2
          BY <1>1, <4>1, AcceptGrows
        <4>4. R * fee \in Nat
          BY <1>1, ProductIsNat
        <4>5. 1 * acc2 = acc2 /\ 1 * acc = acc
          <5> HIDE DEF acc, acc2
          <5> QED
            BY <1>1, TrivialProducts
        <4> HIDE DEF acc, acc2, R
        <4> QED
          BY <1>1, <4>2, <4>3, <4>4, <4>5
      <3>2. CASE ~(amount > 1)
        <4>1. acc2 = acc
          BY <1>4, <3>2 DEF ParseFirstTrade
        <4>2. R * fee \in Nat
          BY <1>1, ProductIsNat
        <4> QED
          BY <1>1, <4>1, <4>2
      <3> QED
        BY <3>1, <3>2
    <2> DEFINE new == IF amount > 1 THEN two ELSE one
    <2>7. /\ new \in UserInfo /\ new.shares = amount /\ Net(new) \in Int
          /\ R * Net(new) + amount * acc2 <= R * Net(one) + acc2 + R
      <3>1. CASE amount > 1
        <4>1. amount - 1 \in Nat /\ 1 + (amount - 1) = amount /\ amount \in Nat
          OBVIOUS
        <4>2. Unsettled(one, acc2) >= 0
          <5>1. /\ Accumulated(one.shares, acc) \in Nat /\ Accumulated(one.shares, acc2) \in Nat
                /\ Accumulated(one.shares, acc) <= Accumulated(one.shares, acc2)
            BY <1>1, <2>3, <2>6, AccumulatedGrows DEF UserInfo
          <5> QED
            BY <2>3, <5>1 DEF Unsettled, UserInfo
        <4>3. two = Settle(one, acc2, amount) /\ two \in UserInfo
          <5>1. two = Settle(one, acc2, one.shares + (amount - 1)) /\ two \in UserInfo
            BY <1>1, <2>3, <4>1, <4>2, BuyerIsSettled, BuyerSettled
          <5> QED
            BY <2>4, <4>1, <5>1
        <4>4. R * Net(two) + amount * acc2 <= R * Net(one) + one.shares * acc2 + R
          BY <1>1, <2>3, <4>1, <4>3, SettlingCosts
        <4>5. two.shares = amount
          BY <1>3, <2>3, <4>1, <4>3
        <4>6. one.shares * acc2 = acc2
          BY <1>1, <2>4
        <4>7. new = two /\ Net(two) \in Int
          BY <3>1, <4>3 DEF UserInfo, Net
        <4> QED
          BY <4>3, <4>4, <4>5, <4>6, <4>7
      <3>2. CASE ~(amount > 1)
        <4>1. new = one /\ amount = 1
          BY <3>2
        <4>2. R * Net(one) \in Int /\ amount * acc2 = acc2
          <5>1. ASSUME NEW x \in Int PROVE R * x \in Int
            BY <1>1, SMT
          <5> HIDE DEF acc2
          <5>2. 1 * acc2 = acc2
            BY <1>1, TrivialProducts
          <5> QED
            BY <2>4, <4>1, <5>1, <5>2
        <4> QED
          BY <1>1, <2>3, <2>4, <4>1, <4>2
      <3> QED
        BY <3>1, <3>2
    <2>8. userInfo' = [userInfo EXCEPT ![trader] = new]
      BY <1>4 DEF ParseFirstTrade, one
    <2> HIDE DEF two, new
    <2>9. R * Net(new) + totalShares' * acc2
             <= R * Net(user) + totalShares * acc
                + R * ((rewardsBalance' + settlements') - (rewardsBalance + settlements))
      <3>1. (rewardsBalance' + settlements') - (rewardsBalance + settlements) = fee + 2
        BY <1>1, <1>2, <2>1
      <3>2. R * (fee + 2) = R * fee + R + R /\ R * fee \in Nat
        BY <1>1, SMT
      <3>3. totalShares * acc = 0 /\ R * Net(user) \in Int /\ R * Net(one) \in Int
            /\ R * Net(new) \in Int /\ amount * acc2 \in Nat
        <4>1. ASSUME NEW x \in Int PROVE R * x \in Int
          BY <1>1, SMT
        <4>2. totalShares * acc = 0 /\ amount * acc2 \in Nat
          <5> HIDE DEF acc, acc2
          <5>1. 0 * acc = 0
            BY <1>1, TrivialProducts
          <5>2. amount * acc2 \in Nat
            BY <1>1, ProductIsNat
          <5> QED
            BY <2>1, <5>1, <5>2
        <4> QED
          BY <1>1, <2>4, <2>7, <4>1, <4>2
      <3>4. R * Net(new) + amount * acc2 <= R * Net(user) + (R * fee + R + R)
        BY <1>1, <2>5, <2>6, <2>7, <3>2, <3>3
      <3>5. R * Net(user) + totalShares * acc + R * (fee + 2)
               = R * Net(user) + (R * fee + R + R)
        BY <3>2, <3>3
      <3> QED
        BY <2>1, <3>1, <3>4, <3>5
    <2>10. totalShares' = totalShares + new.shares - user.shares
      BY <2>1, <2>2, <2>7
    <2> QED
      BY <2>7, <2>8, <2>9, <2>10, ReplacedStaysSolvent
  <1>5. CASE ParseNextTrade(fee, trader, isBuy, amount)
    <2> DEFINE shares == IF isBuy THEN user.shares + amount ELSE user.shares - amount
               new == Settle(user, acc2, shares)
    <2>1. /\ acc2 = Accept(acc, totalShares, fee) /\ totalShares # 0
          /\ settlements' = settlements + 1
          /\ totalShares' = IF isBuy THEN totalShares + amount ELSE totalShares - amount
      BY <1>5 DEF ParseNextTrade
    <2>2. /\ Unsettled(user, acc2) >= 0
          /\ ~isBuy => amount <= user.shares
      BY <2>1 DEF sync, SyncPasses
    <2>3. shares \in Nat
      BY <1>1, <2>2
    <2>4. userInfo' = [userInfo EXCEPT ![trader] = new]
      <3>1. CASE isBuy
        <4>1. userInfo' = [userInfo EXCEPT ![trader] = SharesBought(user, acc2, amount)]
          BY <1>5, <3>1 DEF ParseNextTrade
        <4>2. SharesBought(user, acc2, amount) = new
          BY <1>1, <2>2, <3>1, BuyerIsSettled
        <4> QED
          BY <4>1, <4>2
      <3>2. CASE ~isBuy
        BY <1>5, <3>2 DEF ParseNextTrade, SharesSold
      <3> QED
        BY <3>1, <3>2
    <2>5. new \in UserInfo /\ new.shares = shares /\ Net(new) \in Int
      <3>1. new \in UserInfo /\ new.shares = shares
        <4> HIDE DEF shares
        <4> QED
          BY <1>1, <1>3, <2>2, <2>3, UserSettled
      <3> HIDE DEF new
      <3> QED
        BY <3>1 DEF UserInfo, Net
    <2>6. R * Net(new) + shares * acc2 <= R * Net(user) + user.shares * acc2 + R
      <3> HIDE DEF shares
      <3> QED
        BY <1>1, <2>3, SettlingCosts
    <2>7. totalShares' = totalShares + shares - user.shares
      BY <1>1, <2>1
    <2> HIDE DEF shares, new
    <2>8. totalShares * acc2 <= totalShares * acc + R * fee
      BY <1>1, <2>1, AcceptBacked
    <2>9. R * Net(new) + totalShares' * acc2
             <= R * Net(user) + totalShares * acc
                + R * ((rewardsBalance' + settlements') - (rewardsBalance + settlements))
      <3>1. (rewardsBalance' + settlements') - (rewardsBalance + settlements) = fee + 1
        BY <1>1, <1>2, <2>1
      <3>2. R * (fee + 1) = R * fee + R /\ R * fee \in Nat
        BY <1>1, SMT
      <3>3. (totalShares + shares - user.shares) * acc2
               = totalShares * acc2 + shares * acc2 - user.shares * acc2
        BY <1>1, <2>3, SMT
      <3>4. /\ totalShares * acc \in Nat /\ totalShares * acc2 \in Nat /\ shares * acc2 \in Nat
            /\ user.shares * acc2 \in Nat
        BY <1>1, <2>3, ProductIsNat
      <3>5. R * Net(user) \in Int /\ R * Net(new) \in Int
        BY <1>1, <2>5, SMT
      <3>6. totalShares' * acc2 = totalShares * acc2 + shares * acc2 - user.shares * acc2
        BY <2>7, <3>3
      <3>7. R * Net(new) + (totalShares * acc2 + shares * acc2 - user.shares * acc2)
               <= R * Net(user) + totalShares * acc + (R * fee + R)
        <4> DEFINE u == totalShares * acc2
                   v == totalShares * acc
                   x == shares * acc2
                   y == user.shares * acc2
                   f == R * fee
                   m == R * Net(user)
                   n == R * Net(new)
        <4>1. /\ u \in Nat /\ v \in Nat /\ x \in Nat /\ y \in Nat /\ f \in Nat
              /\ m \in Int /\ n \in Int /\ R \in Nat
              /\ n + x <= m + y + R /\ u <= v + f
          BY <1>1, <2>6, <2>8, <3>2, <3>4, <3>5
        <4> HIDE DEF u, v, x, y, f, m, n
        <4>2. n + (u + x - y) <= m + v + (f + R)
          BY <4>1
        <4> QED
          BY <4>2 DEF u, v, x, y, f, m, n
      <3> QED
        BY <3>1, <3>2, <3>6, <3>7
    <2>10. totalShares' = totalShares + new.shares - user.shares
      BY <2>5, <2>7
    <2> QED
      BY <2>4, <2>5, <2>9, <2>10, ReplacedStaysSolvent
  <1> QED
    BY <1>4, <1>5 DEF sync

\* An additional reward adds no more to what is owed than it brings.
LEMMA DonateStaysSolvent ==
    ASSUME TypeOK, TypeOK', SolvencyInv, settlements \in Nat, settlements' = settlements,
           NEW sender, NEW value \in Nat, donate(sender, value)
    PROVE  SolvencyInv'
PROOF
  <1> DEFINE user == userInfo[NoAddress]
             R == RewardScale
  <1>1. /\ userInfo' = userInfo /\ totalShares' = totalShares
        /\ rewardsBalance' = rewardsBalance + value
        /\ accRewardPerShare' = Accept(accRewardPerShare, totalShares, value)
    BY DEF donate
  <1>2. /\ user \in UserInfo /\ R \in Nat \ {0} /\ rewardsBalance \in Nat
        /\ totalShares \in Nat /\ accRewardPerShare \in Nat /\ NoAddress \in Addresses
    BY DistributorAssumption DEF TypeOK
  <1>3. totalShares * accRewardPerShare' <= totalShares * accRewardPerShare + R * value
    BY <1>1, <1>2, AcceptBacked
  <1>4. userInfo' = [userInfo EXCEPT ![NoAddress] = user]
    BY <1>1 DEF TypeOK
  <1>5. totalShares' = totalShares + user.shares - user.shares
    BY <1>1, <1>2 DEF UserInfo
  <1>6. (rewardsBalance' + settlements') - (rewardsBalance + settlements) = value
    BY <1>1, <1>2
  <1>7. R * Net(user) + totalShares' * accRewardPerShare'
           <= R * Net(user) + totalShares * accRewardPerShare + R * value
    <2>1. R * Net(user) \in Int
      <3>1. Net(user) \in Int
        BY <1>2 DEF UserInfo, Net
      <3>2. ASSUME NEW x \in Int PROVE R * x \in Int
        BY <1>2, SMT
      <3> QED
        BY <3>1, <3>2
    <2>2. /\ totalShares' * accRewardPerShare' \in Nat
          /\ totalShares * accRewardPerShare \in Nat /\ R * value \in Nat
      <3>1. totalShares' \in Nat /\ accRewardPerShare' \in Nat
        BY DEF TypeOK
      <3> QED
        BY <1>2, <3>1, ProductIsNat
    <2> DEFINE n == R * Net(user)
               x == totalShares' * accRewardPerShare'
               y == totalShares * accRewardPerShare
               z == R * value
    <2>3. n \in Int /\ x \in Nat /\ y \in Nat /\ z \in Nat /\ x <= y + z
      BY <1>1, <1>3, <2>1, <2>2
    <2> HIDE DEF n, x, y, z
    <2>4. n + x <= n + y + z
      BY <2>3
    <2> QED
      BY <2>4 DEF n, x, y, z
  <1>8. settlements' \in Nat
    OBVIOUS
  <1> QED
    BY <1>2, <1>4, <1>5, <1>6, <1>7, <1>8, ReplacedStaysSolvent

\* A claim pays out no more than was owed, and rounds one debt.
LEMMA ClaimStaysSolvent ==
    ASSUME TypeOK, TypeOK', DebtCovered, SolvencyInv, settlements \in Nat,
           settlements' = settlements + 1, NEW holder \in Addresses, claimTheReward(holder)
    PROVE  SolvencyInv'
PROOF
  <1> DEFINE user == userInfo[holder]
             earned == Accumulated(user.shares, accRewardPerShare)
             claimable == pendingReward(holder)
             R == RewardScale
             new == [shares          |-> user.shares,
                     rewardDebt      |-> earned,
                     claimedAmount   |-> user.claimedAmount + claimable,
                     unclaimedAmount |-> 0]
  <1>1. /\ user \in UserInfo /\ accRewardPerShare \in Nat /\ rewardsBalance \in Nat
        /\ earned \in Nat /\ R \in Nat \ {0} /\ totalShares \in Nat
    BY AccumulatedNat, DistributorAssumption DEF TypeOK, UserInfo
  <1>2. Pending(holder) = Net(user) + earned /\ Net(user) \in Int /\ Pending(holder) \in Nat
    <2>1. Unsettled(user, accRewardPerShare) >= 0
      BY DEF DebtCovered
    <2> QED
      BY <1>1, <2>1 DEF Pending, Unsettled, Net, UserInfo
  <1>3. claimable \in Nat /\ claimable <= Pending(holder)
    BY <1>1, <1>2 DEF pendingReward
  <1>4. /\ userInfo' = [userInfo EXCEPT ![holder] = new]
        /\ rewardsBalance' = rewardsBalance - claimable
        /\ totalShares' = totalShares /\ accRewardPerShare' = accRewardPerShare
    BY DEF claimTheReward
  <1>5. new \in UserInfo /\ new.shares = user.shares /\ Net(new) = 0 - earned
    BY <1>1, <1>3 DEF UserInfo, Net
  <1> HIDE DEF user, earned, claimable, new
  <1>6. totalShares' = totalShares + new.shares - user.shares
    BY <1>1, <1>4, <1>5 DEF UserInfo
  <1>7. (rewardsBalance' + settlements') - (rewardsBalance + settlements) = 1 - claimable
    BY <1>1, <1>3, <1>4
  <1>8. R * Net(new) + totalShares' * accRewardPerShare'
           <= R * Net(user) + totalShares * accRewardPerShare + R * (1 - claimable)
    <2> DEFINE net == Net(user)
               claim == totalShares * accRewardPerShare
    <2>1. claim \in Nat
      BY <1>1, ProductIsNat
    <2>2. 0 - earned <= net + (1 - claimable)
      BY <1>1, <1>2, <1>3
    <2>3. net \in Int /\ 1 - claimable \in Int /\ 0 - earned \in Int
      BY <1>1, <1>2, <1>3
    <2> HIDE DEF net, claim
    <2>4. R * (0 - earned) <= R * (net + (1 - claimable))
      <3>1. ASSUME NEW x \in Int, NEW y \in Int, x <= y PROVE R * x <= R * y
        BY <1>1, <3>1, SMT
      <3> QED
        BY <2>2, <2>3, <3>1
    <2>5. R * (net + (1 - claimable)) = R * net + R * (1 - claimable)
      <3>1. ASSUME NEW x \in Int, NEW y \in Int PROVE R * (x + y) = R * x + R * y
        BY <1>1, SMT
      <3> QED
        BY <2>3, <3>1
    <2>6. R * (0 - earned) \in Int /\ R * net \in Int /\ R * (1 - claimable) \in Int
      <3>1. ASSUME NEW x \in Int PROVE R * x \in Int
        BY <1>1, SMT
      <3> QED
        BY <2>3, <3>1
    <2> DEFINE p == R * (0 - earned)
               q == R * net
               z == R * (1 - claimable)
    <2>7. p \in Int /\ q \in Int /\ z \in Int /\ p <= q + z
      BY <2>4, <2>5, <2>6
    <2> HIDE DEF p, q, z
    <2>8. p + claim <= q + claim + z
      BY <2>1, <2>7
    <2> QED
      BY <1>4, <1>5, <2>8 DEF p, q, z, net, claim
  <1>9. settlements' \in Nat
    OBVIOUS
  <1> QED
    BY <1>4, <1>5, <1>6, <1>7, <1>8, <1>9, ReplacedStaysSolvent DEF user

\* Initially nothing is owed.
LEMMA InitSolvent == AccountingInit => SolvencyInv
PROOF
  <1> SUFFICES ASSUME AccountingInit PROVE SolvencyInv
    OBVIOUS
  <1>1. TypeOK /\ totalShares = 0 /\ accRewardPerShare = 0 /\ rewardsBalance = 0 /\ settlements = 0
    BY DEF AccountingInit, Init, TypeOK, NoUser, UserInfo
  <1>2. \A a \in Addresses : Nets[a] = 0 /\ Shares[a] = 0
    BY DEF AccountingInit, Init, NoUser, Nets, Net, Shares
  <1>3. Sum(Nets, Addresses) = 0 /\ Sum(Shares, Addresses) = 0
    BY <1>2, SumZero, DistributorAssumption
  <1>4. RewardScale * 0 = 0
    BY DistributorAssumption
  <1>5. Backed
    BY <1>1, <1>3, <1>4 DEF Backed
  <1> QED
    BY <1>1, <1>3, <1>5, SumsTyped DEF SolvencyInv

\* Every step keeps the distributor solvent.
LEMMA NextSolvent == IInv /\ IInv' /\ SolvencyInv /\ [AccountingNext]_accountingVars => SolvencyInv'
PROOF
  <1> SUFFICES ASSUME IInv, IInv', SolvencyInv, [AccountingNext]_accountingVars
               PROVE  SolvencyInv'
    OBVIOUS
  <1>0. /\ TypeOK /\ TypeOK' /\ DebtCovered /\ settlements \in Nat /\ settlements' \in Nat
    BY DEF IInv, AccountingTypeOK
  <1>1. ASSUME NEW operator \in SharesContracts, NEW fee \in Fees, NEW trader \in Addresses,
               NEW isBuy \in BOOLEAN, NEW amount \in 1 .. MaxShares,
               Sync(operator, fee, trader, isBuy, amount)
        PROVE  SolvencyInv'
    <2>1. fee \in Nat /\ amount \in Nat \ {0}
      BY BoundsAssumption DEF Fees
    <2> QED
      BY <1>0, <1>1, <2>1, SyncStaysSolvent DEF Sync
  <1>2. ASSUME NEW sender \in Addresses \cup SharesContracts, NEW value \in Fees,
               Donate(sender, value)
        PROVE  SolvencyInv'
    <2>1. value \in Nat
      BY BoundsAssumption DEF Fees
    <2> QED
      BY <1>0, <1>2, <2>1, DonateStaysSolvent DEF Donate
  <1>3. ASSUME NEW holder \in Addresses \ {NoAddress}, Claim(holder)
        PROVE  SolvencyInv'
    BY <1>0, <1>3, ClaimStaysSolvent DEF Claim
  <1>4. CASE UNCHANGED <<accRewardPerShare, totalShares, userInfo, rewardsBalance, settlements>>
    BY <1>4 DEF SolvencyInv, SharesAddUp, Backed, Nets, Net
  <1>5. ASSUME NEW contract \in SharesContracts, Bind(contract)
        PROVE  SolvencyInv'
    BY <1>4, <1>5 DEF Bind, initializeSharesContractAddressIfRequired
  <1>6. CASE UNCHANGED accountingVars
    BY <1>4, <1>6 DEF accountingVars, distributorVars
  <1> QED
    BY <1>1, <1>2, <1>3, <1>5, <1>6 DEF AccountingNext

\* What all users could claim, rounded down for each of them, is backed all the more.
LEMMA BackedIsSolvent == IInv /\ SolvencyInv => Solvent /\ NobodyLockedOut
PROOF
  <1> SUFFICES ASSUME IInv, SolvencyInv PROVE Solvent /\ NobodyLockedOut
    OBVIOUS
  <1> DEFINE pendings == [a \in Addresses |-> Pending(a)]
             scaled == [a \in Addresses |-> RewardScale * pendings[a]]
             claims == [a \in Addresses |-> RewardScale * Nets[a] + accRewardPerShare * Shares[a]]
             R == RewardScale
             acc == accRewardPerShare
             owed == Sum(pendings, Addresses)
             money == rewardsBalance + settlements
  <1>1. /\ TypeOK /\ settlements \in Nat /\ R \in Nat \ {0} /\ acc \in Nat
        /\ rewardsBalance \in Nat /\ totalShares \in Nat /\ IsFiniteSet(Addresses)
        /\ MaxDiscrepancy \in Nat \ {0}
    BY DistributorAssumption DEF IInv, AccountingTypeOK, TypeOK
  <1>2. \A a \in Addresses : pendings[a] \in Nat
    BY PendingIsNat DEF IInv, AccountingTypeOK, PendingNat
  <1>3. owed \in Nat /\ \A a \in Addresses : pendings[a] <= owed
    <2> HIDE DEF pendings
    <2> QED
      BY <1>1, <1>2, SumOfNaturals
  <1>4. ASSUME NEW a \in Addresses
        PROVE  /\ scaled[a] \in Int /\ claims[a] \in Int /\ scaled[a] <= claims[a]
    <2> DEFINE x == userInfo[a].shares * acc
               earned == Accumulated(userInfo[a].shares, acc)
               net == Nets[a]
    <2>1. userInfo[a] \in UserInfo /\ x \in Nat /\ net \in Int
      BY <1>1, ProductIsNat, SumsTyped DEF TypeOK, UserInfo
    <2>2. earned \in Nat /\ R * earned <= x
      <3> HIDE DEF R
      <3> QED
        BY <1>1, <2>1, QuotientBounds DEF Accumulated, R
    <2>3. pendings[a] = net + earned
      BY <2>1, <2>2 DEF Pending, Unsettled, Nets, Net, UserInfo
    <2>4. acc * Shares[a] = x
      BY <1>1, <2>1 DEF Shares, UserInfo
    <2> HIDE DEF x, earned, net, R, acc, pendings
    <2>5. R * (net + earned) = R * net + R * earned /\ R * net \in Int /\ R * earned \in Int
      <3>1. ASSUME NEW y \in Int, NEW z \in Int
            PROVE  R * (y + z) = R * y + R * z /\ R * y \in Int
        BY <1>1, SMT
      <3>2. net \in Int /\ earned \in Int
        BY <2>1, <2>2
      <3> QED
        BY <3>1, <3>2, Zenon
    <2>6. scaled[a] = R * net + R * earned /\ claims[a] = R * net + x
      BY <2>3, <2>4, <2>5 DEF R, net, acc
    <2> QED
      BY <2>1, <2>2, <2>5, <2>6
  <1>5. Sum(scaled, Addresses) <= Sum(claims, Addresses)
    <2> HIDE DEF scaled, claims
    <2> QED
      BY <1>1, <1>4, SumMonotonic
  <1>6. Sum(claims, Addresses) = R * Sum(Nets, Addresses) + acc * Sum(Shares, Addresses)
    <2>1. \A a \in Addresses : /\ Nets[a] \in Int /\ Shares[a] \in Int
                               /\ claims[a] = R * Nets[a] + acc * Shares[a]
      BY <1>1, SumsTyped
    <2> DEFINE f == [a \in Addresses |-> R * Nets[a]]
               g == [a \in Addresses |-> acc * Shares[a]]
    <2>2. \A a \in Addresses : f[a] = R * Nets[a] /\ g[a] = acc * Shares[a]
      OBVIOUS
    <2> HIDE DEF claims, R, acc, f, g
    <2>3. R \in Int /\ acc \in Int /\ IsFiniteSet(Addresses)
      BY <1>1
    <2>4. Sum(f, Addresses) = R * Sum(Nets, Addresses)
      BY <2>1, <2>2, <2>3, SumScale
    <2>5. Sum(g, Addresses) = acc * Sum(Shares, Addresses)
      BY <2>1, <2>2, <2>3, SumScale
    <2>6. \A a \in Addresses : f[a] \in Int /\ g[a] \in Int /\ claims[a] = f[a] + g[a]
      <3>1. ASSUME NEW x \in Int, NEW y \in Int PROVE x * y \in Int
        BY SMT
      <3> QED
        BY <2>1, <2>2, <2>3, <3>1
    <2>7. Sum(claims, Addresses) = Sum(f, Addresses) + Sum(g, Addresses)
      BY <2>3, <2>6, SumPlus
    <2> QED
      BY <2>4, <2>5, <2>7
  <1>7. Sum(scaled, Addresses) = R * owed
    <2>1. R \in Int /\ \A a \in Addresses : pendings[a] \in Int /\ scaled[a] = R * pendings[a]
      BY <1>1, <1>2
    <2> HIDE DEF scaled, pendings, R
    <2> QED
      BY <1>1, <2>1, SumScale
  <1>8. R * owed <= R * money
    <2>1. Sum(Shares, Addresses) = totalShares /\ totalShares * acc = acc * totalShares
      BY <1>1, SumsTyped DEF SolvencyInv
    <2>2. R * Sum(Nets, Addresses) + acc * totalShares <= R * money
      BY <2>1 DEF SolvencyInv, Backed
    <2>3. R * owed <= R * Sum(Nets, Addresses) + acc * totalShares
      BY <1>5, <1>6, <1>7, <2>1
    <2>4. R * owed \in Int /\ R * Sum(Nets, Addresses) + acc * totalShares \in Int
          /\ R * money \in Int
      <3>1. ASSUME NEW y \in Int PROVE R * y \in Int
        BY <1>1, SMT
      <3>2. acc * totalShares \in Nat /\ Sum(Nets, Addresses) \in Int /\ money \in Int
        BY <1>1, ProductIsNat, SumsTyped
      <3>3. R * Sum(Nets, Addresses) \in Int /\ R * owed \in Int /\ R * money \in Int
        BY <1>3, <3>1, <3>2
      <3> QED
        BY <3>2, <3>3
    <2> HIDE DEF owed, R, money, acc
    <2> QED
      BY <2>2, <2>3, <2>4
  <1>9. owed <= money
    <2>1. ASSUME NEW x \in Nat, NEW y \in Nat, R * x <= R * y PROVE x <= y
      BY <1>1, <2>1, SMT
    <2>2. money \in Nat
      BY <1>1
    <2> HIDE DEF owed, R, money
    <2> QED
      BY <1>3, <1>8, <2>1, <2>2
  <1>10. Solvent
    <2>1. SumFunction([a \in Addresses |-> Pending(a)]) = owed
      BY DEF SumFunction, Sum
    <2> QED
      BY <1>9, <2>1 DEF Solvent
  <1>11. NobodyLockedOut
    <2> SUFFICES ASSUME settlements < MaxDiscrepancy, NEW a \in Addresses
                 PROVE  Pending(a) < MaxDiscrepancy + rewardsBalance
      BY DEF NobodyLockedOut, WithinDiscrepancy
    <2>1. Pending(a) \in Nat /\ Pending(a) <= owed
      BY <1>2, <1>3
    <2> HIDE DEF owed
    <2> QED
      BY <1>1, <1>3, <1>9, <2>1
  <1> QED
    BY <1>10, <1>11

\* The invariant of the accounting holds in every reachable state.
THEOREM SolvencyInvariance == AccountingSpec => []SolvencyInv
  BY InitSolvent, NextSolvent, Invariance, PTL DEF AccountingSpec

\* The total that fees are divided by is the sum of what the users hold.
THEOREM SharesAlwaysAddUp == AccountingSpec => []SharesAddUp
PROOF
  <1>1. SolvencyInv => SharesAddUp
    BY DEF SolvencyInv
  <1> QED
    BY <1>1, SolvencyInvariance, PTL

\* What all holders could claim exceeds what the distributor has by at most one unit per
\* recomputed debt, however many users there are and whatever the fees and precision.
THEOREM AlwaysSolvent == AccountingSpec => []Solvent
  BY BackedIsSolvent, Invariance, SolvencyInvariance, PTL

\* As long as fewer debts were recomputed than the discrepancy that is tolerated, the
\* check in pendingReward refuses nobody its reward.
THEOREM NobodyEverLockedOut == AccountingSpec => []NobodyLockedOut
  BY BackedIsSolvent, Invariance, SolvencyInvariance, PTL
-----------------------------------------------------------------------------
(* The money of the protocol *)

\* What a root grants to a user has been recorded as granted since the last reset.
RootGranted == \A pair \in root : pair[2] \in granted[pair[1]]

\* The list in force, if there is one, divides the whole among real addresses.
ListDivides ==
    /\ recipients # <<>> =>
          Total([i \in DOMAIN recipients |-> recipients[i].allocationPercent],
                DOMAIN recipients) = Whole
    /\ \A i \in DOMAIN recipients : recipients[i].recipient \in Accounts

FundsInv == FundsTypeOK /\ RootGranted /\ ListDivides /\ NeverOverpaid /\ MoneyAccounted

\* The sums of the model are those of the lemmas.
LEMMA TotalIsSum ==
    ASSUME NEW f, NEW S
    PROVE  Total(f, S) = Sum(f, S)
  BY Zenon DEF Total, Sum, MapThenSumSet, MapThenFoldSet, SumFunctionOnSet, FoldFunctionOnSet

\* Users and contracts are finitely many.
LEMMA PayeesFinite == IsFiniteSet(Accounts) /\ IsFiniteSet(Claimants)
PROOF
  <1>1. IsFiniteSet(Accounts) /\ Claimants \subseteq Accounts
    BY FeeDistributorAssumption, RewardAssumption
  <1> QED
    BY <1>1, FS_Subset

\* The positions in a list
LEMMA PositionsFinite ==
    ASSUME NEW R, NEW list \in Seq(R)
    PROVE  /\ IsFiniteSet(DOMAIN list)
           /\ DOMAIN list \in SUBSET (DOMAIN list)
           /\ DOMAIN list = 1 .. Len(list) /\ Len(list) \in Nat
           /\ \A i \in DOMAIN list : list[i] \in R
           /\ Cardinality(DOMAIN list) = Len(list)
PROOF
  <1>1. DOMAIN list = 1 .. Len(list) /\ Len(list) \in Nat
    OBVIOUS
  <1>2. IsFiniteSet(1 .. Len(list)) /\ Cardinality(1 .. Len(list)) = Len(list)
    BY <1>1, FS_Interval
  <1> QED
    BY <1>1, <1>2
-----------------------------------------------------------------------------
(* The parts of a distribution *)

\* A part is a natural number, and rounded down by less than one unit.
LEMMA PartBounds ==
    ASSUME NEW amount \in Nat, NEW r \in RecipientDetails
    PROVE  /\ Part(amount, r) \in Nat
           /\ Whole * Part(amount, r) <= amount * r.allocationPercent
           /\ amount * r.allocationPercent <= Whole * Part(amount, r) + (Whole - 1)
           /\ amount * r.allocationPercent \in Nat
PROOF
  <1> DEFINE x == amount * r.allocationPercent
  <1>1. x \in Nat
    BY SMT DEF RecipientDetails
  <1>2. Whole \in Nat \ {0}
    BY FeeDistributorAssumption
  <1> HIDE DEF x
  <1>3. x \div Whole \in Nat /\ Whole * (x \div Whole) <= x /\ x <= Whole * (x \div Whole) + (Whole - 1)
    BY <1>1, <1>2, SMT
  <1> QED
    BY <1>1, <1>3 DEF Part, x

\* The parts of a list that divides the whole are no more than there is, and less by less
\* than one unit per recipient.
LEMMA PartsFit ==
    ASSUME NEW list \in Seq(RecipientDetails), NEW amount \in Nat,
           Total([i \in DOMAIN list |-> list[i].allocationPercent], DOMAIN list) = Whole
    PROVE  /\ Total([i \in DOMAIN list |-> Part(amount, list[i])], DOMAIN list) \in Nat
           /\ Total([i \in DOMAIN list |-> Part(amount, list[i])], DOMAIN list) <= amount
           /\ amount - Total([i \in DOMAIN list |-> Part(amount, list[i])], DOMAIN list) < Len(list)
PROOF
  <1> DEFINE I == DOMAIN list
             percent == [i \in I |-> list[i].allocationPercent]
             part    == [i \in I |-> Part(amount, list[i])]
             share   == [i \in I |-> amount * list[i].allocationPercent]
             wholes  == [i \in I |-> Whole * Part(amount, list[i])]
             loss    == [i \in I |-> Whole - 1]
             ones    == [i \in I |-> 1]
             ceiling == [i \in I |-> wholes[i] + loss[i]]
  <1>1. IsFiniteSet(I) /\ I \in SUBSET I /\ \A i \in I : list[i] \in RecipientDetails
    BY PositionsFinite
  <1>2. Whole \in Nat \ {0} /\ Whole - 1 \in Nat
    BY FeeDistributorAssumption
  <1>3. \A i \in I : /\ percent[i] \in Nat /\ part[i] \in Nat /\ share[i] \in Nat
                     /\ wholes[i] = Whole * part[i] /\ share[i] = amount * percent[i]
                     /\ wholes[i] <= share[i] /\ share[i] <= ceiling[i]
                     /\ ceiling[i] = wholes[i] + loss[i]
                     /\ loss[i] = (Whole - 1) * ones[i] /\ ones[i] = 1
                     /\ loss[i] \in Nat /\ wholes[i] \in Nat /\ ceiling[i] \in Nat
    <2> SUFFICES ASSUME NEW i \in I
                 PROVE  /\ percent[i] \in Nat /\ part[i] \in Nat /\ share[i] \in Nat
                        /\ wholes[i] = Whole * part[i] /\ share[i] = amount * percent[i]
                        /\ wholes[i] <= share[i] /\ share[i] <= ceiling[i]
                        /\ ceiling[i] = wholes[i] + loss[i]
                        /\ loss[i] = (Whole - 1) * ones[i] /\ ones[i] = 1
                        /\ loss[i] \in Nat /\ wholes[i] \in Nat /\ ceiling[i] \in Nat
      OBVIOUS
    <2> DEFINE r == list[i]
    <2>1. r \in RecipientDetails /\ r.allocationPercent \in Nat
      BY <1>1 DEF RecipientDetails
    <2>2. /\ percent[i] = r.allocationPercent /\ part[i] = Part(amount, r)
          /\ share[i] = amount * r.allocationPercent /\ wholes[i] = Whole * Part(amount, r)
          /\ loss[i] = Whole - 1 /\ ones[i] = 1 /\ ceiling[i] = wholes[i] + loss[i]
      BY DEF percent, part, share, wholes, loss, ones, ceiling
    <2> HIDE DEF r, percent, part, share, wholes, loss, ones, ceiling
    <2>3. /\ Part(amount, r) \in Nat /\ Whole * Part(amount, r) <= amount * r.allocationPercent
          /\ amount * r.allocationPercent <= Whole * Part(amount, r) + (Whole - 1)
          /\ amount * r.allocationPercent \in Nat
      BY <2>1, PartBounds
    <2>4. Whole * Part(amount, r) \in Nat
      BY <1>2, <2>3, SMT
    <2> QED
      BY <1>2, <2>1, <2>2, <2>3, <2>4
  <1> HIDE DEF percent, part, share, wholes, loss, ones, ceiling, I
  <1> DEFINE P == Sum(part, I)
             n == Sum(ones, I)
  <1>4. Sum(percent, I) = Whole
    BY TotalIsSum DEF percent, I
  <1>5. P \in Nat /\ n \in Nat /\ Sum(share, I) \in Nat /\ Sum(wholes, I) \in Nat /\ Sum(loss, I) \in Nat
    <2>1. P \in Nat
      BY <1>1, <1>3, SumOfNaturals
    <2>2. n \in Nat
      <3>1. \A i \in I : ones[i] \in Nat
        BY <1>3
      <3> QED
        BY <1>1, <3>1, SumOfNaturals
    <2>3. Sum(share, I) \in Nat
      BY <1>1, <1>3, SumOfNaturals
    <2>4. Sum(wholes, I) \in Nat
      BY <1>1, <1>3, SumOfNaturals
    <2>5. Sum(loss, I) \in Nat
      BY <1>1, <1>3, SumOfNaturals
    <2> QED
      BY <2>1, <2>2, <2>3, <2>4, <2>5
  <1>6. Sum(share, I) = amount * Whole
    <2>1. \A i \in I : percent[i] \in Int /\ share[i] = amount * percent[i]
      BY <1>3
    <2> QED
      BY <1>1, <1>4, <2>1, SumScale
  <1>7. Sum(wholes, I) = Whole * P
    <2>1. Whole \in Int /\ \A i \in I : part[i] \in Int /\ wholes[i] = Whole * part[i]
      BY <1>2, <1>3
    <2> QED
      BY <1>1, <2>1, SumScale
  <1>8. Sum(loss, I) = (Whole - 1) * n
    <2>1. Whole - 1 \in Int /\ \A i \in I : ones[i] \in Int /\ loss[i] = (Whole - 1) * ones[i]
      BY <1>2, <1>3
    <2> QED
      BY <1>1, <2>1, SumScale
  <1>9. Sum(ceiling, I) = Sum(wholes, I) + Sum(loss, I)
    <2>1. \A i \in I : wholes[i] \in Int /\ loss[i] \in Int /\ ceiling[i] = wholes[i] + loss[i]
      BY <1>3
    <2> QED
      BY <1>1, <2>1, SumPlus
  <1>10. Sum(wholes, I) <= Sum(share, I)
    <2>1. \A i \in I : wholes[i] \in Int /\ share[i] \in Int /\ wholes[i] <= share[i]
      BY <1>3
    <2> QED
      BY <1>1, <2>1, SumMonotonic
  <1>11. Sum(share, I) <= Sum(ceiling, I)
    <2>1. \A i \in I : share[i] \in Int /\ ceiling[i] \in Int /\ share[i] <= ceiling[i]
      BY <1>3
    <2> QED
      BY <1>1, <2>1, SumMonotonic
  <1>12. n = Len(list) /\ n > 0
    <2>1. n = Cardinality(I)
      BY <1>1, <1>3, SumOfOnes
    <2>2. n = Len(list)
      BY <2>1, PositionsFinite DEF I
    <2>3. ASSUME n = 0 PROVE FALSE
      <3>1. I = {}
        BY <2>2, <2>3, PositionsFinite DEF I
      <3>2. Sum(percent, I) = 0
        BY <3>1, SumEmpty
      <3> QED
        BY <1>2, <1>4, <3>2
    <2> QED
      BY <1>5, <2>2, <2>3
  <1> HIDE DEF P, n
  <1>13. Whole * P <= amount * Whole /\ amount * Whole <= Whole * P + (Whole - 1) * n
    BY <1>5, <1>6, <1>7, <1>8, <1>9, <1>10, <1>11
  <1>14. P <= amount /\ amount - P < n
    <2>1. ASSUME NEW p \in Nat, NEW x \in Nat, NEW w \in Nat \ {0}, NEW k \in Nat, k > 0,
                 w * p <= x * w, x * w <= w * p + (w - 1) * k
          PROVE  p <= x /\ x - p < k
      <3>1. p <= x
        BY <2>1, SMT
      <3>2. w * (x - p) <= (w - 1) * k
        BY <2>1, SMT
      <3>3. (w - 1) * k < w * k
        BY <2>1, SMT
      <3>4. w * (x - p) < w * k
        BY <2>1, <3>2, <3>3, SMT
      <3>5. x - p < k
        BY <2>1, <3>4, SMT
      <3> QED
        BY <3>1, <3>5
    <2> QED
      BY <1>2, <1>5, <1>12, <1>13, <2>1
  <1>15. Total([i \in DOMAIN list |-> Part(amount, list[i])], DOMAIN list) = P
    BY TotalIsSum DEF P, part, I
  <1> QED
    BY <1>5, <1>12, <1>14, <1>15
-----------------------------------------------------------------------------
(* Money that moves *)

\* What the recipients get is all that is paid, also when one is named twice.
LEMMA PaidInFull ==
    ASSUME NEW list \in Seq(RecipientDetails),
           \A i \in DOMAIN list : list[i].recipient \in Accounts,
           NEW part, \A i \in DOMAIN list : part[i] \in Nat
    PROVE  /\ \A a \in Accounts : PaidTo(a, list, part) \in Nat
           /\ Sum([a \in Accounts |-> PaidTo(a, list, part)], Accounts) = Total(part, DOMAIN list)
           /\ Total(part, DOMAIN list) \in Nat
PROOF
  <1> DEFINE I == DOMAIN list
             class == [i \in I |-> list[i].recipient]
  <1>1. IsFiniteSet(I) /\ IsFiniteSet(Accounts)
    BY PositionsFinite, PayeesFinite
  <1>2. \A i \in I : class[i] \in Accounts /\ part[i] \in Int /\ part[i] \in Nat
    OBVIOUS
  <1>3. \A a \in Accounts : {i \in DOMAIN list : list[i].recipient = a} = {i \in I : class[i] = a}
    OBVIOUS
  <1>4. \A a \in Accounts : PaidTo(a, list, part) = Sum(part, {i \in I : class[i] = a})
    BY <1>3, TotalIsSum DEF PaidTo
  <1> HIDE DEF I, class
  <1>5. Sum([a \in Accounts |-> Sum(part, {i \in I : class[i] = a})], Accounts) = Sum(part, I)
    BY <1>1, <1>2, SumByClass
  <1>6. ASSUME NEW a \in Accounts PROVE PaidTo(a, list, part) \in Nat
    <2>1. IsFiniteSet({i \in I : class[i] = a})
      BY <1>1, FS_Subset
    <2>2. \A i \in {i \in I : class[i] = a} : part[i] \in Nat
      BY <1>2
    <2>3. Sum(part, {i \in I : class[i] = a}) \in Nat
      BY <2>1, <2>2, SumOfNaturals
    <2> QED
      BY <1>4, <2>3
  <1>7. Sum(part, I) \in Nat
    BY <1>1, <1>2, SumOfNaturals
  <1>8. Total(part, DOMAIN list) = Sum(part, I)
    BY TotalIsSum DEF I
  <1>9. [a \in Accounts |-> PaidTo(a, list, part)]
           = [a \in Accounts |-> Sum(part, {i \in I : class[i] = a})]
    BY <1>4
  <1> QED
    BY <1>5, <1>6, <1>7, <1>8, <1>9

\* What a distribution takes from the distributor it hands to the recipients, one that
\* is named twice, and the distributor itself, included.
LEMMA DistributionAddsUp ==
    ASSUME NEW old \in [Accounts -> Nat], NEW list \in Seq(RecipientDetails),
           \A i \in DOMAIN list : list[i].recipient \in Accounts,
           NEW part, \A i \in DOMAIN list : part[i] \in Nat,
           NEW paid, paid = Total(part, DOMAIN list), paid <= old[FeeDistributor]
    PROVE  LET new == [a \in Accounts |-> old[a] + PaidTo(a, list, part)
                                            - (IF a = FeeDistributor THEN paid ELSE 0)] IN
           /\ new \in [Accounts -> Nat]
           /\ Total(new, Accounts) = Total(old, Accounts)
           /\ new[FeeDistributor] = old[FeeDistributor] - paid + PaidTo(FeeDistributor, list, part)
PROOF
  <1> DEFINE got == [a \in Accounts |-> PaidTo(a, list, part)]
             new == [a \in Accounts |-> old[a] + PaidTo(a, list, part)
                                          - (IF a = FeeDistributor THEN paid ELSE 0)]
  <1>1. /\ \A a \in Accounts : PaidTo(a, list, part) \in Nat
        /\ Sum(got, Accounts) = paid /\ paid \in Nat
    BY PaidInFull
  <1>2. got \in [Accounts -> Nat]
    BY <1>1
  <1>3. \A a \in Accounts : new[a] = old[a] + got[a] - (IF a = FeeDistributor THEN paid ELSE 0)
    OBVIOUS
  <1>4. \A a \in Accounts : new[a] \in Nat
    BY <1>1, <1>2, <1>3
  <1>5. new \in [Accounts -> Nat] /\ new \in [Accounts -> Int]
    BY <1>4
  <1>6. new[FeeDistributor] = old[FeeDistributor] - paid + PaidTo(FeeDistributor, list, part)
    BY <1>1, <1>2, <1>3, FeeDistributorAssumption
  <1> HIDE DEF got, new
  <1>7. Sum(new, Accounts) = Sum(old, Accounts)
    <2> DEFINE f == old
    <2>1. /\ \A a \in Accounts : f[a] \in Int /\ got[a] \in Int
          /\ new[FeeDistributor] = f[FeeDistributor] + got[FeeDistributor] - paid
          /\ \A a \in Accounts \ {FeeDistributor} : new[a] = f[a] + got[a]
      BY <1>2, <1>3, FeeDistributorAssumption
    <2>2. IsFiniteSet(Accounts) /\ FeeDistributor \in Accounts /\ paid \in Int
      BY <1>1, PayeesFinite, FeeDistributorAssumption
    <2>3. Sum(got, Accounts) = paid
      BY <1>1
    <2> HIDE DEF f
    <2>4. Sum(new, Accounts) = Sum(f, Accounts)
      BY <2>1, <2>2, <2>3, SumHandOut
    <2> QED
      BY <2>4 DEF f
  <1>8. Total(new, Accounts) = Total(old, Accounts)
    BY <1>7, TotalIsSum
  <1> QED
    BY <1>5, <1>6, <1>8 DEF new

\* One balance changes.
LEMMA OneBalanceGrows ==
    ASSUME NEW old \in [Accounts -> Nat], NEW a \in Accounts, NEW amount \in Nat
    PROVE  LET new == [old EXCEPT ![a] = @ + amount] IN
           /\ new \in [Accounts -> Nat]
           /\ Total(new, Accounts) = Total(old, Accounts) + amount
PROOF
  <1> DEFINE new == [old EXCEPT ![a] = @ + amount]
  <1>1. /\ new \in [Accounts -> Nat] /\ new[a] = old[a] + amount /\ old[a] \in Int
        /\ \A b \in Accounts : old[b] \in Int /\ new[b] \in Int
        /\ \A b \in Accounts \ {a} : new[b] = old[b]
    OBVIOUS
  <1> HIDE DEF new
  <1>2. Sum(new, Accounts) = Sum(old, Accounts) + new[a] - old[a]
    BY <1>1, PayeesFinite, SumUpdate
  <1>3. Sum(old, Accounts) \in Int
    BY <1>1, PayeesFinite, SumIsInt
  <1>4. Total(new, Accounts) = Total(old, Accounts) + amount
    BY <1>1, <1>2, <1>3, TotalIsSum
  <1> QED
    BY <1>1, <1>4 DEF new

\* A payment from one account to another
LEMMA PaymentAddsUp ==
    ASSUME NEW old \in [Accounts -> Nat], NEW from \in Accounts, NEW to \in Accounts, from # to,
           NEW amount \in Nat,
           NEW new, \A b \in Accounts : new[b] \in Int,
           new[from] = old[from] - amount, new[to] = old[to] + amount,
           \A b \in Accounts \ {from, to} : new[b] = old[b]
    PROVE  Total(new, Accounts) = Total(old, Accounts)
PROOF
  <1>1. \A b \in Accounts : old[b] \in Int
    OBVIOUS
  <1>2. Sum(new, Accounts) = Sum(old, Accounts)
    BY <1>1, PayeesFinite, SumMove
  <1> QED
    BY <1>1, <1>2, TotalIsSum
-----------------------------------------------------------------------------
(* The ledgers *)

\* What every ledger says was paid
PaidBy(ledgers) == [k \in DOMAIN ledgers |-> Total(ledgers[k], Claimants)]

Ledger == [Claimants -> Nat]

\* Each ledger adds up to a number.
LEMMA LedgerTotals ==
    ASSUME NEW ledgers \in Seq(Ledger)
    PROVE  \A k \in DOMAIN ledgers : PaidBy(ledgers)[k] \in Int
PROOF
  <1> SUFFICES ASSUME NEW k \in DOMAIN ledgers PROVE PaidBy(ledgers)[k] \in Int
    OBVIOUS
  <1>1. ledgers[k] \in [Claimants -> Nat]
    BY DEF Ledger
  <1>2. \A u \in Claimants : ledgers[k][u] \in Int
    BY <1>1
  <1>3. Claimants \in SUBSET Claimants
    OBVIOUS
  <1> DEFINE ledger == ledgers[k]
  <1>4. \A u \in Claimants : ledger[u] \in Int
    BY <1>2
  <1> HIDE DEF ledger
  <1>5. Sum(ledger, Claimants) \in Int
    BY <1>3, <1>4, PayeesFinite, SumIsInt
  <1>6. PaidBy(ledgers)[k] = Sum(ledger, Claimants)
    BY TotalIsSum DEF PaidBy, ledger
  <1> QED
    BY <1>5, <1>6

\* A new ledger adds nothing to what was paid.
LEMMA NewLedgerAddsNothing ==
    ASSUME NEW ledgers \in Seq(Ledger)
    PROVE  LET more == Append(ledgers, [u \in Claimants |-> 0]) IN
           /\ more \in Seq(Ledger) /\ Len(more) = Len(ledgers) + 1
           /\ more[Len(more)] = [u \in Claimants |-> 0]
           /\ Total(PaidBy(more), DOMAIN more) = Total(PaidBy(ledgers), DOMAIN ledgers)
PROOF
  <1> DEFINE empty == [u \in Claimants |-> 0]
             more == Append(ledgers, empty)
             n == Len(ledgers) + 1
             I == DOMAIN ledgers
             J == DOMAIN more
             f == PaidBy(ledgers)
             g == PaidBy(more)
  <1>1. /\ empty \in Ledger /\ more \in Seq(Ledger) /\ Len(more) = n /\ n \in Nat
        /\ I = 1 .. Len(ledgers) /\ J = 1 .. n /\ more[n] = empty
        /\ \A k \in I : more[k] = ledgers[k]
    BY DEF Ledger
  <1>2. I \in SUBSET J /\ n \in J \ I /\ J = I \cup {n}
    BY <1>1
  <1>3. IsFiniteSet(I) /\ IsFiniteSet(J)
    BY <1>1, PositionsFinite
  <1>4. \A k \in J : g[k] \in Int
    <2> HIDE DEF more
    <2> QED
      BY <1>1, LedgerTotals
  <1>5. \A k \in I : g[k] = f[k]
    BY <1>1, <1>2 DEF PaidBy
  <1>6. g[n] = 0
    <2>1. \A u \in Claimants : empty[u] = 0
      OBVIOUS
    <2> HIDE DEF empty
    <2>2. Sum(empty, Claimants) = 0
      BY <2>1, PayeesFinite, SumZero
    <2> QED
      BY <1>1, <1>2, <2>2, TotalIsSum DEF PaidBy
  <1>7. Total(f, I) = Sum(f, I) /\ Total(g, J) = Sum(g, J)
    BY TotalIsSum
  <1> HIDE DEF f, g, I, J, n
  <1>8. Sum(g, I) = Sum(f, I)
    <2>1. \A k \in I : f[k] \in Int /\ g[k] = f[k]
      BY <1>2, <1>4, <1>5
    <2> QED
      BY <1>3, <2>1, SumSame
  <1>9. Sum(g, J) = g[n] + Sum(g, I)
    <2>1. Sum(g, I \cup {n}) = g[n] + Sum(g, I)
      BY <1>2, <1>3, <1>4, SumAdd
    <2> QED
      BY <1>2, <2>1
  <1>10. Sum(g, I) \in Int
    BY <1>2, <1>3, <1>4, SumIsInt
  <1>11. Total(g, J) = Total(f, I)
    BY <1>6, <1>7, <1>8, <1>9, <1>10
  <1> QED
    BY <1>1, <1>11 DEF f, g, I, J, n

\* The last ledger grows by what one user is paid.
LEMMA LastLedgerGrows ==
    ASSUME NEW ledgers \in Seq(Ledger), Len(ledgers) > 0, NEW user \in Claimants, NEW value \in Nat
    PROVE  LET n == Len(ledgers)
               more == [ledgers EXCEPT ![n][user] = value]
           IN  /\ more \in Seq(Ledger) /\ Len(more) = n
               /\ more[n] = [ledgers[n] EXCEPT ![user] = value]
               /\ Total(PaidBy(more), DOMAIN more)
                     = Total(PaidBy(ledgers), DOMAIN ledgers) + (value - ledgers[n][user])
PROOF
  <1> DEFINE n == Len(ledgers)
             more == [ledgers EXCEPT ![n][user] = value]
             I == DOMAIN ledgers
             f == PaidBy(ledgers)
             g == PaidBy(more)
             old == ledgers[n]
             new == [ledgers[n] EXCEPT ![user] = value]
  <1>1. n \in Nat /\ n \in 1 .. n /\ I = 1 .. n /\ n \in I /\ ledgers[n] \in [Claimants -> Nat]
    BY DEF Ledger
  <1>2. new \in Ledger
    BY <1>1 DEF Ledger
  <1>3. more = [ledgers EXCEPT ![n] = new]
    OBVIOUS
  <1>4. /\ more \in Seq(Ledger) /\ Len(more) = n /\ DOMAIN more = I /\ more[n] = new
        /\ \A k \in I \ {n} : more[k] = ledgers[k]
    <2> HIDE DEF new, more, n, I
    <2>1. more \in Seq(Ledger)
      BY <1>1, <1>2, <1>3 DEF n, I
    <2>2. Len(more) = n /\ DOMAIN more = I
      BY <1>1, <1>3 DEF n, I
    <2>3. more[n] = new /\ \A k \in I \ {n} : more[k] = ledgers[k]
      BY <1>1, <1>3 DEF I
    <2> QED
      BY <2>1, <2>2, <2>3
  <1>5. IsFiniteSet(I) /\ I \in SUBSET I
    BY PositionsFinite
  <1>6. \A k \in I : f[k] \in Int /\ g[k] \in Int
    <2>1. \A k \in I : f[k] \in Int
      BY LedgerTotals
    <2> HIDE DEF more
    <2>2. \A k \in I : g[k] \in Int
      BY <1>4, LedgerTotals
    <2> QED
      BY <2>1, <2>2
  <1>7. \A k \in I \ {n} : g[k] = f[k]
    BY <1>4 DEF PaidBy
  <1>8. g[n] - f[n] = value - old[user] /\ f[n] \in Int /\ g[n] \in Int
    <2>1. /\ \A u \in Claimants : old[u] \in Int /\ new[u] \in Int
          /\ \A u \in Claimants \ {user} : new[u] = old[u]
          /\ new[user] = value /\ old[user] \in Int
      BY <1>1
    <2>2. f[n] = Sum(old, Claimants) /\ g[n] = Sum(new, Claimants)
      BY <1>1, <1>4, TotalIsSum DEF PaidBy
    <2>3. Claimants \in SUBSET Claimants
      OBVIOUS
    <2> HIDE DEF old, new
    <2>4. Sum(new, Claimants) = Sum(old, Claimants) + new[user] - old[user]
      BY <2>1, PayeesFinite, SumUpdate
    <2>5. Sum(old, Claimants) \in Int
      BY <2>1, <2>3, PayeesFinite, SumIsInt
    <2>6. Sum(new, Claimants) - Sum(old, Claimants) = value - old[user] /\ Sum(new, Claimants) \in Int
      BY <2>1, <2>4, <2>5
    <2> QED
      BY <2>2, <2>5, <2>6
  <1>9. Total(f, I) = Sum(f, I) /\ Total(g, I) = Sum(g, I)
    BY TotalIsSum
  <1> HIDE DEF f, g
  <1>10. Sum(g, I) = Sum(f, I) + g[n] - f[n]
    <2> HIDE DEF I, n
    <2> QED
      BY <1>1, <1>5, <1>6, <1>7, SumUpdate
  <1>11. Sum(f, I) \in Int
    BY <1>5, <1>6, SumIsInt
  <1>12. Total(g, I) = Total(f, I) + (value - old[user])
    BY <1>8, <1>9, <1>10, <1>11
  <1> QED
    BY <1>4, <1>12 DEF f, g
-----------------------------------------------------------------------------
(* The inductive invariant *)

LedgersAddUp == totalClaimedReward = Total(PaidBy(claimedRewards), DOMAIN claimedRewards)

IncomeKept == \A c \in Currencies : income[c] = Total(balance[c], Accounts)

\* MoneyAccounted is about the ledgers, and about the balances.
LEMMA MoneyParts ==
    /\ MoneyAccounted <=> LedgersAddUp /\ IncomeKept
    /\ MoneyAccounted' <=> LedgersAddUp' /\ IncomeKept'
  BY DEF MoneyAccounted, LedgersAddUp, IncomeKept, PaidBy

\* The types of the money and of the list, and those of the rewards
MoneyTypes ==
    /\ recipients \in Seq(RecipientDetails)
    /\ balance \in [Currencies -> [Accounts -> Nat]]
    /\ income \in [Currencies -> Nat]

RewardTypes ==
    /\ erc20RewardToken \in {Token, ZeroAddress}
    /\ features \subseteq {FEATURE_CLAIM_ACTIVE}
    /\ root \subseteq Claimants \X Totals
    /\ claimedRewards \in Seq(Ledger) /\ Len(claimedRewards) > 0
    /\ totalClaimedReward \in Nat
    /\ granted \in [Claimants -> SUBSET Totals] /\ received \in [Claimants -> Nat]

\* The types are those of the money and those of the rewards.
LEMMA TypeParts ==
    /\ FundsTypeOK <=> MoneyTypes /\ RewardTypes
    /\ FundsTypeOK' <=> MoneyTypes' /\ RewardTypes'
  BY DEF FundsTypeOK, MoneyTypes, RewardTypes, Ledger

\* What the invariant says about the money, and about the rewards
MoneyInv == MoneyTypes /\ ListDivides /\ IncomeKept

RewardInv == RewardTypes /\ RootGranted /\ NeverOverpaid /\ LedgersAddUp

\* So the invariant can be shown part by part.
LEMMA InvParts ==
    /\ FundsInv <=> MoneyInv /\ RewardInv
    /\ FundsInv' <=> MoneyInv' /\ RewardInv'
PROOF
  <1>1. FundsInv <=> MoneyInv /\ RewardInv
    BY MoneyParts, TypeParts DEF FundsInv, MoneyInv, RewardInv
  <1>2. FundsInv' <=> MoneyInv' /\ RewardInv'
    BY MoneyParts, TypeParts DEF FundsInv, MoneyInv, RewardInv
  <1> QED
    BY <1>1, <1>2

\* Money that comes in, or is handed out, concerns no reward.
LEMMA RewardsUntouched ==
    ASSUME RewardInv, UNCHANGED <<rewardVars, granted, received>>
    PROVE  RewardInv'
PROOF
  <1>1. UNCHANGED <<erc20RewardToken, features, root, claimedRewards, totalClaimedReward,
                    granted, received>>
    BY DEF rewardVars
  <1>2. RewardTypes' /\ RootGranted'
    BY <1>1 DEF RewardInv, RewardTypes, RootGranted
  <1>3. NeverOverpaid'
    BY <1>1 DEF RewardInv, NeverOverpaid, claimedReward
  <1>4. LedgersAddUp'
    BY <1>1 DEF RewardInv, LedgersAddUp
  <1> QED
    BY <1>2, <1>3, <1>4 DEF RewardInv

\* Roots, resets and features concern no money.
LEMMA MoneyUntouched ==
    ASSUME MoneyInv, UNCHANGED <<recipientVars, balance, income>>
    PROVE  MoneyInv'
PROOF
  <1>1. UNCHANGED <<recipients, balance, income>>
    BY DEF recipientVars
  <1> QED
    BY <1>1 DEF MoneyInv, MoneyTypes, ListDivides, IncomeKept

\* Fees and payments that come in keep the invariant.
LEMMA PayInInv ==
    ASSUME FundsInv, NEW currency \in Currencies, NEW a \in Accounts, NEW amount \in Nat,
           PayIn(currency, a, amount)
    PROVE  FundsInv'
PROOF
  <1> DEFINE old == balance[currency]
             new == [old EXCEPT ![a] = @ + amount]
  <1>1. MoneyInv /\ RewardInv
    BY InvParts
  <1>2. /\ balance \in [Currencies -> [Accounts -> Nat]] /\ old \in [Accounts -> Nat]
        /\ income \in [Currencies -> Nat] /\ recipients \in Seq(RecipientDetails)
        /\ ListDivides /\ \A c \in Currencies : income[c] = Total(balance[c], Accounts)
    BY <1>1 DEF MoneyInv, MoneyTypes, IncomeKept
  <1>3. new \in [Accounts -> Nat] /\ Total(new, Accounts) = Total(old, Accounts) + amount
    <2>1. old \in [Accounts -> Nat]
      BY <1>2
    <2> HIDE DEF old
    <2> QED
      BY <2>1, OneBalanceGrows, Zenon
  <1>4. /\ balance' = [balance EXCEPT ![currency] = new]
        /\ income' = [income EXCEPT ![currency] = @ + amount]
        /\ recipients' = recipients /\ UNCHANGED <<rewardVars, granted, received>>
    BY DEF PayIn, recipientVars
  <1> HIDE DEF new
  <1>5. balance' \in [Currencies -> [Accounts -> Nat]] /\ income' \in [Currencies -> Nat]
    BY <1>2, <1>3, <1>4
  <1>6. \A c \in Currencies : income'[c] = Total(balance'[c], Accounts)
    <2> SUFFICES ASSUME NEW c \in Currencies PROVE income'[c] = Total(balance'[c], Accounts)
      OBVIOUS
    <2>1. CASE c = currency
      BY <1>2, <1>3, <1>4, <2>1
    <2>2. CASE c # currency
      BY <1>2, <1>4, <2>2
    <2> QED
      BY <2>1, <2>2
  <1>7. ListDivides'
    BY <1>2, <1>4 DEF ListDivides
  <1>8. MoneyInv'
    BY <1>2, <1>4, <1>5, <1>6, <1>7 DEF MoneyInv, MoneyTypes, IncomeKept
  <1> QED
    BY <1>1, <1>4, <1>8, RewardsUntouched, InvParts

\* The parts of what the distributor has
LEMMA PartsTyped ==
    ASSUME NEW list \in Seq(RecipientDetails), NEW amount \in Nat
    PROVE  \A i \in DOMAIN list : [j \in DOMAIN list |-> Part(amount, list[j])][i] \in Nat
  BY PositionsFinite, PartBounds

\* What a distribution does to the balance of the distributor and of everybody else
LEMMA DistributeEffect ==
    ASSUME MoneyInv, NEW sender, NEW currency \in Currencies,
           Distribute(sender, currency)
    PROVE  /\ balance' \in [Currencies -> [Accounts -> Nat]]
           /\ \A c \in Currencies \ {currency} : balance'[c] = balance[c]
           /\ Total(balance'[currency], Accounts) = Total(balance[currency], Accounts)
           /\ recipients # <<>> /\ recipients' = recipients
           /\ balance'[currency][FeeDistributor] - PaidToItself(currency) < Len(recipients)
PROOF
  <1> DEFINE old    == balance[currency]
             amount == old[FeeDistributor]
             part   == [i \in DOMAIN recipients |-> Part(amount, recipients[i])]
             paid   == Total(part, DOMAIN recipients)
             new    == [a \in Accounts |-> old[a] + PaidTo(a, recipients, part)
                                             - (IF a = FeeDistributor THEN paid ELSE 0)]
  <1>1. /\ balance \in [Currencies -> [Accounts -> Nat]] /\ old \in [Accounts -> Nat]
        /\ recipients \in Seq(RecipientDetails) /\ FeeDistributor \in Accounts /\ amount \in Nat
        /\ \A i \in DOMAIN recipients : recipients[i].recipient \in Accounts
    BY FeeDistributorAssumption DEF MoneyInv, MoneyTypes, ListDivides
  <1>2. /\ recipients # <<>> /\ recipients' = recipients /\ paid <= amount
        /\ balance' = [balance EXCEPT ![currency] = new]
    BY DEF Distribute, distribute
  <1>3. \A i \in DOMAIN recipients : part[i] \in Nat
    BY <1>1, PartsTyped
  <1>4. /\ new \in [Accounts -> Nat]
        /\ Total(new, Accounts) = Total(old, Accounts)
        /\ new[FeeDistributor] = amount - paid + PaidTo(FeeDistributor, recipients, part)
    <2> HIDE DEF part
    <2> QED
      BY <1>1, <1>2, <1>3, DistributionAddsUp
  <1>5. paid \in Nat /\ amount - paid < Len(recipients)
    BY <1>1, <1>2, PartsFit DEF MoneyInv, ListDivides
  <1>6. PaidToItself(currency) = PaidTo(FeeDistributor, recipients, part)
    BY DEF PaidToItself
  <1>7. PaidTo(FeeDistributor, recipients, part) \in Nat
    <2> HIDE DEF part
    <2> QED
      BY <1>1, <1>3, PaidInFull
  <1> HIDE DEF new, part, paid
  <1>8. balance'[currency] = new /\ \A c \in Currencies \ {currency} : balance'[c] = balance[c]
    BY <1>1, <1>2
  <1>9. balance' \in [Currencies -> [Accounts -> Nat]]
    BY <1>1, <1>2, <1>4
  <1>10. new[FeeDistributor] - PaidToItself(currency) < Len(recipients)
    <2>1. PaidToItself(currency) \in Int
      BY <1>1, <1>6, <1>7
    <2> QED
      BY <1>1, <1>4, <1>5, <1>6, <2>1
  <1> QED
    BY <1>2, <1>4, <1>8, <1>9, <1>10

\* A distribution keeps it: it moves money and loses none.
LEMMA DistributeInv ==
    ASSUME FundsInv, NEW sender, NEW currency \in Currencies,
           Distribute(sender, currency)
    PROVE  FundsInv'
PROOF
  <1>1. MoneyInv /\ RewardInv
    BY InvParts
  <1>2. UNCHANGED <<rewardVars, income, granted, received>>
    BY DEF Distribute, historyVars
  <1>3. /\ balance' \in [Currencies -> [Accounts -> Nat]]
        /\ \A c \in Currencies : Total(balance'[c], Accounts) = Total(balance[c], Accounts)
        /\ recipients' = recipients
    BY <1>1, DistributeEffect
  <1>4. MoneyInv'
    BY <1>1, <1>2, <1>3 DEF MoneyInv, MoneyTypes, ListDivides, IncomeKept
  <1> QED
    BY <1>1, <1>2, <1>4, RewardsUntouched, InvParts

\* A new list keeps it, since it is refused unless it divides the whole.
LEMMA UpdateRecipientsInv ==
    ASSUME FundsInv, NEW sender, NEW list \in RecipientLists, UpdateRecipients(sender, list)
    PROVE  FundsInv'
PROOF
  <1>1. MoneyInv /\ RewardInv
    BY InvParts
  <1>2. /\ list \in Seq(RecipientDetails) /\ recipients' = list
        /\ Total([i \in DOMAIN list |-> list[i].allocationPercent], DOMAIN list) = Whole
        /\ \A i \in DOMAIN list : list[i].recipient # ZeroAddress
        /\ UNCHANGED <<balance, rewardVars, income, granted, received>>
    BY FeeDistributorAssumption DEF UpdateRecipients, updateRecipientsList, historyVars
  <1>3. \A i \in DOMAIN list : list[i] \in RecipientDetails
    BY <1>2, PositionsFinite
  <1>4. \A i \in DOMAIN list : list[i].recipient \in Accounts
    BY <1>2, <1>3 DEF RecipientDetails
  <1>5. ListDivides'
    BY <1>2, <1>4 DEF ListDivides
  <1>6. MoneyInv'
    BY <1>1, <1>2, <1>5 DEF MoneyInv, MoneyTypes, IncomeKept
  <1> QED
    BY <1>1, <1>2, <1>6, RewardsUntouched, InvParts

\* Steps of the reward system that pay nobody
LEMMA UpdateFeaturesInv ==
    ASSUME FundsInv, NEW sender, NEW mask \in SUBSET {FEATURE_CLAIM_ACTIVE},
           UpdateFeatures(sender, mask)
    PROVE  FundsInv'
PROOF
  <1>1. MoneyInv /\ RewardInv
    BY InvParts
  <1>2. /\ features' = EvaluateBy(UserRoles[sender], features, mask)
        /\ UNCHANGED <<erc20RewardToken, root, claimedRewards, totalClaimedReward>>
        /\ UNCHANGED <<recipientVars, balance, income, granted, received>>
    BY DEF UpdateFeatures, updateFeatures, historyVars
  <1>3. features' \subseteq {FEATURE_CLAIM_ACTIVE}
    BY <1>1, <1>2 DEF EvaluateBy, RewardInv, RewardTypes
  <1>4. RewardTypes' /\ RootGranted' /\ NeverOverpaid' /\ LedgersAddUp'
    BY <1>1, <1>2, <1>3
       DEF RewardInv, RewardTypes, RootGranted, NeverOverpaid, claimedReward, LedgersAddUp
  <1> QED
    BY <1>1, <1>2, <1>4, MoneyUntouched, InvParts DEF RewardInv

\* A new root keeps it: what it grants is recorded.
LEMMA PublishInv ==
    ASSUME FundsInv, NEW sender, NEW newRoot \in Roots, Publish(sender, newRoot)
    PROVE  FundsInv'
PROOF
  <1>1. MoneyInv /\ RewardInv
    BY InvParts
  <1>2. /\ root' = newRoot /\ newRoot \subseteq Claimants \X Totals
        /\ granted' = [u \in Claimants |-> granted[u] \cup Grants(newRoot, u)]
        /\ UNCHANGED <<erc20RewardToken, features, claimedRewards, totalClaimedReward, received>>
        /\ UNCHANGED <<recipientVars, balance, income>>
    BY RewardAssumption DEF Publish, setInputDataRoot
  <1>3. granted \in [Claimants -> SUBSET Totals]
    BY <1>1 DEF RewardInv, RewardTypes
  <1>4. granted' \in [Claimants -> SUBSET Totals]
    BY <1>2, <1>3 DEF Grants
  <1>5. RewardTypes'
    BY <1>1, <1>2, <1>4 DEF RewardInv, RewardTypes
  <1>6. RootGranted'
    <2> SUFFICES ASSUME NEW pair \in newRoot PROVE pair[2] \in granted'[pair[1]]
      BY <1>2 DEF RootGranted
    <2>1. pair = <<pair[1], pair[2]>> /\ pair[1] \in Claimants /\ pair[2] \in Totals
      BY <1>2
    <2>2. pair[2] \in Grants(newRoot, pair[1])
      BY <2>1 DEF Grants
    <2> QED
      BY <1>2, <2>1, <2>2
  <1>7. NeverOverpaid'
    BY <1>1, <1>2 DEF RewardInv, NeverOverpaid, claimedReward
  <1>8. LedgersAddUp'
    BY <1>1, <1>2 DEF RewardInv, LedgersAddUp
  <1> QED
    BY <1>1, <1>2, <1>5, <1>6, <1>7, <1>8, MoneyUntouched, InvParts DEF RewardInv

\* A new ledger keeps it: the root is forgotten with the old ledger.
LEMMA ResetInv ==
    ASSUME FundsInv, NEW sender, Reset(sender)
    PROVE  FundsInv'
PROOF
  <1>1. MoneyInv /\ RewardInv
    BY InvParts
  <1>2. /\ root' = {} /\ claimedRewards' = Append(claimedRewards, [u \in Claimants |-> 0])
        /\ granted' = [u \in Claimants |-> {}] /\ received' = [u \in Claimants |-> 0]
        /\ UNCHANGED <<erc20RewardToken, features, totalClaimedReward>>
        /\ UNCHANGED <<recipientVars, balance, income>>
    BY DEF Reset, resetClaimedRewards, NewLedger, Nothing
  <1>3. claimedRewards \in Seq(Ledger) /\ Len(claimedRewards) > 0
    BY <1>1 DEF RewardInv, RewardTypes
  <1>4. /\ claimedRewards' \in Seq(Ledger) /\ Len(claimedRewards') = Len(claimedRewards) + 1
        /\ claimedRewards'[Len(claimedRewards')] = [u \in Claimants |-> 0]
        /\ Total(PaidBy(claimedRewards'), DOMAIN claimedRewards')
              = Total(PaidBy(claimedRewards), DOMAIN claimedRewards)
    BY <1>2, <1>3, NewLedgerAddsNothing
  <1>5. RewardTypes'
    BY <1>1, <1>2, <1>3, <1>4 DEF RewardInv, RewardTypes
  <1>6. RootGranted'
    BY <1>2 DEF RootGranted
  <1>7. NeverOverpaid'
    <2>1. \A u \in Claimants : claimedReward(u)' = 0 /\ received'[u] = 0
      BY <1>2, <1>4 DEF claimedReward
    <2> QED
      BY <2>1 DEF NeverOverpaid
  <1>8. LedgersAddUp'
    BY <1>1, <1>2, <1>4 DEF RewardInv, LedgersAddUp
  <1> QED
    BY <1>1, <1>2, <1>5, <1>6, <1>7, <1>8, MoneyUntouched, InvParts DEF RewardInv

\* A total that can be claimed is more than the ledger says was paid.
LEMMA ClaimIsDue ==
    ASSUME FundsInv, NEW to \in Claimants, NEW totalReward \in Totals, ClaimReward(to, totalReward)
    PROVE  Claimable(to, totalReward) \in Nat
PROOF
  <1>1. claimedReward(to) \in Nat
    BY InvParts DEF RewardInv, RewardTypes, NeverOverpaid
  <1>2. claimedReward(to) < totalReward /\ totalReward \in Nat
    BY RewardAssumption DEF ClaimReward, claimReward
  <1> QED
    BY <1>1, <1>2 DEF Claimable

\* A claim moves what is still due of one total to the user, and records it.
LEMMA ClaimRewardInv ==
    ASSUME FundsInv, NEW to \in Claimants, NEW totalReward \in Totals, ClaimReward(to, totalReward)
    PROVE  FundsInv'
PROOF
  <1> DEFINE n      == Len(claimedRewards)
             due    == totalReward - claimedRewards[n][to]
             old    == balance[Currency]
             new    == [old EXCEPT ![RewardSystemAddress] = @ - due, ![to] = @ + due]
  <1>1. MoneyInv /\ RewardInv
    BY InvParts
  <1>2. /\ <<to, totalReward>> \in root
        /\ claimedRewards[n][to] < totalReward
        /\ due <= old[RewardSystemAddress]
        /\ claimedRewards' = [claimedRewards EXCEPT ![n][to] = totalReward]
        /\ totalClaimedReward' = totalClaimedReward + due
        /\ balance' = [balance EXCEPT ![Currency][RewardSystemAddress] = @ - due,
                                      ![Currency][to] = @ + due]
        /\ received' = [received EXCEPT ![to] = @ + balance'[Currency][to] - balance[Currency][to]]
        /\ UNCHANGED <<erc20RewardToken, features, root, recipients, income, granted>>
    BY DEF ClaimReward, claimReward, Claimable, claimedReward, updateClaimedReward, recipientVars
  <1>3. /\ claimedRewards \in Seq(Ledger) /\ n > 0 /\ n \in DOMAIN claimedRewards
        /\ claimedRewards[n] \in [Claimants -> Nat] /\ totalReward \in Nat
        /\ received \in [Claimants -> Nat] /\ totalClaimedReward \in Nat
    BY <1>1, RewardAssumption DEF RewardInv, RewardTypes, Ledger
  <1>4. /\ balance \in [Currencies -> [Accounts -> Nat]] /\ Currency \in Currencies
        /\ old \in [Accounts -> Nat] /\ RewardSystemAddress \in Accounts /\ to \in Accounts
        /\ RewardSystemAddress # to
    <2>1. balance \in [Currencies -> [Accounts -> Nat]] /\ Currency \in Currencies
      BY <1>1 DEF MoneyInv, MoneyTypes, Currency, Currencies
    <2> QED
      BY <2>1, RewardAssumption
  <1>5. due \in Nat
    BY <1>2, <1>3
  <1>6. balance' = [balance EXCEPT ![Currency] = new]
    BY <1>2, <1>4
  <1>7. new \in [Accounts -> Nat] /\ new[to] - old[to] = due /\ Total(new, Accounts) = Total(old, Accounts)
    <2>1. old \in [Accounts -> Nat] /\ RewardSystemAddress \in Accounts /\ to \in Accounts
          /\ RewardSystemAddress # to /\ due \in Nat /\ due <= old[RewardSystemAddress]
      BY <1>2, <1>4, <1>5
    <2>2. /\ new \in [Accounts -> Nat]
          /\ new[RewardSystemAddress] = old[RewardSystemAddress] - due /\ new[to] = old[to] + due
          /\ \A b \in Accounts \ {RewardSystemAddress, to} : new[b] = old[b]
      BY <2>1
    <2> HIDE DEF new, old, due
    <2>3. new[to] - old[to] = due /\ \A b \in Accounts : new[b] \in Int
      BY <2>1, <2>2
    <2>4. Total(new, Accounts) = Total(old, Accounts)
      BY <2>1, <2>2, <2>3, PaymentAddsUp
    <2> QED
      BY <2>2, <2>3, <2>4
  <1> HIDE DEF new
  <1>8. balance' \in [Currencies -> [Accounts -> Nat]] /\ balance'[Currency] = new
        /\ \A c \in Currencies \ {Currency} : balance'[c] = balance[c]
    BY <1>4, <1>6, <1>7
  <1>9. MoneyInv'
    <2>1. \A c \in Currencies : Total(balance'[c], Accounts) = Total(balance[c], Accounts)
      BY <1>7, <1>8
    <2> QED
      BY <1>1, <1>2, <1>8, <2>1 DEF MoneyInv, MoneyTypes, ListDivides, IncomeKept
  <1>10. /\ claimedRewards' \in Seq(Ledger) /\ Len(claimedRewards') = n
         /\ claimedRewards'[n] = [claimedRewards[n] EXCEPT ![to] = totalReward]
         /\ Total(PaidBy(claimedRewards'), DOMAIN claimedRewards')
               = Total(PaidBy(claimedRewards), DOMAIN claimedRewards) + due
    <2> DEFINE more == [claimedRewards EXCEPT ![n][to] = totalReward]
    <2>1. /\ more \in Seq(Ledger) /\ Len(more) = n
          /\ more[n] = [claimedRewards[n] EXCEPT ![to] = totalReward]
          /\ Total(PaidBy(more), DOMAIN more)
                = Total(PaidBy(claimedRewards), DOMAIN claimedRewards)
                     + (totalReward - claimedRewards[n][to])
      BY <1>3, LastLedgerGrows
    <2>2. claimedRewards' = more
      BY <1>2
    <2> HIDE DEF more
    <2> QED
      BY <2>1, <2>2
  <1>11. received' = [received EXCEPT ![to] = @ + due]
    <2>1. /\ new[to] \in Nat /\ old[to] \in Nat /\ received[to] \in Nat
      <3>1. new[to] \in Nat
        BY <1>4, <1>7
      <3>2. old[to] \in Nat
        BY <1>4
      <3>3. received[to] \in Nat
        BY <1>3
      <3> QED
        BY <3>1, <3>2, <3>3
    <2>2. received[to] + balance'[Currency][to] - balance[Currency][to] = received[to] + due
      BY <1>5, <1>7, <1>8, <2>1
    <2> QED
      BY <1>2, <2>2
  <1>12. \A u \in Claimants : received[u] = claimedRewards[n][u]
                              /\ received[u] \in granted[u] \cup {0}
    BY <1>1 DEF RewardInv, NeverOverpaid, claimedReward
  <1>13. totalReward \in granted[to]
    BY <1>1, <1>2 DEF RewardInv, RootGranted
  <1>14. received'[to] = totalReward
    BY <1>3, <1>5, <1>11, <1>12
  <1>15. NeverOverpaid'
    <2> SUFFICES ASSUME NEW u \in Claimants
                 PROVE  received'[u] = claimedRewards'[n][u] /\ received'[u] \in granted[u] \cup {0}
      BY <1>2, <1>10 DEF NeverOverpaid, claimedReward
    <2>1. CASE u = to
      BY <1>3, <1>10, <1>13, <1>14, <2>1
    <2>2. CASE u # to
      BY <1>3, <1>10, <1>11, <1>12, <2>2
    <2> QED
      BY <2>1, <2>2
  <1>16. RewardTypes'
    <2>1. received' \in [Claimants -> Nat] /\ totalClaimedReward' \in Nat
      BY <1>2, <1>3, <1>5, <1>11
    <2> QED
      BY <1>1, <1>2, <1>3, <1>10, <2>1 DEF RewardInv, RewardTypes
  <1>17. RootGranted' /\ LedgersAddUp'
    BY <1>1, <1>2, <1>10 DEF RewardInv, RootGranted, LedgersAddUp
  <1> QED
    BY <1>9, <1>15, <1>16, <1>17, InvParts DEF RewardInv

\* The invariant holds at the start, when there is no money and no list.
LEMMA FundsInitInv == FundsInit => FundsInv
PROOF
  <1> SUFFICES ASSUME FundsInit PROVE FundsInv
    OBVIOUS
  <1>1. /\ recipients = <<>> /\ balance = [c \in Currencies |-> [a \in Accounts |-> 0]]
        /\ erc20RewardToken \in {Token, ZeroAddress} /\ features = {} /\ root = {}
        /\ claimedRewards = <<Nothing>> /\ totalClaimedReward = 0
        /\ income = [c \in Currencies |-> 0] /\ granted = [u \in Claimants |-> {}]
        /\ received = Nothing
    BY DEF FundsInit
  <1>2. Nothing \in Ledger /\ \A u \in Claimants : Nothing[u] = 0
    BY DEF Nothing, Ledger
  <1>3. MoneyTypes /\ ListDivides
    BY <1>1 DEF MoneyTypes, ListDivides
  <1>4. IncomeKept
    <2> SUFFICES ASSUME NEW c \in Currencies PROVE income[c] = Total(balance[c], Accounts)
      BY DEF IncomeKept
    <2> DEFINE f == balance[c]
    <2>1. \A a \in Accounts : f[a] = 0
      BY <1>1
    <2> HIDE DEF f
    <2>2. Sum(f, Accounts) = 0
      BY <2>1, PayeesFinite, SumZero
    <2> QED
      BY <1>1, <2>2, TotalIsSum DEF f
  <1>5. /\ claimedRewards \in Seq(Ledger) /\ Len(claimedRewards) = 1 /\ DOMAIN claimedRewards = {1}
        /\ claimedRewards[1] = Nothing
    BY <1>1, <1>2
  <1>6. RewardTypes /\ RootGranted
    BY <1>1, <1>2, <1>5 DEF RewardTypes, RootGranted, Ledger
  <1>7. NeverOverpaid
    BY <1>1, <1>2, <1>5 DEF NeverOverpaid, claimedReward
  <1>8. LedgersAddUp
    <2> DEFINE f == PaidBy(claimedRewards)
    <2>1. Sum(Nothing, Claimants) = 0
      BY <1>2, PayeesFinite, SumZero
    <2>2. \A k \in {1} : f[k] = 0
      BY <1>5, <2>1, TotalIsSum DEF PaidBy
    <2> HIDE DEF f
    <2>3. Sum(f, {1}) = 0
      BY <2>2, FS_Singleton, SumZero
    <2> QED
      BY <1>1, <1>5, <2>3, TotalIsSum DEF LedgersAddUp, f
  <1> QED
    BY <1>3, <1>4, <1>6, <1>7, <1>8, InvParts DEF MoneyInv, RewardInv

\* Every step of the funds keeps the invariant.
LEMMA FundsNextInv == FundsInv /\ [FundsNext]_fundsVars => FundsInv'
PROOF
  <1> SUFFICES ASSUME FundsInv, [FundsNext]_fundsVars PROVE FundsInv'
    OBVIOUS
  <1>1. CASE ProtocolFees
    <2>1. ASSUME NEW currency \in Currencies, NEW a \in {FeeDistributor, RewardSystemAddress},
                 NEW amount \in Amounts, PayIn(currency, a, amount)
          PROVE  FundsInv'
      <3>1. a \in Accounts /\ amount \in Nat
        BY FeeDistributorAssumption, RewardAssumption, FundsAssumption
      <3> QED
        BY <2>1, <3>1, PayInInv
    <2> QED
      BY <1>1, <2>1, DistributeInv, UpdateRecipientsInv DEF ProtocolFees
  <1>2. CASE Rewards
    BY <1>2, UpdateFeaturesInv, PublishInv, ResetInv, ClaimRewardInv DEF Rewards
  <1>3. CASE UNCHANGED fundsVars
    <2>1. UNCHANGED <<recipientVars, balance, income, rewardVars, granted, received>>
      BY <1>3 DEF fundsVars, historyVars
    <2> QED
      BY <2>1, RewardsUntouched, MoneyUntouched, InvParts
  <1> QED
    BY <1>1, <1>2, <1>3 DEF FundsNext

\* So it always holds.
LEMMA FundsInvariance == FundsSpec => []FundsInv
  BY FundsInitInv, FundsNextInv, PTL DEF FundsSpec

\* Types of the balances, the list, the roots and the ledgers
THEOREM FundsTypeCorrect == FundsSpec => []FundsTypeOK
PROOF
  <1>1. FundsInv => FundsTypeOK
    BY DEF FundsInv
  <1> QED
    BY <1>1, FundsInvariance, PTL

\* However roots replace one another, grow, shrink or name a user twice: between two
\* resets a user is paid one of the totals that were published for it, or nothing.
THEOREM NobodyOverpaid == FundsSpec => []NeverOverpaid
PROOF
  <1>1. FundsInv => NeverOverpaid
    BY DEF FundsInv
  <1> QED
    BY <1>1, FundsInvariance, PTL

\* The total of the rewards is the sum of all ledgers, and the balances are all that
\* ever came in, whoever distributes and claims.
THEOREM MoneyStaysAccounted == FundsSpec => []MoneyAccounted
PROOF
  <1>1. FundsInv => MoneyAccounted
    BY DEF FundsInv
  <1> QED
    BY <1>1, FundsInvariance, PTL

\* Every part is rounded down, so the parts are never more than there is to divide.
THEOREM PartsStayAffordable == FundsSpec => []PartsAffordable
PROOF
  <1>1. FundsInv => PartsAffordable
    <2> SUFFICES ASSUME FundsInv, NEW c \in Currencies
                 PROVE  Total([i \in DOMAIN recipients |->
                                  Part(balance[c][FeeDistributor], recipients[i])],
                              DOMAIN recipients) <= balance[c][FeeDistributor]
      BY DEF PartsAffordable
    <2>1. /\ balance[c][FeeDistributor] \in Nat /\ recipients \in Seq(RecipientDetails)
          /\ ListDivides
      BY FeeDistributorAssumption, InvParts DEF MoneyInv, MoneyTypes
    <2>2. CASE recipients = <<>>
      <3>1. DOMAIN recipients = {}
        BY <2>2
      <3> QED
        BY <2>1, <3>1, TotalIsSum, SumEmpty
    <2>3. CASE recipients # <<>>
      BY <2>1, <2>3, PartsFit DEF ListDivides
    <2> QED
      BY <2>2, <2>3
  <1> QED
    BY <1>1, FundsInvariance, PTL

\* A distribution leaves only the dust of the division, and what the list gives to the
\* distributor itself; no other step takes anything from the distributor.
THEOREM DustAlone == FundsSpec => DustOnly
PROOF
  <1>1. FundsInv /\ [FundsNext]_fundsVars =>
            [\A c \in Currencies : balance'[c][FeeDistributor] < balance[c][FeeDistributor] =>
                balance'[c][FeeDistributor] - PaidToItself(c) < Len(recipients)]_fundsVars
    <2> SUFFICES ASSUME FundsInv, FundsNext, NEW c \in Currencies,
                        balance'[c][FeeDistributor] < balance[c][FeeDistributor]
                 PROVE  balance'[c][FeeDistributor] - PaidToItself(c) < Len(recipients)
      OBVIOUS
    <2> DEFINE had == balance[c][FeeDistributor]
    <2>1. /\ MoneyInv /\ balance \in [Currencies -> [Accounts -> Nat]]
          /\ FeeDistributor \in Accounts /\ had \in Nat
      BY FeeDistributorAssumption, InvParts DEF MoneyInv, MoneyTypes
    <2>2. CASE UNCHANGED balance
      BY <2>1, <2>2
    <2>3. ASSUME NEW currency \in Currencies, NEW a \in {FeeDistributor, RewardSystemAddress},
                 NEW amount \in Amounts, PayIn(currency, a, amount)
          PROVE  FALSE
      <3>1. a \in Accounts /\ amount \in Nat
        BY FeeDistributorAssumption, RewardAssumption, FundsAssumption
      <3>2. balance' = [balance EXCEPT ![currency][a] = @ + amount]
        BY <2>3 DEF PayIn
      <3>3. balance'[c][FeeDistributor] = had \/ balance'[c][FeeDistributor] = had + amount
        BY <2>1, <2>3, <3>1, <3>2
      <3> QED
        BY <2>1, <3>1, <3>3
    <2>4. ASSUME NEW sender \in Users, NEW currency \in Currencies, Distribute(sender, currency)
          PROVE  c = currency /\ balance'[c][FeeDistributor] - PaidToItself(c) < Len(recipients)
      <3>1. /\ \A other \in Currencies \ {currency} : balance'[other] = balance[other]
            /\ balance'[currency][FeeDistributor] - PaidToItself(currency) < Len(recipients)
        BY <2>1, <2>4, DistributeEffect
      <3>2. c = currency
        BY <2>1, <3>1
      <3> QED
        BY <3>1, <3>2
    <2>5. ASSUME NEW to \in Claimants, NEW totalReward \in Totals, ClaimReward(to, totalReward)
          PROVE  FALSE
      <3> DEFINE due == Claimable(to, totalReward)
      <3>1. balance' = [balance EXCEPT ![Currency][RewardSystemAddress] = @ - due,
                                       ![Currency][to] = @ + due]
        BY <2>5 DEF ClaimReward, claimReward
      <3>2. due \in Nat
        BY <2>5, ClaimIsDue
      <3> HIDE DEF due
      <3>3. /\ Currency \in Currencies /\ RewardSystemAddress \in Accounts /\ to \in Accounts
            /\ RewardSystemAddress # FeeDistributor
        <4>1. erc20RewardToken \in {Token, ZeroAddress}
          BY InvParts DEF RewardInv, RewardTypes
        <4> QED
          BY <4>1, RewardAssumption DEF Currency, Currencies, rewardSystemType
      <3>4. balance'[c][FeeDistributor] = had \/ balance'[c][FeeDistributor] = had + due
        BY <2>1, <3>1, <3>2, <3>3
      <3> QED
        BY <2>1, <3>2, <3>4
    <2>6. CASE ProtocolFees
      BY <2>2, <2>3, <2>4, <2>6 DEF ProtocolFees, UpdateRecipients, updateRecipientsList
    <2>7. CASE Rewards
      BY <2>2, <2>5, <2>7
         DEF Rewards, UpdateFeatures, Publish, Reset
    <2> QED
      BY <2>6, <2>7 DEF FundsNext
  <1> QED
    BY <1>1, FundsInvariance, PTL DEF FundsSpec, DustOnly
=============================================================================
