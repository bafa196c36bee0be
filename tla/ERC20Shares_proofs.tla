---------------------------- MODULE ERC20Shares_proofs ----------------------------
(***************************************************************************)
(* ERC20Shares for every set of accounts, subjects, fee settings, gifts,   *)
(* refusing recipients and bounds: the inductive invariant, and what       *)
(* follows from it.                                                        *)
(***************************************************************************)
EXTENDS ERC20Shares, RewardedShares_proofs

\* The invariant of the parts both currencies share, and a reserve that covers the
\* price of the whole supply
IInv == CommonInv /\ Surplus >= 0
-----------------------------------------------------------------------------
\* The surplus is a difference of two natural numbers.
LEMMA SurplusInt == IInv => Surplus \in Int
PROOF
  <1> SUFFICES ASSUME IInv PROVE Surplus \in Int
    OBVIOUS
  <1>1. sharesSupply \in Nat /\ reserve \in Nat
    BY DEF IInv, CommonInv, TypeOK, SharesTypeOK
  <1> QED
    BY <1>1, Erc20PriceNat DEF Surplus, getPrice

\* A buy under any fees that are natural numbers keeps the invariant and adds at
\* least the price to the reserve: the fees are charged on top of it, and add to the
\* surplus if the contract itself receives them.
LEMMA BuyKeeps ==
    ASSUME IInv, NEW fees, NEW protocolDestination, NEW destination, NEW issuer,
           NEW amount \in Amounts, NEW beneficiary \in Addresses,
           fees.protocol \in Nat, fees.holders \in Nat, fees.subject \in Nat,
           unsafeBuySharesTo(fees, protocolDestination, destination, issuer, amount, beneficiary),
           holdersFeeDestination' = destination,
           initialized',
           ~initialized \/ holdersFeeDestination = destination
    PROVE  /\ sharesSupply' \in Nat /\ sharesBalances' \in [Addresses -> Nat] /\ tradeVolume' \in Nat
           /\ D!TypeOK'
           /\ DebtCovered' /\ Unstarted' /\ BoundWhenTraded' /\ DistributorInSync'
           /\ reserve' >= reserve + getPrice(sharesSupply, amount)
           /\ reserve' \in Nat
           /\ Surplus' >= Surplus /\ Surplus' >= 0
PROOF
  <1> USE DEF IInv
  <1> DEFINE price      == getPrice(sharesSupply, amount)
             holdersFee == Fee(price, fees.holders)
             kept       == Kept(Fee(price, fees.protocol), protocolDestination)
                              + Kept(Fee(price, fees.subject), issuer)
  <1>1. amount \in Nat /\ sharesSupply \in Nat /\ reserve \in Nat
    BY RewardsAssumption DEF CommonInv, TypeOK, SharesTypeOK
  <1>2. price \in Nat /\ holdersFee \in Nat
    BY <1>1, Erc20PriceNat, FeeNat DEF getPrice
  <1>3. /\ Kept(Fee(price, fees.protocol), protocolDestination) \in Nat
        /\ Kept(Fee(price, fees.subject), issuer) \in Nat
    BY <1>2, FeeNat DEF Kept
  <1>4. /\ mint(beneficiary, amount, price)
        /\ notifyDistributor(destination, holdersFee, beneficiary, TRUE, amount)
        /\ reserve' = reserve + price + Kept(Fee(price, fees.protocol), protocolDestination)
                         + Kept(Fee(price, fees.subject), issuer)
    BY DEF unsafeBuySharesTo
  <1> HIDE DEF price, holdersFee
  <1>5. reserve' \in Nat /\ reserve' = reserve + price + kept /\ kept \in Nat
    BY <1>1, <1>2, <1>4, <1>3
  <1>6. /\ sharesSupply' \in Nat /\ sharesBalances' \in [Addresses -> Nat] /\ tradeVolume' \in Nat
        /\ D!TypeOK'
        /\ DebtCovered' /\ Unstarted' /\ BoundWhenTraded' /\ DistributorInSync'
    BY <1>2, <1>4, MintKeeps
  <1> HIDE DEF kept
  <1>7. Surplus' >= Surplus /\ Surplus' >= 0
    <2>1. sharesSupply' = 0 + sharesSupply + amount
      BY <1>1, <1>4 DEF mint
    <2>2. erc20Price(0, sharesSupply) + erc20Price(0 + sharesSupply, amount)
             = erc20Price(0, sharesSupply + amount)
      BY <1>1, Erc20PricesAddUp
    <2>3. erc20Price(0, sharesSupply) \in Nat
      BY <1>1, Erc20PriceNat
    <2> QED
      BY <1>1, <1>2, <1>5, <2>1, <2>2, <2>3 DEF Surplus, getPrice, price
  <1> QED
    BY <1>1, <1>2, <1>5, <1>6, <1>7 DEF price

\* The deployment keeps the invariant, and the surplus at least.
LEMMA DeployKeeps ==
    ASSUME IInv, Deploy
    PROVE  IInv' /\ Surplus' >= Surplus
PROOF
  <1> USE DEF IInv
  <1>1. PICK subject \in Subjects, setting \in FeeSettings,
             amount \in Amounts, beneficiary \in Addresses :
                postConstruct(subject, setting, amount, beneficiary)
    BY DEF Deploy
  <1>2. /\ setting.protocolFeeDestination \in Addresses
        /\ setting.protocolFeePercent \in Nat
        /\ setting.holdersFeeDestination \in {NoAddress, Distributor}
        /\ setting.holdersFeePercent \in Nat
        /\ setting.subjectFeePercent \in Nat
        /\ setting.protocolFeePercent + setting.holdersFeePercent
              + setting.subjectFeePercent <= FeeScale
    BY SharesAssumption DEF FeeSetting
  <1>3. /\ ~initialized
        /\ initialized' = TRUE
        /\ sharesSubject' = subject
        /\ protocolFeeDestination' = setting.protocolFeeDestination
        /\ protocolFeePercent' = setting.protocolFeePercent
        /\ holdersFeeDestination' = setting.holdersFeeDestination
        /\ holdersFeePercent' = setting.holdersFeePercent
        /\ subjectFeePercent' = setting.subjectFeePercent
        /\ subjectOwner' = subjectOwner
    BY <1>1 DEF postConstruct, storeSetting
  <1>4. FeesWithinPrice'
    BY <1>2, <1>3 DEF FeesWithinPrice
  <1>5. CASE unsafeBuySharesTo(EffectiveFees(setting, IssuerOf(subject)),
                               setting.protocolFeeDestination, setting.holdersFeeDestination,
                               IssuerOf(subject), amount, beneficiary)
    <2> DEFINE fees == EffectiveFees(setting, IssuerOf(subject))
    <2>1. fees.protocol \in Nat /\ fees.holders \in Nat /\ fees.subject \in Nat
      BY <1>2 DEF EffectiveFees
    <2> HIDE DEF fees
    <2>2. unsafeBuySharesTo(fees, setting.protocolFeeDestination, setting.holdersFeeDestination,
                            IssuerOf(subject), amount, beneficiary)
      BY <1>5 DEF fees
    <2>3. /\ sharesSupply' \in Nat /\ sharesBalances' \in [Addresses -> Nat] /\ tradeVolume' \in Nat
          /\ D!TypeOK'
          /\ DebtCovered' /\ Unstarted' /\ BoundWhenTraded' /\ DistributorInSync'
          /\ reserve' \in Nat
          /\ Surplus' >= Surplus /\ Surplus' >= 0
      BY <1>3, <2>1, <2>2, BuyKeeps
    <2>4. TypeOK'
      BY <1>2, <1>3, <2>3 DEF CommonInv, TypeOK, SharesTypeOK
    <2> QED
      BY <1>4, <2>3, <2>4 DEF CommonInv
  <1>6. CASE UNCHANGED <<ledgerVars, reserve, rewardsVars>>
    <2>1. TypeOK'
      BY <1>2, <1>3, <1>6 DEF ledgerVars, rewardsVars, CommonInv, TypeOK, SharesTypeOK, D!TypeOK
    <2>2. DebtCovered' /\ Unstarted' /\ Surplus' = Surplus
      BY <1>3, <1>6
         DEF ledgerVars, rewardsVars, CommonInv, DebtCovered, D!Unsettled, D!Accumulated,
             Unstarted, Surplus
    <2>3. Surplus' >= Surplus /\ Surplus' >= 0
      BY <2>2, SurplusInt
    <2>4. sharesSupply = 0 /\ totalShares = 0
          /\ \A a \in Addresses : sharesBalances[a] = 0 /\ userInfo[a].shares = 0
      BY <1>3 DEF CommonInv, Unstarted
    <2>5. BoundWhenTraded' /\ DistributorInSync'
      BY <1>6, <2>4 DEF ledgerVars, rewardsVars, BoundWhenTraded, DistributorInSync
    <2> QED
      BY <1>4, <2>1, <2>2, <2>5, <2>3 DEF CommonInv
  <1> QED
    BY <1>1, <1>5, <1>6 DEF postConstruct

\* A buy of an existing market keeps the invariant, and the surplus at least.
LEMMA BuySharesKeeps ==
    ASSUME IInv, NEW sender \in Accounts, NEW amount \in Amounts,
           NEW beneficiary \in Addresses, buySharesTo(sender, amount, beneficiary)
    PROVE  IInv' /\ Surplus' >= Surplus
PROOF
  <1> USE DEF IInv
  <1>1. initialized
    <2>1. sender # NoAddress
      BY SharesAssumption
    <2>2. CASE ~initialized
      <3>1. sharesSupply = 0
        BY <2>2 DEF CommonInv, Unstarted
      <3>2. getSharesIssuer = sender
        BY <3>1 DEF buySharesTo
      <3> QED
        BY <2>1, <2>2, <3>2 DEF CommonInv, Unstarted, getSharesIssuer, IssuerOf
    <2> QED
      BY <2>2 DEF CommonInv, TypeOK, SharesTypeOK
  <1>2. /\ unsafeBuySharesTo(CurrentFees, protocolFeeDestination, holdersFeeDestination,
                             getSharesIssuer, amount, beneficiary)
        /\ UNCHANGED <<initialized, sharesSubject, feeVars, subjectOwner>>
    BY DEF buySharesTo
  <1>3. CurrentFees.protocol \in Nat /\ CurrentFees.holders \in Nat /\ CurrentFees.subject \in Nat
    BY EffectiveFeesBounded DEF CommonInv
  <1>4. /\ sharesSupply' \in Nat /\ sharesBalances' \in [Addresses -> Nat] /\ tradeVolume' \in Nat
        /\ D!TypeOK'
        /\ DebtCovered' /\ Unstarted' /\ BoundWhenTraded' /\ DistributorInSync'
        /\ reserve' \in Nat
        /\ Surplus' >= Surplus /\ Surplus' >= 0
    BY <1>1, <1>2, <1>3, BuyKeeps DEF feeVars
  <1>5. TypeOK' /\ FeesWithinPrice'
    BY <1>2, <1>4 DEF feeVars, FeesWithinPrice, CommonInv, TypeOK, SharesTypeOK
  <1> QED
    BY <1>4, <1>5 DEF CommonInv
-----------------------------------------------------------------------------
\* A reserve that covers the supply covers every sale.
LEMMA SalePriceFits ==
    ASSUME TypeOK, Surplus >= 0, NEW amount \in Nat, sharesSupply > amount
    PROVE  /\ SalePrice(amount) \in Nat
           /\ getPrice(0, sharesSupply) = getPrice(0, sharesSupply - amount) + SalePrice(amount)
           /\ getPrice(0, sharesSupply - amount) \in Nat
           /\ reserve >= SalePrice(amount)
PROOF
  <1>1. sharesSupply \in Nat /\ sharesSupply - amount \in Nat /\ reserve \in Nat
    BY DEF TypeOK, SharesTypeOK
  <1>2. erc20Price(0, sharesSupply - amount) + erc20Price(0 + (sharesSupply - amount), amount)
           = erc20Price(0, (sharesSupply - amount) + amount)
    BY <1>1, Erc20PricesAddUp
  <1>3. (sharesSupply - amount) + amount = sharesSupply /\ 0 + (sharesSupply - amount) = sharesSupply - amount
    BY <1>1
  <1>4. erc20Price(0, sharesSupply - amount) \in Nat /\ erc20Price(sharesSupply - amount, amount) \in Nat
    BY <1>1, Erc20PriceNat
  <1> QED
    BY <1>1, <1>2, <1>3, <1>4 DEF SalePrice, getPrice, Surplus

\* What leaves the reserve in a sale is at most the price, less if the proceeds or a
\* fee stay in the contract.
LEMMA SellKeeps ==
    ASSUME IInv, NEW sender \in Accounts, NEW amount \in Amounts, NEW recipient,
           sellSharesTo(sender, amount, recipient)
    PROVE  IInv' /\ Surplus' >= Surplus
PROOF
  <1> USE DEF IInv
  <1> DEFINE price       == SalePrice(amount)
             protocolFee == Fee(price, CurrentFees.protocol)
             holdersFee  == Fee(price, CurrentFees.holders)
             subjectFee  == Fee(price, CurrentFees.subject)
             proceeds    == price - protocolFee - holdersFee - subjectFee
  <1>1. /\ SellPasses(sender, amount, recipient)
        /\ burn(sender, amount, price)
        /\ notifyDistributor(holdersFeeDestination, holdersFee, sender, FALSE, amount)
        /\ reserve' = reserve - Paid(protocolFee, protocolFeeDestination) - holdersFee
                         - Paid(subjectFee, getSharesIssuer) - Paid(proceeds, recipient)
        /\ UNCHANGED <<initialized, sharesSubject, feeVars, subjectOwner>>
    BY DEF sellSharesTo
  <1>2. sharesSupply > amount /\ sharesBalances[sender] >= amount
    BY <1>1 DEF SellPasses, SalePasses
  <1>3. /\ amount \in Nat /\ reserve \in Nat /\ sharesSupply \in Nat /\ TypeOK /\ FeesWithinPrice
    BY RewardsAssumption DEF CommonInv, TypeOK, SharesTypeOK
  <1>4. /\ price \in Nat /\ reserve >= price
        /\ getPrice(0, sharesSupply) = getPrice(0, sharesSupply - amount) + price
        /\ getPrice(0, sharesSupply - amount) \in Nat
    BY <1>2, <1>3, SalePriceFits
  <1>5. /\ protocolFee \in Nat /\ holdersFee \in Nat /\ subjectFee \in Nat
        /\ protocolFee + holdersFee + subjectFee <= price
    BY <1>3, <1>4, FeeNat, FeesFit, EffectiveFeesBounded
  <1> HIDE DEF price, protocolFee, holdersFee, subjectFee
  <1>6. reserve' \in Nat /\ reserve' >= reserve - price
    <2>1. /\ Paid(protocolFee, protocolFeeDestination) \in 0..protocolFee
          /\ Paid(subjectFee, getSharesIssuer) \in 0..subjectFee
          /\ Paid(proceeds, recipient) \in 0..proceeds
      BY <1>4, <1>5 DEF Paid
    <2> HIDE DEF proceeds
    <2>2. proceeds \in Nat /\ proceeds = price - protocolFee - holdersFee - subjectFee
      BY <1>4, <1>5 DEF proceeds
    <2> QED
      BY <1>1, <1>3, <1>4, <1>5, <2>1, <2>2
  <1>7. /\ sharesSupply' \in Nat /\ sharesBalances' \in [Addresses -> Nat] /\ tradeVolume' \in Nat
        /\ D!TypeOK'
        /\ DebtCovered' /\ Unstarted' /\ BoundWhenTraded' /\ DistributorInSync'
    BY <1>1, <1>2, <1>4, <1>5, BurnKeeps DEF feeVars
  <1>8. TypeOK' /\ FeesWithinPrice'
    BY <1>1, <1>3, <1>6, <1>7 DEF feeVars, FeesWithinPrice, TypeOK, SharesTypeOK
  <1>9. Surplus' >= Surplus
    <2>1. sharesSupply' = sharesSupply - amount
      BY <1>1 DEF burn
    <2>2. Surplus' = reserve' - getPrice(0, sharesSupply - amount)
      BY <2>1 DEF Surplus, getPrice
    <2>3. Surplus = reserve - getPrice(0, sharesSupply)
      BY DEF Surplus
    <2> QED
      BY <1>3, <1>4, <1>6, <2>2, <2>3
  <1>10. Surplus' >= 0
    <2>1. Surplus \in Int /\ Surplus' \in Int
      <3>1. getPrice(0, sharesSupply) \in Int /\ getPrice(0, sharesSupply') \in Int
        BY <1>3, <1>7, Erc20PriceNat DEF getPrice
      <3>2. getPrice(0, sharesSupply)' = getPrice(0, sharesSupply')
        BY DEF getPrice
      <3> QED
        BY <1>3, <1>6, <3>1, <3>2 DEF Surplus
    <2> QED
      BY <1>9, <2>1
  <1> QED
    BY <1>7, <1>8, <1>9, <1>10 DEF CommonInv

\* The steps that are not trades leave the ledger and the reserve alone.
LEMMA OtherStepsKeep ==
    ASSUME IInv, Administer \/ SubjectContracts \/ Rewards \/ UNCHANGED vars
    PROVE  IInv' /\ UNCHANGED <<ledgerVars, reserve>> /\ Surplus' = Surplus
PROOF
  <1>1. UNCHANGED <<ledgerVars, reserve>>
    BY DEF Administer, updateSharesSubject, updateProtocolFeeDestination, disableHoldersFee,
           SubjectContracts, changeSubjectOwner, Rewards, sharesVars, vars
  <1>2. CommonInv'
    BY AdministerKeeps, SubjectContractsKeep, RewardsKeep, CommonStutter DEF IInv
  <1>3. Surplus' = Surplus
    BY <1>1 DEF Surplus, ledgerVars, getPrice
  <1> QED
    BY <1>1, <1>2, <1>3 DEF IInv

\* A gift changes nothing but the reserve, and for the better.
LEMMA GiftKeeps ==
    ASSUME IInv, NEW value \in Gifts, tokenTransfer(value)
    PROVE  IInv' /\ UNCHANGED ledgerVars /\ Surplus' >= Surplus /\ reserve' >= reserve
PROOF
  <1>1. value \in Nat /\ reserve \in Nat /\ sharesSupply \in Nat
    BY ERC20Assumption DEF IInv, CommonInv, TypeOK, SharesTypeOK
  <1>2. reserve' = reserve + value /\ UNCHANGED <<sharesVars, rewardsVars>>
    BY DEF tokenTransfer
  <1>3. getPrice(0, sharesSupply) \in Nat
    BY <1>1, Erc20PriceNat DEF getPrice
  <1>4. Surplus' = Surplus + value /\ Surplus \in Int
    BY <1>1, <1>2, <1>3 DEF Surplus, sharesVars, ledgerVars, getPrice
  <1>5. CommonInv'
    BY <1>1, <1>2
       DEF IInv, CommonInv, TypeOK, SharesTypeOK, D!TypeOK, DebtCovered, D!Unsettled,
           D!Accumulated, FeesWithinPrice, Unstarted, BoundWhenTraded, DistributorInSync,
           sharesVars, feeVars, ledgerVars, rewardsVars
  <1> QED
    BY <1>1, <1>2, <1>4, <1>5 DEF IInv, sharesVars
-----------------------------------------------------------------------------
\* A new contract is solvent: it has neither shares nor money.
LEMMA InitInv == Init => IInv
PROOF
  <1> SUFFICES ASSUME Init PROVE IInv
    OBVIOUS
  <1>1. CommonInv
    BY CommonInit
  <1>2. getPrice(0, 0) = 0
    <2>1. erc20Price(0, 0) = (Worth(0 + 0) - Worth(0)) * (PriceFactor * CurveUnit)
      BY Erc20PriceIsDifference
    <2>2. PriceFactor * CurveUnit \in Nat
      BY CurveUnitAssumption DEF PriceFactor
    <2> QED
      BY <2>1, <2>2 DEF getPrice, Worth
  <1> QED
    BY <1>1, <1>2 DEF IInv, Init, SharesInit, Surplus

\* Every step keeps the invariant, and no step pays from the surplus.
LEMMA NextInv ==
    ASSUME IInv, [Next]_vars
    PROVE  IInv' /\ Surplus' >= Surplus
PROOF
  <1>1. Surplus \in Int
    BY SurplusInt
  <1>2. CASE Deploy
    BY <1>1, <1>2, DeployKeeps
  <1>3. CASE Trade
    BY <1>1, <1>3, BuySharesKeeps, SellKeeps DEF Trade
  <1>4. CASE Administer \/ SubjectContracts \/ Rewards \/ UNCHANGED vars
    BY <1>1, <1>4, OtherStepsKeep
  <1>5. CASE \E value \in Gifts : tokenTransfer(value)
    BY <1>5, GiftKeeps
  <1> QED
    BY <1>2, <1>3, <1>4, <1>5 DEF Next

\* The invariant holds in every state of every behaviour.
THEOREM Invariance == Spec => []IInv
PROOF
  <1>1. IInv /\ [Next]_vars => IInv'
    BY NextInv
  <1> QED
    BY InitInv, <1>1, PTL DEF Spec

\* Every variable keeps its type: no checked subtraction ever goes below zero.
THEOREM TypeCorrect == Spec => []TypeOK
PROOF
  <1>1. IInv => TypeOK
    BY DEF IInv, CommonInv
  <1> QED
    BY <1>1, Invariance, PTL

\* The distributor, as long as it is attached, knows the shares of every holder.
THEOREM DistributorStaysInSync == Spec => []DistributorInSync
PROOF
  <1>1. IInv => DistributorInSync
    BY DEF IInv, CommonInv
  <1> QED
    BY <1>1, Invariance, PTL

\* Whatever reached the contract outside of a buy stays there: no trade and no
\* emergency function pays from it.
THEOREM SurplusNeverPaid == Spec => SurplusKept
PROOF
  <1>1. IInv /\ [Next]_vars => Surplus' >= Surplus
    BY NextInv
  <1> QED
    BY <1>1, Invariance, PTL DEF Spec, SurplusKept

\* Every holder can sell to itself what it holds but the last share, as long as the
\* subject can be read and the fees go to nobody the token refuses.
THEOREM HoldersCanExit == Spec => []HolderCanExit
PROOF
  <1>1. ASSUME IInv, getSharesIssuer # Unreadable,
               getSharesIssuer \notin Refusing \ {NoAddress},
               protocolFeeDestination \notin Refusing \ {NoAddress},
               NEW holder \in Accounts \ Refusing, NEW amount \in Amounts,
               sharesBalances[holder] >= amount, sharesSupply > amount
        PROVE  SellPasses(holder, amount, holder)
    <2> DEFINE price == SalePrice(amount)
               p     == Fee(price, CurrentFees.protocol)
               h     == Fee(price, CurrentFees.holders)
               s     == Fee(price, CurrentFees.subject)
    <2>1. /\ amount \in Nat /\ holder \in Addresses
          /\ TypeOK /\ FeesWithinPrice /\ Surplus >= 0 /\ CommonInv
      BY <1>1, RewardsAssumption DEF IInv, CommonInv, Addresses
    <2>2. price \in Nat /\ reserve >= price
      BY <1>1, <2>1, SalePriceFits
    <2>3. /\ CurrentFees.protocol \in Nat /\ CurrentFees.holders \in Nat
          /\ CurrentFees.subject \in Nat
          /\ CurrentFees.protocol + CurrentFees.holders + CurrentFees.subject <= FeeScale
      BY <2>1, EffectiveFeesBounded
    <2>4. p \in Nat /\ h \in Nat /\ s \in Nat /\ p + h + s <= price
      BY <2>2, <2>3, FeeNat, FeesFit
    <2>5. SyncRequired(holdersFeeDestination, amount) =>
             D!SyncPasses(ThisContract, h, holder, FALSE, amount)
      BY <1>1, <2>1, <2>4, SalesSync
    <2>6. Fee(price, 0) = 0
      BY <2>2, SharesAssumption DEF Fee
    <2>7. Charged(p, protocolFeeDestination)
      <3>1. protocolFeeDestination = NoAddress => CurrentFees.protocol = 0
        BY DEF CurrentFees, EffectiveFees, Setting
      <3> QED
        BY <1>1, <2>6, <3>1 DEF Charged
    <2>8. Charged(s, getSharesIssuer)
      <3>1. getSharesIssuer = NoAddress => CurrentFees.subject = 0
        BY DEF CurrentFees, EffectiveFees, Setting
      <3> QED
        BY <1>1, <2>6, <3>1 DEF Charged
    <2> HIDE DEF price, p, h, s
    <2>9. price - p - h - s >= 0
      BY <2>2, <2>4
    <2> QED
      BY <1>1, <2>2, <2>5, <2>7, <2>8, <2>9 DEF SellPasses, SalePasses, price, p, h, s
  <1>2. IInv => HolderCanExit
    BY <1>1 DEF HolderCanExit, ExitPasses
  <1> QED
    BY <1>2, Invariance, PTL
-----------------------------------------------------------------------------
\* What one step does to the ledger: it mints, burns, or leaves it alone.
LEMMA StepShapes ==
    ASSUME IInv, [Next]_vars
    PROVE  \/ \E beneficiary \in Addresses, amount \in Amounts :
                mint(beneficiary, amount, getPrice(sharesSupply, amount))
           \/ \E sender \in Accounts, amount \in Amounts :
                /\ sharesSupply > amount /\ sharesBalances[sender] >= amount
                /\ burn(sender, amount, SalePrice(amount))
           \/ UNCHANGED ledgerVars /\ reserve' >= reserve
PROOF
  <1>1. reserve \in Nat
    BY DEF IInv, CommonInv, TypeOK
  <1>2. CASE Deploy
    <2>1. PICK subject \in Subjects, setting \in FeeSettings,
               amount \in Amounts, beneficiary \in Addresses :
                  postConstruct(subject, setting, amount, beneficiary)
      BY <1>2 DEF Deploy
    <2>2. CASE UNCHANGED <<ledgerVars, reserve, rewardsVars>>
      BY <1>1, <2>2
    <2>3. CASE unsafeBuySharesTo(EffectiveFees(setting, IssuerOf(subject)),
                                 setting.protocolFeeDestination, setting.holdersFeeDestination,
                                 IssuerOf(subject), amount, beneficiary)
      BY <2>3 DEF unsafeBuySharesTo
    <2> QED
      BY <2>1, <2>2, <2>3 DEF postConstruct
  <1>3. CASE Trade
    BY <1>3 DEF Trade, buySharesTo, unsafeBuySharesTo, sellSharesTo, SellPasses, SalePasses
  <1>4. CASE Administer \/ SubjectContracts \/ Rewards \/ UNCHANGED vars
    BY <1>1, <1>4, OtherStepsKeep
  <1>5. CASE \E value \in Gifts : tokenTransfer(value)
    BY <1>5, GiftKeeps
  <1> QED
    BY <1>2, <1>3, <1>4, <1>5 DEF Next

\* The supply of a launched market never returns to zero.
THEOREM MarketStaysLaunched == Spec => NeverRelaunched
PROOF
  <1>1. ASSUME IInv, [Next]_vars PROVE sharesSupply > 0 => sharesSupply' > 0
    <2>1. sharesSupply \in Nat /\ \A amount \in Amounts : amount \in Nat
      BY <1>1, RewardsAssumption DEF IInv, CommonInv, TypeOK, SharesTypeOK
    <2> QED
      BY <1>1, <2>1, StepShapes DEF mint, burn, ledgerVars
  <1> QED
    BY <1>1, Invariance, PTL DEF Spec, NeverRelaunched

\* The supply is the sum of what all holders have: a buy credits, and a sale
\* debits, one holder and the supply alike.
THEOREM SupplyAddsUp == Spec => []SupplyIsSum
PROOF
  <1>1. ASSUME IInv, SupplyIsSum, [Next]_vars PROVE SupplyIsSum'
    <2>1. SharesTypeOK /\ Accounts \subseteq Addresses /\ \A amount \in Amounts : amount \in Nat
      BY <1>1, RewardsAssumption DEF IInv, CommonInv, TypeOK, Addresses
    <2>2. ASSUME NEW beneficiary \in Addresses, NEW amount \in Amounts,
                 mint(beneficiary, amount, getPrice(sharesSupply, amount))
          PROVE  SupplyIsSum'
      BY <1>1, <2>1, <2>2, MintAddsUp
    <2>3. ASSUME NEW sender \in Accounts, NEW amount \in Amounts,
                 sharesBalances[sender] >= amount, burn(sender, amount, SalePrice(amount))
          PROVE  SupplyIsSum'
      BY <1>1, <2>1, <2>3, BurnAddsUp
    <2>4. ASSUME UNCHANGED ledgerVars PROVE SupplyIsSum'
      BY <1>1, <2>4 DEF ledgerVars, SupplyIsSum
    <2> QED
      BY <1>1, <2>2, <2>3, <2>4, StepShapes, Zenon
  <1> QED
    BY <1>1, InitAddsUp, Invariance, PTL DEF Spec

\* The token market implements the interface as well: buys, sales and gifts, with
\* the whole supply covered after every step.
THEOREM ImplementsTradeableShares == Spec => ImplementsMarket
PROOF
  <1>1. Init => Market!MarketInit
    BY DEF Init, SharesInit, Market!MarketInit
  <1>2. ASSUME IInv, IInv', [Next]_vars
        PROVE  [Market!MarketNext]_(Market!marketVars)
    <2>1. Market!Covered'
      <3>1. Surplus' >= 0 /\ reserve' \in Nat /\ sharesSupply' \in Nat
        BY <1>2 DEF IInv, CommonInv, TypeOK, SharesTypeOK
      <3>2. getPrice(0, sharesSupply') \in Nat
        BY <3>1, Erc20PriceNat DEF getPrice
      <3>3. Surplus' = reserve' - getPrice(0, sharesSupply')
        BY DEF Surplus, getPrice
      <3> QED
        BY <3>1, <3>2, <3>3 DEF Market!Covered, getPrice
    <2>2. ASSUME NEW beneficiary \in Addresses, NEW amount \in Amounts,
                 mint(beneficiary, amount, getPrice(sharesSupply, amount))
          PROVE  Market!Buy(beneficiary, amount)
      BY <2>1, <2>2 DEF mint, Market!Buy
    <2>3. ASSUME NEW sender \in Accounts, NEW amount \in Amounts,
                 sharesSupply > amount, sharesBalances[sender] >= amount,
                 burn(sender, amount, SalePrice(amount))
          PROVE  sender \in Addresses /\ Market!Sell(sender, amount)
      <3>1. sharesBalances[sender] \in Nat /\ sharesSupply \in Nat /\ amount \in Nat
            /\ sender \in Addresses
        BY <1>2, RewardsAssumption DEF IInv, CommonInv, TypeOK, SharesTypeOK, Addresses
      <3> QED
        BY <2>1, <2>3, <3>1 DEF burn, SalePrice, Market!Sell
    <2>4. CASE UNCHANGED ledgerVars /\ reserve' >= reserve
      BY <2>4 DEF ledgerVars, Market!Gift, Market!MarketNext
    <2> QED
      BY <1>2, <2>2, <2>3, <2>4, StepShapes DEF Market!MarketNext
  <1> QED
    BY <1>1, <1>2, Invariance, PTL DEF Spec, ImplementsMarket, Market!MarketSpec
=============================================================================
