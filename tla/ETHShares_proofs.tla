---------------------------- MODULE ETHShares_proofs ----------------------------
(***************************************************************************)
(* ETHShares for every set of accounts, subjects, fee settings, payments   *)
(* and bounds: the inductive invariant, and what follows from it; and that *)
(* its distributor is driven as RewardsAccounting assumes.                 *)
(***************************************************************************)
EXTENDS ETHAccounting, RewardedShares_proofs

\* The invariant of the parts both currencies share, and the exact reserve
IInv == CommonInv /\ ReserveExact
-----------------------------------------------------------------------------
\* A buy under any fees that are natural numbers keeps the invariant and adds
\* exactly the price to the reserve: whatever is pushed out or returned came along
\* with the transaction.
LEMMA BuyKeeps ==
    ASSUME IInv, NEW fees, NEW protocolDestination, NEW destination, NEW issuer,
           NEW msgValue \in Payments,
           NEW amount \in Amounts, NEW beneficiary \in Addresses,
           fees.protocol \in Nat, fees.holders \in Nat, fees.subject \in Nat,
           unsafeBuySharesTo(fees, protocolDestination, destination, issuer, msgValue, amount,
                             beneficiary),
           holdersFeeDestination' = destination,
           initialized',
           ~initialized \/ holdersFeeDestination = destination
    PROVE  /\ sharesSupply' \in Nat /\ sharesBalances' \in [Addresses -> Nat] /\ tradeVolume' \in Nat
           /\ D!TypeOK'
           /\ DebtCovered' /\ Unstarted' /\ BoundWhenTraded' /\ DistributorInSync'
           /\ reserve' = reserve + getPrice(sharesSupply, amount)
           /\ reserve' \in Nat
           /\ ReserveExact'
PROOF
  <1> USE DEF IInv
  <1> DEFINE price      == getPrice(sharesSupply, amount)
             holdersFee == Fee(price, fees.holders)
  <1>1. amount \in Nat /\ msgValue \in Nat /\ sharesSupply \in Nat /\ reserve \in Nat
    BY RewardsAssumption, ETHAssumption DEF CommonInv, TypeOK, SharesTypeOK
  <1>2. price \in Nat /\ holdersFee \in Nat
    BY <1>1, EthPriceNat, FeeNat DEF getPrice
  <1>3. PICK protocolFee \in Pushed(Fee(price, fees.protocol), protocolDestination),
             subjectFee \in Pushed(Fee(price, fees.subject), issuer) :
          /\ mint(beneficiary, amount, price)
          /\ notifyDistributor(destination, holdersFee, beneficiary, TRUE, amount)
          /\ reserve' = reserve + msgValue - protocolFee - holdersFee - subjectFee
                          - (msgValue - (price + protocolFee + holdersFee + subjectFee))
    BY DEF unsafeBuySharesTo
  <1>4. protocolFee \in Nat /\ subjectFee \in Nat
    <2>1. Fee(price, fees.protocol) \in Nat /\ Fee(price, fees.subject) \in Nat
      BY <1>2, FeeNat
    <2> QED
      BY <2>1 DEF Pushed
  <1>5. reserve' = reserve + price /\ reserve' \in Nat
    BY <1>1, <1>2, <1>3, <1>4
  <1>6. /\ sharesSupply' \in Nat /\ sharesBalances' \in [Addresses -> Nat] /\ tradeVolume' \in Nat
        /\ D!TypeOK'
        /\ DebtCovered' /\ Unstarted' /\ BoundWhenTraded' /\ DistributorInSync'
    <2> HIDE DEF price, holdersFee
    <2> QED
      BY <1>2, <1>3, MintKeeps
  <1>7. ReserveExact'
    <2>1. sharesSupply' = 0 + sharesSupply + amount
      BY <1>1, <1>3 DEF mint
    <2>2. ethPrice(0, sharesSupply) + ethPrice(0 + sharesSupply, amount)
             = ethPrice(0, sharesSupply + amount)
      BY <1>1, EthPricesAddUp
    <2> QED
      BY <1>1, <1>5, <2>1, <2>2 DEF ReserveExact, getPrice
  <1> QED
    BY <1>5, <1>6, <1>7

\* The deployment keeps the invariant.
LEMMA DeployKeeps == IInv /\ Deploy => IInv'
PROOF
  <1> SUFFICES ASSUME IInv, Deploy PROVE IInv'
    OBVIOUS
  <1> USE DEF IInv
  <1>1. PICK msgValue \in Payments, subject \in Subjects, setting \in FeeSettings,
             amount \in Amounts, beneficiary \in Addresses :
                postConstruct(msgValue, subject, setting, amount, beneficiary)
    BY DEF Deploy
  <1>2. /\ setting.protocolFeeDestination \in Addresses
        /\ setting.protocolFeePercent \in Nat
        /\ setting.holdersFeeDestination \in {NoAddress, Distributor}
        /\ setting.holdersFeePercent \in Nat
        /\ setting.subjectFeePercent \in Nat
        /\ setting.protocolFeePercent + setting.holdersFeePercent
              + setting.subjectFeePercent <= FeeScale
    BY SharesAssumption DEF FeeSetting
  <1>3. /\ ~initialized
        /\ initialized' = TRUE
        /\ sharesSubject' = subject
        /\ protocolFeeDestination' = setting.protocolFeeDestination
        /\ protocolFeePercent' = setting.protocolFeePercent
        /\ holdersFeeDestination' = setting.holdersFeeDestination
        /\ holdersFeePercent' = setting.holdersFeePercent
        /\ subjectFeePercent' = setting.subjectFeePercent
        /\ subjectOwner' = subjectOwner
    BY <1>1 DEF postConstruct, storeSetting
  <1>4. FeesWithinPrice'
    BY <1>2, <1>3 DEF FeesWithinPrice
  <1>5. CASE unsafeBuySharesTo(EffectiveFees(setting, IssuerOf(subject)),
                               setting.protocolFeeDestination, setting.holdersFeeDestination,
                               IssuerOf(subject), msgValue, amount, beneficiary)
    <2> DEFINE fees == EffectiveFees(setting, IssuerOf(subject))
    <2>1. fees.protocol \in Nat /\ fees.holders \in Nat /\ fees.subject \in Nat
      BY <1>2 DEF EffectiveFees
    <2> HIDE DEF fees
    <2>2. unsafeBuySharesTo(fees, setting.protocolFeeDestination, setting.holdersFeeDestination,
                            IssuerOf(subject), msgValue, amount, beneficiary)
      BY <1>5 DEF fees
    <2>3. /\ sharesSupply' \in Nat /\ sharesBalances' \in [Addresses -> Nat] /\ tradeVolume' \in Nat
          /\ D!TypeOK'
          /\ DebtCovered' /\ Unstarted' /\ BoundWhenTraded' /\ DistributorInSync'
          /\ reserve' \in Nat
          /\ ReserveExact'
      BY <1>3, <2>1, <2>2, BuyKeeps
    <2>4. TypeOK'
      BY <1>2, <1>3, <2>3 DEF CommonInv, TypeOK, SharesTypeOK
    <2> QED
      BY <1>4, <2>3, <2>4 DEF CommonInv
  <1>6. CASE UNCHANGED <<ledgerVars, reserve, rewardsVars>>
    <2>1. TypeOK'
      BY <1>2, <1>3, <1>6 DEF ledgerVars, rewardsVars, CommonInv, TypeOK, SharesTypeOK, D!TypeOK
    <2>2. DebtCovered' /\ Unstarted' /\ ReserveExact'
      BY <1>3, <1>6
         DEF ledgerVars, rewardsVars, CommonInv, DebtCovered, D!Unsettled, D!Accumulated,
             Unstarted, ReserveExact
    <2>3. sharesSupply = 0 /\ totalShares = 0
          /\ \A a \in Addresses : sharesBalances[a] = 0 /\ userInfo[a].shares = 0
      BY <1>3 DEF CommonInv, Unstarted
    <2>4. BoundWhenTraded' /\ DistributorInSync'
      BY <1>6, <2>3 DEF ledgerVars, rewardsVars, BoundWhenTraded, DistributorInSync
    <2> QED
      BY <1>4, <2>1, <2>2, <2>4 DEF CommonInv
  <1> QED
    BY <1>1, <1>5, <1>6 DEF postConstruct

\* The price of a sale is what the reserve loses.
LEMMA SalePriceFits ==
    ASSUME TypeOK, ReserveExact, NEW amount \in Nat, sharesSupply > amount
    PROVE  /\ SalePrice(amount) \in Nat
           /\ reserve - SalePrice(amount) = getPrice(0, sharesSupply - amount)
           /\ reserve >= SalePrice(amount)
PROOF
  <1>1. sharesSupply \in Nat /\ sharesSupply - amount \in Nat
    BY DEF TypeOK, SharesTypeOK
  <1>2. ethPrice(0, sharesSupply - amount) + ethPrice(0 + (sharesSupply - amount), amount)
           = ethPrice(0, (sharesSupply - amount) + amount)
    BY <1>1, EthPricesAddUp
  <1>3. (sharesSupply - amount) + amount = sharesSupply /\ 0 + (sharesSupply - amount) = sharesSupply - amount
    BY <1>1
  <1>4. ethPrice(0, sharesSupply - amount) \in Nat /\ ethPrice(sharesSupply - amount, amount) \in Nat
    BY <1>1, EthPriceNat
  <1> QED
    BY <1>2, <1>3, <1>4 DEF SalePrice, getPrice, ReserveExact

\* A sale keeps the invariant and takes exactly the price from the reserve.
LEMMA SellKeeps ==
    ASSUME IInv, NEW sender \in Accounts, NEW amount \in Amounts, sellSharesTo(sender, amount)
    PROVE  IInv' /\ reserve' = reserve - SalePrice(amount)
PROOF
  <1> USE DEF IInv
  <1> DEFINE price      == SalePrice(amount)
             holdersFee == Fee(price, CurrentFees.holders)
  <1>1. PICK protocolFee \in Pushed(Fee(price, CurrentFees.protocol), protocolFeeDestination),
             subjectFee \in Pushed(Fee(price, CurrentFees.subject), getSharesIssuer) :
          /\ SellPasses(sender, amount, protocolFee, subjectFee)
          /\ burn(sender, amount, price)
          /\ notifyDistributor(holdersFeeDestination, holdersFee, sender, FALSE, amount)
          /\ reserve' = reserve - protocolFee - holdersFee - subjectFee
                          - (price - protocolFee - holdersFee - subjectFee)
          /\ UNCHANGED <<initialized, sharesSubject, feeVars, subjectOwner>>
    BY DEF sellSharesTo
  <1>2. sharesSupply > amount /\ sharesBalances[sender] >= amount
    BY <1>1 DEF SellPasses, SalePasses
  <1>3. /\ amount \in Nat /\ reserve \in Nat /\ sharesSupply \in Nat /\ TypeOK /\ FeesWithinPrice
    BY RewardsAssumption DEF CommonInv, TypeOK, SharesTypeOK
  <1>4. price \in Nat /\ reserve - price = getPrice(0, sharesSupply - amount) /\ reserve >= price
    BY <1>2, <1>3, SalePriceFits
  <1>5. holdersFee \in Nat /\ protocolFee \in Nat /\ subjectFee \in Nat
    <2>1. /\ holdersFee \in Nat
          /\ Fee(price, CurrentFees.protocol) \in Nat
          /\ Fee(price, CurrentFees.subject) \in Nat
      BY <1>3, <1>4, FeeNat, EffectiveFeesBounded
    <2> QED
      BY <2>1 DEF Pushed
  <1>6. reserve' = reserve - price
    BY <1>1, <1>3, <1>4, <1>5
  <1> HIDE DEF price, holdersFee
  <1>7. /\ sharesSupply' \in Nat /\ sharesBalances' \in [Addresses -> Nat] /\ tradeVolume' \in Nat
        /\ D!TypeOK'
        /\ DebtCovered' /\ Unstarted' /\ BoundWhenTraded' /\ DistributorInSync'
    BY <1>1, <1>2, <1>4, <1>5, BurnKeeps DEF feeVars
  <1>8. TypeOK' /\ FeesWithinPrice'
    BY <1>1, <1>3, <1>4, <1>6, <1>7 DEF feeVars, FeesWithinPrice, TypeOK, SharesTypeOK
  <1>9. ReserveExact'
    BY <1>1, <1>4, <1>6 DEF burn, ReserveExact, getPrice
  <1> QED
    BY <1>6, <1>7, <1>8, <1>9 DEF price, CommonInv

\* A buy of an existing market keeps the invariant.
LEMMA BuySharesKeeps ==
    ASSUME IInv, NEW sender \in Accounts, NEW msgValue \in Payments, NEW amount \in Amounts,
           NEW beneficiary \in Addresses, buySharesTo(sender, msgValue, amount, beneficiary)
    PROVE  IInv' /\ reserve' = reserve + getPrice(sharesSupply, amount)
PROOF
  <1> USE DEF IInv
  <1>1. initialized
    <2>1. sender # NoAddress
      BY SharesAssumption
    <2>2. CASE ~initialized
      <3>1. sharesSupply = 0
        BY <2>2 DEF CommonInv, Unstarted
      <3>2. getSharesIssuer = sender
        BY <3>1 DEF buySharesTo
      <3> QED
        BY <2>1, <2>2, <3>2 DEF CommonInv, Unstarted, getSharesIssuer, IssuerOf
    <2> QED
      BY <2>2 DEF CommonInv, TypeOK, SharesTypeOK
  <1>2. /\ unsafeBuySharesTo(CurrentFees, protocolFeeDestination, holdersFeeDestination,
                             getSharesIssuer, msgValue, amount, beneficiary)
        /\ UNCHANGED <<initialized, sharesSubject, feeVars, subjectOwner>>
    BY DEF buySharesTo
  <1>3. CurrentFees.protocol \in Nat /\ CurrentFees.holders \in Nat /\ CurrentFees.subject \in Nat
    BY EffectiveFeesBounded DEF CommonInv
  <1>4. /\ sharesSupply' \in Nat /\ sharesBalances' \in [Addresses -> Nat] /\ tradeVolume' \in Nat
        /\ D!TypeOK'
        /\ DebtCovered' /\ Unstarted' /\ BoundWhenTraded' /\ DistributorInSync'
        /\ reserve' = reserve + getPrice(sharesSupply, amount)
        /\ reserve' \in Nat
        /\ ReserveExact'
    BY <1>1, <1>2, <1>3, BuyKeeps DEF feeVars
  <1>5. TypeOK' /\ FeesWithinPrice'
    BY <1>2, <1>4 DEF feeVars, FeesWithinPrice, CommonInv, TypeOK, SharesTypeOK
  <1> QED
    BY <1>4, <1>5 DEF CommonInv
-----------------------------------------------------------------------------
\* The steps that are not trades leave the ledger and the reserve alone.
LEMMA OtherStepsKeep ==
    ASSUME IInv, Administer \/ SubjectContracts \/ Rewards \/ UNCHANGED vars
    PROVE  IInv' /\ UNCHANGED <<ledgerVars, reserve>>
PROOF
  <1>1. UNCHANGED <<ledgerVars, reserve>>
    BY DEF Administer, updateSharesSubject, updateProtocolFeeDestination, disableHoldersFee,
           SubjectContracts, changeSubjectOwner, Rewards, sharesVars, vars
  <1>2. CommonInv'
    BY AdministerKeeps, SubjectContractsKeep, RewardsKeep, CommonStutter DEF IInv
  <1>3. ReserveExact'
    BY <1>1 DEF IInv, ReserveExact, ledgerVars
  <1> QED
    BY <1>1, <1>2, <1>3 DEF IInv

\* A new contract is solvent: it has neither shares nor money.
LEMMA InitInv == Init => IInv
PROOF
  <1> SUFFICES ASSUME Init PROVE IInv
    OBVIOUS
  <1>1. CommonInv
    BY CommonInit
  <1>2. getPrice(0, 0) = 0
    <2>1. ethPrice(0, 0) = (Worth(0 + 0) - Worth(0)) * (CurveUnit \div 2)
      BY EthPriceIsDifference
    <2>2. CurveUnit \div 2 \in Nat
      BY CurveUnitAssumption
    <2> QED
      BY <2>1, <2>2 DEF getPrice, Worth
  <1> QED
    BY <1>1, <1>2 DEF IInv, Init, SharesInit, ReserveExact

\* Every call keeps the invariant.
LEMMA NextInv == IInv /\ [Next]_vars => IInv'
PROOF
  <1> SUFFICES ASSUME IInv, [Next]_vars PROVE IInv'
    OBVIOUS
  <1>1. CASE Deploy
    BY <1>1, DeployKeeps
  <1>2. CASE Trade
    BY <1>2, BuySharesKeeps, SellKeeps DEF Trade
  <1>3. CASE Administer \/ SubjectContracts \/ Rewards \/ UNCHANGED vars
    BY <1>3, OtherStepsKeep
  <1> QED
    BY <1>1, <1>2, <1>3 DEF Next

\* The invariant holds in every state of every behaviour.
THEOREM Invariance == Spec => []IInv
  BY InitInv, NextInv, PTL DEF Spec

\* Every variable keeps its type: in particular the checked subtractions of the
\* ledger and of the distributor never produce a negative number.
THEOREM TypeCorrect == Spec => []TypeOK
PROOF
  <1>1. IInv => TypeOK
    BY DEF IInv, CommonInv
  <1> QED
    BY <1>1, Invariance, PTL

\* The reserve is exactly the price of the whole supply, for any curve unit, fees,
\* payments and refusals.
THEOREM ReserveStaysExact == Spec => []ReserveExact
PROOF
  <1>1. IInv => ReserveExact
    BY DEF IInv
  <1> QED
    BY <1>1, Invariance, PTL

\* The distributor, as long as it is attached, knows the shares of every holder.
THEOREM DistributorStaysInSync == Spec => []DistributorInSync
PROOF
  <1>1. IInv => DistributorInSync
    BY DEF IInv, CommonInv
  <1> QED
    BY <1>1, Invariance, PTL

\* No holder is ever locked in: the invariant implies every check of sellSharesTo.
THEOREM HoldersCanExit == Spec => []HolderCanExit
PROOF
  <1>1. ASSUME IInv, getSharesIssuer # Unreadable,
               NEW holder \in Accounts, NEW amount \in Amounts,
               sharesBalances[holder] >= amount, sharesSupply > amount,
               NEW protocolFee \in Pushed(Fee(SalePrice(amount), CurrentFees.protocol),
                                          protocolFeeDestination),
               NEW subjectFee \in Pushed(Fee(SalePrice(amount), CurrentFees.subject),
                                         getSharesIssuer)
        PROVE  SellPasses(holder, amount, protocolFee, subjectFee)
    <2> DEFINE price == SalePrice(amount)
               p     == Fee(price, CurrentFees.protocol)
               h     == Fee(price, CurrentFees.holders)
               s     == Fee(price, CurrentFees.subject)
    <2>1. /\ amount \in Nat /\ holder \in Addresses
          /\ TypeOK /\ FeesWithinPrice /\ ReserveExact /\ CommonInv
      BY <1>1, RewardsAssumption DEF IInv, CommonInv, Addresses
    <2>2. price \in Nat /\ reserve >= price
      BY <1>1, <2>1, SalePriceFits
    <2>3. /\ CurrentFees.protocol \in Nat /\ CurrentFees.holders \in Nat
          /\ CurrentFees.subject \in Nat
          /\ CurrentFees.protocol + CurrentFees.holders + CurrentFees.subject <= FeeScale
      BY <2>1, EffectiveFeesBounded
    <2>4. p \in Nat /\ h \in Nat /\ s \in Nat /\ p + h + s <= price
      BY <2>2, <2>3, FeeNat, FeesFit
    <2>5. SyncRequired(holdersFeeDestination, amount) =>
             D!SyncPasses(ThisContract, h, holder, FALSE, amount)
      BY <1>1, <2>1, <2>4, SalesSync
    <2>6. protocolFee \in {0, p} /\ subjectFee \in {0, s}
      BY <1>1 DEF Pushed
    <2> HIDE DEF price, p, h, s
    <2>7. price - protocolFee - h - subjectFee >= 0
      BY <2>2, <2>4, <2>6
    <2> QED
      BY <1>1, <2>2, <2>5, <2>7 DEF SellPasses, SalePasses, price, p, h, s
  <1>2. IInv => HolderCanExit
    BY <1>1 DEF HolderCanExit, ExitPasses
  <1> QED
    BY <1>2, Invariance, PTL

-----------------------------------------------------------------------------
\* What one step does to the ledger: it mints, burns, or leaves it alone.
LEMMA StepShapes ==
    ASSUME IInv, [Next]_vars
    PROVE  \/ \E beneficiary \in Addresses, amount \in Amounts :
                /\ mint(beneficiary, amount, getPrice(sharesSupply, amount))
                /\ reserve' = reserve + getPrice(sharesSupply, amount)
           \/ \E sender \in Accounts, amount \in Amounts :
                /\ sharesSupply > amount /\ sharesBalances[sender] >= amount
                /\ burn(sender, amount, SalePrice(amount))
                /\ reserve' = reserve - SalePrice(amount)
           \/ UNCHANGED <<ledgerVars, reserve>>
PROOF
  <1>1. CASE Deploy
    <2>1. PICK msgValue \in Payments, subject \in Subjects, setting \in FeeSettings,
               amount \in Amounts, beneficiary \in Addresses :
                  postConstruct(msgValue, subject, setting, amount, beneficiary)
      BY <1>1 DEF Deploy
    <2>2. CASE UNCHANGED <<ledgerVars, reserve, rewardsVars>>
      BY <2>2
    <2>3. CASE unsafeBuySharesTo(EffectiveFees(setting, IssuerOf(subject)),
                                 setting.protocolFeeDestination, setting.holdersFeeDestination,
                                 IssuerOf(subject), msgValue, amount, beneficiary)
      <3> DEFINE fees == EffectiveFees(setting, IssuerOf(subject))
      <3>1. fees.protocol \in Nat /\ fees.holders \in Nat /\ fees.subject \in Nat
        BY SharesAssumption DEF EffectiveFees, FeeSetting
      <3> HIDE DEF fees
      <3>2. unsafeBuySharesTo(fees, setting.protocolFeeDestination, setting.holdersFeeDestination,
                              IssuerOf(subject), msgValue, amount, beneficiary)
        BY <2>3 DEF fees
      <3>3. ~initialized /\ initialized' /\ holdersFeeDestination' = setting.holdersFeeDestination
        BY <2>1 DEF postConstruct, storeSetting
      <3>4. reserve' = reserve + getPrice(sharesSupply, amount)
        BY <3>1, <3>2, <3>3, BuyKeeps
      <3> QED
        BY <3>2, <3>4 DEF unsafeBuySharesTo
    <2> QED
      BY <2>1, <2>2, <2>3 DEF postConstruct
  <1>2. ASSUME NEW sender \in Accounts, NEW msgValue \in Payments, NEW amount \in Amounts,
               NEW beneficiary \in Addresses, buySharesTo(sender, msgValue, amount, beneficiary)
        PROVE  /\ mint(beneficiary, amount, getPrice(sharesSupply, amount))
               /\ reserve' = reserve + getPrice(sharesSupply, amount)
    BY <1>2, BuySharesKeeps DEF buySharesTo, unsafeBuySharesTo
  <1>3. ASSUME NEW sender \in Accounts, NEW amount \in Amounts, sellSharesTo(sender, amount)
        PROVE  /\ sharesSupply > amount /\ sharesBalances[sender] >= amount
               /\ burn(sender, amount, SalePrice(amount))
               /\ reserve' = reserve - SalePrice(amount)
    BY <1>3, SellKeeps DEF sellSharesTo, SellPasses, SalePasses
  <1>4. CASE Trade
    BY <1>2, <1>3, <1>4 DEF Trade
  <1>5. CASE Administer \/ SubjectContracts \/ Rewards \/ UNCHANGED vars
    BY <1>5, OtherStepsKeep
  <1> QED
    BY <1>1, <1>4, <1>5 DEF Next

\* The supply of a launched market never returns to zero.
THEOREM MarketStaysLaunched == Spec => NeverRelaunched
PROOF
  <1>1. ASSUME IInv, [Next]_vars PROVE sharesSupply > 0 => sharesSupply' > 0
    <2>1. sharesSupply \in Nat /\ \A amount \in Amounts : amount \in Nat
      BY <1>1, RewardsAssumption DEF IInv, CommonInv, TypeOK, SharesTypeOK
    <2> QED
      BY <1>1, <2>1, StepShapes DEF mint, burn, ledgerVars
  <1> QED
    BY <1>1, Invariance, PTL DEF Spec, NeverRelaunched

\* The supply is the sum of what all holders have: a buy credits, and a sale
\* debits, one holder and the supply alike.
THEOREM SupplyAddsUp == Spec => []SupplyIsSum
PROOF
  <1>1. ASSUME IInv, SupplyIsSum, [Next]_vars PROVE SupplyIsSum'
    <2>1. SharesTypeOK /\ Accounts \subseteq Addresses /\ \A amount \in Amounts : amount \in Nat
      BY <1>1, RewardsAssumption DEF IInv, CommonInv, TypeOK, Addresses
    <2>2. ASSUME NEW beneficiary \in Addresses, NEW amount \in Amounts,
                 mint(beneficiary, amount, getPrice(sharesSupply, amount))
          PROVE  SupplyIsSum'
      BY <1>1, <2>1, <2>2, MintAddsUp
    <2>3. ASSUME NEW sender \in Accounts, NEW amount \in Amounts,
                 sharesBalances[sender] >= amount, burn(sender, amount, SalePrice(amount))
          PROVE  SupplyIsSum'
      BY <1>1, <2>1, <2>3, BurnAddsUp
    <2>4. ASSUME UNCHANGED ledgerVars PROVE SupplyIsSum'
      BY <1>1, <2>4 DEF ledgerVars, SupplyIsSum
    <2> QED
      BY <1>1, <2>2, <2>3, <2>4, StepShapes, Zenon
  <1> QED
    BY <1>1, InitAddsUp, Invariance, PTL DEF Spec

\* The trade volume follows the money that moves in and out of the reserve.
THEOREM VolumeFollowsReserve == Spec => VolumeTracksReserve
PROOF
  <1>1. ASSUME IInv, [Next]_vars
        PROVE  tradeVolume' - tradeVolume =
                  IF reserve' >= reserve THEN reserve' - reserve ELSE reserve - reserve'
    <2>1. /\ tradeVolume \in Nat /\ reserve \in Nat /\ sharesSupply \in Nat
          /\ TypeOK /\ ReserveExact
          /\ \A amount \in Amounts : amount \in Nat
      BY <1>1, RewardsAssumption DEF IInv, CommonInv, TypeOK, SharesTypeOK
    <2>2. ASSUME NEW beneficiary \in Addresses, NEW amount \in Amounts,
                 mint(beneficiary, amount, getPrice(sharesSupply, amount)),
                 reserve' = reserve + getPrice(sharesSupply, amount)
          PROVE  tradeVolume' - tradeVolume = reserve' - reserve /\ reserve' >= reserve
      <3>1. getPrice(sharesSupply, amount) \in Nat
        BY <2>1, EthPriceNat DEF getPrice
      <3> QED
        BY <2>1, <2>2, <3>1 DEF mint
    <2>3. ASSUME NEW sender \in Accounts, NEW amount \in Amounts,
                 sharesSupply > amount,
                 burn(sender, amount, SalePrice(amount)),
                 reserve' = reserve - SalePrice(amount)
          PROVE  /\ tradeVolume' - tradeVolume = reserve - reserve'
                 /\ reserve' >= reserve => reserve' = reserve
      <3>1. SalePrice(amount) \in Nat
        BY <2>1, <2>3, SalePriceFits
      <3> QED
        BY <2>1, <2>3, <3>1 DEF burn
    <2>4. CASE UNCHANGED <<ledgerVars, reserve>>
      BY <2>1, <2>4 DEF ledgerVars
    <2> QED
      BY <1>1, <2>1, <2>2, <2>3, <2>4, StepShapes
  <1> QED
    BY <1>1, Invariance, PTL DEF Spec, VolumeTracksReserve

\* The contract implements the interface: what a holder sees of every step is a
\* buy, a sale or nothing, and the whole supply stays covered.
THEOREM ImplementsTradeableShares == Spec => ImplementsMarket
PROOF
  <1>1. Init => Market!MarketInit
    BY DEF Init, SharesInit, Market!MarketInit
  <1>2. ASSUME IInv, IInv', [Next]_vars
        PROVE  [Market!MarketNext]_(Market!marketVars)
    <2>1. Market!Covered'
      <3>1. reserve' = getPrice(0, sharesSupply') /\ reserve' \in Nat
        BY <1>2 DEF IInv, ReserveExact, CommonInv, TypeOK, getPrice
      <3> QED
        BY <3>1 DEF Market!Covered
    <2>2. ASSUME NEW beneficiary \in Addresses, NEW amount \in Amounts,
                 mint(beneficiary, amount, getPrice(sharesSupply, amount))
          PROVE  Market!Buy(beneficiary, amount)
      BY <2>1, <2>2 DEF mint, Market!Buy
    <2>3. ASSUME NEW sender \in Accounts, NEW amount \in Amounts,
                 sharesSupply > amount, sharesBalances[sender] >= amount,
                 burn(sender, amount, SalePrice(amount))
          PROVE  sender \in Addresses /\ Market!Sell(sender, amount)
      <3>1. sharesBalances[sender] \in Nat /\ sharesSupply \in Nat /\ amount \in Nat
            /\ sender \in Addresses
        BY <1>2, RewardsAssumption DEF IInv, CommonInv, TypeOK, SharesTypeOK, Addresses
      <3> QED
        BY <2>1, <2>3, <3>1 DEF burn, SalePrice, Market!Sell
    <2>4. CASE UNCHANGED <<ledgerVars, reserve>>
      BY <2>4 DEF ledgerVars, Market!marketVars
    <2> QED
      BY <1>2, <2>2, <2>3, <2>4, StepShapes DEF Market!MarketNext
  <1> QED
    BY <1>1, <1>2, Invariance, PTL DEF Spec, ImplementsMarket, Market!MarketSpec
-----------------------------------------------------------------------------
(* The distributor of the market, as RewardsAccounting sees it *)

\* What the trades and the donors have brought in bounds what the distributor got.
Bounded ==
    /\ settlements \in Nat
    /\ sharesSupply <= MaxSupply
    /\ rewardsBalance + Claimed <= MaxRewards + tradeVolume
    /\ tradeVolume <= MaxVolume

\* Both instances of the distributor have paid the same.
LEMMA SameClaimed == Accounting!Claimed = Claimed
  BY Zenon DEF Accounting!Claimed, Claimed, SumFunction, SumFunctionOnSet, FoldFunctionOnSet,
       MapThenFoldSet, Accounting!SumFunction, Accounting!SumFunctionOnSet,
       Accounting!FoldFunctionOnSet, Accounting!MapThenFoldSet

\* Both understand a sync message in the same way.
LEMMA SameSync ==
    ASSUME NEW operator, NEW fee, NEW trader, NEW isBuy, NEW amount
    PROVE  D!sync(operator, fee, trader, isBuy, amount)
              = Accounting!sync(operator, fee, trader, isBuy, amount)
PROOF
  <1>1. D!UserInfo = Accounting!UserInfo
    BY DEF D!UserInfo, Accounting!UserInfo
  <1>2. \A shares, acc : D!Accumulated(shares, acc) = Accounting!Accumulated(shares, acc)
    BY DEF D!Accumulated, Accounting!Accumulated
  <1>3. \A user, acc : D!Unsettled(user, acc) = Accounting!Unsettled(user, acc)
    BY <1>2 DEF D!Unsettled, Accounting!Unsettled
  <1>4. \A acc, total, f : D!Accept(acc, total, f) = Accounting!Accept(acc, total, f)
    BY DEF D!Accept, Accounting!Accept
  <1>5. \A user, acc, n : D!Settle(user, acc, n) = Accounting!Settle(user, acc, n)
    BY <1>2, <1>3, Zenon DEF D!Settle, Accounting!Settle
  <1>6. \A user, acc, n : D!SharesBought(user, acc, n) = Accounting!SharesBought(user, acc, n)
    BY <1>2, <1>5, Zenon DEF D!SharesBought, Accounting!SharesBought
  <1>7. \A user, acc, n : D!SharesSold(user, acc, n) = Accounting!SharesSold(user, acc, n)
    BY <1>5, Zenon DEF D!SharesSold, Accounting!SharesSold
  <1>8. D!SyncPasses(operator, fee, trader, isBuy, amount)
           = Accounting!SyncPasses(operator, fee, trader, isBuy, amount)
    BY <1>3, <1>4, Zenon DEF D!SyncPasses, Accounting!SyncPasses, D!MaySync, Accounting!MaySync
  <1>9. D!ParseFirstTrade(fee, trader, amount) = Accounting!ParseFirstTrade(fee, trader, amount)
    BY <1>4, <1>6, Zenon DEF D!ParseFirstTrade, Accounting!ParseFirstTrade
  <1>10. D!ParseNextTrade(fee, trader, isBuy, amount)
            = Accounting!ParseNextTrade(fee, trader, isBuy, amount)
    BY <1>4, <1>6, <1>7, Zenon DEF D!ParseNextTrade, Accounting!ParseNextTrade
  <1> QED
    BY <1>8, <1>9, <1>10, Zenon DEF D!sync, Accounting!sync

\* A claim pays the same in both.
LEMMA SameClaim ==
    ASSUME NEW holder PROVE D!claimTheReward(holder) = Accounting!claimTheReward(holder)
PROOF
  <1>1. \A shares, acc : D!Accumulated(shares, acc) = Accounting!Accumulated(shares, acc)
    BY DEF D!Accumulated, Accounting!Accumulated
  <1>2. D!Pending(holder) = Accounting!Pending(holder)
    BY <1>1 DEF D!Pending, Accounting!Pending, D!Unsettled, Accounting!Unsettled
  <1>3. D!pendingReward(holder) = Accounting!pendingReward(holder)
    BY <1>2 DEF D!pendingReward, Accounting!pendingReward
  <1>4. D!WithinDiscrepancy(holder) = Accounting!WithinDiscrepancy(holder)
    BY <1>2, Zenon DEF D!WithinDiscrepancy, Accounting!WithinDiscrepancy
  <1> QED
    BY <1>1, <1>3, <1>4, Zenon DEF D!claimTheReward, Accounting!claimTheReward

\* A donation raises the rate in both alike.
LEMMA SameDonate ==
    ASSUME NEW sender, NEW value PROVE D!donate(sender, value) = Accounting!donate(sender, value)
PROOF
  <1>1. \A acc, total, f : D!Accept(acc, total, f) = Accounting!Accept(acc, total, f)
    BY DEF D!Accept, Accounting!Accept
  <1> QED
    BY <1>1, Zenon DEF D!donate, Accounting!donate, D!MaySync, Accounting!MaySync

-----------------------------------------------------------------------------
\* The paid rewards as a sum over the addresses
LEMMA ClaimedIsSum ==
    /\ Claimed = Sum([a \in Addresses |-> userInfo[a].claimedAmount], Addresses)
    /\ Claimed' = Sum([a \in Addresses |-> userInfo'[a].claimedAmount], Addresses)
  BY Zenon DEF Claimed, SumFunction, Sum

\* It is a natural number.
LEMMA ClaimedNat ==
    ASSUME D!TypeOK PROVE Claimed \in Nat
PROOF
  <1> DEFINE f == [a \in Addresses |-> userInfo[a].claimedAmount]
  <1>1. \A a \in Addresses : f[a] \in Nat
    BY DEF D!TypeOK, D!UserInfo
  <1>2. Sum(f, Addresses) \in Nat
    <2> HIDE DEF f
    <2> QED
      BY <1>1, AddressesFinite, SumOfNaturals
  <1> QED
    BY <1>2, ClaimedIsSum

\* What one user is paid adds to what all were paid.
LEMMA ClaimedMoves ==
    ASSUME D!TypeOK, D!TypeOK', NEW holder \in Addresses, NEW payout \in Nat,
           userInfo'[holder].claimedAmount = userInfo[holder].claimedAmount + payout,
           \A a \in Addresses \ {holder} : userInfo'[a].claimedAmount = userInfo[a].claimedAmount
    PROVE  Claimed' = Claimed + payout
PROOF
  <1> DEFINE f == [a \in Addresses |-> userInfo[a].claimedAmount]
             g == [a \in Addresses |-> userInfo'[a].claimedAmount]
  <1>1. /\ \A a \in Addresses : f[a] \in Int /\ g[a] \in Int
        /\ \A a \in Addresses \ {holder} : g[a] = f[a]
        /\ g[holder] = f[holder] + payout
    BY DEF D!TypeOK, D!UserInfo
  <1>2. Claimed = Sum(f, Addresses) /\ Claimed' = Sum(g, Addresses)
    BY ClaimedIsSum
  <1> HIDE DEF f, g
  <1>3. Sum(g, Addresses) = Sum(f, Addresses) + g[holder] - f[holder]
    BY <1>1, AddressesFinite, SumUpdate
  <1>4. Claimed \in Nat
    BY ClaimedNat
  <1> QED
    BY <1>1, <1>2, <1>3, <1>4

\* A sync pays nothing out.
LEMMA SyncPaysNothing ==
    ASSUME D!TypeOK, DebtCovered, NEW fee \in Nat, NEW trader \in Addresses,
           NEW isBuy \in BOOLEAN, NEW amount \in Nat,
           D!sync(ThisContract, fee, trader, isBuy, amount)
    PROVE  Claimed' = Claimed /\ rewardsBalance' = rewardsBalance + fee
PROOF
  <1>1. /\ D!TypeOK'
        /\ \A a \in Addresses \ {trader} : userInfo'[a] = userInfo[a]
    BY SyncStep
  <1>2. userInfo'[trader].claimedAmount = userInfo[trader].claimedAmount
    <2>1. CASE D!ParseFirstTrade(fee, trader, amount)
      BY <2>1 DEF D!ParseFirstTrade, D!SharesBought, D!Settle, D!TypeOK
    <2>2. CASE D!ParseNextTrade(fee, trader, isBuy, amount)
      BY <2>2 DEF D!ParseNextTrade, D!SharesBought, D!SharesSold, D!Settle, D!TypeOK
    <2> QED
      BY <2>1, <2>2 DEF D!sync
  <1>3. userInfo[trader].claimedAmount \in Nat
    BY DEF D!TypeOK, D!UserInfo
  <1>4. Claimed' = Claimed + 0
    BY <1>1, <1>2, <1>3, ClaimedMoves
  <1> QED
    BY <1>4, ClaimedNat DEF D!sync

\* A claim pays out of the balance.
LEMMA ClaimPays ==
    ASSUME D!TypeOK, D!TypeOK', NEW holder \in Addresses, D!claimTheReward(holder)
    PROVE  /\ rewardsBalance' + Claimed' = rewardsBalance + Claimed
           /\ userInfo' # userInfo
           /\ totalShares' = totalShares
PROOF
  <1> DEFINE payout == D!pendingReward(holder)
  <1>1. /\ userInfo'[holder].claimedAmount = userInfo[holder].claimedAmount + payout
        /\ \A a \in Addresses \ {holder} : userInfo'[a] = userInfo[a]
        /\ rewardsBalance' = rewardsBalance - payout
        /\ totalShares' = totalShares
        /\ payout > 0
    BY DEF D!claimTheReward, D!TypeOK
  <1>2. payout \in Nat
    <2>1. D!Pending(holder) \in Int
      <3>1. userInfo[holder] \in D!UserInfo /\ accRewardPerShare \in Nat
        BY DEF D!TypeOK
      <3>2. D!Accumulated(userInfo[holder].shares, accRewardPerShare) \in Nat
        BY <3>1, AccumulatedNat DEF D!UserInfo
      <3> QED
        BY <3>1, <3>2 DEF D!Pending, D!Unsettled, D!UserInfo
    <2> QED
      BY <1>1, <2>1 DEF D!pendingReward, D!TypeOK
  <1> HIDE DEF payout
  <1>3. Claimed' = Claimed + payout
    BY <1>1, <1>2, ClaimedMoves
  <1>4. userInfo[holder].claimedAmount \in Nat /\ rewardsBalance \in Nat
    BY DEF D!TypeOK, D!UserInfo
  <1> QED
    BY <1>1, <1>2, <1>3, <1>4, ClaimedNat
-----------------------------------------------------------------------------
\* A trade of the market as the distributor hears of it: of the price goes a part
\* to the distributor, the shares fit into the supply, and one share is never sold.
Reported(price, fee, trader, isBuy, amount) ==
    /\ D!sync(ThisContract, fee, trader, isBuy, amount)
    /\ fee <= price
    /\ tradeVolume' = tradeVolume + price
    /\ tradeVolume' <= MaxVolume
    /\ amount # 0
    /\ isBuy => totalShares + amount <= MaxSupply
    /\ ~isBuy => amount < totalShares /\ totalShares <= MaxSupply

\* What a step of the market is to its distributor
SeenByDistributor ==
    \/ UNCHANGED rewardsVars
    \/ \E price \in Nat, fee \in Nat, trader \in Addresses, isBuy \in BOOLEAN, amount \in Nat :
          Reported(price, fee, trader, isBuy, amount)
    \/ Rewards

\* A fee is a part of the price.
LEMMA FeeWithinPrice ==
    ASSUME NEW price \in Nat, NEW percent \in Nat, percent <= FeeScale
    PROVE  Fee(price, percent) \in Nat /\ Fee(price, percent) <= price
PROOF
  <1>1. Fee(price, percent) + Fee(price, 0) + Fee(price, 0) <= price
    BY SharesAssumption, FeesFit
  <1>2. Fee(price, percent) \in Nat /\ Fee(price, 0) \in Nat
    BY FeeNat
  <1> QED
    BY <1>1, <1>2

\* A buy under fees of at most 100%
LEMMA BuySeen ==
    ASSUME IInv, NEW fees, NEW protocolDestination, NEW destination, NEW issuer,
           NEW msgValue \in Payments,
           NEW amount \in Amounts, NEW beneficiary \in Addresses,
           fees.holders \in Nat, fees.holders <= FeeScale,
           unsafeBuySharesTo(fees, protocolDestination, destination, issuer, msgValue, amount,
                             beneficiary),
           destination # NoAddress => totalShares = sharesSupply
    PROVE  SeenByDistributor
PROOF
  <1> DEFINE price      == getPrice(sharesSupply, amount)
             holdersFee == Fee(price, fees.holders)
  <1>1. amount \in Nat /\ sharesSupply \in Nat /\ tradeVolume \in Nat
    BY RewardsAssumption DEF IInv, CommonInv, TypeOK, SharesTypeOK
  <1>2. price \in Nat
    BY <1>1, EthPriceNat DEF getPrice
  <1>3. holdersFee \in Nat /\ holdersFee <= price
    BY <1>2, FeeWithinPrice
  <1>4. /\ mint(beneficiary, amount, price)
        /\ notifyDistributor(destination, holdersFee, beneficiary, TRUE, amount)
    BY DEF unsafeBuySharesTo
  <1> HIDE DEF price, holdersFee
  <1>5. CASE SyncRequired(destination, amount)
    <2>1. Reported(price, holdersFee, beneficiary, TRUE, amount)
      BY <1>1, <1>2, <1>3, <1>4, <1>5 DEF Reported, mint, notifyDistributor, SyncRequired
    <2> QED
      BY <1>1, <1>2, <1>3, <2>1 DEF SeenByDistributor
  <1>6. CASE ~SyncRequired(destination, amount)
    BY <1>4, <1>6 DEF notifyDistributor, SeenByDistributor
  <1> QED
    BY <1>5, <1>6

\* A sale
LEMMA SaleSeen ==
    ASSUME IInv, Bounded, NEW sender \in Accounts, NEW amount \in Amounts,
           sellSharesTo(sender, amount)
    PROVE  SeenByDistributor
PROOF
  <1> DEFINE price      == SalePrice(amount)
             holdersFee == Fee(price, CurrentFees.holders)
  <1>1. amount \in Nat /\ sharesSupply \in Nat /\ tradeVolume \in Nat /\ sender \in Addresses
        /\ TypeOK /\ ReserveExact /\ FeesWithinPrice
    BY RewardsAssumption DEF IInv, CommonInv, TypeOK, SharesTypeOK, Addresses
  <1>2. /\ sharesSupply > amount
        /\ burn(sender, amount, price)
        /\ notifyDistributor(holdersFeeDestination, holdersFee, sender, FALSE, amount)
    BY DEF sellSharesTo, SellPasses, SalePasses
  <1>3. price \in Nat
    BY <1>1, <1>2, SalePriceFits
  <1>4. CurrentFees.holders \in Nat /\ CurrentFees.holders <= FeeScale
    BY <1>1, EffectiveFeesBounded, SharesAssumption
  <1>5. holdersFee \in Nat /\ holdersFee <= price
    BY <1>3, <1>4, FeeWithinPrice
  <1> HIDE DEF price, holdersFee
  <1>6. CASE SyncRequired(holdersFeeDestination, amount)
    <2>1. totalShares = sharesSupply /\ sharesSupply <= MaxSupply
      BY <1>6 DEF SyncRequired, IInv, CommonInv, DistributorInSync, Bounded
    <2>2. Reported(price, holdersFee, sender, FALSE, amount)
      BY <1>1, <1>2, <1>3, <1>5, <1>6, <2>1 DEF Reported, burn, notifyDistributor, SyncRequired
    <2> QED
      BY <1>1, <1>3, <1>5, <2>2 DEF SeenByDistributor
  <1>7. CASE ~SyncRequired(holdersFeeDestination, amount)
    BY <1>2, <1>7 DEF notifyDistributor, SeenByDistributor
  <1> QED
    BY <1>6, <1>7

\* The distributor sees nothing, one trade, or something around the trades.
LEMMA StepSeen == IInv /\ Bounded /\ [Next]_vars => SeenByDistributor
PROOF
  <1> SUFFICES ASSUME IInv, Bounded, [Next]_vars PROVE SeenByDistributor
    OBVIOUS
  <1>1. CASE Deploy
    <2>1. PICK msgValue \in Payments, subject \in Subjects, setting \in FeeSettings,
               amount \in Amounts, beneficiary \in Addresses :
                  postConstruct(msgValue, subject, setting, amount, beneficiary)
      BY <1>1 DEF Deploy
    <2>2. CASE UNCHANGED <<ledgerVars, reserve, rewardsVars>>
      BY <2>2 DEF SeenByDistributor
    <2>3. CASE unsafeBuySharesTo(EffectiveFees(setting, IssuerOf(subject)),
                                 setting.protocolFeeDestination, setting.holdersFeeDestination,
                                 IssuerOf(subject), msgValue, amount, beneficiary)
      <3> DEFINE fees == EffectiveFees(setting, IssuerOf(subject))
      <3>1. fees.holders \in Nat /\ fees.holders <= FeeScale
        BY SharesAssumption DEF EffectiveFees, FeeSetting
      <3> HIDE DEF fees
      <3>2. unsafeBuySharesTo(fees, setting.protocolFeeDestination, setting.holdersFeeDestination,
                              IssuerOf(subject), msgValue, amount, beneficiary)
        BY <2>3 DEF fees
      <3>3. totalShares = sharesSupply
        BY <2>1 DEF postConstruct, storeSetting, IInv, CommonInv, Unstarted
      <3> QED
        BY <3>1, <3>2, <3>3, BuySeen
    <2> QED
      BY <2>1, <2>2, <2>3 DEF postConstruct
  <1>2. ASSUME NEW sender \in Accounts, NEW msgValue \in Payments, NEW amount \in Amounts,
               NEW beneficiary \in Addresses, buySharesTo(sender, msgValue, amount, beneficiary)
        PROVE  SeenByDistributor
    <2>1. CurrentFees.holders \in Nat /\ CurrentFees.holders <= FeeScale
      BY EffectiveFeesBounded, SharesAssumption DEF IInv, CommonInv
    <2>2. holdersFeeDestination # NoAddress => totalShares = sharesSupply
      BY DEF IInv, CommonInv, DistributorInSync
    <2> QED
      BY <1>2, <2>1, <2>2, BuySeen DEF buySharesTo
  <1>3. CASE Trade
    BY <1>2, <1>3, SaleSeen DEF Trade
  <1>4. CASE Administer \/ SubjectContracts \/ UNCHANGED vars
    BY <1>4 DEF Administer, SubjectContracts, vars, SeenByDistributor
  <1>5. CASE Rewards
    BY <1>5 DEF SeenByDistributor
  <1> QED
    BY <1>1, <1>3, <1>4, <1>5 DEF Next
-----------------------------------------------------------------------------
\* Nothing was bought, paid or counted yet.
LEMMA BoundedInit == AccountedInit => Bounded
PROOF
  <1> SUFFICES ASSUME AccountedInit PROVE Bounded
    OBVIOUS
  <1>1. /\ settlements = 0 /\ sharesSupply = 0 /\ tradeVolume = 0 /\ rewardsBalance = 0
        /\ \A a \in Addresses : userInfo[a].claimedAmount = 0
    BY DEF AccountedInit, Init, SharesInit, D!Init, D!NoUser
  <1>2. Claimed = 0
    <2> DEFINE f == [a \in Addresses |-> userInfo[a].claimedAmount]
    <2>1. \A a \in Addresses : f[a] = 0
      BY <1>1
    <2> HIDE DEF f
    <2>2. Sum(f, Addresses) = 0
      BY <2>1, AddressesFinite, SumZero
    <2> QED
      BY <2>2, ClaimedIsSum DEF f
  <1> QED
    BY <1>1, <1>2, RewardsAssumption DEF Bounded

\* The supply and the volume stay within their bounds, and the volume only grows.
LEMMA LedgerBounded ==
    ASSUME IInv, Bounded, [Next]_vars
    PROVE  /\ sharesSupply' <= MaxSupply
           /\ tradeVolume' <= MaxVolume
           /\ tradeVolume <= tradeVolume'
PROOF
  <1>1. /\ tradeVolume \in Nat /\ reserve \in Nat /\ sharesSupply \in Nat
        /\ TypeOK /\ ReserveExact
        /\ \A amount \in Amounts : amount \in Nat
        /\ MaxSupply \in Nat /\ MaxVolume \in Nat
        /\ sharesSupply <= MaxSupply /\ tradeVolume <= MaxVolume
    BY RewardsAssumption DEF IInv, CommonInv, TypeOK, SharesTypeOK, Bounded
  <1>2. ASSUME NEW beneficiary \in Addresses, NEW amount \in Amounts,
               mint(beneficiary, amount, getPrice(sharesSupply, amount))
        PROVE  /\ sharesSupply' <= MaxSupply /\ tradeVolume' <= MaxVolume
               /\ tradeVolume <= tradeVolume'
    <2>1. getPrice(sharesSupply, amount) \in Nat
      BY <1>1, EthPriceNat DEF getPrice
    <2> QED
      BY <1>1, <1>2, <2>1 DEF mint
  <1>3. ASSUME NEW sender \in Accounts, NEW amount \in Amounts,
               sharesSupply > amount, burn(sender, amount, SalePrice(amount))
        PROVE  /\ sharesSupply' <= MaxSupply /\ tradeVolume' <= MaxVolume
               /\ tradeVolume <= tradeVolume'
    <2>1. SalePrice(amount) \in Nat
      BY <1>1, <1>3, SalePriceFits
    <2> QED
      BY <1>1, <1>3, <2>1 DEF burn
  <1>4. CASE UNCHANGED <<ledgerVars, reserve>>
    BY <1>1, <1>4 DEF ledgerVars
  <1> QED
    BY <1>2, <1>3, <1>4, StepShapes

\* A donation stays within its own bound, and adds no user.
LEMMA DonationSeen ==
    ASSUME D!TypeOK, NEW value \in Nat, NEW sender, D!donate(sender, value)
    PROVE  /\ rewardsBalance' = rewardsBalance + value
           /\ Claimed' = Claimed
           /\ userInfo' = userInfo
  BY DEF D!donate, Claimed

\* What the distributor got and paid: a fee is part of the volume, donations have a
\* bound of their own, and a claim only moves it.
LEMMA RewardsBounded ==
    ASSUME IInv, IInv', Bounded, [Next]_vars
    PROVE  rewardsBalance' + Claimed' <= MaxRewards + tradeVolume'
PROOF
  <1>1. /\ D!TypeOK /\ D!TypeOK' /\ DebtCovered
        /\ tradeVolume \in Nat /\ tradeVolume' \in Nat /\ MaxRewards \in Nat
        /\ rewardsBalance \in Nat /\ Claimed \in Nat
        /\ rewardsBalance + Claimed <= MaxRewards + tradeVolume
        /\ tradeVolume <= tradeVolume'
    BY ClaimedNat, LedgerBounded, RewardsAssumption
       DEF IInv, CommonInv, TypeOK, SharesTypeOK, Bounded, D!TypeOK
  <1>2. CASE UNCHANGED rewardsVars
    BY <1>1, <1>2 DEF rewardsVars, Claimed
  <1>3. ASSUME NEW price \in Nat, NEW fee \in Nat, NEW trader \in Addresses,
               NEW isBuy \in BOOLEAN, NEW amount \in Nat,
               Reported(price, fee, trader, isBuy, amount)
        PROVE  rewardsBalance' + Claimed' <= MaxRewards + tradeVolume'
    <2>1. Claimed' = Claimed /\ rewardsBalance' = rewardsBalance + fee
      BY <1>1, <1>3, SyncPaysNothing DEF Reported
    <2> QED
      BY <1>1, <1>3, <2>1 DEF Reported
  <1>4. CASE Rewards
    <2>1. ASSUME NEW sender \in Accounts, NEW value \in Donations,
                 WithinRewards(value), D!donate(sender, value)
          PROVE  rewardsBalance' + Claimed' <= MaxRewards + tradeVolume'
      BY <1>1, <2>1, DonationSeen, RewardsAssumption DEF WithinRewards
    <2>2. ~\E value \in Donations : D!plainTransfer(value)
      BY ETHAssumption DEF D!plainTransfer
    <2>3. ASSUME NEW holder \in Accounts, D!claimTheReward(holder)
          PROVE  rewardsBalance' + Claimed' <= MaxRewards + tradeVolume'
      BY <1>1, <2>3, ClaimPays DEF Addresses
    <2>4. ASSUME NEW contract, D!initializeSharesContractAddressIfRequired(contract)
          PROVE  rewardsBalance' + Claimed' <= MaxRewards + tradeVolume'
      BY <1>1, <2>4 DEF D!initializeSharesContractAddressIfRequired, Claimed
    <2> QED
      BY <1>4, <2>1, <2>2, <2>3, <2>4 DEF Rewards
  <1> QED
    BY <1>2, <1>3, <1>4, StepSeen DEF SeenByDistributor

\* Every step stays within the bounds.
LEMMA BoundedNext ==
    ASSUME IInv, IInv', Bounded, [AccountedNext]_<<vars, settlements>>
    PROVE  Bounded'
PROOF
  <1>1. [Next]_vars
    BY DEF AccountedNext
  <1>2. settlements' \in Nat
    BY DEF Bounded, AccountedNext, Counted, Recomputed
  <1> QED
    BY <1>1, <1>2, LedgerBounded, RewardsBounded DEF Bounded

\* A step of the market is a step of the accounting, or changes nothing there.
LEMMA StepAccounted ==
    ASSUME IInv, IInv', Bounded, [AccountedNext]_<<vars, settlements>>
    PROVE  [Accounting!AccountingNext]_(Accounting!accountingVars)
PROOF
  <1>1. /\ D!TypeOK /\ D!TypeOK' /\ DebtCovered
        /\ tradeVolume \in Nat /\ tradeVolume' \in Nat /\ MaxRewards \in Nat /\ MaxVolume \in Nat
        /\ MaxSupply \in Nat
        /\ rewardsBalance \in Nat /\ Claimed \in Nat /\ totalShares \in Nat
        /\ rewardsBalance + Claimed <= MaxRewards + tradeVolume
        /\ tradeVolume <= MaxVolume
        /\ sharesSupply \in Nat /\ sharesSupply <= MaxSupply
    BY ClaimedNat, RewardsAssumption
       DEF IInv, CommonInv, TypeOK, SharesTypeOK, Bounded, D!TypeOK
  <1>2. [Next]_vars
    BY DEF AccountedNext
  <1>3. ASSUME NEW fee \in Nat, rewardsBalance + Claimed + fee <= MaxVolume + MaxRewards
        PROVE  fee \in Accounting!Fees
    <2>1. fee \in 0 .. (MaxVolume + MaxRewards)
      BY <1>1, <1>3
    <2> QED
      BY <1>1, <1>3, <2>1, SameClaimed DEF Accounting!Fees
  <1>4. CASE UNCHANGED <<vars, settlements>>
    BY <1>4 DEF vars, rewardsVars, Accounting!accountingVars, Accounting!distributorVars
  <1>5. CASE AccountedNext /\ UNCHANGED rewardsVars
    BY <1>5 DEF AccountedNext, Counted, rewardsVars, Accounting!accountingVars,
                Accounting!distributorVars
  <1>6. ASSUME AccountedNext,
               NEW price \in Nat, NEW fee \in Nat, NEW trader \in Addresses,
               NEW isBuy \in BOOLEAN, NEW amount \in Nat,
               Reported(price, fee, trader, isBuy, amount)
        PROVE  Accounting!AccountingNext
    <2>1. D!sync(ThisContract, fee, trader, isBuy, amount)
      BY <1>6 DEF Reported
    <2>2. /\ userInfo' # userInfo
          /\ totalShares = 0 => totalShares' # 0 /\ isBuy
      <3>1. /\ userInfo'[trader].shares = (IF isBuy THEN userInfo[trader].shares + amount
                                                   ELSE userInfo[trader].shares - amount)
            /\ totalShares' = (IF isBuy THEN totalShares + amount ELSE totalShares - amount)
        BY <1>1, <2>1, SyncStep
      <3>2. userInfo[trader].shares \in Nat /\ amount # 0
        BY <1>1, <1>6 DEF D!TypeOK, D!UserInfo, Reported
      <3>3. totalShares = 0 => isBuy
        BY <2>1 DEF D!sync, D!SyncPasses
      <3> QED
        BY <1>1, <3>1, <3>2, <3>3
    <2>3. /\ settlements < MaxSettlements
          /\ settlements' = settlements + (IF totalShares = 0 THEN 2 ELSE 1)
      BY <1>6, <2>2 DEF AccountedNext, Counted, Recomputed
    <2>4. Accounting!Sync(ThisContract, fee, trader, isBuy, amount)
      BY <1>6, <2>1, <2>3, SameSync, Zenon DEF Accounting!Sync, Reported
    <2>5. fee \in Accounting!Fees
      BY <1>1, <1>3, <1>6 DEF Reported
    <2>6. amount \in 1 .. MaxSupply
      <3>1. ~isBuy => totalShares <= MaxSupply
        BY <1>1, <1>6 DEF Reported
      <3> QED
        BY <1>1, <1>6, <3>1 DEF Reported
    <2> QED
      BY <2>4, <2>5, <2>6, Zenon DEF Accounting!AccountingNext
  <1>7. CASE AccountedNext /\ Rewards
    <2>1. ASSUME NEW sender \in Accounts, NEW value \in Donations,
                 WithinRewards(value), D!donate(sender, value)
          PROVE  Accounting!AccountingNext
      <3>1. value \in Accounting!Fees
        BY <1>1, <1>3, <2>1, RewardsAssumption DEF WithinRewards
      <3>2. userInfo' = userInfo
        BY <2>1 DEF D!donate
      <3>3. Accounting!Donate(sender, value)
        BY <1>7, <2>1, <3>2, SameDonate, Zenon DEF Accounting!Donate, AccountedNext, Counted
      <3> QED
        BY <3>1, <3>3, Zenon DEF Accounting!AccountingNext, Addresses
    <2>2. ~\E value \in Donations : D!plainTransfer(value)
      BY ETHAssumption DEF D!plainTransfer
    <2>3. ASSUME NEW holder \in Accounts, D!claimTheReward(holder)
          PROVE  Accounting!AccountingNext
      <3>1. userInfo' # userInfo /\ totalShares' = totalShares
        BY <1>1, <2>3, ClaimPays DEF Addresses
      <3>2. settlements' = settlements + 1
        BY <1>7, <3>1 DEF AccountedNext, Counted, Recomputed
      <3>3. Accounting!Claim(holder)
        BY <2>3, <3>2, SameClaim, Zenon DEF Accounting!Claim
      <3>4. holder \in Addresses \ {NoAddress}
        BY SharesAssumption DEF Addresses
      <3> QED
        BY <3>3, <3>4, Zenon DEF Accounting!AccountingNext
    <2>4. ASSUME NEW contract \in {ThisContract, OtherContract},
                 D!initializeSharesContractAddressIfRequired(contract)
          PROVE  Accounting!AccountingNext
      <3>1. userInfo' = userInfo
        BY <2>4 DEF D!initializeSharesContractAddressIfRequired
      <3>2. settlements' = settlements
        BY <1>7, <3>1 DEF AccountedNext, Counted
      <3>3. Accounting!Bind(contract)
        BY <2>4, <3>2, Zenon
           DEF Accounting!Bind, D!initializeSharesContractAddressIfRequired,
               Accounting!initializeSharesContractAddressIfRequired
      <3> QED
        BY <3>3, Zenon DEF Accounting!AccountingNext
    <2> QED
      BY <1>7, <2>1, <2>2, <2>3, <2>4 DEF Rewards
  <1> QED
    BY <1>2, <1>4, <1>5, <1>6, <1>7, StepSeen DEF SeenByDistributor

\* What RewardsAccounting and its distributor assume of their constants holds of the
\* values the market gives them, so that their theorems are about this distributor.
LEMMA AccountingAssumptions ==
    /\ {MaxVolume + MaxRewards, MaxSupply, MaxSettlements} \subseteq Nat
    /\ IsFiniteSet(Addresses) /\ NoAddress \in Addresses
    /\ NoAddress \notin {ThisContract, OtherContract}
    /\ RewardScale \in Nat \ {0} /\ MaxDiscrepancy \in Nat \ {0}
PROOF
  <1>1. MaxVolume + MaxRewards \in Nat
    BY RewardsAssumption
  <1>2. NoAddress \in Addresses /\ NoAddress \notin {ThisContract, OtherContract}
    BY SharesAssumption, RewardsAssumption DEF Addresses
  <1> QED
    BY <1>1, <1>2, AddressesFinite, RewardsAssumption, SettlementsAssumption

\* Whatever the market does, its distributor sees a behaviour of RewardsAccounting.
THEOREM ImplementsRewardsAccounting == AccountedSpec => ImplementsAccounting
PROOF
  <1>1. AccountedSpec => Spec
    <2>1. AccountedInit => Init
      BY DEF AccountedInit
    <2>2. [AccountedNext]_<<vars, settlements>> => [Next]_vars
      BY DEF AccountedNext
    <2> QED
      BY <2>1, <2>2, PTL DEF AccountedSpec, Spec
  <1>2. AccountedInit => Accounting!AccountingInit
    BY DEF AccountedInit, Init, D!Init, D!NoUser, Accounting!AccountingInit, Accounting!Init,
           Accounting!NoUser
  <1>3. AccountedSpec => []Bounded
    BY <1>1, BoundedInit, BoundedNext, Invariance, PTL DEF AccountedSpec
  <1> QED
    BY <1>1, <1>2, <1>3, StepAccounted, Invariance, PTL
       DEF AccountedSpec, ImplementsAccounting, Accounting!AccountingSpec
=============================================================================
