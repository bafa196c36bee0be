------------------------------ MODULE ETHShares ------------------------------
(***************************************************************************)
(* ETHShares.sol: shares are bought from and sold to the contract for ETH. *)
(*                                                                         *)
(* The protocol and the subject fee are pushed to addresses that may       *)
(* refuse them; the trade goes on without the refused fee, which stays     *)
(* with the trader.  The holders fee travels with the sync message, whose  *)
(* failure reverts the trade.                                              *)
(***************************************************************************)
EXTENDS RewardedShares

CONSTANT Payments  \* values of msg.value

ASSUME ETHAssumption ==
    /\ PaymentToken = NoAddress
    /\ Payments \subseteq Nat

getPrice(supply, amount) == ethPrice(supply, amount)

\* A pushed fee arrives, or is refused and becomes zero.  The contract itself has
\* neither receive() nor fallback(): it refuses every push.
Pushed(fee, recipient) == IF recipient = ThisContract THEN {0} ELSE {0, fee}
-----------------------------------------------------------------------------
\* __buySharesTo under the fees in force; `msgValue` is the ETH sent along.
unsafeBuySharesTo(fees, protocolDestination, destination, issuer, msgValue, amount, beneficiary) ==
    LET price      == getPrice(sharesSupply, amount)
        holdersFee == Fee(price, fees.holders)
    IN  \E protocolFee \in Pushed(Fee(price, fees.protocol), protocolDestination),
           subjectFee \in Pushed(Fee(price, fees.subject), issuer) :
          LET value  == price + protocolFee + holdersFee + subjectFee
              change == msgValue - value
          IN  /\ mint(beneficiary, amount, price)
              /\ notifyDistributor(destination, holdersFee, beneficiary, TRUE, amount)
              /\ msgValue >= value
              /\ reserve' = reserve + msgValue - protocolFee - holdersFee - subjectFee - change

\* postConstruct, executed by the constructor or by the factory in the transaction
\* that deploys a clone; without an immediate buy the ETH is returned.
postConstruct(msgValue, subject, setting, amount, beneficiary) ==
    /\ storeSetting(subject, setting)
    /\ \/ /\ amount # 0
          /\ IssuerOf(subject) # Unreadable
          /\ unsafeBuySharesTo(EffectiveFees(setting, IssuerOf(subject)),
                               setting.protocolFeeDestination, setting.holdersFeeDestination,
                               IssuerOf(subject), msgValue, amount, beneficiary)
       \/ /\ amount = 0
          /\ UNCHANGED <<ledgerVars, reserve, rewardsVars>>
    /\ UNCHANGED subjectOwner

buySharesTo(sender, msgValue, amount, beneficiary) ==
    /\ getSharesIssuer # Unreadable
    /\ sharesSupply > 0 \/ getSharesIssuer = sender
    /\ unsafeBuySharesTo(CurrentFees, protocolFeeDestination, holdersFeeDestination,
                         getSharesIssuer, msgValue, amount, beneficiary)
    /\ UNCHANGED <<initialized, sharesSubject, feeVars, subjectOwner>>

\* Mistake for a mutant: the price is asked for the supply before the sale.
SalePriceStale(amount) == getPrice(sharesSupply, amount)

\* The price of a sale starts from the supply the sale leaves.
SalePrice(amount) == getPrice(sharesSupply - amount, amount)

SellPasses(sender, amount, protocolFee, subjectFee) ==
    SalePasses(sender, amount, SalePrice(amount), protocolFee,
               Fee(SalePrice(amount), CurrentFees.holders), subjectFee)

\* The seller chooses who gets the money, so the last transfer is taken to be
\* accepted: a refusal reverts the transaction.
sellSharesTo(sender, amount) ==
    LET price      == SalePrice(amount)
        holdersFee == Fee(price, CurrentFees.holders)
    IN  \E protocolFee \in Pushed(Fee(price, CurrentFees.protocol), protocolFeeDestination),
           subjectFee \in Pushed(Fee(price, CurrentFees.subject), getSharesIssuer) :
          /\ SellPasses(sender, amount, protocolFee, subjectFee)
          /\ burn(sender, amount, price)
          /\ notifyDistributor(holdersFeeDestination, holdersFee, sender, FALSE, amount)
          /\ reserve' = reserve - protocolFee - holdersFee - subjectFee
                          - (price - protocolFee - holdersFee - subjectFee)
          /\ UNCHANGED <<initialized, sharesSubject, feeVars, subjectOwner>>

Deploy ==
    \E msgValue \in Payments, subject \in Subjects, setting \in FeeSettings,
       amount \in Amounts, beneficiary \in Addresses :
          postConstruct(msgValue, subject, setting, amount, beneficiary)

Trade ==
    \/ \E sender \in Accounts, msgValue \in Payments, amount \in Amounts,
          beneficiary \in Addresses : buySharesTo(sender, msgValue, amount, beneficiary)
    \/ \E sender \in Accounts, amount \in Amounts : sellSharesTo(sender, amount)

Next == Deploy \/ Trade \/ Administer \/ SubjectContracts \/ Rewards

Spec == Init /\ [][Next]_vars
-----------------------------------------------------------------------------
(* Safety *)

\* The contract holds exactly what the whole supply could be sold for, whatever
\* fees were paid, refused, redirected or disabled on the way here: no trade
\* leaves dust behind and none is paid from the money of other holders.
ReserveExact == reserve = getPrice(0, sharesSupply)

\* The fees a sale may end up with: any of the pushed ones may be refused.
ExitPasses(holder, amount) ==
    sharesBalances[holder] >= amount /\ sharesSupply > amount =>
        \A protocolFee \in Pushed(Fee(SalePrice(amount), CurrentFees.protocol),
                                  protocolFeeDestination),
           subjectFee \in Pushed(Fee(SalePrice(amount), CurrentFees.subject), getSharesIssuer) :
              SellPasses(holder, amount, protocolFee, subjectFee)

\* No sequence of trades, emergency functions, NFT transfers, donations and claims
\* locks a holder in: whatever it holds, except for the last share, every check of
\* sellSharesTo passes, whether the pushed fees are accepted or refused.
HolderCanExit ==
    getSharesIssuer # Unreadable =>
        \A holder \in Accounts, amount \in Amounts : ExitPasses(holder, amount)

\* The same without the condition: "return the default zero address value in case
\* of any errors" (SharesSubjectLib.sol:61), so that an NFT contract that gives no
\* owner costs the subject its fee and nothing else.
HolderCanExitAnySubject ==
    \A holder \in Accounts, amount \in Amounts \ {0} : ExitPasses(holder, amount)

\* The trade volume grows in every step by exactly what moves in or out of the
\* reserve, and never decreases.
VolumeTracksReserve ==
    [][tradeVolume' - tradeVolume =
          IF reserve' >= reserve THEN reserve' - reserve ELSE reserve - reserve']_vars
-----------------------------------------------------------------------------
\* The contract implements what the TradeableShares interface promises.
Market == INSTANCE TradeableShares
             WITH Holders <- Addresses, Quantities <- Amounts, Price <- getPrice,
                  balance <- sharesBalances, supply <- sharesSupply,
                  volume <- tradeVolume, backing <- reserve

ImplementsMarket == Market!MarketSpec
=============================================================================
