----------------------------- MODULE ERC20Shares -----------------------------
(***************************************************************************)
(* ERC20Shares.sol: shares are bought and sold for an ERC1363 token, which *)
(* is pulled from the buyer, or from the contract itself on a sale.        *)
(*                                                                         *)
(* Every transfer of a fee is required to succeed: a recipient the token   *)
(* refuses to transfer to reverts the trade.  Buyers are taken to have     *)
(* approved and to own what a buy pulls from them; a buy that comes with   *)
(* ETH, or for which tokens are missing, reverts and is not a step.        *)
(***************************************************************************)
EXTENDS RewardedShares

CONSTANTS
    Refusing,   \* addresses the token refuses to transfer to, as ALI does for itself
    Gifts,      \* amounts transferred to the contract outside of any trade
    MaxReserve  \* bound: the largest reserve with gifts included

ASSUME ERC20Assumption ==
    /\ PaymentToken # NoAddress
    /\ Refusing \subseteq Addresses
    /\ Gifts \subseteq Nat
    /\ MaxReserve \in Nat

getPrice(supply, amount) == erc20Price(supply, amount)

\* The require around a fee transfer: a zero fee is not transferred at all.
Charged(fee, recipient) == fee = 0 \/ recipient \notin Refusing
-----------------------------------------------------------------------------
\* What the contract keeps of an amount transferred to `recipient`, and what it
\* parts with: the token lets an address transfer to itself.
Kept(amount, recipient) == IF recipient = ThisContract THEN amount ELSE 0
Paid(amount, recipient) == IF recipient = ThisContract THEN 0 ELSE amount

\* __buySharesTo: the fees are charged on top of the price
unsafeBuySharesTo(fees, protocolDestination, holdersDestination, issuer, amount, beneficiary) ==
    LET price       == getPrice(sharesSupply, amount)
        protocolFee == Fee(price, fees.protocol)
        subjectFee  == Fee(price, fees.subject)
    IN  /\ mint(beneficiary, amount, price)
        /\ Charged(protocolFee, protocolDestination)
        /\ notifyDistributor(holdersDestination, Fee(price, fees.holders),
                             beneficiary, TRUE, amount)
        /\ Charged(subjectFee, issuer)
        /\ reserve' = reserve + price + Kept(protocolFee, protocolDestination)
                         + Kept(subjectFee, issuer)

postConstruct(subject, setting, amount, beneficiary) ==
    /\ storeSetting(subject, setting)
    /\ \/ /\ amount # 0
          /\ IssuerOf(subject) # Unreadable
          /\ unsafeBuySharesTo(EffectiveFees(setting, IssuerOf(subject)),
                               setting.protocolFeeDestination, setting.holdersFeeDestination,
                               IssuerOf(subject), amount, beneficiary)
       \/ /\ amount = 0
          /\ UNCHANGED <<ledgerVars, reserve, rewardsVars>>
    /\ UNCHANGED subjectOwner

buySharesTo(sender, amount, beneficiary) ==
    /\ getSharesIssuer # Unreadable
    /\ sharesSupply > 0 \/ getSharesIssuer = sender
    /\ unsafeBuySharesTo(CurrentFees, protocolFeeDestination, holdersFeeDestination,
                         getSharesIssuer, amount, beneficiary)
    /\ UNCHANGED <<initialized, sharesSubject, feeVars, subjectOwner>>

\* Mistake for a mutant: the price is asked for the supply before the sale.
SalePriceStale(amount) == getPrice(sharesSupply, amount)

\* The price of a sale starts from the supply the sale leaves.
SalePrice(amount) == getPrice(sharesSupply - amount, amount)

SellPasses(sender, amount, recipient) ==
    LET price       == SalePrice(amount)
        protocolFee == Fee(price, CurrentFees.protocol)
        holdersFee  == Fee(price, CurrentFees.holders)
        subjectFee  == Fee(price, CurrentFees.subject)
    IN  /\ SalePasses(sender, amount, price, protocolFee, holdersFee, subjectFee)
        /\ Charged(protocolFee, protocolFeeDestination)
        /\ Charged(subjectFee, getSharesIssuer)
        /\ recipient \notin Refusing

\* Mistake for a mutant: the seller gets the price with no fees taken off.
sellSharesToUncut(sender, amount, recipient) ==
    LET price       == SalePrice(amount)
        protocolFee == Fee(price, CurrentFees.protocol)
        holdersFee  == Fee(price, CurrentFees.holders)
        subjectFee  == Fee(price, CurrentFees.subject)
    IN  /\ SellPasses(sender, amount, recipient)
        /\ burn(sender, amount, price)
        /\ notifyDistributor(holdersFeeDestination, holdersFee, sender, FALSE, amount)
        /\ reserve' = reserve - Paid(protocolFee, protocolFeeDestination) - holdersFee
                         - Paid(subjectFee, getSharesIssuer) - Paid(price, recipient)
        /\ UNCHANGED <<initialized, sharesSubject, feeVars, subjectOwner>>

\* The proceeds go to an address of the seller's choice.  Like the two fees they
\* stay where they are when that is the contract itself.
sellSharesTo(sender, amount, recipient) ==
    LET price       == SalePrice(amount)
        protocolFee == Fee(price, CurrentFees.protocol)
        holdersFee  == Fee(price, CurrentFees.holders)
        subjectFee  == Fee(price, CurrentFees.subject)
        proceeds    == price - protocolFee - holdersFee - subjectFee
    IN  /\ SellPasses(sender, amount, recipient)
        /\ burn(sender, amount, price)
        /\ notifyDistributor(holdersFeeDestination, holdersFee, sender, FALSE, amount)
        /\ reserve' = reserve - Paid(protocolFee, protocolFeeDestination) - holdersFee
                         - Paid(subjectFee, getSharesIssuer) - Paid(proceeds, recipient)
        /\ UNCHANGED <<initialized, sharesSubject, feeVars, subjectOwner>>

\* External: a plain token transfer to the contract calls nothing.
tokenTransfer(value) ==
    /\ reserve + value <= MaxReserve
    /\ reserve' = reserve + value
    /\ UNCHANGED <<sharesVars, rewardsVars>>

Deploy ==
    \E subject \in Subjects, setting \in FeeSettings, amount \in Amounts,
       beneficiary \in Addresses : postConstruct(subject, setting, amount, beneficiary)

\* The token contract trades with nobody.
Trade ==
    \/ \E sender \in Accounts \ Refusing, amount \in Amounts, beneficiary \in Addresses :
          buySharesTo(sender, amount, beneficiary)
    \/ \E sender \in Accounts \ Refusing, amount \in Amounts, recipient \in Addresses :
          sellSharesTo(sender, amount, recipient)

Next ==
    \/ Deploy \/ Trade \/ Administer \/ SubjectContracts \/ Rewards
    \/ \E value \in Gifts : tokenTransfer(value)

Spec == Init /\ [][Next]_vars
-----------------------------------------------------------------------------
(* Safety *)

\* What the contract owns beyond the price of the whole supply
Surplus == reserve - getPrice(0, sharesSupply)

\* Tokens that reached the contract as anything but the price of a buy - gifts,
\* proceeds of a sale or fees sent to the contract itself - back the shares for
\* good: no trade ever pays from them, whoever its fees go to.
SurplusKept == [][Surplus' >= Surplus]_vars

ExitPasses(holder, amount) ==
    sharesBalances[holder] >= amount /\ sharesSupply > amount =>
        SellPasses(holder, amount, holder)

\* Every holder can sell whatever it holds, except for the last share, to itself,
\* as long as the subject can be read and neither fee goes to an address the token
\* refuses.
HolderCanExit ==
    /\ getSharesIssuer # Unreadable
    /\ getSharesIssuer \notin Refusing \ {NoAddress}
    /\ protocolFeeDestination \notin Refusing \ {NoAddress}
    => \A holder \in Accounts \ Refusing, amount \in Amounts : ExitPasses(holder, amount)

-----------------------------------------------------------------------------
\* The contract implements what the TradeableShares interface promises.
Market == INSTANCE TradeableShares
             WITH Holders <- Addresses, Quantities <- Amounts, Price <- getPrice,
                  balance <- sharesBalances, supply <- sharesSupply,
                  volume <- tradeVolume, backing <- reserve

ImplementsMarket == Market!MarketSpec
=============================================================================
