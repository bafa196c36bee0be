--------------------------- MODULE TradeableShares ---------------------------
(***************************************************************************)
(* What TradeableShares.sol promises to a holder, with no word about fees, *)
(* distributors, issuers and currencies: shares cannot be transferred,     *)
(* they are bought from and sold to the contract alone; one operation      *)
(* changes the balance of one holder and the supply by the same amount;    *)
(* the last share cannot be sold; the trade volume counts every operation  *)
(* at the curve's price; and the backing always covers the price at which  *)
(* the whole supply could be sold.                                         *)
(***************************************************************************)
EXTENDS Integers

CONSTANTS
    Holders,      \* addresses that may hold shares
    Quantities,   \* amounts of shares of one trade
    Price(_, _)   \* the curve: getPrice(supply, amount)

VARIABLES
    balance,   \* getSharesBalance(holder)
    supply,    \* getSharesSupply()
    volume,    \* getTradeVolume()
    backing    \* what the contract owns in the payment currency

marketVars == <<balance, supply, volume, backing>>

Covered == backing >= Price(0, supply)

MarketInit ==
    /\ balance = [h \in Holders |-> 0]
    /\ supply = 0
    /\ volume = 0
    /\ backing = 0

Buy(holder, quantity) ==
    /\ balance' = [balance EXCEPT ![holder] = @ + quantity]
    /\ supply' = supply + quantity
    /\ volume' = volume + Price(supply, quantity)
    /\ Covered'

Sell(holder, quantity) ==
    /\ quantity <= balance[holder]
    /\ quantity < supply
    /\ balance' = [balance EXCEPT ![holder] = @ - quantity]
    /\ supply' = supply - quantity
    /\ volume' = volume + Price(supply - quantity, quantity)
    /\ Covered'

\* Money that reaches the contract without a trade
Gift == UNCHANGED <<balance, supply, volume>> /\ backing' >= backing

MarketNext ==
    \/ \E holder \in Holders, quantity \in Quantities :
          Buy(holder, quantity) \/ Sell(holder, quantity)
    \/ Gift

MarketSpec == MarketInit /\ [][MarketNext]_marketVars
=============================================================================
