----------------------- MODULE ProtocolFeeDistributor -----------------------
(***************************************************************************)
(* ProtocolFeeDistributorV1.sol: collects the protocol fees, in ETH and in *)
(* the payment token, and divides all it has among a list of recipients.   *)
(*                                                                         *)
(* Transfers.transfer() forwards 4,900 gas, too little for a recipient to  *)
(* call back into the contracts: a distribution is one step.  It           *)
(* reverts as a whole if one recipient refuses its part.                   *)
(***************************************************************************)
EXTENDS AccessControl, Integers, Sequences, FiniteSetsExt

CONSTANTS
    Users,              \* accounts that send transactions
    UserRoles,          \* user -> its permissions
    Accounts,           \* whoever holds money
    FeeDistributor,     \* the address of the contract
    ETH, Token,         \* the two currencies
    RecipientLists,     \* lists that are tried: Seq of [recipient, allocationPercent]
    MaxRecipients,      \* MAX_RECIPIENTS_ALLOWED
    Whole,              \* the allocations of a list add up to it: 1e6
    ZeroAddress         \* the zero address

ROLE_RECIPIENT_LIST_MANAGER == "recipient list manager"
ROLE_DISTRIBUTION_MANAGER   == "distribution manager"

Currencies == {ETH, Token}

RecipientDetails == [recipient : Accounts \cup {ZeroAddress}, allocationPercent : Nat]

ASSUME FeeDistributorAssumption ==
    /\ ETH # Token
    /\ IsFiniteSet(Accounts)
    /\ FeeDistributor \in Accounts /\ ZeroAddress \notin Accounts
    /\ Whole \in Nat \ {0} /\ MaxRecipients \in Nat
    /\ RecipientLists \subseteq Seq(RecipientDetails)

VARIABLES
    recipients,   \* Seq of RecipientDetails
    balance       \* currency -> address -> what it holds

InRole(sender, role) == role \in UserRoles[sender]

\* The sum of f[x] over the elements of a finite set
Total(f, S) == MapThenSumSet(LAMBDA x : f[x], S)

\* What an address has been sent by a list of payments
PaidTo(a, list, part) == Total(part, {i \in DOMAIN list : list[i].recipient = a})

Receive(currency, amount) ==
    /\ balance' = [balance EXCEPT ![currency][FeeDistributor] = @ + amount]
    /\ UNCHANGED recipients

\* Mistake for a mutant: parts are rounded to the next unit.
PartRoundedUp(amount, r) == (amount * r.allocationPercent + Whole - 1) \div Whole

Part(amount, r) == (amount * r.allocationPercent) \div Whole

\* distributeETH and distributeERC20; some addresses refuse the currency.
distribute(sender, currency, refusing) ==
    LET amount == balance[currency][FeeDistributor]
        part   == [i \in DOMAIN recipients |-> Part(amount, recipients[i])]
        paid   == Total(part, DOMAIN recipients)
    IN  /\ InRole(sender, ROLE_DISTRIBUTION_MANAGER)
        /\ amount > 0
        /\ recipients # <<>>
        /\ \A i \in DOMAIN recipients : part[i] > 0 => recipients[i].recipient \notin refusing
        /\ paid <= amount
        /\ balance' = [balance EXCEPT ![currency] = [a \in Accounts |->
              @[a] + PaidTo(a, recipients, part) - (IF a = FeeDistributor THEN paid ELSE 0)]]
        /\ UNCHANGED recipients

\* Mistake for a mutant: the allocations need not make up the whole.
updateRecipientsListUnsummed(sender, list) ==
    /\ InRole(sender, ROLE_RECIPIENT_LIST_MANAGER)
    /\ Len(list) \in 1 .. MaxRecipients
    /\ \A i \in DOMAIN list : list[i].recipient # ZeroAddress
    /\ recipients' = list
    /\ UNCHANGED balance

updateRecipientsList(sender, list) ==
    /\ InRole(sender, ROLE_RECIPIENT_LIST_MANAGER)
    /\ Len(list) \in 1 .. MaxRecipients
    /\ \A i \in DOMAIN list : list[i].recipient # ZeroAddress
    /\ Total([i \in DOMAIN list |-> list[i].allocationPercent], DOMAIN list) = Whole
    /\ recipients' = list
    /\ UNCHANGED balance
=============================================================================
