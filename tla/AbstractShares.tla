--------------------------- MODULE AbstractShares ---------------------------
(***************************************************************************)
(* AbstractShares.sol: what the ETH and the ERC20 shares contracts have in *)
(* common - the fees and who receives them, the shares of every holder,    *)
(* the subject the shares are bound to, and the emergency functions.       *)
(***************************************************************************)
EXTENDS BondingCurve, FiniteSets

CONSTANTS
    Accounts,      \* users and contracts, but for the market and its distributor
    NoAddress,     \* the zero address
    ThisContract,  \* the shares contract itself
    Distributor,   \* the holders rewards distributor deployed for the contract
    Subjects,      \* NFTs the shares may be bound to
    NoSubject,     \* the zero SharesSubject
    Unreadable,    \* what an NFT contract answers that abi.decode reverts on
    FeeScale,      \* 1e18, that is 100%
    FeeSettings,   \* the fee settings the contract may be deployed with
    UserRoles      \* account -> the roles it has on the contract

\* What may hold shares, own the subject or be paid a fee: the setters and the
\* beneficiary of a buy are not validated, the contract itself is one of them.
Addresses == Accounts \cup {NoAddress, ThisContract}

ROLE_PROTOCOL_FEE_MANAGER   == "protocol fee manager"
ROLE_HOLDERS_FEE_MANAGER    == "holders fee manager"
ROLE_SHARES_SUBJECT_MANAGER == "shares subject manager"

\* What _postConstruct stores of the fees: none of the inputs is validated there,
\* the factory allows no percent of 30% or more (SharesFactoryV1.sol:370-371).
FeeSetting == [protocolFeeDestination : Addresses,
               protocolFeePercent     : Nat,
               holdersFeeDestination  : {NoAddress, Distributor},
               holdersFeePercent      : Nat,
               subjectFeePercent      : Nat]

ASSUME SharesAssumption ==
    /\ IsFiniteSet(Accounts)
    /\ NoAddress \notin Accounts
    /\ ThisContract \notin Accounts \cup {NoAddress}
    /\ Distributor # NoAddress
    /\ NoSubject \notin Subjects
    /\ Unreadable \notin Addresses
    /\ FeeScale \in Nat \ {0}
    /\ FeeSettings \subseteq FeeSetting
    /\ \A f \in FeeSettings :
          f.protocolFeePercent + f.holdersFeePercent + f.subjectFeePercent <= FeeScale
    /\ UserRoles \in [Accounts -> SUBSET {ROLE_PROTOCOL_FEE_MANAGER,
                                          ROLE_HOLDERS_FEE_MANAGER,
                                          ROLE_SHARES_SUBJECT_MANAGER}]

VARIABLES
    initialized,            \* postConstruct() was executed
    sharesSubject,
    protocolFeeDestination,
    protocolFeePercent,
    holdersFeeDestination,
    holdersFeePercent,
    subjectFeePercent,
    sharesSupply,
    sharesBalances,
    tradeVolume,
    subjectOwner            \* external: the owner of every NFT as seen on-chain

feeVars == <<protocolFeeDestination, protocolFeePercent,
             holdersFeeDestination, holdersFeePercent, subjectFeePercent>>
ledgerVars == <<sharesSupply, sharesBalances, tradeVolume>>
sharesVars == <<initialized, sharesSubject, feeVars, ledgerVars, subjectOwner>>

SharesTypeOK ==
    /\ initialized \in BOOLEAN
    /\ sharesSubject \in Subjects \cup {NoSubject}
    /\ protocolFeeDestination \in Addresses
    /\ protocolFeePercent \in Nat
    /\ holdersFeeDestination \in {NoAddress, Distributor}
    /\ holdersFeePercent \in Nat
    /\ subjectFeePercent \in Nat
    /\ sharesSupply \in Nat
    /\ sharesBalances \in [Addresses -> Nat]
    /\ tradeVolume \in Nat
    /\ subjectOwner \in [Subjects -> Addresses \cup {Unreadable}]

\* The NFTs exist independently of the contract: subjectOwner is left open.
SharesInit ==
    /\ initialized = FALSE
    /\ sharesSubject = NoSubject
    /\ protocolFeeDestination = NoAddress
    /\ protocolFeePercent = 0
    /\ holdersFeeDestination = NoAddress
    /\ holdersFeePercent = 0
    /\ subjectFeePercent = 0
    /\ sharesSupply = 0
    /\ sharesBalances = [a \in Addresses |-> 0]
    /\ tradeVolume = 0
-----------------------------------------------------------------------------
isOperatorInRole(account, role) == role \in UserRoles[account]

\* SharesSubjectLib.getSharesIssuer: the NFT owner, or the zero address when the
\* NFT or its contract does not exist
IssuerOf(subject) == IF subject = NoSubject THEN NoAddress ELSE subjectOwner[subject]

getSharesIssuer == IssuerOf(sharesSubject)

\* price * percent / 1 ether, rounded down
Fee(price, percent) == (price * percent) \div FeeScale

\* The fees in force as the getXxxFeeInfo() functions return them: the percent of
\* a fee without a destination is zero.
EffectiveFees(setting, issuer) ==
    [protocol    |-> IF setting.protocolFeeDestination = NoAddress
                     THEN 0 ELSE setting.protocolFeePercent,
     holders     |-> IF setting.holdersFeeDestination = NoAddress
                     THEN 0 ELSE setting.holdersFeePercent,
     subject     |-> IF issuer = NoAddress THEN 0 ELSE setting.subjectFeePercent]

Setting == [protocolFeeDestination |-> protocolFeeDestination,
            protocolFeePercent     |-> protocolFeePercent,
            holdersFeeDestination  |-> holdersFeeDestination,
            holdersFeePercent      |-> holdersFeePercent,
            subjectFeePercent      |-> subjectFeePercent]

CurrentFees == EffectiveFees(Setting, getSharesIssuer)
-----------------------------------------------------------------------------
\* _postConstruct
storeSetting(subject, setting) ==
    /\ ~initialized
    /\ initialized' = TRUE
    /\ sharesSubject' = subject
    /\ protocolFeeDestination' = setting.protocolFeeDestination
    /\ protocolFeePercent' = setting.protocolFeePercent
    /\ holdersFeeDestination' = setting.holdersFeeDestination
    /\ holdersFeePercent' = setting.holdersFeePercent
    /\ subjectFeePercent' = setting.subjectFeePercent

\* updateSharesSubject.  With a factory to notify, the transaction goes through
\* only when the factory accepts the new subject: it changes nothing else here.
updateSharesSubject(sender, subject) ==
    /\ isOperatorInRole(sender, ROLE_SHARES_SUBJECT_MANAGER)
    /\ initialized
    /\ sharesSubject' = subject
    /\ UNCHANGED <<initialized, feeVars, ledgerVars, subjectOwner>>

updateProtocolFeeDestination(sender, destination) ==
    /\ isOperatorInRole(sender, ROLE_PROTOCOL_FEE_MANAGER)
    /\ initialized
    /\ protocolFeeDestination' = destination
    /\ UNCHANGED <<initialized, sharesSubject, protocolFeePercent, holdersFeeDestination,
                   holdersFeePercent, subjectFeePercent, ledgerVars, subjectOwner>>

\* The holders fee goes to the protocol from now on.
disableHoldersFee(sender) ==
    /\ isOperatorInRole(sender, ROLE_HOLDERS_FEE_MANAGER)
    /\ initialized
    /\ holdersFeeDestination # NoAddress \/ holdersFeePercent # 0
    /\ protocolFeePercent' = protocolFeePercent + holdersFeePercent
    /\ holdersFeeDestination' = NoAddress
    /\ holdersFeePercent' = 0
    /\ UNCHANGED <<initialized, sharesSubject, protocolFeeDestination, subjectFeePercent,
                   ledgerVars, subjectOwner>>

\* External: an NFT is minted, sold, burnt, or its contract starts to answer
\* with something else than an owner.
changeSubjectOwner(subject, owner) ==
    /\ subjectOwner' = [subjectOwner EXCEPT ![subject] = owner]
    /\ UNCHANGED <<initialized, sharesSubject, feeVars, ledgerVars>>
=============================================================================
