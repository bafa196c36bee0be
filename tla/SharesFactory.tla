---------------------------- MODULE SharesFactory ----------------------------
(***************************************************************************)
(* SharesFactoryV1.sol: deploys shares contracts for NFTs, with the fees   *)
(* set on the factory, keeps the registry of which contract belongs to     *)
(* which NFT in two mappings, and executes signed deployment requests.     *)
(*                                                                         *)
(* The shares contracts appear with the subject each of them stores: the   *)
(* emergency function of a contract can change it with or without telling  *)
(* the factory.  Payments of the initial buy, the kind of the contract and *)
(* the addresses of the implementations are left out: a deployment whose   *)
(* payment fails, or that has no implementation, reverts and is no step.   *)
(***************************************************************************)
EXTENDS AccessControl, Integers

CONSTANTS
    Users,            \* accounts that send transactions or sign requests
    NoAddress,        \* the zero address
    Contracts,        \* addresses of shares contracts, deployed or not yet
    NoContract,       \* the zero TradeableShares
    Subjects,         \* NFTs
    NoSubject,        \* the zero SharesSubject
    Unreadable,       \* what an NFT contract answers that abi.decode reverts on
    CollectionOwner,  \* subject -> owner of its NFT contract, or NoAddress
    UserRoles,        \* user -> the permissions it has on the factory
    MinPercent, MaxPercent,  \* 0.00000001% and 30%: the limits of a fee percent
    Requests,         \* signed deployment requests in circulation
    MaxTime,          \* bound: the last moment
    MaxNonce          \* bound: the largest nonce

FEATURE_SHARES_DEPLOYMENT_ENABLED == "shares deployment"
FEATURE_ALLOW_PAUSED_DEPLOYMENTS  == "paused deployments"
FEATURE_ALLOW_EXCLUSIVE_BUY       == "exclusive buy"

Features == {FEATURE_SHARES_DEPLOYMENT_ENABLED, FEATURE_ALLOW_PAUSED_DEPLOYMENTS,
             FEATURE_ALLOW_EXCLUSIVE_BUY}

ROLE_PROTOCOL_FEE_MANAGER == "protocol fee manager"
ROLE_HOLDERS_FEE_MANAGER  == "holders fee manager"
ROLE_SUBJECT_FEE_MANAGER  == "subject fee manager"
ROLE_SHARES_REGISTRAR     == "shares registrar"

Roles == {ROLE_PROTOCOL_FEE_MANAGER, ROLE_HOLDERS_FEE_MANAGER, ROLE_SUBJECT_FEE_MANAGER,
          ROLE_SHARES_REGISTRAR, ROLE_ACCESS_MANAGER}

\* Features and roles are bits of the same mask: a user has a feature's bit when it
\* may switch that feature.
Permissions == Roles \cup Features

\* SharesDeploymentRequest together with the signer its signature recovers to
SharesDeploymentRequest ==
    [signer : Users, subject : Subjects, issuer : Users \cup {NoAddress}, amount : Nat,
     nonce : Nat, validFrom : Nat, expiresAt : Nat]

ASSUME FactoryAssumption ==
    /\ NoAddress \notin Users
    /\ NoContract \notin Contracts
    /\ NoSubject \notin Subjects
    /\ Unreadable \notin Users \cup {NoAddress}
    /\ CollectionOwner \in [Subjects -> Users \cup {NoAddress}]
    /\ UserRoles \in [Users -> SUBSET Permissions]
    /\ {MinPercent, MaxPercent, MaxTime, MaxNonce} \subseteq Nat
    /\ Requests \subseteq SharesDeploymentRequest

VARIABLES
    features,                \* the enabled features
    protocolFeeDestination, protocolFeePercent, holdersFeePercent, subjectFeePercent,
    deployed,                \* shares contracts that exist
    sharesSubject,           \* the subject each shares contract stores
    shares,                  \* mapping subject -> contract
    subjects,                \* mapping contract -> subject
    nonces,                  \* issuer -> number of used nonces
    uses,                    \* history: issuer -> nonce -> executed requests
    nftOwner,                \* external: the owner of every NFT as seen on-chain
    now                      \* block.timestamp

feeVars == <<protocolFeeDestination, protocolFeePercent, holdersFeePercent, subjectFeePercent>>
registryVars == <<deployed, sharesSubject, shares, subjects>>
nonceVars == <<nonces, uses>>
vars == <<features, feeVars, registryVars, nonceVars, nftOwner, now>>

Addresses == Users \cup {NoAddress}
Subjects0 == Subjects \cup {NoSubject}
Nonces == 0 .. MaxNonce

TypeOK ==
    /\ features \subseteq Features
    /\ protocolFeeDestination \in Addresses
    /\ {protocolFeePercent, holdersFeePercent, subjectFeePercent} \subseteq Nat
    /\ deployed \subseteq Contracts
    /\ sharesSubject \in [Contracts -> Subjects0]
    /\ shares \in [Subjects0 -> Contracts \cup {NoContract}]
    /\ subjects \in [Contracts -> Subjects0]
    /\ nonces \in [Addresses -> Nonces]
    /\ uses \in [Addresses -> [Nonces -> Nat]]
    /\ nftOwner \in [Subjects -> Addresses \cup {Unreadable}]
    /\ now \in 0 .. MaxTime

Init ==
    /\ features = {}
    /\ protocolFeeDestination = NoAddress
    /\ protocolFeePercent = 0
    /\ holdersFeePercent = 0
    /\ subjectFeePercent = 0
    /\ deployed = {}
    /\ sharesSubject = [c \in Contracts |-> NoSubject]
    /\ shares = [s \in Subjects0 |-> NoContract]
    /\ subjects = [c \in Contracts |-> NoSubject]
    /\ nonces = [a \in Addresses |-> 0]
    /\ uses = [a \in Addresses |-> [n \in Nonces |-> 0]]
    /\ nftOwner = [s \in Subjects |-> NoAddress]
    /\ now = 0
-----------------------------------------------------------------------------
(* Access control and fees *)

isOperatorInRole(account, role) == role \in UserRoles[account]

updateFeatures(sender, mask) ==
    /\ isOperatorInRole(sender, ROLE_ACCESS_MANAGER)
    /\ features' = EvaluateBy(UserRoles[sender], features, mask)
    /\ UNCHANGED <<feeVars, registryVars, nonceVars, nftOwner, now>>

\* "not mistakenly too small or big"
WellFormed(percent) == percent = 0 \/ (MinPercent < percent /\ percent < MaxPercent)

\* Mistake for a mutant: a percent in force does not keep the destination.
setProtocolFeeDestinationFreely(sender, destination) ==
    /\ isOperatorInRole(sender, ROLE_PROTOCOL_FEE_MANAGER)
    /\ protocolFeeDestination' = destination
    /\ UNCHANGED <<features, protocolFeePercent, holdersFeePercent, subjectFeePercent,
                   registryVars, nonceVars, nftOwner, now>>

setProtocolFeeDestination(sender, destination) ==
    /\ isOperatorInRole(sender, ROLE_PROTOCOL_FEE_MANAGER)
    /\ destination # NoAddress \/ protocolFeePercent = 0
    /\ protocolFeeDestination' = destination
    /\ UNCHANGED <<features, protocolFeePercent, holdersFeePercent, subjectFeePercent,
                   registryVars, nonceVars, nftOwner, now>>

setProtocolFeePercent(sender, percent) ==
    /\ isOperatorInRole(sender, ROLE_PROTOCOL_FEE_MANAGER)
    /\ percent = 0 \/ protocolFeeDestination # NoAddress
    /\ WellFormed(percent)
    /\ protocolFeePercent' = percent
    /\ UNCHANGED <<features, protocolFeeDestination, holdersFeePercent, subjectFeePercent,
                   registryVars, nonceVars, nftOwner, now>>

setHoldersFeePercent(sender, percent) ==
    /\ isOperatorInRole(sender, ROLE_HOLDERS_FEE_MANAGER)
    /\ WellFormed(percent)
    /\ holdersFeePercent' = percent
    /\ UNCHANGED <<features, protocolFeeDestination, protocolFeePercent, subjectFeePercent,
                   registryVars, nonceVars, nftOwner, now>>

setSubjectFeePercent(sender, percent) ==
    /\ isOperatorInRole(sender, ROLE_SUBJECT_FEE_MANAGER)
    /\ WellFormed(percent)
    /\ subjectFeePercent' = percent
    /\ UNCHANGED <<features, protocolFeeDestination, protocolFeePercent, holdersFeePercent,
                   registryVars, nonceVars, nftOwner, now>>

\* All at once, by somebody with all three roles
setProtocolFee(sender, destination, protocol, holders, subject) ==
    /\ {ROLE_PROTOCOL_FEE_MANAGER, ROLE_HOLDERS_FEE_MANAGER, ROLE_SUBJECT_FEE_MANAGER}
          \subseteq UserRoles[sender]
    /\ protocol = 0 \/ destination # NoAddress
    /\ WellFormed(protocol) /\ WellFormed(holders) /\ WellFormed(subject)
    /\ protocolFeeDestination' = destination
    /\ protocolFeePercent' = protocol
    /\ holdersFeePercent' = holders
    /\ subjectFeePercent' = subject
    /\ UNCHANGED <<features, registryVars, nonceVars, nftOwner, now>>
-----------------------------------------------------------------------------
(* Deployments *)

IssuerOf(subject) == IF subject = NoSubject THEN NoAddress ELSE nftOwner[subject]

\* Who may deploy a contract for the subject.  The NFT owner is compared with the
\* sender of the transaction; the other two with whoever authorised it, which is
\* the signer of a request and the sender of any other transaction.
Authorized(sender, authorizedBy, subject) ==
    \/ sender = IssuerOf(subject)
    \/ isOperatorInRole(authorizedBy, ROLE_SHARES_REGISTRAR)
    \/ authorizedBy = CollectionOwner[subject]

\* The features a deployment depends on; a registrar bypasses the last two, but
\* not by signing a request for somebody else to execute.
FeaturesAllow(sender, amount) ==
    /\ FEATURE_SHARES_DEPLOYMENT_ENABLED \in features
    /\ amount = 0 => \/ FEATURE_ALLOW_PAUSED_DEPLOYMENTS \in features
                     \/ isOperatorInRole(sender, ROLE_SHARES_REGISTRAR)
    /\ amount > 1 => \/ FEATURE_ALLOW_EXCLUSIVE_BUY \in features
                     \/ isOperatorInRole(sender, ROLE_SHARES_REGISTRAR)

\* Mistake for a mutant: a missing NFT is not minted.
deployUnminted(sender, authorizedBy, subject, issuer, amount, contract) ==
    /\ FeaturesAllow(sender, amount)
    /\ IssuerOf(subject) # Unreadable
    /\ Authorized(sender, authorizedBy, subject)
    /\ contract \notin deployed
    /\ shares[subject] = NoContract
    /\ deployed' = deployed \cup {contract}
    /\ sharesSubject' = [sharesSubject EXCEPT ![contract] = subject]
    /\ shares' = [shares EXCEPT ![subject] = contract]
    /\ subjects' = [subjects EXCEPT ![contract] = subject]
    /\ UNCHANGED <<features, feeVars, nftOwner, now>>

\* __mintSubjectAndDeployShares: an NFT that does not exist is minted to `issuer`.
deploy(sender, authorizedBy, subject, issuer, amount, contract) ==
    /\ FeaturesAllow(sender, amount)
    /\ IssuerOf(subject) # Unreadable
    /\ Authorized(sender, authorizedBy, subject)
    /\ IssuerOf(subject) = NoAddress => issuer # NoAddress
    /\ contract \notin deployed
    /\ shares[subject] = NoContract
    /\ nftOwner' = [nftOwner EXCEPT ![subject] = IF @ = NoAddress THEN issuer ELSE @]
    /\ deployed' = deployed \cup {contract}
    /\ sharesSubject' = [sharesSubject EXCEPT ![contract] = subject]
    /\ shares' = [shares EXCEPT ![subject] = contract]
    /\ subjects' = [subjects EXCEPT ![contract] = subject]
    /\ UNCHANGED <<features, feeVars, now>>

mintSubjectAndDeployShares(sender, subject, issuer, amount, contract) ==
    /\ deploy(sender, sender, subject, issuer, amount, contract)
    /\ UNCHANGED nonceVars

\* __useNonce
useNonce(issuer, nonce) ==
    /\ nonces[issuer] = nonce
    /\ nonce < MaxNonce
    /\ nonces' = [nonces EXCEPT ![issuer] = @ + 1]
    /\ uses' = [uses EXCEPT ![issuer][nonce] = @ + 1]

\* Anybody may relay a signed request within its time window.
executeDeploymentRequest(relayer, req, contract) ==
    /\ req.validFrom <= now /\ now < req.expiresAt
    /\ useNonce(req.issuer, req.nonce)
    /\ deploy(relayer, req.signer, req.subject, req.issuer, req.amount, contract)

\* Mistake for a mutant: the nonce may decrease.
rewindBack(sender, issuer, nonce) ==
    /\ isOperatorInRole(sender, ROLE_SHARES_REGISTRAR)
    /\ nonces' = [nonces EXCEPT ![issuer] = nonce]
    /\ UNCHANGED <<features, feeVars, registryVars, uses, nftOwner, now>>

\* Discards the requests signed for the nonces that are skipped.
rewindNonce(sender, issuer, nonce) ==
    /\ isOperatorInRole(sender, ROLE_SHARES_REGISTRAR)
    /\ nonces[issuer] < nonce
    /\ nonces' = [nonces EXCEPT ![issuer] = nonce]
    /\ UNCHANGED <<features, feeVars, registryVars, uses, nftOwner, now>>
-----------------------------------------------------------------------------
(* Registrations *)

\* Mistake for a mutant: the subject the contract had before stays mapped to it.
registerUncleaned(contract, subject) ==
    \/ /\ subject # NoSubject /\ subject = subjects[contract]
       /\ UNCHANGED <<shares, subjects>>
    \/ /\ subject = NoSubject \/ subject # subjects[contract]
       /\ shares[subject] = NoContract
       /\ shares' = [shares EXCEPT ![subject] = contract]
       /\ subjects' = [subjects EXCEPT ![contract] = subject]

\* Mistake for a mutant: whoever has the subject is replaced.
registerOver(contract, subject) ==
    /\ shares' = [shares EXCEPT ![subjects[contract]] = NoContract, ![subject] = contract]
    /\ subjects' = [subjects EXCEPT ![contract] = subject]

\* __registerSharesContract for a contract that stores the given subject.  Nothing
\* changes when it is registered under that subject already; a zero subject never
\* counts as the same.
register(contract, subject) ==
    \/ /\ subject # NoSubject /\ subject = subjects[contract]
       /\ UNCHANGED <<shares, subjects>>
    \/ /\ subject = NoSubject \/ subject # subjects[contract]
       /\ IssuerOf(subject) # Unreadable
       /\ shares[subject] = NoContract
       /\ shares' = [shares EXCEPT ![subjects[contract]] = NoContract,
                                   ![subject] = contract]
       /\ subjects' = [subjects EXCEPT ![contract] = subject]

registerSharesContract(sender, contract) ==
    /\ isOperatorInRole(sender, ROLE_SHARES_REGISTRAR)
    /\ contract \in deployed
    /\ register(contract, sharesSubject[contract])
    /\ UNCHANGED <<features, feeVars, deployed, sharesSubject, nonceVars, nftOwner, now>>

\* updateSharesSubject of a shares contract that does not notify the factory, or
\* notifies another one
updateSharesSubject(contract, subject) ==
    /\ contract \in deployed
    /\ sharesSubject' = [sharesSubject EXCEPT ![contract] = subject]
    /\ UNCHANGED <<features, feeVars, deployed, shares, subjects, nonceVars, nftOwner, now>>

\* updateSharesSubject that ends in notifySubjectUpdated
updateSharesSubjectAndNotify(contract, subject) ==
    /\ contract \in deployed
    /\ subjects[contract] # NoSubject
    /\ IssuerOf(subject) \notin {NoAddress, Unreadable}
    /\ sharesSubject' = [sharesSubject EXCEPT ![contract] = subject]
    /\ register(contract, subject)
    /\ UNCHANGED <<features, feeVars, deployed, nonceVars, nftOwner, now>>

\* External: a shares contract is deployed without the factory.
deployDetached(contract, subject) ==
    /\ contract \notin deployed
    /\ deployed' = deployed \cup {contract}
    /\ sharesSubject' = [sharesSubject EXCEPT ![contract] = subject]
    /\ UNCHANGED <<features, feeVars, shares, subjects, nonceVars, nftOwner, now>>

\* External: an NFT is minted, transferred, burnt, or stops being readable.
changeNftOwner(subject, owner) ==
    /\ nftOwner' = [nftOwner EXCEPT ![subject] = owner]
    /\ UNCHANGED <<features, feeVars, registryVars, nonceVars, now>>

Tick ==
    /\ now < MaxTime
    /\ now' = now + 1
    /\ UNCHANGED <<features, feeVars, registryVars, nonceVars, nftOwner>>
=============================================================================
