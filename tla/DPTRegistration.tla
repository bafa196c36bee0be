-------------------------- MODULE DPTRegistration --------------------------
(***************************************************************************)
(* HiveRegistryV1.sol, the registration of DPTs, with the access control   *)
(* it stands on: registrars register DPTs themselves, or sign requests     *)
(* that anybody relays, each good for one nonce of the owner it names and  *)
(* for a time; roles are given and taken at any moment.                    *)
(*                                                                         *)
(* The features of the contract are the roles of its own address.  The     *)
(* hives share nothing with all this, see HiveRegistry.                    *)
(***************************************************************************)
EXTENDS AccessControl, Integers, Sequences

CONSTANTS
    Accounts,        \* addresses that send transactions and sign requests
    ThisContract,    \* the address of the contract
    Deployer,        \* who deploys and initializes it
    Owners,          \* owners of DPTs that requests name
    DPTs,
    Windows,         \* pairs: when a request becomes valid, when it expires
    OtherPermissions,\* bits that have nothing to do with registrations
    MaxNonce,        \* bound: nonces used
    MaxTime          \* bound: block timestamp

ROLE_DPT_REGISTRAR == "dpt registrar"

\* FULL_PRIVILEGES_MASK
Permissions == {ROLE_ACCESS_MANAGER, ROLE_DPT_REGISTRAR} \cup OtherPermissions

ASSUME DPTAssumption ==
    /\ Deployer \in Accounts
    /\ ThisContract \notin Accounts
    /\ Windows \subseteq Nat \X Nat
    /\ MaxNonce \in Nat /\ MaxTime \in Nat

RegisterAsDPTRequest ==
    [asset : DPTs, dptOwner : Owners, window : Windows, nonce : 0 .. MaxNonce - 1]

VARIABLES
    userRoles,       \* address -> its permissions
    dptLinkStatus,   \* DPTs that are registered
    nonces,          \* owner -> the nonce of the next request
    NonceUsed,       \* owner -> Seq of the nonces in the events
    blockTimestamp

dptVars == <<userRoles, dptLinkStatus, nonces, NonceUsed, blockTimestamp>>

DPTInit ==
    /\ userRoles = [a \in Accounts \cup {ThisContract} |->
                      IF a = Deployer THEN Permissions ELSE {}]
    /\ dptLinkStatus = {}
    /\ nonces = [o \in Owners |-> 0]
    /\ NonceUsed = [o \in Owners |-> <<>>]
    /\ blockTimestamp = 0
-----------------------------------------------------------------------------
(* Access *)

operatorInRole(account, role) == role \in userRoles[account]

\* Mistake for a mutant: the bits are given whether the sender has them or not.
updateRoleUnchecked(sender, operator, mask) ==
    /\ operatorInRole(sender, ROLE_ACCESS_MANAGER)
    /\ userRoles' = [userRoles EXCEPT ![operator] = mask]
    /\ UNCHANGED <<dptLinkStatus, nonces, NonceUsed, blockTimestamp>>

updateRole(sender, operator, mask) ==
    /\ operatorInRole(sender, ROLE_ACCESS_MANAGER)
    /\ userRoles' = [userRoles EXCEPT ![operator] = EvaluateBy(userRoles[sender], @, mask)]
    /\ UNCHANGED <<dptLinkStatus, nonces, NonceUsed, blockTimestamp>>

updateContractFeatures(sender, mask) == updateRole(sender, ThisContract, mask)
-----------------------------------------------------------------------------
(* Registrations *)

registerDPT(sender, dpt, authorizedBy) ==
    /\ operatorInRole(sender, ROLE_DPT_REGISTRAR)
       \/ operatorInRole(authorizedBy, ROLE_DPT_REGISTRAR)
    /\ dpt \notin dptLinkStatus
    /\ dptLinkStatus' = dptLinkStatus \cup {dpt}

\* The nonce belongs to the owner in the request, not to its signer.
useNonce(owner, nonce) ==
    /\ nonces[owner] = nonce
    /\ nonces' = [nonces EXCEPT ![owner] = @ + 1]
    /\ NonceUsed' = [NonceUsed EXCEPT ![owner] = Append(@, nonce)]

eip712RegisterAsDPT(sender, req, signer) ==
    /\ req.window[1] <= blockTimestamp
    /\ req.window[2] > blockTimestamp
    /\ useNonce(req.dptOwner, req.nonce)
    /\ registerDPT(sender, req.asset, signer)
    /\ UNCHANGED <<userRoles, blockTimestamp>>

registerAsDPT(sender, dpt) ==
    /\ registerDPT(sender, dpt, sender)
    /\ UNCHANGED <<userRoles, nonces, NonceUsed, blockTimestamp>>

\* Mistake for a mutant: the nonce goes back too.
fastForwardAnywhere(sender, issuer, nonce) ==
    /\ operatorInRole(sender, ROLE_DPT_REGISTRAR)
    /\ nonces' = [nonces EXCEPT ![issuer] = nonce]
    /\ NonceUsed' = [NonceUsed EXCEPT ![issuer] = Append(@, nonce - 1)]
    /\ UNCHANGED <<userRoles, dptLinkStatus, blockTimestamp>>

\* The event names the last of the nonces that are skipped.
fastForwardTheNonce(sender, issuer, nonce) ==
    /\ operatorInRole(sender, ROLE_DPT_REGISTRAR)
    /\ nonces[issuer] < nonce
    /\ nonces' = [nonces EXCEPT ![issuer] = nonce]
    /\ NonceUsed' = [NonceUsed EXCEPT ![issuer] = Append(@, nonce - 1)]
    /\ UNCHANGED <<userRoles, dptLinkStatus, blockTimestamp>>

Tick ==
    /\ blockTimestamp < MaxTime
    /\ blockTimestamp' = blockTimestamp + 1
    /\ UNCHANGED <<userRoles, dptLinkStatus, nonces, NonceUsed>>

Access ==
    \E sender \in Accounts, mask \in SUBSET Permissions :
       \/ \E operator \in Accounts : updateRole(sender, operator, mask)
       \/ updateContractFeatures(sender, mask)

Register ==
    \E sender \in Accounts :
       \/ \E req \in RegisterAsDPTRequest, signer \in Accounts :
             eip712RegisterAsDPT(sender, req, signer)
       \/ \E dpt \in DPTs : registerAsDPT(sender, dpt)
       \/ \E issuer \in Owners, nonce \in 0 .. MaxNonce : fastForwardTheNonce(sender, issuer, nonce)

DPTNext == Access \/ Register \/ Tick

DPTSpec == DPTInit /\ [][DPTNext]_dptVars
-----------------------------------------------------------------------------
(* Safety *)

DPTTypeOK ==
    /\ userRoles \in [Accounts \cup {ThisContract} -> SUBSET Permissions]
    /\ dptLinkStatus \subseteq DPTs
    /\ nonces \in [Owners -> Nat]
    /\ NonceUsed \in [Owners -> Seq(Nat)]
    /\ blockTimestamp \in Nat

\* Every event uses up the nonces of its owner that are left up to its own: in whatever
\* order requests are signed, relayed, overtaken by one another and cancelled by a fast
\* forward, no nonce is used twice, and none of those skipped is ever used.
NoncesUsedOnce ==
    \A o \in Owners : \A i, j \in DOMAIN NonceUsed[o] :
       i < j => NonceUsed[o][i] < NonceUsed[o][j]

\* The permissions that somebody has who can send a transaction
Held == UNION {userRoles[a] : a \in Accounts}

contractFeatures == userRoles[ThisContract]

\* A permission that nobody has any more is gone for good: no one gives what no one has,
\* and a feature whose bit nobody has stays as it is.  As long as there is no registrar,
\* no request goes through either, whoever signed it when there was one.
NoEscalation ==
    [][/\ Held' \subseteq Held
       /\ (contractFeatures' \ contractFeatures) \cup (contractFeatures \ contractFeatures') \subseteq Held
       /\ ROLE_DPT_REGISTRAR \notin Held => UNCHANGED <<dptLinkStatus, nonces>>]_dptVars
=============================================================================
