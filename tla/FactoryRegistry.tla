--------------------------- MODULE FactoryRegistry ---------------------------
(***************************************************************************)
(* The factory in its environment: managers that set fees and features,    *)
(* NFT owners, collection owners and registrars that deploy, relayers of   *)
(* signed requests, shares contracts that move to another NFT, and NFTs    *)
(* that are minted, sold and burnt meanwhile.                              *)
(***************************************************************************)
EXTENDS SharesFactory

CONSTANTS
    Masks,         \* feature masks the feature manager sets
    Destinations,  \* protocol fee destinations that are tried
    Percents,      \* fee percents that are tried, malformed ones included
    Amounts,       \* numbers of shares bought upon deployment
    Issuers,       \* issuers whose nonces are rewound
    NftOwners      \* what the NFT contracts may answer about an owner

ASSUME EnvironmentAssumption ==
    /\ Masks \subseteq SUBSET Features
    /\ Destinations \subseteq Addresses
    /\ Percents \subseteq Nat
    /\ Amounts \subseteq Nat
    /\ Issuers \subseteq Addresses
    /\ NftOwners \subseteq Addresses \cup {Unreadable}

Administer ==
    \E sender \in Users :
       \/ \E mask \in Masks : updateFeatures(sender, mask)
       \/ \E destination \in Destinations : setProtocolFeeDestination(sender, destination)
       \/ \E percent \in Percents :
             \/ setProtocolFeePercent(sender, percent)
             \/ setHoldersFeePercent(sender, percent)
             \/ setSubjectFeePercent(sender, percent)
       \/ \E destination \in Destinations, protocol, holders, subject \in Percents :
             setProtocolFee(sender, destination, protocol, holders, subject)
       \/ \E issuer \in Issuers, nonce \in Nonces : rewindNonce(sender, issuer, nonce)

Deploy ==
    \E sender \in Users, contract \in Contracts :
       \/ \E subject \in Subjects, issuer \in Addresses, amount \in Amounts :
             mintSubjectAndDeployShares(sender, subject, issuer, amount, contract)
       \/ \E req \in Requests : executeDeploymentRequest(sender, req, contract)

Register ==
    \E contract \in Contracts :
       \/ \E sender \in Users : registerSharesContract(sender, contract)
       \/ \E subject \in Subjects0 : updateSharesSubject(contract, subject)
       \/ \E subject \in Subjects0 : updateSharesSubjectAndNotify(contract, subject)

Environment ==
    \/ \E contract \in Contracts, subject \in Subjects0 : deployDetached(contract, subject)
    \/ \E subject \in Subjects, owner \in NftOwners : changeNftOwner(subject, owner)
    \/ Tick

Next == Administer \/ Deploy \/ Register \/ Environment

Spec == Init /\ [][Next]_vars
-----------------------------------------------------------------------------
(* Safety *)

\* The two mappings are inverse to each other: a subject leads to a contract if and
\* only if that contract leads back to the subject, so that a lookup never returns
\* a contract that has moved on and no contract occupies two subjects.
RegistryInverse ==
    \A s \in Subjects, c \in Contracts : shares[s] = c <=> subjects[c] = s

\* The fees a deployment hands to a contract leave something of the price: each is
\* below 30%, and a protocol fee has somebody to go to, whichever of the five
\* setters were used in whichever order.
FeesWithinLimits ==
    /\ WellFormed(protocolFeePercent) /\ WellFormed(holdersFeePercent)
    /\ WellFormed(subjectFeePercent)
    /\ protocolFeePercent # 0 => protocolFeeDestination # NoAddress

\* No signed request is executed twice, nor is any other one with the same nonce,
\* however the nonces are rewound: whatever was executed lies below the nonce.
NoReplay ==
    \A a \in Addresses, n \in Nonces :
       uses[a][n] <= 1 /\ (uses[a][n] = 1 => n < nonces[a])

\* A contract loses its place in the registry only by moving to the subject it
\* stores now: no deployment, and nobody else's registration, takes it away.
NeverEvicted ==
    [][\A s \in Subjects, c \in Contracts :
          shares[s] = c /\ shares'[s] # c => /\ subjects'[c] = sharesSubject'[c]
                                             /\ sharesSubject'[c] # s]_vars

\* What the factory deploys, and what notifies it of a new subject, ends up bound
\* to an NFT that exists.  (A registrar may register a contract bound to nothing.)
BoundToExisting ==
    [][\A c \in Contracts :
          /\ subjects'[c] # subjects[c]
          /\ c \notin deployed \/ sharesSubject'[c] # sharesSubject[c]
          => IssuerOf(sharesSubject[c])' \in Users]_vars

\* "Executes signed SharesDeploymentRequest; this is identical to executing
\* mintSubjectAndDeployShares on behalf of the signer and allows the transaction to
\* be relayed" (SharesFactory.sol:287-289): what the signer is authorised to deploy
\* can be deployed by any relayer of its request.
RelayedAsSigned ==
    \A req \in Requests, relayer \in Users :
       Authorized(req.signer, req.signer, req.subject)
          => Authorized(relayer, req.signer, req.subject)
=============================================================================
