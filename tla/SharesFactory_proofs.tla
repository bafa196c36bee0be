------------------------ MODULE SharesFactory_proofs ------------------------
(***************************************************************************)
(* Proofs about the factory: its registry, fees and nonces, for any number *)
(* of users, NFTs, contracts and requests.                                 *)
(***************************************************************************)
EXTENDS FactoryRegistry, TLAPS

\* An address without a contract is not registered: without it a deployment could
\* take an address the registry knows already.
DeployedOnly == \A c \in Contracts : subjects[c] # NoSubject => c \in deployed

\* The inductive invariant
IInv == TypeOK /\ DeployedOnly /\ RegistryInverse /\ FeesWithinLimits /\ NoReplay

\* What the invariant says about the registry
RegistryInv ==
    /\ deployed \subseteq Contracts
    /\ sharesSubject \in [Contracts -> Subjects0]
    /\ shares \in [Subjects0 -> Contracts \cup {NoContract}]
    /\ subjects \in [Contracts -> Subjects0]
    /\ DeployedOnly
    /\ RegistryInverse

\* What the invariant says about the nonces
NonceInv ==
    /\ nonces \in [Addresses -> Nonces]
    /\ uses \in [Addresses -> [Nonces -> Nat]]
    /\ NoReplay

\* What the invariant says about the fees
FeesInv ==
    /\ protocolFeeDestination \in Addresses
    /\ {protocolFeePercent, holdersFeePercent, subjectFeePercent} \subseteq Nat
    /\ FeesWithinLimits

\* What the invariant says about the rest
OutsideInv ==
    /\ features \subseteq Features
    /\ nftOwner \in [Subjects -> Addresses \cup {Unreadable}]
    /\ now \in 0 .. MaxTime

\* The invariant is the conjunction of its four parts, none of which shares a
\* variable with another.
LEMMA Parts ==
  /\ IInv <=> RegistryInv /\ NonceInv /\ FeesInv /\ OutsideInv
  /\ IInv' <=> RegistryInv' /\ NonceInv' /\ FeesInv' /\ OutsideInv'
  BY DEF IInv, RegistryInv, NonceInv, FeesInv, OutsideInv, TypeOK

\* Each part holds after a step that leaves its variables alone.
LEMMA Untouched ==
  /\ RegistryInv /\ UNCHANGED registryVars => RegistryInv'
  /\ NonceInv /\ UNCHANGED nonceVars => NonceInv'
  /\ FeesInv /\ UNCHANGED feeVars => FeesInv'
  /\ OutsideInv /\ UNCHANGED <<features, nftOwner, now>> => OutsideInv'
<1>1. RegistryInv /\ UNCHANGED registryVars => RegistryInv'
  BY DEF RegistryInv, registryVars, DeployedOnly, RegistryInverse
<1>2. NonceInv /\ UNCHANGED nonceVars => NonceInv'
  BY DEF NonceInv, nonceVars, NoReplay
<1>3. FeesInv /\ UNCHANGED feeVars => FeesInv'
  BY DEF FeesInv, feeVars, FeesWithinLimits
<1>4. OutsideInv /\ UNCHANGED <<features, nftOwner, now>> => OutsideInv'
  BY DEF OutsideInv
<1> QED BY <1>1, <1>2, <1>3, <1>4
-----------------------------------------------------------------------------
(* The registry *)

\* Registering a deployed contract keeps the mappings inverse, moves nobody else,
\* and leaves the contract registered under the subject it was registered for.
LEMMA RegisterKeeps ==
  ASSUME RegistryInv,
         NEW contract \in deployed, NEW subject \in Subjects0,
         register(contract, subject)
  PROVE  /\ shares' \in [Subjects0 -> Contracts \cup {NoContract}]
         /\ subjects' \in [Contracts -> Subjects0]
         /\ RegistryInverse'
         /\ subjects'[contract] = subject
         /\ \A c \in Contracts \ {contract} : subjects'[c] = subjects[c]
<1>1. contract \in Contracts /\ NoSubject \notin Subjects /\ NoContract \notin Contracts
  BY FactoryAssumption DEF RegistryInv
<1>2. CASE subject # NoSubject /\ subject = subjects[contract] /\ UNCHANGED <<shares, subjects>>
  BY <1>1, <1>2 DEF RegistryInv, RegistryInverse
<1>3. CASE /\ shares[subject] = NoContract
           /\ shares' = [shares EXCEPT ![subjects[contract]] = NoContract,
                                       ![subject] = contract]
           /\ subjects' = [subjects EXCEPT ![contract] = subject]
  <2>1. /\ shares' \in [Subjects0 -> Contracts \cup {NoContract}]
        /\ subjects' \in [Contracts -> Subjects0]
        /\ subjects'[contract] = subject
        /\ \A c \in Contracts \ {contract} : subjects'[c] = subjects[c]
    BY <1>1, <1>3 DEF RegistryInv
  <2>2. ASSUME NEW s \in Subjects, NEW c \in Contracts
        PROVE  shares'[s] = c <=> subjects'[c] = s
    <3>1. s \in Subjects0
      BY DEF Subjects0
    <3>2. shares[s] = c <=> subjects[c] = s
      BY DEF RegistryInv, RegistryInverse
    <3>3. CASE s = subject
      BY <1>1, <1>3, <2>1, <3>1, <3>2, <3>3 DEF RegistryInv
    <3>4. CASE s # subject /\ s = subjects[contract]
      BY <1>1, <1>3, <2>1, <3>1, <3>2, <3>4 DEF RegistryInv, RegistryInverse
    <3>5. CASE s # subject /\ s # subjects[contract]
      BY <1>1, <1>3, <2>1, <3>1, <3>2, <3>5 DEF RegistryInv, RegistryInverse
    <3> QED BY <3>3, <3>4, <3>5
  <2> QED BY <2>1, <2>2 DEF RegistryInverse
<1> QED BY <1>2, <1>3 DEF register

\* A deployment keeps the registry and moves nobody.
LEMMA DeployKeeps ==
  ASSUME RegistryInv, OutsideInv,
         NEW sender \in Users, NEW authorizedBy \in Users, NEW subject \in Subjects,
         NEW issuer \in Addresses, NEW amount \in Nat, NEW contract \in Contracts,
         deploy(sender, authorizedBy, subject, issuer, amount, contract)
  PROVE  /\ RegistryInv' /\ OutsideInv'
         /\ subjects'[contract] = subject
         /\ sharesSubject'[contract] = subject
         /\ nftOwner'[subject] \in Users
         /\ \A c \in Contracts \ {contract} : subjects'[c] = subjects[c]
<1> USE DEF deploy
<1>1. /\ NoSubject \notin Subjects /\ NoContract \notin Contracts
      /\ NoAddress \notin Users /\ Unreadable \notin Users \cup {NoAddress}
      /\ subject \in Subjects0
  BY FactoryAssumption DEF Subjects0
<1>2. subjects[contract] = NoSubject
  BY DEF RegistryInv, DeployedOnly
<1>3. /\ deployed' \subseteq Contracts
      /\ sharesSubject' \in [Contracts -> Subjects0]
      /\ shares' \in [Subjects0 -> Contracts \cup {NoContract}]
      /\ subjects' \in [Contracts -> Subjects0]
      /\ subjects'[contract] = subject
      /\ sharesSubject'[contract] = subject
      /\ \A c \in Contracts \ {contract} : subjects'[c] = subjects[c]
  BY <1>1 DEF RegistryInv
<1>4. DeployedOnly'
  BY <1>3 DEF RegistryInv, DeployedOnly
<1>5. RegistryInverse'
  BY <1>1, <1>2, <1>3 DEF RegistryInv, RegistryInverse, Subjects0
<1>6. OutsideInv' /\ nftOwner'[subject] \in Users
  <2>1. nftOwner[subject] \in Addresses \cup {Unreadable}
        /\ nftOwner[subject] # Unreadable
        /\ (nftOwner[subject] = NoAddress => issuer # NoAddress)
    BY <1>1 DEF OutsideInv, IssuerOf
  <2> QED BY <1>1, <2>1 DEF OutsideInv, Addresses
<1> QED BY <1>3, <1>4, <1>5, <1>6 DEF RegistryInv
-----------------------------------------------------------------------------
(* The steps *)

\* The setters of the managers: fees, features and nonces.
LEMMA AdministerKeeps ==
  ASSUME IInv, Administer
  PROVE  IInv' /\ UNCHANGED <<registryVars, nftOwner>>
<1>1. RegistryInv /\ NonceInv /\ FeesInv /\ OutsideInv
  BY Parts
<1>2. PICK sender \in Users :
        \/ \E mask \in Masks : updateFeatures(sender, mask)
        \/ \E destination \in Destinations : setProtocolFeeDestination(sender, destination)
        \/ \E percent \in Percents :
              \/ setProtocolFeePercent(sender, percent)
              \/ setHoldersFeePercent(sender, percent)
              \/ setSubjectFeePercent(sender, percent)
        \/ \E destination \in Destinations, protocol, holders, subject \in Percents :
              setProtocolFee(sender, destination, protocol, holders, subject)
        \/ \E issuer \in Issuers, nonce \in Nonces : rewindNonce(sender, issuer, nonce)
  BY DEF Administer
<1>3. ASSUME NEW mask \in Masks, updateFeatures(sender, mask)
      PROVE  IInv' /\ UNCHANGED <<registryVars, nftOwner>>
  <2>1. OutsideInv'
    BY <1>1, <1>3, EnvironmentAssumption DEF updateFeatures, EvaluateBy, OutsideInv
  <2> QED BY <1>1, <1>3, <2>1, Untouched, Parts DEF updateFeatures
<1>4. ASSUME NEW destination \in Destinations, setProtocolFeeDestination(sender, destination)
      PROVE  IInv' /\ UNCHANGED <<registryVars, nftOwner>>
  <2>1. FeesInv'
    BY <1>1, <1>4, EnvironmentAssumption
       DEF setProtocolFeeDestination, FeesInv, FeesWithinLimits
  <2> QED BY <1>1, <1>4, <2>1, Untouched, Parts DEF setProtocolFeeDestination
<1>5. ASSUME NEW percent \in Percents,
             \/ setProtocolFeePercent(sender, percent)
             \/ setHoldersFeePercent(sender, percent)
             \/ setSubjectFeePercent(sender, percent)
      PROVE  IInv' /\ UNCHANGED <<registryVars, nftOwner>>
  <2>1. FeesInv'
    BY <1>1, <1>5, EnvironmentAssumption
       DEF setProtocolFeePercent, setHoldersFeePercent, setSubjectFeePercent,
           FeesInv, FeesWithinLimits
  <2>2. UNCHANGED <<features, registryVars, nonceVars, nftOwner, now>>
    BY <1>5 DEF setProtocolFeePercent, setHoldersFeePercent, setSubjectFeePercent
  <2> QED BY <1>1, <2>1, <2>2, Untouched, Parts
<1>6. ASSUME NEW destination \in Destinations, NEW protocol \in Percents,
             NEW holders \in Percents, NEW subject \in Percents,
             setProtocolFee(sender, destination, protocol, holders, subject)
      PROVE  IInv' /\ UNCHANGED <<registryVars, nftOwner>>
  <2>1. FeesInv'
    BY <1>1, <1>6, EnvironmentAssumption DEF setProtocolFee, FeesInv, FeesWithinLimits
  <2> QED BY <1>1, <1>6, <2>1, Untouched, Parts DEF setProtocolFee
<1>7. ASSUME NEW issuer \in Issuers, NEW nonce \in Nonces, rewindNonce(sender, issuer, nonce)
      PROVE  IInv' /\ UNCHANGED <<registryVars, nftOwner>>
  <2>1. issuer \in Addresses /\ Nonces \subseteq Int
    BY EnvironmentAssumption DEF Nonces
  <2>2. nonces' \in [Addresses -> Nonces] /\ uses' = uses
    BY <1>1, <1>7, <2>1 DEF rewindNonce, NonceInv
  <2>3. \A a \in Addresses : nonces[a] = nonces'[a] \/ nonces[a] < nonces'[a]
    BY <1>1, <1>7, <2>1 DEF rewindNonce, NonceInv
  <2>4. ASSUME NEW a \in Addresses, NEW n \in Nonces
        PROVE  uses'[a][n] <= 1 /\ (uses'[a][n] = 1 => n < nonces'[a])
    <3>1. n \in Int /\ nonces[a] \in Int /\ nonces'[a] \in Int
      BY <1>1, <2>1, <2>2 DEF NonceInv
    <3> QED BY <1>1, <2>2, <2>3, <3>1 DEF NonceInv, NoReplay
  <2>5. NonceInv'
    BY <1>1, <2>2, <2>4 DEF NonceInv, NoReplay
  <2> QED BY <1>1, <1>7, <2>5, Untouched, Parts DEF rewindNonce
<1> QED BY <1>2, <1>3, <1>4, <1>5, <1>6, <1>7

\* A nonce is executed the first time: it was not below itself before.
LEMMA NonceKeeps ==
  ASSUME NonceInv, NEW issuer \in Addresses, NEW nonce, useNonce(issuer, nonce)
  PROVE  NonceInv'
<1>1. nonce \in Nonces /\ nonce + 1 \in Nonces /\ Nonces \subseteq Int
  BY FactoryAssumption DEF NonceInv, useNonce, Nonces
<1>2. uses[issuer] \in [Nonces -> Nat] /\ uses[issuer][nonce] = 0
  BY <1>1 DEF NonceInv, NoReplay, useNonce
<1>3. nonces' \in [Addresses -> Nonces] /\ uses' \in [Addresses -> [Nonces -> Nat]]
  BY <1>1, <1>2 DEF NonceInv, useNonce
<1>4. ASSUME NEW a \in Addresses, NEW n \in Nonces
      PROVE  uses'[a][n] <= 1 /\ (uses'[a][n] = 1 => n < nonces'[a])
  <2>1. uses[a][n] <= 1 /\ (uses[a][n] = 1 => n < nonces[a])
    BY DEF NonceInv, NoReplay
  <2>2. CASE a = issuer /\ n = nonce
    BY <1>1, <1>2, <2>2 DEF NonceInv, useNonce
  <2>3. CASE ~(a = issuer /\ n = nonce)
    <3>1. nonces'[a] = nonces[a] \/ nonces'[a] = nonces[a] + 1
      BY <1>1 DEF NonceInv, useNonce
    <3>3. uses'[a][n] = uses[a][n]
      <4>1. CASE a # issuer
        BY <4>1 DEF NonceInv, useNonce
      <4>2. CASE a = issuer /\ n # nonce
        BY <1>2, <4>2 DEF NonceInv, useNonce
      <4> QED BY <2>3, <4>1, <4>2
    <3>2. nonces[a] \in Int /\ nonces'[a] \in Int /\ n \in Int
      BY <1>1, <1>3 DEF NonceInv
    <3> QED BY <2>1, <3>1, <3>2, <3>3
  <2> QED BY <2>2, <2>3
<1> QED BY <1>3, <1>4 DEF NonceInv, NoReplay

\* Deployments, direct and signed.
LEMMA DeploymentsKeep ==
  ASSUME IInv, Deploy
  PROVE  /\ IInv'
         /\ \E contract \in Contracts :
               /\ contract \notin deployed
               /\ subjects'[contract] = sharesSubject'[contract]
               /\ IssuerOf(sharesSubject[contract])' \in Users
               /\ \A c \in Contracts \ {contract} : subjects'[c] = subjects[c]
<1>1. RegistryInv /\ NonceInv /\ FeesInv /\ OutsideInv
  BY Parts
<1>2. PICK sender \in Users, contract \in Contracts :
        \/ \E subject \in Subjects, issuer \in Addresses, amount \in Amounts :
              mintSubjectAndDeployShares(sender, subject, issuer, amount, contract)
        \/ \E req \in Requests : executeDeploymentRequest(sender, req, contract)
  BY DEF Deploy
<1>3. PICK authorizedBy \in Users, subject \in Subjects, issuer \in Addresses, amount \in Nat :
        deploy(sender, authorizedBy, subject, issuer, amount, contract)
  <2>1. CASE \E subject \in Subjects, issuer \in Addresses, amount \in Amounts :
                mintSubjectAndDeployShares(sender, subject, issuer, amount, contract)
    BY <2>1, EnvironmentAssumption DEF mintSubjectAndDeployShares
  <2>2. CASE \E req \in Requests : executeDeploymentRequest(sender, req, contract)
    <3>1. PICK req \in Requests : executeDeploymentRequest(sender, req, contract)
      BY <2>2
    <3>2. /\ req.signer \in Users /\ req.subject \in Subjects
          /\ req.issuer \in Addresses /\ req.amount \in Nat
      BY FactoryAssumption DEF SharesDeploymentRequest, Addresses
    <3>3. deploy(sender, req.signer, req.subject, req.issuer, req.amount, contract)
      BY <3>1 DEF executeDeploymentRequest
    <3> QED BY <3>2, <3>3
  <2> QED BY <1>2, <2>1, <2>2
<1>4. NonceInv'
  BY <1>1, <1>2, NonceKeeps, Untouched, FactoryAssumption
     DEF mintSubjectAndDeployShares, executeDeploymentRequest, SharesDeploymentRequest, Addresses
<1>5. FeesInv'
  BY <1>1, <1>3, Untouched DEF deploy
<1>6. /\ RegistryInv' /\ OutsideInv'
      /\ subjects'[contract] = subject /\ sharesSubject'[contract] = subject
      /\ nftOwner'[subject] \in Users
      /\ \A c \in Contracts \ {contract} : subjects'[c] = subjects[c]
  BY <1>1, <1>3, DeployKeeps
<1>7. IInv'
  BY <1>4, <1>5, <1>6, Parts
<1>8. contract \notin deployed /\ IssuerOf(sharesSubject[contract])' \in Users
  BY <1>3, <1>6, FactoryAssumption DEF deploy, IssuerOf
<1> QED BY <1>6, <1>7, <1>8

\* Registrations and changes of subject.
LEMMA RegistrationsKeep ==
  ASSUME IInv, Register
  PROVE  /\ IInv' /\ UNCHANGED <<deployed, nftOwner>>
         /\ \A c \in Contracts : subjects'[c] # subjects[c] =>
               /\ c \in deployed
               /\ subjects'[c] = sharesSubject'[c]
               /\ sharesSubject'[c] # sharesSubject[c] =>
                     IssuerOf(sharesSubject[c])' \in Users
<1>1. RegistryInv /\ NonceInv /\ FeesInv /\ OutsideInv
  BY Parts
<1>2. PICK contract \in Contracts :
        \/ \E sender \in Users : registerSharesContract(sender, contract)
        \/ \E subject \in Subjects0 : updateSharesSubject(contract, subject)
        \/ \E subject \in Subjects0 : updateSharesSubjectAndNotify(contract, subject)
  BY DEF Register
<1>3. /\ UNCHANGED <<features, feeVars, nonceVars, nftOwner, now, deployed>>
      /\ contract \in deployed
  BY <1>2 DEF registerSharesContract, updateSharesSubject, updateSharesSubjectAndNotify
<1>4. NonceInv' /\ FeesInv' /\ OutsideInv'
  BY <1>1, <1>3, Untouched
<1>5. ASSUME NEW sender \in Users, registerSharesContract(sender, contract)
      PROVE  /\ RegistryInv'
             /\ \A c \in Contracts : subjects'[c] # subjects[c] =>
                   subjects'[c] = sharesSubject'[c] /\ sharesSubject'[c] = sharesSubject[c]
  <2>1. sharesSubject[contract] \in Subjects0
    BY <1>1 DEF RegistryInv
  <2>2. register(contract, sharesSubject[contract]) /\ UNCHANGED sharesSubject
    BY <1>5 DEF registerSharesContract
  <2>3. /\ shares' \in [Subjects0 -> Contracts \cup {NoContract}]
        /\ subjects' \in [Contracts -> Subjects0]
        /\ RegistryInverse'
        /\ subjects'[contract] = sharesSubject[contract]
        /\ \A c \in Contracts \ {contract} : subjects'[c] = subjects[c]
    BY <1>1, <1>3, <2>1, <2>2, RegisterKeeps
  <2> QED BY <1>1, <1>3, <2>2, <2>3 DEF RegistryInv, DeployedOnly
<1>6. ASSUME NEW subject \in Subjects0, updateSharesSubject(contract, subject)
      PROVE  RegistryInv' /\ UNCHANGED subjects
  BY <1>1, <1>6 DEF updateSharesSubject, RegistryInv, DeployedOnly, RegistryInverse
<1>7. ASSUME NEW subject \in Subjects0, updateSharesSubjectAndNotify(contract, subject)
      PROVE  /\ RegistryInv'
             /\ \A c \in Contracts : subjects'[c] # subjects[c] =>
                   subjects'[c] = sharesSubject'[c] /\ IssuerOf(sharesSubject[c])' \in Users
  <2>1. /\ register(contract, subject)
        /\ sharesSubject' = [sharesSubject EXCEPT ![contract] = subject]
        /\ IssuerOf(subject) \notin {NoAddress, Unreadable}
    BY <1>7 DEF updateSharesSubjectAndNotify
  <2>2. /\ shares' \in [Subjects0 -> Contracts \cup {NoContract}]
        /\ subjects' \in [Contracts -> Subjects0]
        /\ RegistryInverse'
        /\ subjects'[contract] = subject
        /\ \A c \in Contracts \ {contract} : subjects'[c] = subjects[c]
    BY <1>1, <1>3, <2>1, RegisterKeeps
  <2>3. /\ sharesSubject' \in [Contracts -> Subjects0]
        /\ sharesSubject'[contract] = subject
    BY <1>1, <2>1 DEF RegistryInv
  <2>4. IssuerOf(sharesSubject[contract])' \in Users
    BY <1>1, <1>3, <2>1, <2>3 DEF IssuerOf, OutsideInv, Addresses, Subjects0
  <2> QED BY <1>1, <1>3, <2>2, <2>3, <2>4 DEF RegistryInv, DeployedOnly
<1>8. /\ RegistryInv'
      /\ \A c \in Contracts : subjects'[c] # subjects[c] =>
            /\ subjects'[c] = sharesSubject'[c]
            /\ sharesSubject'[c] # sharesSubject[c] => IssuerOf(sharesSubject[c])' \in Users
  BY <1>2, <1>5, <1>6, <1>7
<1>9. \A c \in Contracts : subjects'[c] # subjects[c] => c \in deployed
  BY <1>1, <1>3, <1>8, FactoryAssumption DEF RegistryInv, DeployedOnly, Subjects0
<1> QED BY <1>3, <1>4, <1>8, <1>9, Parts

\* What happens outside of the factory.
LEMMA EnvironmentKeeps ==
  ASSUME IInv, Environment
  PROVE  IInv' /\ UNCHANGED <<shares, subjects>>
<1>1. RegistryInv /\ NonceInv /\ FeesInv /\ OutsideInv
  BY Parts
<1>2. ASSUME NEW contract \in Contracts, NEW subject \in Subjects0,
             deployDetached(contract, subject)
      PROVE  IInv' /\ UNCHANGED <<shares, subjects>>
  <2>1. RegistryInv'
    BY <1>1, <1>2 DEF deployDetached, RegistryInv, DeployedOnly, RegistryInverse
  <2> QED BY <1>1, <1>2, <2>1, Untouched, Parts DEF deployDetached
<1>3. ASSUME NEW subject \in Subjects, NEW owner \in NftOwners, changeNftOwner(subject, owner)
      PROVE  IInv' /\ UNCHANGED <<shares, subjects>>
  <2>1. OutsideInv'
    BY <1>1, <1>3, EnvironmentAssumption DEF changeNftOwner, OutsideInv
  <2> QED BY <1>1, <1>3, <2>1, Untouched, Parts DEF changeNftOwner, registryVars
<1>4. CASE Tick
  <2>1. OutsideInv'
    BY <1>1, <1>4, FactoryAssumption DEF Tick, OutsideInv
  <2> QED BY <1>1, <1>4, <2>1, Untouched, Parts DEF Tick, registryVars
<1> QED BY <1>2, <1>3, <1>4 DEF Environment
-----------------------------------------------------------------------------
(* Theorems *)

\* The inductive invariant holds initially.
LEMMA InitInv == Init => IInv
<1> SUFFICES ASSUME Init PROVE IInv
  OBVIOUS
<1>1. TypeOK
  BY FactoryAssumption DEF Init, TypeOK, Addresses, Subjects0, Nonces
<1>2. DeployedOnly /\ RegistryInverse
  BY FactoryAssumption DEF Init, DeployedOnly, RegistryInverse, Subjects0
<1>3. FeesWithinLimits /\ NoReplay
  BY DEF Init, FeesWithinLimits, WellFormed, NoReplay
<1> QED BY <1>1, <1>2, <1>3 DEF IInv

\* Every step keeps it.
LEMMA NextInv == IInv /\ [Next]_vars => IInv'
<1> SUFFICES ASSUME IInv, [Next]_vars PROVE IInv'
  OBVIOUS
<1>1. CASE UNCHANGED vars
  BY <1>1, Untouched, Parts DEF vars
<1>2. CASE Next
  BY <1>2, AdministerKeeps, DeploymentsKeep, RegistrationsKeep, EnvironmentKeeps DEF Next
<1> QED BY <1>1, <1>2

\* The inductive invariant is an invariant of the factory.
THEOREM Invariance == Spec => []IInv
  BY InitInv, NextInv, PTL DEF Spec

\* No operation stores a value of the wrong type.
THEOREM TypeCorrect == Spec => []TypeOK
  BY Invariance, PTL DEF IInv

\* The mappings of __mintSubjectAndDeployShares and __registerSharesContract stay
\* inverse to each other.
THEOREM RegistryStaysInverse == Spec => []RegistryInverse
  BY Invariance, PTL DEF IInv

\* The setters never leave a malformed percent or a fee without a destination.
THEOREM FeesStayWithinLimits == Spec => []FeesWithinLimits
  BY Invariance, PTL DEF IInv

\* executeDeploymentRequest never executes two requests with one nonce.
THEOREM RequestsNotReplayed == Spec => []NoReplay
  BY Invariance, PTL DEF IInv

\* A contract leaves the registry only by moving to the subject it stores.
THEOREM ContractsNotEvicted == Spec => NeverEvicted
<1> DEFINE Kept == \A s \in Subjects, c \in Contracts :
                      shares[s] = c /\ shares'[s] # c => /\ subjects'[c] = sharesSubject'[c]
                                                         /\ sharesSubject'[c] # s
<1>1. ASSUME IInv, [Next]_vars PROVE Kept
  <2> SUFFICES ASSUME NEW s \in Subjects, NEW c \in Contracts,
                      shares[s] = c, shares'[s] # c
               PROVE  subjects'[c] = sharesSubject'[c] /\ sharesSubject'[c] # s
    OBVIOUS
  <2>1. subjects[c] = s /\ subjects'[c] # s
    BY <1>1, NextInv DEF IInv, RegistryInverse
  <2>2. s # NoSubject /\ c \in deployed
    BY <1>1, <2>1, FactoryAssumption DEF IInv, DeployedOnly
  <2>3. CASE UNCHANGED vars
    BY <2>1, <2>3 DEF vars, registryVars
  <2>4. CASE Administer
    BY <1>1, <2>1, <2>4, AdministerKeeps DEF registryVars
  <2>5. CASE Deploy
    BY <1>1, <2>1, <2>2, <2>5, DeploymentsKeep
  <2>6. CASE Register
    BY <1>1, <2>1, <2>6, RegistrationsKeep
  <2>7. CASE Environment
    BY <1>1, <2>1, <2>7, EnvironmentKeeps
  <2> QED BY <1>1, <2>3, <2>4, <2>5, <2>6, <2>7 DEF Next
<1>2. IInv /\ [Next]_vars => [Kept]_vars
  BY <1>1
<1> QED BY <1>2, Invariance, PTL DEF Spec, NeverEvicted

\* Deployments and notifications bind contracts to existing NFTs only.
THEOREM DeploymentsBindToExisting == Spec => BoundToExisting
<1> DEFINE Bound == \A c \in Contracts :
                       /\ subjects'[c] # subjects[c]
                       /\ c \notin deployed \/ sharesSubject'[c] # sharesSubject[c]
                       => IssuerOf(sharesSubject[c])' \in Users
<1>1. ASSUME IInv, [Next]_vars PROVE Bound
  <2> SUFFICES ASSUME NEW c \in Contracts, subjects'[c] # subjects[c],
                      c \notin deployed \/ sharesSubject'[c] # sharesSubject[c]
               PROVE  IssuerOf(sharesSubject[c])' \in Users
    OBVIOUS
  <2>1. CASE UNCHANGED vars
    BY <2>1 DEF vars, registryVars
  <2>2. CASE Administer
    BY <1>1, <2>2, AdministerKeeps DEF registryVars
  <2>3. CASE Deploy
    BY <1>1, <2>3, DeploymentsKeep
  <2>4. CASE Register
    BY <1>1, <2>4, RegistrationsKeep
  <2>5. CASE Environment
    BY <1>1, <2>5, EnvironmentKeeps
  <2> QED BY <1>1, <2>1, <2>2, <2>3, <2>4, <2>5 DEF Next
<1>2. IInv /\ [Next]_vars => [Bound]_vars
  BY <1>1
<1> QED BY <1>2, Invariance, PTL DEF Spec, BoundToExisting
=============================================================================
