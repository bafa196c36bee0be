------------------------------ MODULE MCFactory ------------------------------
EXTENDS FactoryRegistry, TLC
CONSTANTS admin, bob, zero, c1, c2, none, nft1, nft2, nothing, garbage

MCUsers == {admin, bob}
MCContracts == {c1, c2}
MCSubjects == {nft1, nft2}

\* The admin has every permission, bob has none and owns the collection of nft2.
MCUserRoles == [u \in MCUsers |-> IF u = admin THEN Permissions ELSE {}]
MCCollectionOwner == [s \in MCSubjects |-> IF s = nft2 THEN bob ELSE zero]

Request(subject, amount, nonce, from, until) ==
    [signer |-> bob, subject |-> subject, issuer |-> bob, amount |-> amount,
     nonce |-> nonce, validFrom |-> from, expiresAt |-> until]

\* Bob signs for an NFT he may own and for one of his collection, the second time
\* with the nonce of the first request
MCRequests == {Request(nft1, 1, 0, 0, 2), Request(nft2, 0, 0, 1, 2),
               Request(nft2, 2, 1, 0, 1)}

MCMasks == {{FEATURE_SHARES_DEPLOYMENT_ENABLED}, Features}
MCNftOwners == {bob, zero, garbage}

\* The addresses of the contracts are interchangeable.
MCSymmetry == Permutations(MCContracts)
=============================================================================
