--------------------------- MODULE MCHiveRegistry ---------------------------
EXTENDS HiveRegistry, TLC
CONSTANTS alice, bob, pod1, pod2, nft1, nft2, pods, art, zero, intelligence, gpu, token, uri, burnt

MCUsers == {alice, bob}
MCTokens == {pod1, pod2, nft1, nft2}
MCCollection == [t \in MCTokens |-> IF t \in {pod1, pod2} THEN pods ELSE art]
MCUserRoles == [u \in MCUsers |-> IF u = alice THEN Roles \cup Features ELSE {}]
MCHiveIds == 0 .. 2
MCCategoryNames == {intelligence, gpu}

Wallet(u) == [place |-> "wallet", user |-> u]
Staked(u) == [place |-> "staked", user |-> u]
Fused(u)  == [place |-> "fused", user |-> u]

\* The first pod is staked and sold, the second one fused, the third NFT burnt.
MCCustodies ==
    (pod1 :> {Wallet(bob), Staked(alice)}) @@ (pod2 :> {Fused(bob)})
    @@ (nft1 :> {Wallet(bob)}) @@ (nft2 :> {Wallet(alice), burnt})

MCMasks == {Features}
=============================================================================
