----------------------------- MODULE MCETHShares -----------------------------
EXTENDS ETHShares
CONSTANTS alice, bob, zero, shares, distributor, stranger, nft, otherNft, nothing, garbage

MCAccounts == {alice, bob}

\* Alice is the multisig with all the emergency functions.
MCUserRoles == [a \in MCAccounts |->
    IF a = alice THEN {ROLE_PROTOCOL_FEE_MANAGER, ROLE_HOLDERS_FEE_MANAGER,
                       ROLE_SHARES_SUBJECT_MANAGER}
    ELSE {}]

Fees(destination, protocol, rewards, holders, subject) ==
    [protocolFeeDestination |-> destination, protocolFeePercent |-> protocol,
     holdersFeeDestination  |-> rewards,     holdersFeePercent  |-> holders,
     subjectFeePercent      |-> subject]

\* The protocol and the subject fee vary, the holders fee is below one unit.
MCMarketSettings == {Fees(bob, 5, distributor, 0, 5), Fees(zero, 0, zero, 0, 2)}

\* All three fees, together the whole price; no protocol fee
MCRewardsSettings == {Fees(bob, 3, distributor, 4, 3), Fees(zero, 0, distributor, 3, 1)}
=============================================================================
