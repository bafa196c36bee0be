---------------------------- MODULE MCERC20Shares ----------------------------
EXTENDS ERC20Shares
CONSTANTS alice, ali, zero, shares, distributor, stranger, nft, nothing, garbage

MCAccounts == {alice, ali}

\* Alice is the multisig with all the emergency functions.
MCUserRoles == [a \in MCAccounts |->
    IF a = alice THEN {ROLE_PROTOCOL_FEE_MANAGER, ROLE_HOLDERS_FEE_MANAGER,
                       ROLE_SHARES_SUBJECT_MANAGER}
    ELSE {}]

Fees(destination, protocol, rewards, holders, subject) ==
    [protocolFeeDestination |-> destination, protocolFeePercent |-> protocol,
     holdersFeeDestination  |-> rewards,     holdersFeePercent  |-> holders,
     subjectFeePercent      |-> subject]

\* All three fees
MCSettings == {Fees(alice, 4, distributor, 3, 3)}
=============================================================================
