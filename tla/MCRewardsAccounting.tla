------------------------- MODULE MCRewardsAccounting -------------------------
EXTENDS RewardsAccounting
CONSTANTS zero, alice, bob, curve, stranger, ali
MCAddresses == {zero, alice, bob}
MCSharesContracts == {curve, stranger}
=============================================================================
