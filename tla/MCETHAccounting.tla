--------------------------- MODULE MCETHAccounting ---------------------------
EXTENDS MCETHShares, ETHAccounting
=============================================================================
