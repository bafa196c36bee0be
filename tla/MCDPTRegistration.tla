------------------------- MODULE MCDPTRegistration -------------------------
EXTENDS DPTRegistration
CONSTANTS alice, bob, carol, hiveRegistry, dpt1, dpt2

\* A request that is valid at once, and one that is valid later
MCWindows == {<<0, 1>>, <<1, 2>>}
=============================================================================
