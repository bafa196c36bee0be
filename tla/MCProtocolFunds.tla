--------------------------- MODULE MCProtocolFunds ---------------------------
EXTENDS ProtocolFunds
CONSTANTS alice, bob, distributor, rewards, treasury, vault, eth, ali, zero

\* Alice has all the roles and Bob has none.
MCUserRoles == [u \in {alice, bob} |->
    IF u = alice THEN {ROLE_RECIPIENT_LIST_MANAGER, ROLE_DISTRIBUTION_MANAGER, ROLE_ACCESS_MANAGER,
                       ROLE_DATA_ROOT_MANAGER, FEATURE_CLAIM_ACTIVE}
    ELSE {}]

To(a, percent) == [recipient |-> a, allocationPercent |-> percent]

\* Lists that are accepted: two that divide unevenly, one with a recipient that refuses
\* ETH, one that names a recipient twice, one that names the distributor; a sum too small or too big, a zero recipient,
\* none, too many.
MCRecipientLists ==
    {<<To(rewards, 5), To(treasury, 5)>>, <<To(rewards, 4), To(treasury, 3), To(rewards, 3)>>,
     <<To(vault, 1), To(rewards, 9)>>, <<To(distributor, 5), To(rewards, 5)>>,
     <<To(rewards, 4), To(treasury, 3)>>, <<To(rewards, 9), To(treasury, 5)>>, <<To(zero, 10)>>,
     <<>>, <<To(vault, 2), To(rewards, 2), To(treasury, 3), To(rewards, 3)>>}

\* Totals that grow, shrink, and name a user twice
MCRoots == {{<<alice, 1>>}, {<<alice, 3>>, <<bob, 1>>}, {<<bob, 1>>, <<bob, 2>>}}
=============================================================================
