--------------------------- MODULE HiveMembership ---------------------------
(***************************************************************************)
(* What the header of HiveRegistry.sol promises of a hive: an NFT founds a *)
(* hive or joins one, never both; it joins one hive in one category at a   *)
(* time; joining and leaving change the place of no other NFT.             *)
(***************************************************************************)
EXTENDS Integers, FiniteSets

CONSTANTS
    Tokens,   \* NFTs
    Places    \* pairs of a hive and a category

VARIABLES
    founders,   \* the NFTs that created a hive
    members,    \* place -> the NFTs that joined there
    number      \* how many NFTs have joined, everywhere

Joined == UNION {members[p] : p \in Places}

Init ==
    /\ founders = {}
    /\ members = [p \in Places |-> {}]
    /\ number = 0

Found(token) ==
    /\ token \notin founders \cup Joined
    /\ founders' = founders \cup {token}
    /\ UNCHANGED <<members, number>>

Join(token, place) ==
    /\ token \notin founders \cup Joined
    /\ members' = [members EXCEPT ![place] = @ \cup {token}]
    /\ number' = number + 1
    /\ UNCHANGED founders

Leave(token, place) ==
    /\ token \in members[place]
    /\ members' = [members EXCEPT ![place] = @ \ {token}]
    /\ number' = number - 1
    /\ UNCHANGED founders

Next ==
    \E token \in Tokens :
       \/ Found(token)
       \/ \E place \in Places : Join(token, place) \/ Leave(token, place)

Spec == Init /\ [][Next]_<<founders, members, number>>
=============================================================================
