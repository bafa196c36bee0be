---------------------------- MODULE HiveRegistry ----------------------------
(***************************************************************************)
(* HiveRegistryV1.sol: hives, each created by one AI pod, and the NFTs     *)
(* linked to them, listed by hive and category, with the position of every *)
(* NFT in its list.  Unlinking fills the gap with the last of the list.    *)
(*                                                                         *)
(* The arrays of the code have a dummy at index 0, which the sequences     *)
(* here drop, so that the ids are the same.  The registrations of DPTs in  *)
(* the same contract, which share nothing with the hives, are modelled in  *)
(* DPTRegistration.                                                        *)
(***************************************************************************)
EXTENDS AccessControl, Integers, Sequences, FiniteSets, Functions

CONSTANTS
    Users,                \* accounts that send transactions
    UserRoles,            \* user -> its permissions
    Tokens,               \* NFTs
    Collection,           \* NFT -> its contract
    personalityContract,  \* the contract of the AI pods
    NoAddress,            \* the zero address: a category for every collection, no token
    HiveIds,              \* hive ids that are tried when linking
    CategoryNames,        \* category names that are tried
    IntelligencePod,      \* the name of the default category
    Collections,          \* collections a category may be restricted to
    HiveTokens,           \* addresses of ERC20 tokens
    URIs,                 \* hive metadata
    Custodies,            \* NFT -> where it may be
    Burnt,                \* an NFT that does not exist: ownerOf reverts
    Masks,                \* feature masks that are set
    Uint16Range           \* 2^16

FEATURE_ALLOW_HIVE_CREATION   == "hive creation"
FEATURE_ALLOW_ASSET_LINKING   == "asset linking"
FEATURE_ALLOW_ASSET_UNLINKING == "asset unlinking"

Features == {FEATURE_ALLOW_HIVE_CREATION, FEATURE_ALLOW_ASSET_LINKING,
             FEATURE_ALLOW_ASSET_UNLINKING}

ROLE_POD_WHITELIST_MANAGER == "pod whitelist manager"
ROLE_CATEGORY_MANAGER      == "category manager"
ROLE_HIVE_TOKEN_MANAGER    == "hive token manager"

Roles == {ROLE_POD_WHITELIST_MANAGER, ROLE_CATEGORY_MANAGER, ROLE_HIVE_TOKEN_MANAGER,
          ROLE_ACCESS_MANAGER}

Pods == {t \in Tokens : Collection[t] = personalityContract}

\* An NFT is with a user, or deposited for the user in the staking contract, or fused
\* in an iNFT of the user.
Custody == [place : {"wallet", "staked", "fused"}, user : Users] \cup {Burnt}

ASSUME HiveAssumption ==
    /\ IsFiniteSet(Tokens)
    /\ NoAddress \notin Collections \cup HiveTokens
    /\ personalityContract \in Collections
    /\ Collection \in [Tokens -> Collections]
    /\ UserRoles \in [Users -> SUBSET (Roles \cup Features)]
    /\ Uint16Range \in Nat \ {0}
    /\ HiveIds \subseteq 0 .. Uint16Range - 1
    /\ IsFiniteSet(CategoryNames) /\ Cardinality(CategoryNames) < Uint16Range
    /\ IntelligencePod \in CategoryNames
    /\ Custodies \in [Tokens -> SUBSET Custody]
    /\ Masks \subseteq SUBSET Features

CategoryIds == 0 .. Cardinality(CategoryNames)
Places == HiveIds \X CategoryIds

VARIABLES
    features,
    whitelistedPods,
    hives,                   \* Seq of the pods that created the hives
    hiveIndex,               \* pod -> id of its hive, or 0
    hiveToken,               \* hive id -> its ERC20 token, or NoAddress
    hiveURI,                 \* hive id -> URI
    globalCategories,        \* category id -> allowedCollection
    categoryIndex,           \* category name -> its id, or 0
    assetCatalogue,          \* <<hive id, category id>> -> Seq of the linked NFTs
    linkedAssets,            \* NFT -> AssetLinkDetails
    totalNumOfAssetsLinked,
    custody                  \* external: where every NFT is

hiveVars == <<whitelistedPods, hives, hiveIndex, hiveToken, hiveURI>>
categoryVars == <<globalCategories, categoryIndex>>
linkVars == <<assetCatalogue, linkedAssets, totalNumOfAssetsLinked>>
vars == <<features, hiveVars, categoryVars, linkVars, custody>>

uint16(n) == n % Uint16Range

AssetLinkDetails ==
    [hiveId : HiveIds \cup {0}, categoryId : CategoryIds, assetIndex : 0 .. Uint16Range - 1]

NotLinked == [hiveId |-> 0, categoryId |-> 0, assetIndex |-> 0]

IsLinked(t) == linkedAssets[t].hiveId # 0
PlaceOf(t) == <<linkedAssets[t].hiveId, linkedAssets[t].categoryId>>

Init ==
    /\ features = {}
    /\ whitelistedPods = {}
    /\ hives = <<>>
    /\ hiveIndex = [t \in Tokens |-> 0]
    /\ hiveToken = <<>>
    /\ hiveURI = <<>>
    /\ globalCategories = <<personalityContract>>
    /\ categoryIndex = [n \in CategoryNames |-> IF n = IntelligencePod THEN 1 ELSE 0]
    /\ assetCatalogue = [p \in Places |-> <<>>]
    /\ linkedAssets = [t \in Tokens |-> NotLinked]
    /\ totalNumOfAssetsLinked = 0
    /\ custody \in [Tokens -> Custody]
    /\ \A t \in Tokens : custody[t] \in Custodies[t]
-----------------------------------------------------------------------------
(* Access *)

isOperatorInRole(account, role) == role \in UserRoles[account]

updateFeatures(sender, mask) ==
    /\ isOperatorInRole(sender, ROLE_ACCESS_MANAGER)
    /\ features' = EvaluateBy(UserRoles[sender], features, mask)
    /\ UNCHANGED <<hiveVars, categoryVars, linkVars, custody>>

whitelistPods(sender, pods) ==
    /\ isOperatorInRole(sender, ROLE_POD_WHITELIST_MANAGER)
    /\ whitelistedPods' = whitelistedPods \cup pods
    /\ UNCHANGED <<features, hives, hiveIndex, hiveToken, hiveURI, categoryVars, linkVars, custody>>

delistPods(sender, pods) ==
    /\ isOperatorInRole(sender, ROLE_POD_WHITELIST_MANAGER)
    /\ whitelistedPods' = whitelistedPods \ pods
    /\ UNCHANGED <<features, hives, hiveIndex, hiveToken, hiveURI, categoryVars, linkVars, custody>>

\* The deposit of an NFT counts for pods only; ownerOf of a burnt NFT reverts.
Controls(sender, t) ==
    /\ custody[t] # Burnt
    /\ custody[t].user = sender
    /\ custody[t].place = "wallet" \/ t \in Pods
-----------------------------------------------------------------------------
(* Hives *)

\* Mistakes for mutants: a linked pod, or a pod with a hive, creates a hive.
MayCreateLinked(sender, pod) ==
    /\ pod \in whitelistedPods
    /\ Controls(sender, pod)
    /\ hiveIndex[pod] = 0

MayCreateAgain(sender, pod) ==
    /\ pod \in whitelistedPods
    /\ Controls(sender, pod)
    /\ ~IsLinked(pod)

MayCreate(sender, pod) ==
    /\ pod \in whitelistedPods
    /\ Controls(sender, pod)
    /\ hiveIndex[pod] = 0
    /\ ~IsLinked(pod)

createHive(sender, pod, uri) ==
    /\ FEATURE_ALLOW_HIVE_CREATION \in features
    /\ MayCreate(sender, pod)
    /\ hives' = Append(hives, pod)
    /\ hiveIndex' = [hiveIndex EXCEPT ![pod] = Len(hives')]
    /\ hiveToken' = Append(hiveToken, NoAddress)
    /\ hiveURI' = Append(hiveURI, uri)
    /\ UNCHANGED <<features, whitelistedPods, categoryVars, linkVars, custody>>

setHiveTokenAddress(sender, id, token) ==
    /\ isOperatorInRole(sender, ROLE_HIVE_TOKEN_MANAGER)
    /\ id \in DOMAIN hives
    /\ hiveToken[id] = NoAddress
    /\ hiveToken' = [hiveToken EXCEPT ![id] = token]
    /\ UNCHANGED <<features, whitelistedPods, hives, hiveIndex, hiveURI, categoryVars, linkVars,
                   custody>>

updateHiveURI(sender, id, uri) ==
    /\ id \in DOMAIN hives
    /\ Controls(sender, hives[id])
    /\ hiveURI' = [hiveURI EXCEPT ![id] = uri]
    /\ UNCHANGED <<features, whitelistedPods, hives, hiveIndex, hiveToken, categoryVars, linkVars,
                   custody>>

addCategory(sender, name, allowedCollection) ==
    /\ isOperatorInRole(sender, ROLE_CATEGORY_MANAGER)
    /\ categoryIndex[name] = 0
    /\ globalCategories' = Append(globalCategories, allowedCollection)
    /\ categoryIndex' = [categoryIndex EXCEPT ![name] = uint16(Len(globalCategories'))]
    /\ UNCHANGED <<features, hiveVars, linkVars, custody>>
-----------------------------------------------------------------------------
(* Assets *)

\* Id 0, which an unknown name leads to, is the dummy category open to everything.
AllowedCollection(c) == IF c = 0 THEN NoAddress ELSE globalCategories[c]

\* Mistake for a mutant: the dummy category is not excluded.
ValidCategoryOrNone(c) == c < Len(globalCategories) + 1

ValidCategory(c) == c > 0 /\ c < Len(globalCategories) + 1

\* Mistake for a mutant: an asset that is linked is linked again.
MayLinkAgain(sender, t, h, c) ==
    /\ Controls(sender, t)
    /\ h > 0
    /\ ValidCategory(c)
    /\ AllowedCollection(c) \in {NoAddress, Collection[t]}
    /\ hiveIndex[t] = 0

MayLink(sender, t, h, c) ==
    /\ Controls(sender, t)
    /\ h > 0
    /\ ValidCategory(c)
    /\ AllowedCollection(c) \in {NoAddress, Collection[t]}
    /\ ~IsLinked(t)
    /\ hiveIndex[t] = 0

linkAsset(sender, asset, hiveId, categoryId) ==
    LET place == <<hiveId, categoryId>> IN
    /\ FEATURE_ALLOW_ASSET_LINKING \in features
    /\ MayLink(sender, asset, hiveId, categoryId)
    /\ totalNumOfAssetsLinked' = totalNumOfAssetsLinked + 1
    /\ assetCatalogue' = [assetCatalogue EXCEPT ![place] = Append(@, asset)]
    /\ linkedAssets' = [linkedAssets EXCEPT ![asset] =
          [hiveId |-> hiveId, categoryId |-> categoryId,
           assetIndex |-> uint16(Len(assetCatalogue[place]))]]
    /\ UNCHANGED <<features, hiveVars, categoryVars, custody>>

linkAssetByName(sender, asset, hiveId, name) ==
    linkAsset(sender, asset, hiveId, categoryIndex[name])

\* Position of an asset in its list, which a sequence counts from one
Position(t) == linkedAssets[t].assetIndex + 1

\* The reads, the pop and the subtraction in unlinkAsset that could revert
Unlinkable(t) ==
    LET list == assetCatalogue[PlaceOf(t)] IN
    /\ Len(list) > 0
    /\ Len(list) = 1 \/ Position(t) <= Len(list)
    /\ totalNumOfAssetsLinked > 0

\* Mistake for a mutant: the others keep their order, which their indexes do not follow.
ClosedInOrder(list, gap) ==
    [i \in 1 .. Len(list) - 1 |-> IF i >= gap THEN list[i + 1] ELSE list[i]]

\* The list without its last asset, which fills the gap
Closed(list, gap) ==
    [i \in 1 .. Len(list) - 1 |-> IF i = gap THEN list[Len(list)] ELSE list[i]]

\* Mistake for a mutant: the asset that was moved keeps its old index.
RelinkedStale(asset, list) == [linkedAssets EXCEPT ![asset] = NotLinked]

\* The last asset gets the index of the one that leaves.
Relinked(asset, list) ==
    [linkedAssets EXCEPT
       ![list[Len(list)]].assetIndex = IF Len(list) > 1 THEN linkedAssets[asset].assetIndex ELSE @,
       ![asset] = NotLinked]

unlinkAsset(sender, asset) ==
    /\ FEATURE_ALLOW_ASSET_UNLINKING \in features
    /\ IsLinked(asset)
    /\ Controls(sender, asset)
    /\ Unlinkable(asset)
    /\ assetCatalogue' = [assetCatalogue EXCEPT ![PlaceOf(asset)] = Closed(@, Position(asset))]
    /\ linkedAssets' = Relinked(asset, assetCatalogue[PlaceOf(asset)])
    /\ totalNumOfAssetsLinked' = totalNumOfAssetsLinked - 1
    /\ UNCHANGED <<features, hiveVars, categoryVars, custody>>

\* External: an NFT is transferred, staked, fused, returned or burnt.
changeCustody(t, place) ==
    /\ custody' = [custody EXCEPT ![t] = place]
    /\ UNCHANGED <<features, hiveVars, categoryVars, linkVars>>
-----------------------------------------------------------------------------
(* Specification *)

Administer ==
    \E sender \in Users :
       \/ \E mask \in Masks : updateFeatures(sender, mask)
       \/ \E pods \in SUBSET Pods : whitelistPods(sender, pods) \/ delistPods(sender, pods)
       \/ \E name \in CategoryNames, collection \in Collections \cup {NoAddress} :
             addCategory(sender, name, collection)
       \/ \E id \in HiveIds, token \in HiveTokens \cup {NoAddress} :
             setHiveTokenAddress(sender, id, token)

Hive ==
    \E sender \in Users :
       \/ \E pod \in Pods, uri \in URIs : createHive(sender, pod, uri)
       \/ \E id \in HiveIds, uri \in URIs : updateHiveURI(sender, id, uri)

Assets ==
    \E sender \in Users, asset \in Tokens :
       \/ \E hiveId \in HiveIds : \/ \E id \in CategoryIds : linkAsset(sender, asset, hiveId, id)
                                  \/ \E name \in CategoryNames :
                                        linkAssetByName(sender, asset, hiveId, name)
       \/ unlinkAsset(sender, asset)

Environment == \E t \in Tokens : \E place \in Custodies[t] : changeCustody(t, place)

Next == Administer \/ Hive \/ Assets \/ Environment

Spec == Init /\ [][Next]_vars
-----------------------------------------------------------------------------
(* Safety *)

TypeOK ==
    /\ features \subseteq Features
    /\ whitelistedPods \subseteq Pods
    /\ hives \in Seq(Pods)
    /\ hiveIndex \in [Tokens -> Nat]
    /\ hiveToken \in Seq(HiveTokens \cup {NoAddress}) /\ Len(hiveToken) = Len(hives)
    /\ hiveURI \in Seq(URIs) /\ Len(hiveURI) = Len(hives)
    /\ globalCategories \in Seq(Collections \cup {NoAddress})
    /\ categoryIndex \in [CategoryNames -> CategoryIds]
    /\ assetCatalogue \in [Places -> Seq(Tokens)]
    /\ linkedAssets \in [Tokens -> AssetLinkDetails]
    /\ \A t \in Tokens : IsLinked(t) => linkedAssets[t].categoryId \in DOMAIN globalCategories
    /\ totalNumOfAssetsLinked \in Nat
    /\ custody \in [Tokens -> Custody]

\* "Index of an asset within the linked asset array" (HiveRegistry.sol:53): the record
\* of an asset leads to the asset, so that unlinking takes out this one.
IndexOfAsset ==
    \A t \in Tokens : IsLinked(t) =>
       /\ Position(t) \in DOMAIN assetCatalogue[PlaceOf(t)]
       /\ assetCatalogue[PlaceOf(t)][Position(t)] = t

\* An asset is linked with a place and an index if and only if it stands at that
\* index of the list of that place, after any sequence of links and unlinks that
\* move other assets around: the list and the record never name different assets.
IndexCorrect ==
    /\ IndexOfAsset
    /\ \A p \in Places : \A i \in DOMAIN assetCatalogue[p] :
          LET t == assetCatalogue[p][i] IN IsLinked(t) /\ PlaceOf(t) = p /\ Position(t) = i

\* "NFT which created a Hive cannot join the same Hive, or any other Hive": whichever
\* comes first, whoever holds the NFT by then.
FoundsOrJoins == \A t \in Tokens : hiveIndex[t] = 0 \/ ~IsLinked(t)

\* A hive is bound to one pod and a pod to one hive: array and index agree.
HiveIndexInverse ==
    /\ \A id \in DOMAIN hives : hiveIndex[hives[id]] = id
    /\ \A t \in Tokens : hiveIndex[t] # 0 =>
          hiveIndex[t] \in DOMAIN hives /\ hives[hiveIndex[t]] = t

\* Who holds a linked NFT can take it out of its hive: no array access and no
\* subtraction in unlinkAsset reverts, whatever was linked and unlinked before.
OwnerCanUnlink == \A t \in Tokens : IsLinked(t) => Unlinkable(t)

Membership == INSTANCE HiveMembership WITH
    founders <- Range(hives),
    members <- [p \in Places |-> Range(assetCatalogue[p])],
    number <- totalNumOfAssetsLinked

\* The lists implement a plain set of members per hive and category: linking and
\* unlinking one NFT never moves, drops or duplicates another one, and the counter
\* counts the members.
ImplementsMembership == Membership!Spec
=============================================================================
