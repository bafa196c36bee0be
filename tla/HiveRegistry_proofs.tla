------------------------- MODULE HiveRegistry_proofs -------------------------
(***************************************************************************)
(* Proofs about the contract of the hive registry: the hives, for any      *)
(* number of users, NFTs, hives and categories, where what is assumed of   *)
(* the bounds is FewerThanIndexes, and at the end the registration of DPTs.*)
(***************************************************************************)
EXTENDS HiveRegistry, DPTRegistration, FiniteSetTheorems, TLAPS

\* The index of an asset in its list fits the 16 bits it is stored in.
FewerThanIndexes == Cardinality(Tokens) <= Uint16Range

\* The counter counts the linked assets: without it its decrement could revert.
Counted == totalNumOfAssetsLinked = Cardinality({t \in Tokens : IsLinked(t)})

\* Every category has a name of its own: without it their number has no bound.
CategoriesCounted ==
    Len(globalCategories) = Cardinality({m \in CategoryNames : categoryIndex[m] # 0})

\* What the invariant says about the links
LinkInv ==
    /\ assetCatalogue \in [Places -> Seq(Tokens)]
    /\ linkedAssets \in [Tokens -> AssetLinkDetails]
    /\ totalNumOfAssetsLinked \in Nat
    /\ IndexCorrect
    /\ Counted

\* What the invariant says about the hives
HiveInv ==
    /\ hives \in Seq(Pods)
    /\ hiveIndex \in [Tokens -> Nat]
    /\ hiveToken \in Seq(HiveTokens \cup {NoAddress}) /\ Len(hiveToken) = Len(hives)
    /\ hiveURI \in Seq(URIs) /\ Len(hiveURI) = Len(hives)
    /\ HiveIndexInverse

\* What the invariant says about the categories
CategoryInv ==
    /\ globalCategories \in Seq(Collections \cup {NoAddress})
    /\ categoryIndex \in [CategoryNames -> CategoryIds]
    /\ CategoriesCounted

\* What the invariant says about the rest
OutsideInv ==
    /\ features \subseteq Features
    /\ whitelistedPods \subseteq Pods
    /\ custody \in [Tokens -> Custody]

\* What ties links to hives and categories
RelationInv ==
    /\ FoundsOrJoins
    /\ \A t \in Tokens : IsLinked(t) => linkedAssets[t].categoryId \in DOMAIN globalCategories

\* The inductive invariant
IInv ==
    /\ TypeOK /\ IndexCorrect /\ FoundsOrJoins /\ HiveIndexInverse
    /\ Counted /\ CategoriesCounted

\* The invariant is the conjunction of its parts.
LEMMA Parts ==
  /\ IInv <=> LinkInv /\ HiveInv /\ CategoryInv /\ RelationInv /\ OutsideInv
  /\ IInv' <=> LinkInv' /\ HiveInv' /\ CategoryInv' /\ RelationInv' /\ OutsideInv'
  BY DEF IInv, LinkInv, HiveInv, CategoryInv, RelationInv, OutsideInv, TypeOK

\* Each part holds after a step that leaves its variables alone.
LEMMA Untouched ==
  /\ LinkInv /\ UNCHANGED linkVars => LinkInv'
  /\ HiveInv /\ UNCHANGED hiveVars => HiveInv'
  /\ CategoryInv /\ UNCHANGED categoryVars => CategoryInv'
  /\ RelationInv /\ UNCHANGED <<linkVars, hiveVars, categoryVars>> => RelationInv'
  /\ OutsideInv /\ UNCHANGED <<features, whitelistedPods, custody>> => OutsideInv'
<1>1. LinkInv /\ UNCHANGED linkVars => LinkInv'
  BY DEF LinkInv, linkVars, IndexCorrect, IndexOfAsset, Counted, IsLinked, PlaceOf, Position
<1>2. HiveInv /\ UNCHANGED hiveVars => HiveInv'
  BY DEF HiveInv, hiveVars, HiveIndexInverse
<1>3. CategoryInv /\ UNCHANGED categoryVars => CategoryInv'
  BY DEF CategoryInv, categoryVars, CategoriesCounted
<1>4. RelationInv /\ UNCHANGED <<linkVars, hiveVars, categoryVars>> => RelationInv'
  BY DEF RelationInv, linkVars, hiveVars, categoryVars, FoundsOrJoins, IsLinked
<1>5. OutsideInv /\ UNCHANGED <<features, whitelistedPods, custody>> => OutsideInv'
  BY DEF OutsideInv
<1> QED BY <1>1, <1>2, <1>3, <1>4, <1>5
-----------------------------------------------------------------------------
(* Lists *)

\* A number below 2^16 survives the conversion.
LEMMA Uint16Keeps ==
  ASSUME NEW n \in Nat, n < Uint16Range
  PROVE  uint16(n) = n
<1>1. Uint16Range \in Nat \ {0}
  BY HiveAssumption
<1>2. \A r \in Nat \ {0} : n < r => n % r = n
  OBVIOUS
<1> QED BY <1>1, <1>2 DEF uint16

\* Closing a gap keeps the list a list, one shorter: every other asset stays where it
\* was but the last one, which stands at the gap.
LEMMA ClosedIsList ==
  ASSUME NEW T, NEW list \in Seq(T), NEW gap \in 1 .. Len(list)
  PROVE  /\ Closed(list, gap) \in Seq(T)
         /\ Len(Closed(list, gap)) = Len(list) - 1
         /\ \A i \in 1 .. Len(list) - 1 :
              Closed(list, gap)[i] = IF i = gap THEN list[Len(list)] ELSE list[i]
<1>1. Len(list) - 1 \in Nat
  OBVIOUS
<1>2. \A i \in 1 .. Len(list) - 1 : (IF i = gap THEN list[Len(list)] ELSE list[i]) \in T
  OBVIOUS
<1> QED BY <1>1, <1>2 DEF Closed

\* A list of linked assets has no asset twice, so that it leaves an index for one more.
LEMMA ListsFit ==
  ASSUME LinkInv, FewerThanIndexes,
         NEW p \in Places, NEW t \in Tokens, ~IsLinked(t)
  PROVE  Len(assetCatalogue[p]) < Uint16Range
<1> DEFINE list == assetCatalogue[p]
           n == Len(list)
           others == Tokens \ {t}
<1>1. list \in Seq(Tokens) /\ n \in Nat
  BY DEF LinkInv
<1>2. \A i \in 1 .. n : list[i] \in others
  BY <1>1 DEF LinkInv, IndexCorrect
<1>3. \A i, j \in 1 .. n : list[i] = list[j] => i = j
  <2> SUFFICES ASSUME NEW i \in 1 .. n, NEW j \in 1 .. n, list[i] = list[j] PROVE i = j
    OBVIOUS
  <2>1. Position(list[i]) = i /\ Position(list[j]) = j
    BY <1>1 DEF LinkInv, IndexCorrect
  <2> QED BY <2>1
<1>4. [i \in 1 .. n |-> list[i]] \in Injection(1 .. n, others)
  BY <1>2, <1>3 DEF Injection, IsInjective
<1>5. IsFiniteSet(Tokens)
  BY HiveAssumption
<1>6. IsFiniteSet(others) /\ Cardinality(others) = Cardinality(Tokens) - 1
  BY <1>5, FS_RemoveElement
<1>7. Cardinality(1 .. n) <= Cardinality(others)
  BY <1>4, <1>6, FS_Injection
<1>8. Cardinality(1 .. n) = n
  BY <1>1, FS_Interval
<1>9. Cardinality(Tokens) \in Nat /\ Uint16Range \in Nat
  BY <1>5, FS_CardinalityType, HiveAssumption
<1> QED BY <1>1, <1>6, <1>7, <1>8, <1>9 DEF FewerThanIndexes
-----------------------------------------------------------------------------
(* Links *)

\* Linking an asset appends it with the index of its place in the list.
LEMMA LinkKeeps ==
  ASSUME LinkInv, FewerThanIndexes,
         NEW sender \in Users, NEW asset \in Tokens, NEW h \in HiveIds, NEW c \in CategoryIds,
         linkAsset(sender, asset, h, c)
  PROVE  LinkInv'
<1> DEFINE place == <<h, c>>
           list == assetCatalogue[place]
           n == Len(list)
<1>1. place \in Places /\ h > 0 /\ ~IsLinked(asset) /\ h \in Nat
  BY HiveAssumption DEF linkAsset, MayLink, Places
<1>2. list \in Seq(Tokens) /\ n \in Nat
  BY <1>1 DEF LinkInv
<1>3. uint16(n) = n /\ n \in 0 .. Uint16Range - 1
  <2>1. n < Uint16Range
    BY <1>1, ListsFit
  <2>2. Uint16Range \in Nat
    BY HiveAssumption
  <2> QED BY <1>2, <2>1, <2>2, Uint16Keeps
<1> DEFINE details == [hiveId |-> h, categoryId |-> c, assetIndex |-> n]
<1>4. /\ linkedAssets' = [linkedAssets EXCEPT ![asset] = details]
      /\ assetCatalogue' = [assetCatalogue EXCEPT ![place] = Append(list, asset)]
      /\ totalNumOfAssetsLinked' = totalNumOfAssetsLinked + 1
  BY <1>3 DEF linkAsset
<1>5. details \in AssetLinkDetails
  BY <1>3 DEF AssetLinkDetails
<1>6. /\ assetCatalogue' \in [Places -> Seq(Tokens)]
      /\ linkedAssets' \in [Tokens -> AssetLinkDetails]
      /\ totalNumOfAssetsLinked' \in Nat
  BY <1>1, <1>2, <1>4, <1>5 DEF LinkInv
<1>7. /\ linkedAssets'[asset] = details
      /\ \A t \in Tokens \ {asset} : linkedAssets'[t] = linkedAssets[t]
      /\ \A p \in Places \ {place} : assetCatalogue'[p] = assetCatalogue[p]
  BY <1>1, <1>4 DEF LinkInv
<1>8. /\ DOMAIN assetCatalogue'[place] = 1 .. n + 1
      /\ assetCatalogue'[place][n + 1] = asset
      /\ DOMAIN list = 1 .. n
      /\ \A i \in 1 .. n : assetCatalogue'[place][i] = list[i]
  <2>1. assetCatalogue'[place] = Append(list, asset)
    BY <1>1, <1>4 DEF LinkInv
  <2> QED BY <2>1, <1>2
<1>9. IndexOfAsset'
  <2> SUFFICES ASSUME NEW t \in Tokens, IsLinked(t)'
               PROVE  /\ Position(t)' \in DOMAIN assetCatalogue'[PlaceOf(t)']
                      /\ assetCatalogue'[PlaceOf(t)'][Position(t)'] = t
    BY DEF IndexOfAsset
  <2>1. CASE t = asset
    <3>1. PlaceOf(t)' = place /\ Position(t)' = n + 1
      BY <2>1, <1>7 DEF Position, PlaceOf
    <3> QED BY <2>1, <3>1, <1>2, <1>8
  <2>2. CASE t # asset
    <3>1. /\ IsLinked(t) /\ PlaceOf(t)' = PlaceOf(t) /\ Position(t)' = Position(t)
          /\ PlaceOf(t) \in Places
      BY <2>2, <1>7 DEF IsLinked, PlaceOf, Position, LinkInv, AssetLinkDetails, Places
    <3>2. /\ Position(t) \in DOMAIN assetCatalogue[PlaceOf(t)]
          /\ assetCatalogue[PlaceOf(t)][Position(t)] = t
      BY <3>1 DEF LinkInv, IndexCorrect, IndexOfAsset
    <3>3. CASE PlaceOf(t) = place
      BY <3>1, <3>2, <3>3, <1>2, <1>8
    <3>4. CASE PlaceOf(t) # place
      BY <3>1, <3>2, <3>4, <1>7
    <3> QED BY <3>3, <3>4
  <2> QED BY <2>1, <2>2
<1>10. ASSUME NEW p \in Places, NEW i \in DOMAIN assetCatalogue'[p],
              NEW t, t = assetCatalogue'[p][i]
       PROVE  IsLinked(t)' /\ PlaceOf(t)' = p /\ Position(t)' = i
  <2>1. CASE p = place /\ i = n + 1
    BY <2>1, <1>1, <1>7, <1>8, <1>10 DEF IsLinked, PlaceOf, Position
  <2>2. CASE ~(p = place /\ i = n + 1)
    <3>1. i \in DOMAIN assetCatalogue[p] /\ t = assetCatalogue[p][i]
      BY <2>2, <1>2, <1>7, <1>8, <1>10
    <3>2. IsLinked(t) /\ PlaceOf(t) = p /\ Position(t) = i
      BY <3>1 DEF LinkInv, IndexCorrect
    <3>3. t \in Tokens \ {asset}
      BY <3>1, <3>2, <1>1 DEF LinkInv
    <3> QED BY <3>2, <3>3, <1>7 DEF IsLinked, PlaceOf, Position
  <2> QED BY <2>1, <2>2
<1>11. Counted'
  <2> DEFINE linked == {t \in Tokens : IsLinked(t)}
  <2>1. {t \in Tokens : IsLinked(t)'} = linked \cup {asset}
    BY <1>1, <1>7 DEF IsLinked
  <2>2. IsFiniteSet(linked)
    BY HiveAssumption, FS_Subset
  <2>3. Cardinality(linked \cup {asset}) = Cardinality(linked) + 1
    BY <1>1, <2>2, FS_AddElement
  <2> QED BY <2>1, <2>3, <1>4 DEF Counted, LinkInv
<1>12. IndexCorrect'
  BY <1>9, <1>10 DEF IndexCorrect
<1> QED BY <1>6, <1>11, <1>12 DEF LinkInv

\* An asset that is linked can be unlinked.
LEMMA LinkedIsUnlinkable ==
  ASSUME LinkInv, NEW t \in Tokens, IsLinked(t)
  PROVE  /\ PlaceOf(t) \in Places
         /\ Position(t) \in 1 .. Len(assetCatalogue[PlaceOf(t)])
         /\ assetCatalogue[PlaceOf(t)][Position(t)] = t
         /\ Unlinkable(t)
<1>1. PlaceOf(t) \in Places
  BY DEF IsLinked, PlaceOf, LinkInv, AssetLinkDetails, Places
<1>2. /\ Position(t) \in 1 .. Len(assetCatalogue[PlaceOf(t)])
      /\ assetCatalogue[PlaceOf(t)][Position(t)] = t
  BY <1>1 DEF LinkInv, IndexCorrect, IndexOfAsset
<1>3. totalNumOfAssetsLinked > 0
  <2> DEFINE linked == {u \in Tokens : IsLinked(u)}
  <2>1. IsFiniteSet(linked) /\ linked # {}
    BY HiveAssumption, FS_Subset
  <2>2. Cardinality(linked) # 0
    BY <2>1, FS_EmptySet
  <2> QED BY <2>2 DEF LinkInv, Counted
<1>4. assetCatalogue[PlaceOf(t)] \in Seq(Tokens)
  BY <1>1 DEF LinkInv
<1>5. Unlinkable(t)
  BY <1>2, <1>3, <1>4 DEF Unlinkable
<1> QED BY <1>1, <1>2, <1>5

\* What unlinking changes: the list closes its gap, the last asset takes the index.
Unlinking(asset, place, list, n, gap, last) ==
    /\ place = PlaceOf(asset) /\ list = assetCatalogue[place] /\ n = Len(list)
    /\ gap = Position(asset) /\ last = list[n]
    /\ place \in Places /\ list \in Seq(Tokens) /\ n \in Nat /\ gap \in 1 .. n
    /\ list[gap] = asset /\ last \in Tokens
    /\ last = asset <=> gap = n
    /\ assetCatalogue' \in [Places -> Seq(Tokens)]
    /\ linkedAssets' \in [Tokens -> AssetLinkDetails]
    /\ DOMAIN assetCatalogue'[place] = 1 .. n - 1
    /\ \A i \in 1 .. n - 1 : assetCatalogue'[place][i] = IF i = gap THEN last ELSE list[i]
    /\ \A p \in Places \ {place} : assetCatalogue'[p] = assetCatalogue[p]
    /\ linkedAssets'[asset] = NotLinked
    /\ last # asset => linkedAssets'[last] = [linkedAssets[last] EXCEPT !.assetIndex = gap - 1]
    /\ \A t \in Tokens \ {asset, last} : linkedAssets'[t] = linkedAssets[t]
    /\ IsLinked(asset) /\ totalNumOfAssetsLinked' = totalNumOfAssetsLinked - 1

\* unlinkAsset does that.
LEMMA UnlinkEffect ==
  ASSUME LinkInv, NEW sender \in Users, NEW asset \in Tokens, unlinkAsset(sender, asset)
  PROVE  \E place, list, n, gap, last : Unlinking(asset, place, list, n, gap, last)
<1>0. PICK place, list, n, gap, last :
        /\ place = PlaceOf(asset) /\ list = assetCatalogue[place] /\ n = Len(list)
        /\ gap = Position(asset) /\ last = list[n]
  OBVIOUS
<1>1. /\ IsLinked(asset)
      /\ totalNumOfAssetsLinked' = totalNumOfAssetsLinked - 1
      /\ assetCatalogue' = [assetCatalogue EXCEPT ![place] = Closed(list, gap)]
      /\ linkedAssets' = Relinked(asset, list)
  BY <1>0 DEF unlinkAsset
<1>2. place \in Places /\ gap \in 1 .. Len(list) /\ list[gap] = asset
  BY <1>0, <1>1, LinkedIsUnlinkable
<1>3. list \in Seq(Tokens) /\ n \in Nat
  BY <1>0, <1>2 DEF LinkInv
<1>4. last \in Tokens /\ n \in DOMAIN list
  BY <1>0, <1>2, <1>3
<1>5. last = asset <=> gap = n
  <2>1. Position(last) = n
    BY <1>0, <1>2, <1>4 DEF LinkInv, IndexCorrect
  <2> QED BY <1>0, <2>1, <1>2
<1>6. /\ Closed(list, gap) \in Seq(Tokens)
      /\ Len(Closed(list, gap)) = n - 1
      /\ \A i \in 1 .. n - 1 : Closed(list, gap)[i] = IF i = gap THEN last ELSE list[i]
  <2>1. list \in Seq(Tokens) /\ gap \in 1 .. Len(list)
    BY <1>0, <1>2, <1>3
  <2>2. /\ Closed(list, gap) \in Seq(Tokens)
        /\ Len(Closed(list, gap)) = Len(list) - 1
        /\ \A i \in 1 .. Len(list) - 1 :
             Closed(list, gap)[i] = IF i = gap THEN list[Len(list)] ELSE list[i]
    BY ONLY <2>1, ClosedIsList
  <2> QED BY <1>0, <2>2
<1>7. /\ assetCatalogue' \in [Places -> Seq(Tokens)]
      /\ assetCatalogue'[place] = Closed(list, gap)
      /\ \A p \in Places \ {place} : assetCatalogue'[p] = assetCatalogue[p]
  BY <1>0, <1>1, <1>2, <1>6 DEF LinkInv
<1>8. DOMAIN assetCatalogue'[place] = 1 .. n - 1
  BY <1>6, <1>7
<1>9. linkedAssets[asset].assetIndex = gap - 1 /\ gap - 1 \in 0 .. Uint16Range - 1
  <2>1. linkedAssets[asset] \in AssetLinkDetails
    BY DEF LinkInv
  <2>2. linkedAssets[asset].assetIndex \in 0 .. Uint16Range - 1
    BY <2>1 DEF AssetLinkDetails
  <2> QED BY <1>0, <2>2, HiveAssumption DEF Position
<1>10. /\ linkedAssets'[asset] = NotLinked
       /\ \A t \in Tokens \ {asset, last} : linkedAssets'[t] = linkedAssets[t]
       /\ DOMAIN linkedAssets' = Tokens
  BY <1>0, <1>1, <1>4 DEF Relinked, LinkInv
<1>11. last # asset => linkedAssets'[last] = [linkedAssets[last] EXCEPT !.assetIndex = gap - 1]
  <2> SUFFICES ASSUME last # asset
               PROVE  linkedAssets'[last] = [linkedAssets[last] EXCEPT !.assetIndex = gap - 1]
    OBVIOUS
  <2>1. n > 1
    BY <1>0, <1>2, <1>3, <1>5
  <2> QED BY <1>0, <2>1, <1>1, <1>4, <1>9 DEF Relinked, LinkInv
<1>12. NotLinked \in AssetLinkDetails
  <2>1. 0 \in CategoryIds
    BY HiveAssumption, FS_CardinalityType DEF CategoryIds
  <2>2. 0 \in 0 .. Uint16Range - 1
    BY HiveAssumption
  <2> QED BY <2>1, <2>2 DEF NotLinked, AssetLinkDetails
<1>13. [linkedAssets[last] EXCEPT !.assetIndex = gap - 1] \in AssetLinkDetails
  BY <1>4, <1>9 DEF LinkInv, AssetLinkDetails
<1>14. linkedAssets' \in [Tokens -> AssetLinkDetails]
  <2>1. \A t \in Tokens : linkedAssets'[t] \in AssetLinkDetails
    BY <1>10, <1>11, <1>12, <1>13 DEF LinkInv
  <2>2. linkedAssets' = [t \in Tokens |-> linkedAssets'[t]]
    BY <1>1, <1>10 DEF Relinked
  <2> QED BY <2>1, <2>2
<1>15. Unlinking(asset, place, list, n, gap, last)
  BY <1>0, <1>1, <1>2, <1>3, <1>4, <1>5, <1>6, <1>7, <1>8, <1>10, <1>11, <1>14 DEF Unlinking
<1> QED BY <1>15

\* Unlinking an asset keeps every other one at the index its record names.
LEMMA UnlinkKeeps ==
  ASSUME LinkInv, NEW sender \in Users, NEW asset \in Tokens, unlinkAsset(sender, asset)
  PROVE  LinkInv'
<1>0. PICK place, list, n, gap, last : Unlinking(asset, place, list, n, gap, last)
  BY UnlinkEffect
<1>1. /\ place = PlaceOf(asset) /\ list = assetCatalogue[place] /\ n = Len(list)
      /\ gap = Position(asset) /\ last = list[n]
  BY <1>0 DEF Unlinking
<1>2. /\ place \in Places /\ list \in Seq(Tokens) /\ n \in Nat /\ gap \in 1 .. n
      /\ list[gap] = asset /\ last \in Tokens
      /\ last = asset <=> gap = n
  BY <1>0 DEF Unlinking
<1>3. /\ assetCatalogue' \in [Places -> Seq(Tokens)]
      /\ linkedAssets' \in [Tokens -> AssetLinkDetails]
  BY <1>0 DEF Unlinking
<1>4. /\ DOMAIN assetCatalogue'[place] = 1 .. n - 1
      /\ \A i \in 1 .. n - 1 : assetCatalogue'[place][i] = IF i = gap THEN last ELSE list[i]
      /\ \A p \in Places \ {place} : assetCatalogue'[p] = assetCatalogue[p]
  BY <1>0 DEF Unlinking
<1>5. /\ linkedAssets'[asset] = NotLinked
      /\ last # asset => linkedAssets'[last] = [linkedAssets[last] EXCEPT !.assetIndex = gap - 1]
      /\ \A t \in Tokens \ {asset, last} : linkedAssets'[t] = linkedAssets[t]
  BY <1>0 DEF Unlinking
<1>6. IsLinked(asset) /\ totalNumOfAssetsLinked' = totalNumOfAssetsLinked - 1
  BY <1>0 DEF Unlinking
<1>7. DOMAIN list = 1 .. n /\ n \in DOMAIN list
  BY <1>1, <1>2
<1>8. IsLinked(last) /\ PlaceOf(last) = place /\ Position(last) = n
  BY <1>1, <1>2, <1>7 DEF LinkInv, IndexCorrect
<1>9. last # asset => IsLinked(last)' /\ PlaceOf(last)' = place /\ Position(last)' = gap
  <2> SUFFICES ASSUME last # asset
               PROVE  IsLinked(last)' /\ PlaceOf(last)' = place /\ Position(last)' = gap
    OBVIOUS
  <2>1. linkedAssets[last] \in AssetLinkDetails
    BY <1>2 DEF LinkInv
  <2>2. /\ linkedAssets'[last].hiveId = linkedAssets[last].hiveId
        /\ linkedAssets'[last].categoryId = linkedAssets[last].categoryId
        /\ linkedAssets'[last].assetIndex = gap - 1
    BY <1>5, <2>1 DEF AssetLinkDetails
  <2>3. PlaceOf(last)' = PlaceOf(last) /\ IsLinked(last)'
    BY <1>8, <2>2 DEF PlaceOf, IsLinked
  <2>4. Position(last)' = gap
    BY <1>2, <2>2 DEF Position
  <2> QED BY <1>8, <2>3, <2>4
<1>10. ~IsLinked(asset)'
  BY <1>5 DEF IsLinked, NotLinked
<1>11. \A t \in Tokens \ {asset, last} :
         /\ IsLinked(t)' <=> IsLinked(t)
         /\ PlaceOf(t)' = PlaceOf(t) /\ Position(t)' = Position(t)
  BY <1>5 DEF IsLinked, PlaceOf, Position
<1>12. IndexOfAsset'
  <2> SUFFICES ASSUME NEW t \in Tokens, IsLinked(t)'
               PROVE  /\ Position(t)' \in DOMAIN assetCatalogue'[PlaceOf(t)']
                      /\ assetCatalogue'[PlaceOf(t)'][Position(t)'] = t
    BY DEF IndexOfAsset
  <2>1. t # asset
    BY <1>10
  <2>2. CASE t = last
    <3>1. gap \in 1 .. n - 1
      BY <2>1, <2>2, <1>2
    <3> QED BY <2>1, <2>2, <3>1, <1>9, <1>4
  <2>3. CASE t # last
    <3>1. IsLinked(t) /\ PlaceOf(t)' = PlaceOf(t) /\ Position(t)' = Position(t)
      BY <2>1, <2>3, <1>11
    <3>2. /\ PlaceOf(t) \in Places
          /\ Position(t) \in DOMAIN assetCatalogue[PlaceOf(t)]
          /\ assetCatalogue[PlaceOf(t)][Position(t)] = t
      BY <3>1, LinkedIsUnlinkable DEF LinkInv, IndexCorrect, IndexOfAsset
    <3>3. CASE PlaceOf(t) # place
      BY <3>1, <3>2, <3>3, <1>4
    <3>4. CASE PlaceOf(t) = place
      <4>1. Position(t) \in 1 .. n /\ list[Position(t)] = t
        BY <3>2, <3>4, <1>1, <1>7
      <4>2. Position(t) # n /\ Position(t) # gap
        BY <4>1, <2>1, <2>3, <1>1, <1>2
      <4>3. Position(t) \in 1 .. n - 1
        BY <4>1, <4>2, <1>2
      <4> QED BY <4>1, <4>2, <4>3, <3>1, <3>4, <1>4
    <3> QED BY <3>3, <3>4
  <2> QED BY <2>2, <2>3
<1>13. ASSUME NEW p \in Places, NEW i \in DOMAIN assetCatalogue'[p],
              NEW t, t = assetCatalogue'[p][i]
       PROVE  IsLinked(t)' /\ PlaceOf(t)' = p /\ Position(t)' = i
  <2>1. CASE p = place /\ i = gap
    <3>1. t = last /\ last # asset
      BY <2>1, <1>13, <1>4, <1>2
    <3> QED BY <2>1, <3>1, <1>9
  <2>2. CASE ~(p = place /\ i = gap)
    <3>1. i \in DOMAIN assetCatalogue[p] /\ t = assetCatalogue[p][i] /\ (p = place => i < n)
      <4>1. CASE p = place
        BY <4>1, <2>2, <1>13, <1>1, <1>2, <1>4, <1>7
      <4>2. CASE p # place
        BY <4>2, <1>13, <1>4
      <4> QED BY <4>1, <4>2
    <3>2. IsLinked(t) /\ PlaceOf(t) = p /\ Position(t) = i /\ t \in Tokens
      BY <3>1 DEF LinkInv, IndexCorrect
    <3>3. t # asset /\ t # last
      BY <3>1, <3>2, <2>2, <1>1, <1>2, <1>8
    <3> QED BY <3>2, <3>3, <1>11
  <2> QED BY <2>1, <2>2
<1>14. IndexCorrect'
  BY <1>12, <1>13 DEF IndexCorrect
<1>15. Counted' /\ totalNumOfAssetsLinked' \in Nat
  <2> DEFINE linked == {t \in Tokens : IsLinked(t)}
  <2>1. {t \in Tokens : IsLinked(t)'} = linked \ {asset}
    BY <1>8, <1>9, <1>10, <1>11
  <2>2. IsFiniteSet(linked)
    BY HiveAssumption, FS_Subset
  <2>3. Cardinality(linked \ {asset}) = Cardinality(linked) - 1
    BY <1>6, <2>2, FS_RemoveElement
  <2>4. Cardinality(linked \ {asset}) \in Nat
    BY <2>2, FS_RemoveElement, FS_CardinalityType
  <2> QED BY <2>1, <2>3, <2>4, <1>6 DEF Counted, LinkInv
<1> QED BY <1>3, <1>14, <1>15 DEF LinkInv

\* Only the asset that is unlinked loses its place, and no other one changes its own.
LEMMA UnlinkMovesNobody ==
  ASSUME LinkInv, NEW sender \in Users, NEW asset \in Tokens, unlinkAsset(sender, asset)
  PROVE  /\ IsLinked(asset)
         /\ \A t \in Tokens :
              /\ IsLinked(t)' <=> IsLinked(t) /\ t # asset
              /\ IsLinked(t)' => /\ linkedAssets'[t].hiveId = linkedAssets[t].hiveId
                                /\ linkedAssets'[t].categoryId = linkedAssets[t].categoryId
<1>0. PICK place, list, n, gap, last : Unlinking(asset, place, list, n, gap, last)
  BY UnlinkEffect
<1>1. /\ IsLinked(asset)
      /\ last \in Tokens
      /\ linkedAssets'[asset] = NotLinked
      /\ last # asset => linkedAssets'[last] = [linkedAssets[last] EXCEPT !.assetIndex = gap - 1]
      /\ \A t \in Tokens \ {asset, last} : linkedAssets'[t] = linkedAssets[t]
  BY <1>0 DEF Unlinking
<1>2. linkedAssets[last] \in AssetLinkDetails
  BY <1>1 DEF LinkInv
<1>3. last # asset => /\ linkedAssets'[last].hiveId = linkedAssets[last].hiveId
                      /\ linkedAssets'[last].categoryId = linkedAssets[last].categoryId
  BY <1>1, <1>2 DEF AssetLinkDetails
<1>4. ~IsLinked(asset)'
  BY <1>1 DEF IsLinked, NotLinked
<1> QED BY <1>1, <1>3, <1>4 DEF IsLinked
-----------------------------------------------------------------------------
(* Categories and hives *)

\* A new category takes the next id, which 16 bits hold as long as they hold the names.
LEMMA AddCategoryKeeps ==
  ASSUME CategoryInv, NEW sender \in Users, NEW name \in CategoryNames,
         NEW collection \in Collections \cup {NoAddress}, addCategory(sender, name, collection)
  PROVE  CategoryInv'
<1> DEFINE named == {m \in CategoryNames : categoryIndex[m] # 0}
           n == Len(globalCategories)
<1>1. /\ categoryIndex[name] = 0
      /\ globalCategories' = Append(globalCategories, collection)
      /\ categoryIndex' = [categoryIndex EXCEPT ![name] = uint16(Len(globalCategories'))]
  BY DEF addCategory
<1>2. /\ globalCategories' \in Seq(Collections \cup {NoAddress})
      /\ Len(globalCategories') = n + 1 /\ n \in Nat
  BY <1>1 DEF CategoryInv
<1>3. IsFiniteSet(CategoryNames) /\ Cardinality(CategoryNames) \in Nat
      /\ Cardinality(CategoryNames) < Uint16Range /\ Uint16Range \in Nat
  BY HiveAssumption, FS_CardinalityType
<1>4. IsFiniteSet(named) /\ name \notin named
  BY <1>1, <1>3, FS_Subset
<1>5. Cardinality(named \cup {name}) = n + 1
  BY <1>4, FS_AddElement DEF CategoryInv, CategoriesCounted
<1>6. Cardinality(named \cup {name}) <= Cardinality(CategoryNames)
  <2>1. named \cup {name} \in SUBSET CategoryNames
    OBVIOUS
  <2> QED BY <2>1, <1>3, FS_Subset
<1>7. uint16(n + 1) = n + 1
  BY <1>2, <1>3, <1>5, <1>6, Uint16Keeps
<1>8. categoryIndex' = [categoryIndex EXCEPT ![name] = n + 1]
  BY <1>1, <1>2, <1>7
<1>9. categoryIndex' \in [CategoryNames -> CategoryIds]
  BY <1>2, <1>3, <1>5, <1>6, <1>8 DEF CategoryInv, CategoryIds
<1>10. {m \in CategoryNames : categoryIndex'[m] # 0} = named \cup {name}
  BY <1>2, <1>8 DEF CategoryInv
<1> QED BY <1>2, <1>5, <1>9, <1>10 DEF CategoryInv, CategoriesCounted

\* A new hive takes the next id, which no other pod has.
LEMMA CreateHiveKeeps ==
  ASSUME HiveInv, NEW sender \in Users, NEW pod \in Pods, NEW uri \in URIs,
         createHive(sender, pod, uri)
  PROVE  HiveInv'
<1> DEFINE n == Len(hives)
<1>1. /\ hiveIndex[pod] = 0
      /\ hives' = Append(hives, pod) /\ n \in Nat
      /\ hiveIndex' = [hiveIndex EXCEPT ![pod] = n + 1]
      /\ hiveToken' = Append(hiveToken, NoAddress)
      /\ hiveURI' = Append(hiveURI, uri)
  BY DEF createHive, MayCreate, HiveInv
<1>2. /\ hives' \in Seq(Pods)
      /\ hiveToken' \in Seq(HiveTokens \cup {NoAddress}) /\ Len(hiveToken') = Len(hives')
      /\ hiveURI' \in Seq(URIs) /\ Len(hiveURI') = Len(hives')
  BY <1>1 DEF HiveInv
<1>3. pod \in Tokens
  BY DEF Pods
<1>4. hiveIndex' \in [Tokens -> Nat]
  BY <1>1, <1>3 DEF HiveInv
<1>5. /\ DOMAIN hives' = 1 .. n + 1 /\ hives'[n + 1] = pod
      /\ \A i \in 1 .. n : hives'[i] = hives[i]
      /\ DOMAIN hives = 1 .. n
  BY <1>1 DEF HiveInv
<1>6. /\ hiveIndex'[pod] = n + 1
      /\ \A t \in Tokens \ {pod} : hiveIndex'[t] = hiveIndex[t]
  BY <1>1, <1>3 DEF HiveInv
<1>7. ASSUME NEW id \in 1 .. n + 1 PROVE hiveIndex'[hives'[id]] = id
  <2>1. CASE id = n + 1
    BY <2>1, <1>5, <1>6
  <2>2. CASE id # n + 1
    <3>1. id \in 1 .. n
      BY <2>2, <1>1
    <3>2. hives[id] \in Pods
      BY <3>1, <1>1, <1>5 DEF HiveInv
    <3>3. hiveIndex[hives[id]] = id
      BY <3>1, <1>5 DEF HiveInv, HiveIndexInverse
    <3>4. hives[id] # pod /\ hives[id] \in Tokens
      BY <3>1, <3>2, <3>3, <1>1 DEF Pods
    <3> QED BY <3>1, <3>3, <3>4, <1>5, <1>6
  <2> QED BY <2>1, <2>2
<1>8. ASSUME NEW t \in Tokens, hiveIndex'[t] # 0
      PROVE  hiveIndex'[t] \in 1 .. n + 1 /\ hives'[hiveIndex'[t]] = t
  <2>1. CASE t = pod
    BY <2>1, <1>1, <1>5, <1>6
  <2>2. CASE t # pod
    <3>1. hiveIndex[t] \in 1 .. n /\ hives[hiveIndex[t]] = t
      BY <2>2, <1>5, <1>6, <1>8 DEF HiveInv, HiveIndexInverse
    <3> QED BY <2>2, <3>1, <1>1, <1>5, <1>6
  <2> QED BY <2>1, <2>2
<1>9. HiveIndexInverse'
  BY <1>5, <1>7, <1>8 DEF HiveIndexInverse
<1> QED BY <1>2, <1>4, <1>9 DEF HiveInv
-----------------------------------------------------------------------------
(* Steps *)

\* Features and the pods that are accepted concern no hive and no asset there is.
LEMMA AdministerKeeps ==
  ASSUME IInv, Administer
  PROVE  IInv'
<1> USE Parts
<1>1. PICK sender \in Users :
        \/ \E mask \in Masks : updateFeatures(sender, mask)
        \/ \E pods \in SUBSET Pods : whitelistPods(sender, pods) \/ delistPods(sender, pods)
        \/ \E name \in CategoryNames, collection \in Collections \cup {NoAddress} :
              addCategory(sender, name, collection)
        \/ \E id \in HiveIds, token \in HiveTokens \cup {NoAddress} :
              setHiveTokenAddress(sender, id, token)
  BY DEF Administer
<1>2. ASSUME NEW mask \in Masks, updateFeatures(sender, mask) PROVE IInv'
  <2>1. features' \subseteq Features
    BY <1>2, HiveAssumption DEF updateFeatures, EvaluateBy, OutsideInv
  <2>2. OutsideInv'
    BY <1>2, <2>1 DEF updateFeatures, OutsideInv, hiveVars
  <2> QED BY <1>2, <2>2, Untouched DEF updateFeatures
<1>3. ASSUME NEW pods \in SUBSET Pods, whitelistPods(sender, pods) \/ delistPods(sender, pods)
      PROVE  IInv'
  <2>1. OutsideInv'
    BY <1>3 DEF whitelistPods, delistPods, OutsideInv
  <2>2. HiveInv'
    BY <1>3 DEF whitelistPods, delistPods, HiveInv, HiveIndexInverse
  <2>3. RelationInv'
    BY <1>3 DEF whitelistPods, delistPods, RelationInv, FoundsOrJoins, IsLinked, linkVars,
                categoryVars
  <2> QED BY <1>3, <2>1, <2>2, <2>3, Untouched DEF whitelistPods, delistPods
<1>4. ASSUME NEW name \in CategoryNames, NEW collection \in Collections \cup {NoAddress},
             addCategory(sender, name, collection)
      PROVE  IInv'
  <2>1. CategoryInv'
    BY <1>4, AddCategoryKeeps
  <2>2. RelationInv'
    <3>1. DOMAIN globalCategories \subseteq DOMAIN globalCategories'
      BY <1>4 DEF addCategory, CategoryInv
    <3> QED BY <1>4, <3>1 DEF addCategory, RelationInv, FoundsOrJoins, IsLinked, linkVars, hiveVars
  <2>3. OutsideInv'
    BY <1>4 DEF addCategory, OutsideInv, hiveVars
  <2> QED BY <1>4, <2>1, <2>2, <2>3, Untouched DEF addCategory
<1>5. ASSUME NEW id \in HiveIds, NEW token \in HiveTokens \cup {NoAddress},
             setHiveTokenAddress(sender, id, token)
      PROVE  IInv'
  <2>1. HiveInv'
    BY <1>5 DEF setHiveTokenAddress, HiveInv, HiveIndexInverse
  <2>2. RelationInv'
    BY <1>5 DEF setHiveTokenAddress, RelationInv, FoundsOrJoins, IsLinked, linkVars, categoryVars
  <2>3. OutsideInv'
    BY <1>5 DEF setHiveTokenAddress, OutsideInv
  <2> QED BY <1>5, <2>1, <2>2, <2>3, Untouched DEF setHiveTokenAddress
<1> QED BY <1>1, <1>2, <1>3, <1>4, <1>5

\* Calls about one hive keep the invariant.
LEMMA HiveKeeps ==
  ASSUME IInv, Hive
  PROVE  IInv'
<1> USE Parts
<1>1. PICK sender \in Users :
        \/ \E pod \in Pods, uri \in URIs : createHive(sender, pod, uri)
        \/ \E id \in HiveIds, uri \in URIs : updateHiveURI(sender, id, uri)
  BY DEF Hive
<1>2. ASSUME NEW pod \in Pods, NEW uri \in URIs, createHive(sender, pod, uri) PROVE IInv'
  <2>1. HiveInv'
    BY <1>2, CreateHiveKeeps
  <2>2. RelationInv'
    BY <1>2 DEF createHive, MayCreate, RelationInv, FoundsOrJoins, IsLinked, HiveInv, linkVars,
                categoryVars
  <2>3. OutsideInv'
    BY <1>2 DEF createHive, OutsideInv
  <2> QED BY <1>2, <2>1, <2>2, <2>3, Untouched DEF createHive
<1>3. ASSUME NEW id \in HiveIds, NEW uri \in URIs, updateHiveURI(sender, id, uri) PROVE IInv'
  <2>1. HiveInv'
    BY <1>3 DEF updateHiveURI, HiveInv, HiveIndexInverse
  <2>2. RelationInv'
    BY <1>3 DEF updateHiveURI, RelationInv, FoundsOrJoins, IsLinked, linkVars, categoryVars
  <2>3. OutsideInv'
    BY <1>3 DEF updateHiveURI, OutsideInv
  <2> QED BY <1>3, <2>1, <2>2, <2>3, Untouched DEF updateHiveURI
<1> QED BY <1>1, <1>2, <1>3

\* Calls about assets keep the invariant.
LEMMA AssetsKeep ==
  ASSUME IInv, FewerThanIndexes, Assets
  PROVE  IInv'
<1> USE Parts
<1>1. PICK sender \in Users, asset \in Tokens :
        \/ \E h \in HiveIds : \/ \E c \in CategoryIds : linkAsset(sender, asset, h, c)
                            \/ \E name \in CategoryNames : linkAssetByName(sender, asset, h, name)
        \/ unlinkAsset(sender, asset)
  BY DEF Assets
<1>2. ASSUME NEW h \in HiveIds, NEW c \in CategoryIds, linkAsset(sender, asset, h, c)
      PROVE  IInv'
  <2>1. LinkInv'
    BY <1>2, LinkKeeps
  <2>2. RelationInv'
    <3>1. c \in DOMAIN globalCategories
      BY <1>2 DEF linkAsset, MayLink, ValidCategory, CategoryInv, CategoryIds
    <3> QED BY <1>2, <3>1 DEF linkAsset, MayLink, RelationInv, FoundsOrJoins, IsLinked, LinkInv,
                              hiveVars, categoryVars
  <2>3. OutsideInv'
    BY <1>2 DEF linkAsset, OutsideInv, hiveVars
  <2> QED BY <1>2, <2>1, <2>2, <2>3, Untouched DEF linkAsset
<1>3. ASSUME NEW h \in HiveIds, NEW name \in CategoryNames, linkAssetByName(sender, asset, h, name)
      PROVE  IInv'
  <2>1. categoryIndex[name] \in CategoryIds
    BY DEF CategoryInv
  <2> QED BY <1>2, <1>3, <2>1 DEF linkAssetByName
<1>4. ASSUME unlinkAsset(sender, asset) PROVE IInv'
  <2>1. LinkInv'
    BY <1>4, UnlinkKeeps
  <2>2. RelationInv'
    <3>1. \A t \in Tokens :
            IsLinked(t)' => IsLinked(t) /\ linkedAssets'[t].categoryId = linkedAssets[t].categoryId
      BY <1>4, UnlinkMovesNobody
    <3> QED BY <1>4, <3>1 DEF unlinkAsset, RelationInv, FoundsOrJoins, hiveVars, categoryVars
  <2>3. OutsideInv'
    BY <1>4 DEF unlinkAsset, OutsideInv, hiveVars
  <2> QED BY <1>4, <2>1, <2>2, <2>3, Untouched DEF unlinkAsset
<1> QED BY <1>1, <1>2, <1>3, <1>4

\* The invariant holds initially.
LEMMA InitHolds ==
  ASSUME Init
  PROVE  IInv
<1>1. 0 \in CategoryIds /\ 1 \in CategoryIds
  <2>1. Cardinality(CategoryNames) \in Nat /\ Cardinality(CategoryNames) # 0
    BY HiveAssumption, FS_CardinalityType, FS_EmptySet
  <2> QED BY <2>1 DEF CategoryIds
<1>2. LinkInv
  <2>1. NotLinked \in AssetLinkDetails
    BY <1>1, HiveAssumption DEF NotLinked, AssetLinkDetails
  <2>2. \A t \in Tokens : ~IsLinked(t)
    BY DEF Init, IsLinked, NotLinked
  <2>3. {t \in Tokens : IsLinked(t)} = {}
    BY <2>2
  <2>4. \A p \in Places : assetCatalogue[p] = <<>>
    BY DEF Init
  <2>5. IndexCorrect
    BY <2>2, <2>4 DEF IndexCorrect, IndexOfAsset
  <2>6. Counted
    BY <2>3, FS_EmptySet DEF Init, Counted
  <2>7. assetCatalogue \in [Places -> Seq(Tokens)] /\ linkedAssets \in [Tokens -> AssetLinkDetails]
    BY <2>1 DEF Init
  <2> QED BY <2>5, <2>6, <2>7 DEF Init, LinkInv
<1>3. HiveInv
  BY DEF Init, HiveInv, HiveIndexInverse
<1>4. CategoryInv
  <2>1. {m \in CategoryNames : categoryIndex[m] # 0} = {IntelligencePod}
    BY HiveAssumption DEF Init
  <2>2. Cardinality({IntelligencePod}) = 1
    BY FS_Singleton
  <2>3. globalCategories = <<personalityContract>>
    BY DEF Init
  <2>4. categoryIndex \in [CategoryNames -> CategoryIds]
    BY <1>1 DEF Init
  <2>5. globalCategories \in Seq(Collections \cup {NoAddress}) /\ Len(globalCategories) = 1
    BY <2>3, HiveAssumption
  <2> QED BY <2>1, <2>2, <2>4, <2>5 DEF CategoryInv, CategoriesCounted
<1>5. RelationInv
  BY DEF Init, RelationInv, FoundsOrJoins, IsLinked, NotLinked
<1>6. OutsideInv
  BY DEF Init, OutsideInv
<1> QED BY <1>2, <1>3, <1>4, <1>5, <1>6, Parts

\* Every step keeps the invariant.
LEMMA StepKeeps ==
  ASSUME IInv, FewerThanIndexes, [Next]_vars
  PROVE  IInv'
<1>1. CASE Environment
  <2>1. PICK t \in Tokens : \E place \in Custodies[t] : changeCustody(t, place)
    BY <1>1 DEF Environment
  <2>2. UNCHANGED <<features, hiveVars, categoryVars, linkVars>> /\ OutsideInv'
    BY <2>1, Parts, HiveAssumption DEF changeCustody, OutsideInv, hiveVars
  <2> QED BY <2>2, Parts, Untouched
<1>2. CASE UNCHANGED vars
  <2>1. UNCHANGED <<features, whitelistedPods, hiveVars, categoryVars, linkVars, custody>>
    BY <1>2 DEF vars, hiveVars
  <2> QED BY <2>1, Parts, Untouched
<1> QED BY <1>1, <1>2, AdministerKeeps, HiveKeeps, AssetsKeep DEF Next
-----------------------------------------------------------------------------
(* Theorems *)

\* The inductive invariant holds throughout.
LEMMA Invariance ==
  ASSUME FewerThanIndexes
  PROVE  Spec => []IInv
<1>1. Init => IInv
  BY InitHolds
<1>2. IInv /\ [Next]_vars => IInv'
  BY StepKeeps
<1> QED BY <1>1, <1>2, PTL DEF Spec

\* Types of the registry, with every linked asset under a category that exists.
THEOREM TypeCorrect ==
  ASSUME FewerThanIndexes
  PROVE  Spec => []TypeOK
<1>1. IInv => TypeOK
  BY DEF IInv
<1> QED BY <1>1, Invariance, PTL

\* The lists of the assets and the records of their places agree after any history, as
\* long as no list is longer than the indexes are wide.
THEOREM IndexStaysCorrect ==
  ASSUME FewerThanIndexes
  PROVE  Spec => []IndexCorrect
<1>1. IInv => IndexCorrect
  BY DEF IInv
<1> QED BY <1>1, Invariance, PTL

\* A pod that created a hive is never linked to one, and a linked pod creates none.
THEOREM FoundersNeverJoin ==
  ASSUME FewerThanIndexes
  PROVE  Spec => []FoundsOrJoins
<1>1. IInv => FoundsOrJoins
  BY DEF IInv
<1> QED BY <1>1, Invariance, PTL

\* A hive has one pod and a pod one hive, which the array and the index agree on.
THEOREM OneHivePerPod ==
  ASSUME FewerThanIndexes
  PROVE  Spec => []HiveIndexInverse
<1>1. IInv => HiveIndexInverse
  BY DEF IInv
<1> QED BY <1>1, Invariance, PTL

\* Whoever holds a linked NFT can unlink it: nothing in unlinkAsset reverts.
THEOREM OwnersCanUnlink ==
  ASSUME FewerThanIndexes
  PROVE  Spec => []OwnerCanUnlink
<1>1. IInv => OwnerCanUnlink
  BY Parts, LinkedIsUnlinkable DEF OwnerCanUnlink
<1> QED BY <1>1, Invariance, PTL
-----------------------------------------------------------------------------
(* Refinement *)

\* The list of a place holds the assets whose records name the place.
ListsHoldLinked ==
    \A p \in Places : Range(assetCatalogue[p]) = {t \in Tokens : IsLinked(t) /\ PlaceOf(t) = p}

\* The lists and the records agree on who is linked, and where.
LEMMA MembersAreLinked ==
  ASSUME LinkInv
  PROVE  /\ ListsHoldLinked
         /\ Membership!Joined = {t \in Tokens : IsLinked(t)}
<1>1. ASSUME NEW p \in Places
      PROVE  Range(assetCatalogue[p]) = {t \in Tokens : IsLinked(t) /\ PlaceOf(t) = p}
  <2>1. ASSUME NEW t \in Range(assetCatalogue[p])
        PROVE  t \in Tokens /\ IsLinked(t) /\ PlaceOf(t) = p
    BY <2>1 DEF Range, LinkInv, IndexCorrect
  <2>2. ASSUME NEW t \in Tokens, IsLinked(t), PlaceOf(t) = p
        PROVE  t \in Range(assetCatalogue[p])
    BY <2>2 DEF Range, LinkInv, IndexCorrect, IndexOfAsset
  <2> QED BY <2>1, <2>2
<1>2. Membership!Joined = UNION {Range(assetCatalogue[p]) : p \in Places}
  BY DEF Membership!Joined
<1>3. \A t \in Tokens : IsLinked(t) => PlaceOf(t) \in Places
  BY LinkedIsUnlinkable
<1> QED BY <1>1, <1>2, <1>3 DEF ListsHoldLinked

\* They still do after a step that keeps the invariant.
LEMMA MembersStayLinked == LinkInv' => ListsHoldLinked'
<1>1. LinkInv => ListsHoldLinked
  BY MembersAreLinked
<1> QED BY <1>1, PTL

\* The pods that created hives are those with a hive index.
LEMMA FoundersHaveIndex ==
  ASSUME HiveInv
  PROVE  \A t \in Tokens : t \in Range(hives) <=> hiveIndex[t] # 0
<1>1. ASSUME NEW t \in Tokens, t \in Range(hives) PROVE hiveIndex[t] # 0
  <2>1. PICK id \in DOMAIN hives : hives[id] = t
    BY <1>1 DEF Range
  <2>2. hiveIndex[t] = id /\ id # 0
    BY <2>1 DEF HiveInv, HiveIndexInverse
  <2> QED BY <2>2
<1>2. ASSUME NEW t \in Tokens, hiveIndex[t] # 0 PROVE t \in Range(hives)
  BY <1>2 DEF HiveInv, HiveIndexInverse, Range
<1> QED BY <1>1, <1>2

\* Creating a hive is founding it.
LEMMA CreateHiveFounds ==
  ASSUME IInv, NEW sender \in Users, NEW pod \in Pods, NEW uri \in URIs,
         createHive(sender, pod, uri)
  PROVE  Membership!Found(pod)
<1>1. LinkInv /\ HiveInv /\ pod \in Tokens
  BY Parts DEF Pods
<1>2. pod \notin Range(hives) /\ pod \notin Membership!Joined
  BY <1>1, FoundersHaveIndex, MembersAreLinked DEF createHive, MayCreate
<1>3. Range(hives') = Range(hives) \cup {pod}
  <2> DEFINE n == Len(hives)
  <2>1. hives' = Append(hives, pod) /\ hives \in Seq(Pods)
    BY <1>1 DEF createHive, HiveInv
  <2>2. /\ DOMAIN hives' = 1 .. n + 1 /\ hives'[n + 1] = pod
        /\ DOMAIN hives = 1 .. n /\ n \in Nat
        /\ \A i \in 1 .. n : hives'[i] = hives[i]
    BY <2>1
  <2>3. ASSUME NEW t \in Range(hives') PROVE t \in Range(hives) \cup {pod}
    <3>1. PICK i \in 1 .. n + 1 : hives'[i] = t
      BY <2>2, <2>3 DEF Range
    <3> QED BY <2>2, <3>1 DEF Range
  <2>4. ASSUME NEW t \in Range(hives) \cup {pod} PROVE t \in Range(hives')
    BY <2>2, <2>4 DEF Range
  <2> QED BY <2>3, <2>4
<1> QED BY <1>2, <1>3 DEF Membership!Found, createHive, linkVars

\* Linking an asset is joining the place.
LEMMA LinkAssetJoins ==
  ASSUME IInv, FewerThanIndexes,
         NEW sender \in Users, NEW asset \in Tokens, NEW h \in HiveIds, NEW c \in CategoryIds,
         linkAsset(sender, asset, h, c)
  PROVE  Membership!Join(asset, <<h, c>>)
<1> DEFINE place == <<h, c>>
<1>1. LinkInv /\ HiveInv /\ LinkInv'
  BY Parts, LinkKeeps
<1>2. asset \notin Range(hives) /\ asset \notin Membership!Joined
  BY <1>1, FoundersHaveIndex, MembersAreLinked DEF linkAsset, MayLink
<1>3. h # 0 /\ ~IsLinked(asset)
  BY HiveAssumption DEF linkAsset, MayLink
<1>4. \A t \in Tokens :
        IF t = asset THEN IsLinked(t)' /\ PlaceOf(t)' = place
                     ELSE (IsLinked(t)' <=> IsLinked(t)) /\ PlaceOf(t)' = PlaceOf(t)
  BY <1>1, <1>3 DEF linkAsset, LinkInv, IsLinked, PlaceOf
<1>5. \A p \in Places :
        /\ Range(assetCatalogue[p]) = {t \in Tokens : IsLinked(t) /\ PlaceOf(t) = p}
        /\ Range(assetCatalogue'[p]) = {t \in Tokens : IsLinked(t)' /\ PlaceOf(t)' = p}
  BY <1>1, MembersAreLinked, MembersStayLinked DEF ListsHoldLinked
<1>6. place \in Places
  BY DEF Places
<1>7. \A p \in Places : Range(assetCatalogue'[p]) =
        IF p = place THEN Range(assetCatalogue[p]) \cup {asset} ELSE Range(assetCatalogue[p])
  <2> SUFFICES ASSUME NEW p \in Places
               PROVE  {t \in Tokens : IsLinked(t)' /\ PlaceOf(t)' = p} =
                        {t \in Tokens : IsLinked(t) /\ PlaceOf(t) = p}
                          \cup (IF p = place THEN {asset} ELSE {})
    BY <1>5
  <2>1. \A t \in Tokens : IsLinked(t)' /\ PlaceOf(t)' = p
          <=> (IsLinked(t) /\ PlaceOf(t) = p) \/ (t = asset /\ p = place)
    BY <1>3, <1>4
  <2> QED BY <2>1
<1>8. [p \in Places |-> Range(assetCatalogue'[p])] =
        [[p \in Places |-> Range(assetCatalogue[p])] EXCEPT ![place] = @ \cup {asset}]
  BY <1>6, <1>7
<1> QED BY <1>2, <1>8 DEF Membership!Join, linkAsset, hiveVars

\* Unlinking an asset is leaving its place.
LEMMA UnlinkAssetLeaves ==
  ASSUME IInv, NEW sender \in Users, NEW asset \in Tokens, unlinkAsset(sender, asset)
  PROVE  PlaceOf(asset) \in Places /\ Membership!Leave(asset, PlaceOf(asset))
<1>1. LinkInv /\ LinkInv' /\ IsLinked(asset)
  BY Parts, UnlinkKeeps DEF unlinkAsset
<1>2. PICK place \in Places : place = PlaceOf(asset)
  BY <1>1, LinkedIsUnlinkable
<1>3. \A t \in Tokens :
        /\ IsLinked(t)' <=> IsLinked(t) /\ t # asset
        /\ IsLinked(t)' => PlaceOf(t)' = PlaceOf(t)
  BY <1>1, UnlinkMovesNobody DEF PlaceOf
<1>4. \A p \in Places :
        /\ Range(assetCatalogue[p]) = {t \in Tokens : IsLinked(t) /\ PlaceOf(t) = p}
        /\ Range(assetCatalogue'[p]) = {t \in Tokens : IsLinked(t)' /\ PlaceOf(t)' = p}
  BY <1>1, MembersAreLinked, MembersStayLinked DEF ListsHoldLinked
<1>5. asset \in Range(assetCatalogue[place])
  BY <1>1, <1>2, <1>4
<1>6. \A p \in Places : Range(assetCatalogue'[p]) =
        IF p = place THEN Range(assetCatalogue[p]) \ {asset} ELSE Range(assetCatalogue[p])
  <2> SUFFICES ASSUME NEW p \in Places
               PROVE  {t \in Tokens : IsLinked(t)' /\ PlaceOf(t)' = p} =
                        {t \in Tokens : IsLinked(t) /\ PlaceOf(t) = p}
                          \ (IF p = place THEN {asset} ELSE {})
    BY <1>4
  <2>1. \A t \in Tokens : IsLinked(t)' /\ PlaceOf(t)' = p
          <=> (IsLinked(t) /\ PlaceOf(t) = p) /\ ~(t = asset /\ p = place)
    BY <1>2, <1>3
  <2> QED BY <2>1
<1>7. [p \in Places |-> Range(assetCatalogue'[p])] =
        [[p \in Places |-> Range(assetCatalogue[p])] EXCEPT ![place] = @ \ {asset}]
  BY <1>6
<1>8. Membership!Leave(asset, place)
  BY <1>5, <1>7 DEF Membership!Leave, unlinkAsset, hiveVars
<1> QED BY <1>2, <1>8

\* The lists of assets implement sets of members: every step of the registry creates a
\* hive, moves one NFT into or out of one place, or changes no membership at all.
THEOREM RegistryImplementsMembership ==
  ASSUME FewerThanIndexes
  PROVE  Spec => ImplementsMembership
<1> DEFINE members == [p \in Places |-> Range(assetCatalogue[p])]
           abstract == <<Range(hives), members, totalNumOfAssetsLinked>>
<1>1. Init => Membership!Init
  BY DEF Init, Membership!Init, Range
<1>2. ASSUME IInv, [Next]_vars PROVE [Membership!Next]_abstract
  <2>1. CASE UNCHANGED <<hives, linkVars>>
    BY <2>1 DEF linkVars
  <2>2. CASE Administer \/ Environment \/ UNCHANGED vars
    <3>1. UNCHANGED <<hives, linkVars>>
      BY <2>2 DEF Administer, Environment, vars, updateFeatures, whitelistPods, delistPods,
                  addCategory, setHiveTokenAddress, changeCustody, hiveVars
    <3> QED BY <2>1, <3>1
  <2>3. CASE Hive
    <3>1. PICK sender \in Users :
            \/ \E pod \in Pods, uri \in URIs : createHive(sender, pod, uri)
            \/ \E id \in HiveIds, uri \in URIs : updateHiveURI(sender, id, uri)
      BY <2>3 DEF Hive
    <3>2. ASSUME NEW pod \in Pods, NEW uri \in URIs, createHive(sender, pod, uri)
          PROVE  Membership!Next
      BY <1>2, <3>2, CreateHiveFounds DEF Membership!Next, Pods
    <3>3. ASSUME NEW id \in HiveIds, NEW uri \in URIs, updateHiveURI(sender, id, uri)
          PROVE  UNCHANGED <<hives, linkVars>>
      BY <3>3 DEF updateHiveURI
    <3> QED BY <2>1, <3>1, <3>2, <3>3
  <2>4. CASE Assets
    <3>1. PICK sender \in Users, asset \in Tokens :
            \/ \E h \in HiveIds :
                 \/ \E c \in CategoryIds : linkAsset(sender, asset, h, c)
                 \/ \E name \in CategoryNames : linkAssetByName(sender, asset, h, name)
            \/ unlinkAsset(sender, asset)
      BY <2>4 DEF Assets
    <3>2. ASSUME NEW h \in HiveIds, NEW c \in CategoryIds, linkAsset(sender, asset, h, c)
          PROVE  Membership!Next
      <4>1. Membership!Join(asset, <<h, c>>) /\ <<h, c>> \in Places
        BY <1>2, <3>2, LinkAssetJoins DEF Places
      <4> QED BY <4>1 DEF Membership!Next
    <3>3. ASSUME NEW h \in HiveIds, NEW name \in CategoryNames,
                 linkAssetByName(sender, asset, h, name)
          PROVE  Membership!Next
      <4>1. categoryIndex[name] \in CategoryIds
        BY <1>2, Parts DEF CategoryInv
      <4> QED BY <3>2, <3>3, <4>1 DEF linkAssetByName
    <3>4. ASSUME unlinkAsset(sender, asset) PROVE Membership!Next
      <4>1. PICK place \in Places : Membership!Leave(asset, place)
        BY <1>2, <3>4, UnlinkAssetLeaves
      <4> QED BY <4>1 DEF Membership!Next
    <3> QED BY <3>1, <3>2, <3>3, <3>4
  <2> QED BY <1>2, <2>2, <2>3, <2>4 DEF Next
<1> QED BY <1>1, <1>2, Invariance, PTL DEF Spec, ImplementsMembership, Membership!Spec
-----------------------------------------------------------------------------
(* The registration of DPTs in the same contract, which shares nothing with the hives:  *)
(* for any accounts, owners, DPTs and permissions, no nonce is used twice, and no       *)
(* permission comes from nobody.                                                        *)

\* The nonces in the events are behind the next one.
NoncesPast == \A o \in Owners : \A i \in DOMAIN NonceUsed[o] : NonceUsed[o][i] < nonces[o]

DPTInv == DPTTypeOK /\ NoncesPast /\ NoncesUsedOnce
-----------------------------------------------------------------------------
(* Nonces *)

\* No nonce is used at the start.
LEMMA InitKeepsNonces == DPTInit => DPTInv
<1> SUFFICES ASSUME DPTInit PROVE DPTInv
  OBVIOUS
<1>1. DPTTypeOK
  BY DPTAssumption DEF DPTInit, DPTTypeOK
<1>2. NoncesPast /\ NoncesUsedOnce
  BY DEF DPTInit, NoncesPast, NoncesUsedOnce
<1> QED
  BY <1>1, <1>2 DEF DPTInv

\* An event that uses the nonces of an owner up to one that is not used yet
LEMMA UsedInv ==
    ASSUME DPTInv, NEW owner \in Owners, NEW nonce \in Nat, nonces[owner] <= nonce,
           nonces' = [nonces EXCEPT ![owner] = nonce + 1],
           NonceUsed' = [NonceUsed EXCEPT ![owner] = Append(@, nonce)]
    PROVE  /\ nonces' \in [Owners -> Nat] /\ NonceUsed' \in [Owners -> Seq(Nat)]
           /\ NoncesPast' /\ NoncesUsedOnce'
<1> DEFINE used == NonceUsed[owner]
<1>1. nonces \in [Owners -> Nat] /\ NonceUsed \in [Owners -> Seq(Nat)] /\ used \in Seq(Nat)
  BY DEF DPTInv, DPTTypeOK
<1>2. \A i \in DOMAIN used : used[i] \in Nat /\ used[i] < nonce
  <2>1. nonces[owner] \in Nat /\ \A i \in DOMAIN used : used[i] \in Nat
    BY <1>1
  <2>2. \A i \in DOMAIN used : used[i] < nonces[owner]
    BY DEF DPTInv, NoncesPast
  <2> QED
    BY <2>1, <2>2
<1>3. /\ NonceUsed'[owner] = Append(used, nonce) /\ nonces'[owner] = nonce + 1
      /\ \A o \in Owners \ {owner} : NonceUsed'[o] = NonceUsed[o] /\ nonces'[o] = nonces[o]
  BY <1>1
<1>4. /\ DOMAIN Append(used, nonce) = 1 .. Len(used) + 1
      /\ \A i \in 1 .. Len(used) : Append(used, nonce)[i] = used[i]
      /\ Append(used, nonce)[Len(used) + 1] = nonce
      /\ DOMAIN used = 1 .. Len(used) /\ Len(used) \in Nat
      /\ Append(used, nonce) \in Seq(Nat)
  BY <1>1
<1>5. \A i, j \in DOMAIN used : i < j => used[i] < used[j]
  BY DEF DPTInv, NoncesUsedOnce
<1>6. nonces' \in [Owners -> Nat] /\ NonceUsed' \in [Owners -> Seq(Nat)]
  BY <1>1, <1>4
<1>7. NoncesPast'
  <2>1. \A i \in DOMAIN NonceUsed'[owner] : NonceUsed'[owner][i] < nonces'[owner]
    <3> SUFFICES ASSUME NEW i \in 1 .. Len(used) + 1 PROVE Append(used, nonce)[i] < nonce + 1
      BY <1>3, <1>4
    <3>1. CASE i = Len(used) + 1
      BY <1>4, <3>1
    <3>2. CASE i \in 1 .. Len(used)
      BY <1>1, <1>2, <1>4, <3>2
    <3> QED
      BY <1>4, <3>1, <3>2
  <2> QED
    BY <1>3, <2>1 DEF DPTInv, NoncesPast
<1>8. NoncesUsedOnce'
  <2>1. \A i, j \in DOMAIN NonceUsed'[owner] : i < j => NonceUsed'[owner][i] < NonceUsed'[owner][j]
    <3> SUFFICES ASSUME NEW i \in 1 .. Len(used) + 1, NEW j \in 1 .. Len(used) + 1, i < j
                 PROVE  Append(used, nonce)[i] < Append(used, nonce)[j]
      BY <1>3, <1>4
    <3>1. i \in 1 .. Len(used)
      BY <1>4
    <3>2. CASE j = Len(used) + 1
      BY <1>1, <1>2, <1>4, <3>1, <3>2
    <3>3. CASE j \in 1 .. Len(used)
      BY <1>4, <1>5, <3>1, <3>3
    <3> QED
      BY <1>4, <3>2, <3>3
  <2> QED
    BY <1>3, <2>1 DEF DPTInv, NoncesUsedOnce
<1> QED
  BY <1>6, <1>7, <1>8

\* A relayed request uses its nonce, which is the next one of the owner.
LEMMA RelayInv ==
    ASSUME DPTInv, NEW sender \in Accounts, NEW signer \in Accounts, NEW req \in RegisterAsDPTRequest,
           eip712RegisterAsDPT(sender, req, signer)
    PROVE  DPTInv'
<1>1. req.dptOwner \in Owners /\ req.nonce \in Nat /\ req.asset \in DPTs
  BY DPTAssumption DEF RegisterAsDPTRequest
<1>2. /\ nonces[req.dptOwner] = req.nonce
      /\ nonces' = [nonces EXCEPT ![req.dptOwner] = req.nonce + 1]
      /\ NonceUsed' = [NonceUsed EXCEPT ![req.dptOwner] = Append(@, req.nonce)]
      /\ nonces[req.dptOwner] <= req.nonce
  BY <1>1 DEF eip712RegisterAsDPT, useNonce
<1>3. dptLinkStatus' \subseteq DPTs /\ UNCHANGED <<userRoles, blockTimestamp>>
  BY <1>1 DEF eip712RegisterAsDPT, registerDPT, DPTInv, DPTTypeOK
<1>4. /\ nonces' \in [Owners -> Nat] /\ NonceUsed' \in [Owners -> Seq(Nat)]
      /\ NoncesPast' /\ NoncesUsedOnce'
  BY <1>1, <1>2, UsedInv
<1> QED
  BY <1>3, <1>4 DEF DPTInv, DPTTypeOK

\* Nonces that are skipped count as used.
LEMMA FastForwardInv ==
    ASSUME DPTInv, NEW sender \in Accounts, NEW issuer \in Owners, NEW nonce \in 0 .. MaxNonce,
           fastForwardTheNonce(sender, issuer, nonce)
    PROVE  DPTInv'
<1>1. nonces[issuer] \in Nat /\ nonce \in Nat /\ nonces[issuer] < nonce
  BY DPTAssumption DEF fastForwardTheNonce, DPTInv, DPTTypeOK
<1>2. nonce - 1 \in Nat /\ nonces[issuer] <= nonce - 1 /\ nonce = (nonce - 1) + 1
  BY <1>1
<1>3. /\ nonces' = [nonces EXCEPT ![issuer] = (nonce - 1) + 1]
      /\ NonceUsed' = [NonceUsed EXCEPT ![issuer] = Append(@, nonce - 1)]
      /\ UNCHANGED <<userRoles, dptLinkStatus, blockTimestamp>>
  BY <1>2 DEF fastForwardTheNonce
<1>4. /\ nonces' \in [Owners -> Nat] /\ NonceUsed' \in [Owners -> Seq(Nat)]
      /\ NoncesPast' /\ NoncesUsedOnce'
  BY <1>2, <1>3, UsedInv
<1> QED
  BY <1>3, <1>4 DEF DPTInv, DPTTypeOK

\* Steps that use no nonce
LEMMA UnusedInv ==
    ASSUME DPTInv, UNCHANGED <<nonces, NonceUsed>>,
           userRoles' \in [Accounts \cup {ThisContract} -> SUBSET Permissions],
           dptLinkStatus' \subseteq DPTs, blockTimestamp' \in Nat
    PROVE  DPTInv'
  BY DEF DPTInv, DPTTypeOK, NoncesPast, NoncesUsedOnce

\* A new set of permissions holds nothing but the old one's and the sender's.
LEMMA EvaluateByBounds ==
    ASSUME NEW permissions, NEW target, NEW desired
    PROVE  /\ EvaluateBy(permissions, target, desired) \subseteq target \cup permissions
           /\ target \ EvaluateBy(permissions, target, desired) \subseteq permissions
  BY DEF EvaluateBy

\* A change of roles uses no nonce.
LEMMA UpdateRoleInv ==
    ASSUME DPTInv, NEW sender \in Accounts, NEW operator \in Accounts \cup {ThisContract},
           NEW mask \in SUBSET Permissions, updateRole(sender, operator, mask)
    PROVE  DPTInv'
<1>1. DPTTypeOK /\ userRoles[sender] \subseteq Permissions /\ userRoles[operator] \subseteq Permissions
  BY DEF DPTInv, DPTTypeOK
<1>2. EvaluateBy(userRoles[sender], userRoles[operator], mask) \subseteq Permissions
  BY <1>1, EvaluateByBounds
<1>3. userRoles' \in [Accounts \cup {ThisContract} -> SUBSET Permissions]
  BY <1>1, <1>2 DEF updateRole, DPTTypeOK
<1> QED
  BY <1>1, <1>3, UnusedInv DEF updateRole, DPTTypeOK

\* Every step keeps the nonces.
LEMMA StepKeepsNonces == DPTInv /\ [DPTNext]_dptVars => DPTInv'
<1> SUFFICES ASSUME DPTInv, [DPTNext]_dptVars PROVE DPTInv'
  OBVIOUS
<1>1. CASE Access
  BY <1>1, UpdateRoleInv DEF Access, updateContractFeatures
<1>2. CASE Register
  <2>1. ASSUME NEW sender \in Accounts, NEW dpt \in DPTs, registerAsDPT(sender, dpt) PROVE DPTInv'
    BY <2>1, UnusedInv DEF registerAsDPT, registerDPT, DPTInv, DPTTypeOK
  <2> QED
    BY <1>2, <2>1, RelayInv, FastForwardInv DEF Register
<1>3. CASE Tick
  BY <1>3, UnusedInv DEF Tick, DPTInv, DPTTypeOK
<1>4. CASE UNCHANGED dptVars
  BY <1>4, UnusedInv DEF dptVars, DPTInv, DPTTypeOK
<1> QED
  BY <1>1, <1>2, <1>3, <1>4 DEF DPTNext

\* So they are always kept.
LEMMA NoncesInvariance == DPTSpec => []DPTInv
  BY InitKeepsNonces, StepKeepsNonces, PTL DEF DPTSpec

\* Roles, registrations and nonces keep their types.
THEOREM DPTTypeCorrect == DPTSpec => []DPTTypeOK
<1>1. DPTInv => DPTTypeOK
  BY DEF DPTInv
<1> QED
  BY <1>1, NoncesInvariance, PTL

\* Whoever signs, relays and fast-forwards, in whatever order: a nonce that is used or
\* skipped is never used again.
THEOREM NoNonceTwice == DPTSpec => []NoncesUsedOnce
<1>1. DPTInv => NoncesUsedOnce
  BY DEF DPTInv
<1> QED
  BY <1>1, NoncesInvariance, PTL
-----------------------------------------------------------------------------
(* Permissions *)

\* What one step does to the permissions and under them
Escalates ==
    ~ /\ Held' \subseteq Held
      /\ (contractFeatures' \ contractFeatures) \cup (contractFeatures \ contractFeatures') \subseteq Held
      /\ ROLE_DPT_REGISTRAR \notin Held => UNCHANGED <<dptLinkStatus, nonces>>

\* The permissions of an account are among those that somebody holds.
LEMMA HeldBySomebody ==
    ASSUME DPTTypeOK, NEW a \in Accounts
    PROVE  userRoles[a] \subseteq Held
  BY DEF DPTTypeOK, Held

\* A change of roles gives nothing that its sender does not have.
LEMMA UpdateRoleNeverEscalates ==
    ASSUME DPTTypeOK, NEW sender \in Accounts, NEW operator \in Accounts \cup {ThisContract},
           NEW mask \in SUBSET Permissions, updateRole(sender, operator, mask)
    PROVE  ~Escalates
<1> DEFINE new == EvaluateBy(userRoles[sender], userRoles[operator], mask)
<1>1. /\ userRoles'[operator] = new
      /\ \A a \in Accounts \cup {ThisContract} : a # operator => userRoles'[a] = userRoles[a]
      /\ UNCHANGED <<dptLinkStatus, nonces>>
  BY DEF updateRole, DPTTypeOK
<1>2. new \subseteq userRoles[operator] \cup userRoles[sender]
      /\ userRoles[operator] \ new \subseteq userRoles[sender]
  BY EvaluateByBounds
<1>3. userRoles[sender] \subseteq Held
  BY HeldBySomebody
<1> HIDE DEF new
<1>4. CASE operator \in Accounts
  <2>1. \A a \in Accounts : userRoles'[a] \subseteq Held
    BY <1>1, <1>2, <1>3, <1>4, HeldBySomebody
  <2>2. Held' \subseteq Held
    BY <2>1 DEF Held
  <2>3. contractFeatures' = contractFeatures
    BY <1>1, <1>4, DPTAssumption DEF contractFeatures
  <2> QED
    BY <1>1, <2>2, <2>3 DEF Escalates
<1>5. CASE operator = ThisContract
  <2>1. Held' = Held
    BY <1>1, <1>5, DPTAssumption DEF Held
  <2>2. contractFeatures' = new /\ contractFeatures = userRoles[operator]
    BY <1>1, <1>5 DEF contractFeatures
  <2>3. (contractFeatures' \ contractFeatures) \cup (contractFeatures \ contractFeatures') \subseteq Held
    BY <1>2, <1>3, <2>2
  <2> QED
    BY <1>1, <2>1, <2>3 DEF Escalates
<1> QED
  BY <1>4, <1>5

\* Steps that leave the permissions alone
LEMMA OthersNeverEscalate ==
    ASSUME UNCHANGED userRoles,
           ROLE_DPT_REGISTRAR \notin Held => UNCHANGED <<dptLinkStatus, nonces>>
    PROVE  ~Escalates
<1>1. Held' = Held /\ contractFeatures' = contractFeatures
  BY DEF Held, contractFeatures
<1> QED
  BY <1>1 DEF Escalates

\* Nor does any other step.
LEMMA StepNeverEscalates == DPTTypeOK /\ [DPTNext]_dptVars => ~Escalates
<1> SUFFICES ASSUME DPTTypeOK, [DPTNext]_dptVars PROVE ~Escalates
  OBVIOUS
<1>1. CASE Access
  BY <1>1, UpdateRoleNeverEscalates DEF Access, updateContractFeatures
<1>2. CASE Register
  <2>1. UNCHANGED userRoles
    BY <1>2 DEF Register, eip712RegisterAsDPT, registerAsDPT, fastForwardTheNonce
  <2>2. \E a \in Accounts : operatorInRole(a, ROLE_DPT_REGISTRAR)
    BY <1>2 DEF Register, eip712RegisterAsDPT, registerAsDPT, fastForwardTheNonce, registerDPT
  <2>3. ROLE_DPT_REGISTRAR \in Held
    BY <2>2, HeldBySomebody DEF operatorInRole
  <2> QED
    BY <2>1, <2>3, OthersNeverEscalate
<1>3. CASE Tick \/ UNCHANGED dptVars
  BY <1>3, OthersNeverEscalate DEF Tick, dptVars
<1> QED
  BY <1>1, <1>2, <1>3 DEF DPTNext

\* A permission that nobody holds any more is gone for good, a feature is switched only by
\* somebody who holds its bit, and without a registrar nothing is registered.
THEOREM NothingFromNobody == DPTSpec => NoEscalation
<1>1. DPTTypeOK /\ [DPTNext]_dptVars =>
        [/\ Held' \subseteq Held
         /\ (contractFeatures' \ contractFeatures) \cup (contractFeatures \ contractFeatures') \subseteq Held
         /\ ROLE_DPT_REGISTRAR \notin Held => UNCHANGED <<dptLinkStatus, nonces>>]_dptVars
  BY StepNeverEscalates DEF Escalates
<1> QED
  BY <1>1, DPTTypeCorrect, PTL DEF DPTSpec, NoEscalation
=============================================================================
