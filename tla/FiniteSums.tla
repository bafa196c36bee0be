---------------------------- MODULE FiniteSums ----------------------------
(***************************************************************************)
(* Facts about finite sums the proofs of the project cite.  The sums of    *)
(* the community modules are folds over a recursive function on the        *)
(* subsets of a finite set: here the recursion is shown to be well         *)
(* defined, and then never unfolded again.                                 *)
(***************************************************************************)
EXTENDS Integers, FiniteSets, Functions, FiniteSetTheorems, TLAPS

\* The element a fold over s takes first
Pick(s) == CHOOSE x \in s : TRUE

\* g tabulates the sums of f over the subsets of S.
IsTable(f, S, g) ==
    g = [s \in SUBSET S |->
            IF s = {} THEN 0 ELSE f[Pick(s)] + g[s \ {Pick(s)}]]

Table(f, S) == CHOOSE g : IsTable(f, S, g)

Sum(f, S) == SumFunctionOnSet(f, S)
-----------------------------------------------------------------------------
(* Induction over the subsets of a finite set, for a set of them *)

\* A nonempty family of subsets of a finite set has a minimal member.
LEMMA MinimalSubset ==
  ASSUME NEW S, IsFiniteSet(S), NEW T \in SUBSET SUBSET S, T # {}
  PROVE  \E s \in T : \A t \in T : t \subseteq s => t = s
<1>1. IsWellFoundedOn(StrictSubsetOrdering(S), SUBSET S)
  BY FS_StrictSubsetOrderingWellFounded, FS_FiniteSubsetsOfFinite
<1>2. PICK s \in T : \A t \in T : ~ (<<t, s>> \in StrictSubsetOrdering(S))
  BY <1>1, WFMin
<1>3. ASSUME NEW t \in T, t \subseteq s
      PROVE  t = s
  BY <1>2, <1>3 DEF StrictSubsetOrdering
<1> QED BY <1>3

\* A family that contains a set whenever it contains its strict subsets
\* contains every subset.
LEMMA StrictSubsetInduction ==
  ASSUME NEW S, IsFiniteSet(S), NEW T,
         \A s \in SUBSET S : (\A t \in SUBSET s : t # s => t \in T) => s \in T
  PROVE  \A s \in SUBSET S : s \in T
<1> DEFINE U == {s \in SUBSET S : s \notin T}
<1> SUFFICES ASSUME U # {}
             PROVE  FALSE
  OBVIOUS
<1>1. PICK s \in U : \A t \in U : t \subseteq s => t = s
  <2>1. U \in SUBSET SUBSET S
    OBVIOUS
  <2> HIDE DEF U
  <2> QED BY <2>1, MinimalSubset
<1> QED BY <1>1

\* A family that contains the empty set, and a set with one more element
\* whenever it contains the set, contains every subset.
LEMMA AddElementInduction ==
  ASSUME NEW S, IsFiniteSet(S), NEW T, {} \in T,
         \A s \in SUBSET S : \A a \in S \ s : s \in T => s \cup {a} \in T
  PROVE  S \in T
<1>1. ASSUME NEW s \in SUBSET S, \A t \in SUBSET s : t # s => t \in T
      PROVE  s \in T
  <2>1. CASE s = {}
    BY <2>1
  <2>2. CASE s # {}
    <3>1. PICK a \in s : TRUE
      BY <2>2
    <3>2. s \ {a} \in T /\ s = (s \ {a}) \cup {a}
      BY <1>1, <3>1
    <3> QED BY <3>2
  <2> QED BY <2>1, <2>2
<1>2. \A s \in SUBSET S : s \in T
  BY <1>1, StrictSubsetInduction, Zenon
<1> QED BY <1>2

\* A set that contains zero, and the next number with every number, contains them all.
LEMMA NextNumberInduction ==
  ASSUME NEW T, 0 \in T, \A n \in Nat : n \in T => n + 1 \in T
  PROVE  \A n \in Nat : n \in T
<1> SUFFICES ASSUME NEW m \in Nat, m \notin T
             PROVE  FALSE
  OBVIOUS
<1> DEFINE S == 0 .. m
           U == {0 .. n : n \in {k \in S : k \notin T}}
<1>1. PICK s \in U : \A t \in U : t \subseteq s => t = s
  <2>1. IsFiniteSet(S)
    BY FS_Interval
  <2>2. U \in SUBSET SUBSET S /\ U # {}
    <3>1. \A n \in S : 0 .. n \subseteq S
      OBVIOUS
    <3> QED BY <3>1
  <2> HIDE DEF S, U
  <2> QED BY <2>1, <2>2, MinimalSubset
<1>2. PICK n \in S : n \notin T /\ s = 0 .. n
  BY <1>1
<1>3. n - 1 \in Nat /\ n - 1 \in S /\ n - 1 \notin T
  BY <1>2
<1>4. 0 .. (n - 1) \in U /\ 0 .. (n - 1) \subseteq s
  BY <1>2, <1>3
<1>5. n \in s /\ n \notin 0 .. (n - 1)
  BY <1>2
<1> QED BY <1>1, <1>4, <1>5
-----------------------------------------------------------------------------
(* The recursion behind the sums is well defined *)

\* The element taken first is one of the set.
LEMMA PickIn ==
  ASSUME NEW s, s # {}
  PROVE  Pick(s) \in s
BY Zenon DEF Pick

\* The sums of the community modules are entries of the table.
LEMMA SumIsEntry ==
  ASSUME NEW f, NEW S
  PROVE  Sum(f, S) = Table(f, S)[S]
BY Zenon DEF Sum, SumFunctionOnSet, FoldFunctionOnSet, MapThenFoldSet, Table, IsTable, Pick

\* An entry of a table
LEMMA EntryOf ==
  ASSUME NEW f, NEW S, NEW g, IsTable(f, S, g), NEW s \in SUBSET S
  PROVE  g[s] = IF s = {} THEN 0 ELSE f[Pick(s)] + g[s \ {Pick(s)}]
BY DEF IsTable

\* Tables agree wherever both are defined.
LEMMA TablesAgree ==
  ASSUME NEW f, NEW S, IsFiniteSet(S), NEW S1, NEW g, NEW h,
         IsTable(f, S, g), IsTable(f, S1, h), S \subseteq S1
  PROVE  \A s \in SUBSET S : g[s] = h[s]
<1> DEFINE T == {s \in SUBSET S : g[s] = h[s]}
<1>1. ASSUME NEW s \in SUBSET S, \A t \in SUBSET s : t # s => t \in T
      PROVE  s \in T
  <2>1. /\ g[s] = IF s = {} THEN 0 ELSE f[Pick(s)] + g[s \ {Pick(s)}]
        /\ h[s] = IF s = {} THEN 0 ELSE f[Pick(s)] + h[s \ {Pick(s)}]
    <3>1. s \in SUBSET S1
      OBVIOUS
    <3> HIDE DEF T
    <3> QED BY <3>1, EntryOf
  <2>2. CASE s = {}
    BY <2>1, <2>2
  <2>3. CASE s # {}
    <3>1. s \ {Pick(s)} \in T
      BY <2>3, <1>1, PickIn
    <3> QED BY <2>1, <2>3, <3>1
  <2> QED BY <2>2, <2>3
<1>2. \A s \in SUBSET S : s \in T
  <2> HIDE DEF T
  <2> QED BY <1>1, StrictSubsetInduction
<1> QED BY <1>2

\* Every finite set has a table.
LEMMA TableExists ==
  ASSUME NEW f, NEW S, IsFiniteSet(S)
  PROVE  IsTable(f, S, Table(f, S))
<1> DEFINE T == {s \in SUBSET S : IsTable(f, s, Table(f, s))}
<1>1. ASSUME NEW s \in SUBSET S, \A t \in SUBSET s : t # s => t \in T
      PROVE  s \in T
  <2> DEFINE Below(t) == t \ {Pick(t)}
             g == [t \in SUBSET s |->
                      IF t = {} THEN 0 ELSE f[Pick(t)] + Table(f, Below(t))[Below(t)]]
  <2>1. ASSUME NEW t \in SUBSET s, t # {}
        PROVE  g[Below(t)] = Table(f, Below(t))[Below(t)]
    <3> DEFINE u == Below(t)
    <3>1. Pick(t) \in t /\ u \in SUBSET s /\ u # s
      BY <2>1, PickIn
    <3>2. IsTable(f, u, Table(f, u))
      BY <3>1, <1>1
    <3>3. CASE u = {}
      BY <3>1, <3>2, <3>3, EntryOf
    <3>4. CASE u # {}
      <4>1. Below(u) \in SUBSET u /\ Below(u) # s /\ Below(u) \in SUBSET s
        BY <3>1
      <4>2. IsTable(f, Below(u), Table(f, Below(u)))
        BY <4>1, <1>1
      <4>3. IsFiniteSet(Below(u))
        BY <4>1, FS_Subset
      <4>4. Table(f, Below(u))[Below(u)] = Table(f, u)[Below(u)]
        <5> HIDE DEF u, Below
        <5> QED BY <3>2, <4>1, <4>2, <4>3, TablesAgree
      <4>5. Table(f, u)[u] = f[Pick(u)] + Table(f, u)[Below(u)]
        <5> HIDE DEF u
        <5>1. u \in SUBSET u
          OBVIOUS
        <5> QED BY <3>2, <3>4, <5>1, EntryOf
      <4>6. g[u] = f[Pick(u)] + Table(f, Below(u))[Below(u)]
        BY <3>1, <3>4
      <4> QED BY <4>4, <4>5, <4>6
    <3> QED BY <3>3, <3>4
  <2>2. IsTable(f, s, g)
    BY <2>1 DEF IsTable
  <2>3. IsTable(f, s, Table(f, s))
    <3> HIDE DEF g
    <3> QED BY Zenon, <2>2 DEF Table
  <2> QED BY <2>3
<1>2. \A s \in SUBSET S : s \in T
  <2> HIDE DEF T
  <2> QED BY <1>1, StrictSubsetInduction
<1>3. S \in T
  BY <1>2
<1> QED BY <1>3
-----------------------------------------------------------------------------
(* What a sum is *)

\* The sum over nothing
LEMMA SumEmpty ==
  ASSUME NEW f
  PROVE  Sum(f, {}) = 0
<1>1. IsTable(f, {}, Table(f, {}))
  BY TableExists, FS_EmptySet
<1>2. {} \in SUBSET {}
  OBVIOUS
<1>3. Table(f, {})[{}] = 0
  BY <1>1, <1>2, EntryOf
<1> QED BY <1>3, SumIsEntry

\* The sum over a nonempty set, in the order of the fold
LEMMA SumPick ==
  ASSUME NEW f, NEW S, IsFiniteSet(S), S # {}
  PROVE  Sum(f, S) = f[Pick(S)] + Sum(f, S \ {Pick(S)})
<1> DEFINE R == S \ {Pick(S)}
<1>1. IsFiniteSet(R) /\ R \in SUBSET S /\ S \in SUBSET S /\ R \in SUBSET R
  BY FS_Subset
<1>2. IsTable(f, S, Table(f, S)) /\ IsTable(f, R, Table(f, R))
  BY <1>1, TableExists
<1>3. Table(f, S)[S] = f[Pick(S)] + Table(f, S)[R]
  BY <1>1, <1>2, EntryOf
<1>4. Table(f, R)[R] = Table(f, S)[R]
  <2> HIDE DEF R
  <2> QED BY <1>1, <1>2, TablesAgree
<1>5. Sum(f, S) = Table(f, S)[S] /\ Sum(f, R) = Table(f, R)[R]
  BY SumIsEntry
<1> QED BY <1>3, <1>4, <1>5

\* A sum of integers is an integer.
LEMMA SumIsInt ==
  ASSUME NEW f, NEW S, IsFiniteSet(S), \A a \in S : f[a] \in Int
  PROVE  \A s \in SUBSET S : Sum(f, s) \in Int
<1> DEFINE T == {s \in SUBSET S : Sum(f, s) \in Int}
<1>1. ASSUME NEW s \in SUBSET S, \A t \in SUBSET s : t # s => t \in T
      PROVE  s \in T
  <2>1. CASE s = {}
    BY <2>1, SumEmpty
  <2>2. CASE s # {}
    <3>1. Pick(s) \in s
      BY <2>2, PickIn
    <3>2. IsFiniteSet(s)
      BY FS_Subset
    <3>3. Sum(f, s) = f[Pick(s)] + Sum(f, s \ {Pick(s)})
      BY <2>2, <3>2, SumPick
    <3>4. Sum(f, s \ {Pick(s)}) \in Int
      BY <1>1, <3>1
    <3> QED BY <3>1, <3>3, <3>4
  <2> QED BY <2>1, <2>2
<1>2. \A s \in SUBSET S : s \in T
  <2> HIDE DEF T
  <2> QED BY <1>1, StrictSubsetInduction
<1> QED BY <1>2

\* Any element may be taken first: the sum does not depend on the order.
LEMMA SumRemove ==
  ASSUME NEW f, NEW S, IsFiniteSet(S), \A a \in S : f[a] \in Int
  PROVE  \A s \in SUBSET S : \A a \in s : Sum(f, s) = f[a] + Sum(f, s \ {a})
<1> DEFINE T == {s \in SUBSET S : \A a \in s : Sum(f, s) = f[a] + Sum(f, s \ {a})}
<1>1. ASSUME NEW s \in SUBSET S, \A t \in SUBSET s : t # s => t \in T
      PROVE  s \in T
  <2> SUFFICES ASSUME NEW a \in s
               PROVE  Sum(f, s) = f[a] + Sum(f, s \ {a})
    OBVIOUS
  <2> DEFINE p == Pick(s)
  <2>1. p \in s /\ IsFiniteSet(s) /\ IsFiniteSet(s \ {a})
    BY PickIn, FS_Subset
  <2>2. Sum(f, s) = f[p] + Sum(f, s \ {p})
    BY <2>1, SumPick
  <2>3. CASE a = p
    BY <2>2, <2>3
  <2>4. CASE a # p
    <3> HIDE DEF p
    <3>1. s \ {p} \in T /\ s \ {a} \in T
      BY <1>1, <2>1
    <3>2. Sum(f, s \ {p}) = f[a] + Sum(f, (s \ {p}) \ {a})
      BY <2>4, <3>1
    <3>3. Sum(f, s \ {a}) = f[p] + Sum(f, (s \ {a}) \ {p})
      BY <2>1, <2>4, <3>1
    <3>4. (s \ {p}) \ {a} = (s \ {a}) \ {p}
      OBVIOUS
    <3>5. Sum(f, (s \ {a}) \ {p}) \in Int
      <4>1. (s \ {a}) \ {p} \in SUBSET S
        OBVIOUS
      <4> QED BY <4>1, SumIsInt
    <3>6. f[a] \in Int /\ f[p] \in Int
      BY <2>1
    <3> DEFINE x == f[a]
               y == f[p]
               z == Sum(f, (s \ {a}) \ {p})
    <3>7. Sum(f, s) = y + (x + z) /\ Sum(f, s \ {a}) = y + z
      BY <2>2, <3>2, <3>3, <3>4
    <3>8. x \in Int /\ y \in Int /\ z \in Int
      BY <3>5, <3>6
    <3> HIDE DEF x, y, z
    <3>9. Sum(f, s) = x + Sum(f, s \ {a})
      BY <3>7, <3>8
    <3> QED BY <3>9 DEF x
  <2> QED BY <2>3, <2>4
<1>2. \A s \in SUBSET S : s \in T
  <2> HIDE DEF T
  <2> QED BY <1>1, StrictSubsetInduction
<1> QED BY <1>2

\* The sum over a set with one more element
LEMMA SumAdd ==
  ASSUME NEW f, NEW S, IsFiniteSet(S), \A a \in S : f[a] \in Int,
         NEW s \in SUBSET S, NEW a \in S \ s
  PROVE  Sum(f, s \cup {a}) = f[a] + Sum(f, s)
<1>1. s \cup {a} \in SUBSET S /\ a \in s \cup {a} /\ (s \cup {a}) \ {a} = s
  OBVIOUS
<1>2. Sum(f, s \cup {a}) = f[a] + Sum(f, (s \cup {a}) \ {a})
  BY <1>1, SumRemove
<1> QED BY <1>1, <1>2
-----------------------------------------------------------------------------
(* How sums compare *)

\* Only the values on the set count.
LEMMA SumSame ==
  ASSUME NEW f, NEW g, NEW S, IsFiniteSet(S),
         \A a \in S : f[a] \in Int /\ g[a] = f[a]
  PROVE  Sum(g, S) = Sum(f, S)
<1> DEFINE T == {s \in SUBSET S : Sum(g, s) = Sum(f, s)}
<1>1. {} \in T
  BY SumEmpty
<1>2. ASSUME NEW s \in SUBSET S, NEW a \in S \ s, s \in T
      PROVE  s \cup {a} \in T
  <2>1. Sum(f, s \cup {a}) = f[a] + Sum(f, s)
    BY SumAdd
  <2>2. Sum(g, s \cup {a}) = g[a] + Sum(g, s)
    BY SumAdd
  <2> QED BY <1>2, <2>1, <2>2
<1>3. S \in T
  <2> HIDE DEF T
  <2> QED BY <1>1, <1>2, AddElementInduction
<1> QED BY <1>3

\* Two functions that differ at one element only
LEMMA SumUpdate ==
  ASSUME NEW f, NEW g, NEW S, IsFiniteSet(S), NEW a \in S,
         \A b \in S : f[b] \in Int /\ g[b] \in Int,
         \A b \in S \ {a} : g[b] = f[b]
  PROVE  Sum(g, S) = Sum(f, S) + g[a] - f[a]
<1>1. IsFiniteSet(S \ {a}) /\ S \in SUBSET S /\ S \ {a} \in SUBSET S
  BY FS_Subset
<1>2. Sum(f, S) = f[a] + Sum(f, S \ {a}) /\ Sum(g, S) = g[a] + Sum(g, S \ {a})
  BY <1>1, SumRemove
<1>3. Sum(g, S \ {a}) = Sum(f, S \ {a})
  BY <1>1, SumSame
<1>4. Sum(f, S \ {a}) \in Int
  BY <1>1, SumIsInt
<1> DEFINE x == Sum(f, S \ {a})
<1>5. Sum(f, S) = f[a] + x /\ Sum(g, S) = g[a] + x /\ x \in Int /\ f[a] \in Int /\ g[a] \in Int
  BY <1>2, <1>3, <1>4
<1> HIDE DEF x
<1> QED BY <1>5

\* The sum of a function that is zero everywhere
LEMMA SumZero ==
  ASSUME NEW f, NEW S, IsFiniteSet(S), \A a \in S : f[a] = 0
  PROVE  Sum(f, S) = 0
<1> DEFINE T == {s \in SUBSET S : Sum(f, s) = 0}
<1>1. {} \in T
  BY SumEmpty
<1>2. ASSUME NEW s \in SUBSET S, NEW a \in S \ s, s \in T
      PROVE  s \cup {a} \in T
  <2>1. Sum(f, s \cup {a}) = f[a] + Sum(f, s)
    BY SumAdd
  <2> QED BY <1>2, <2>1
<1>3. S \in T
  <2> HIDE DEF T
  <2> QED BY <1>1, <1>2, AddElementInduction
<1> QED BY <1>3

\* Sums keep the order of their terms.
LEMMA SumMonotonic ==
  ASSUME NEW f, NEW g, NEW S, IsFiniteSet(S),
         \A a \in S : f[a] \in Int /\ g[a] \in Int /\ f[a] <= g[a]
  PROVE  Sum(f, S) <= Sum(g, S)
<1> DEFINE T == {s \in SUBSET S : Sum(f, s) <= Sum(g, s)}
<1>1. {} \in T
  BY SumEmpty
<1>2. ASSUME NEW s \in SUBSET S, NEW a \in S \ s, s \in T
      PROVE  s \cup {a} \in T
  <2>1. Sum(f, s \cup {a}) = f[a] + Sum(f, s)
    BY SumAdd
  <2>2. Sum(g, s \cup {a}) = g[a] + Sum(g, s)
    BY SumAdd
  <2>3. Sum(f, s) \in Int /\ Sum(g, s) \in Int
    BY SumIsInt
  <2> QED BY <1>2, <2>1, <2>2, <2>3
<1>3. S \in T
  <2> HIDE DEF T
  <2> QED BY <1>1, <1>2, AddElementInduction
<1> QED BY <1>3

\* A sum of naturals is a natural, and none of its terms exceeds it.
LEMMA SumOfNaturals ==
  ASSUME NEW f, NEW S, IsFiniteSet(S), \A a \in S : f[a] \in Nat
  PROVE  Sum(f, S) \in Nat /\ \A a \in S : f[a] <= Sum(f, S)
<1>1. ASSUME NEW s \in SUBSET S
      PROVE  Sum(f, s) \in Nat
  <2> DEFINE zero == [a \in S |-> 0]
  <2>1. Sum(zero, s) = 0 /\ IsFiniteSet(s)
    BY FS_Subset, SumZero
  <2>2. \A a \in s : zero[a] \in Int /\ f[a] \in Int /\ zero[a] <= f[a]
    OBVIOUS
  <2>3. Sum(zero, s) <= Sum(f, s)
    <3> HIDE DEF zero
    <3> QED BY <2>1, <2>2, SumMonotonic
  <2>4. Sum(f, s) \in Int
    BY SumIsInt
  <2> QED BY <2>1, <2>3, <2>4
<1>2. ASSUME NEW a \in S
      PROVE  f[a] <= Sum(f, S)
  <2>1. S \in SUBSET S /\ S \ {a} \in SUBSET S /\ \A b \in S : f[b] \in Int
    OBVIOUS
  <2>2. Sum(f, S) = f[a] + Sum(f, S \ {a})
    BY <2>1, SumRemove
  <2>3. Sum(f, S \ {a}) \in Nat /\ f[a] \in Nat
    BY <1>1, <2>1
  <2> QED BY <2>2, <2>3
<1>3. S \in SUBSET S
  OBVIOUS
<1> QED BY <1>1, <1>2, <1>3

\* A factor of all terms
LEMMA SumScale ==
  ASSUME NEW f, NEW h, NEW S, IsFiniteSet(S), NEW x \in Int,
         \A a \in S : f[a] \in Int /\ h[a] = x * f[a]
  PROVE  Sum(h, S) = x * Sum(f, S)
<1> DEFINE T == {s \in SUBSET S : Sum(h, s) = x * Sum(f, s)}
<1>1. {} \in T
  BY SumEmpty
<1>2. ASSUME NEW s \in SUBSET S, NEW a \in S \ s, s \in T
      PROVE  s \cup {a} \in T
  <2>1. \A b \in S : h[b] \in Int
    OBVIOUS
  <2>2. Sum(f, s \cup {a}) = f[a] + Sum(f, s) /\ Sum(h, s \cup {a}) = h[a] + Sum(h, s)
    BY <2>1, SumAdd
  <2>3. Sum(f, s) \in Int /\ f[a] \in Int
    BY SumIsInt
  <2>4. ASSUME NEW b \in Int, NEW u \in Int
        PROVE  x * b + x * u = x * (b + u)
    OBVIOUS
  <2>5. Sum(h, s) = x * Sum(f, s) /\ h[a] = x * f[a]
    BY <1>2
  <2>6. h[a] + Sum(h, s) = x * (f[a] + Sum(f, s))
    BY <2>3, <2>4, <2>5
  <2> QED BY <2>2, <2>6
<1>3. S \in T
  <2> HIDE DEF T
  <2> QED BY <1>1, <1>2, AddElementInduction
<1> QED BY <1>3

\* The sum of sums
LEMMA SumPlus ==
  ASSUME NEW f, NEW g, NEW h, NEW S, IsFiniteSet(S),
         \A a \in S : f[a] \in Int /\ g[a] \in Int /\ h[a] = f[a] + g[a]
  PROVE  Sum(h, S) = Sum(f, S) + Sum(g, S)
<1> DEFINE T == {s \in SUBSET S : Sum(h, s) = Sum(f, s) + Sum(g, s)}
<1>1. {} \in T
  BY SumEmpty
<1>2. ASSUME NEW s \in SUBSET S, NEW a \in S \ s, s \in T
      PROVE  s \cup {a} \in T
  <2>1. \A b \in S : h[b] \in Int
    OBVIOUS
  <2>2. /\ Sum(f, s \cup {a}) = f[a] + Sum(f, s) /\ Sum(g, s \cup {a}) = g[a] + Sum(g, s)
        /\ Sum(h, s \cup {a}) = h[a] + Sum(h, s)
    BY <2>1, SumAdd
  <2>3. Sum(f, s) \in Int /\ Sum(g, s) \in Int /\ f[a] \in Int /\ g[a] \in Int
    BY SumIsInt
  <2> QED BY <1>2, <2>2, <2>3
<1>3. S \in T
  <2> HIDE DEF T
  <2> QED BY <1>1, <1>2, AddElementInduction
<1> QED BY <1>3

\* Elements sorted into classes: the sums of the classes sum up to the sum.
LEMMA SumByClass ==
  ASSUME NEW A, IsFiniteSet(A), NEW S, IsFiniteSet(S), NEW class, NEW f,
         \A i \in S : class[i] \in A /\ f[i] \in Int
  PROVE  Sum([a \in A |-> Sum(f, {i \in S : class[i] = a})], A) = Sum(f, S)
<1> DEFINE Members(s, a) == {i \in s : class[i] = a}
           Of(s) == [a \in A |-> Sum(f, Members(s, a))]
           T == {s \in SUBSET S : Sum(Of(s), A) = Sum(f, s)}
<1>1. {} \in T
  <2>1. \A a \in A : Members({}, a) = {}
    OBVIOUS
  <2>2. Sum(f, {}) = 0
    BY SumEmpty
  <2>3. \A a \in A : Of({})[a] = 0
    BY <2>1, <2>2
  <2> HIDE DEF Of
  <2>4. Sum(Of({}), A) = 0
    BY <2>3, SumZero
  <2> QED BY <2>2, <2>4
<1>2. ASSUME NEW s \in SUBSET S, NEW e \in S \ s, s \in T
      PROVE  s \cup {e} \in T
  <2>1. class[e] \in A /\ f[e] \in Int /\ s \cup {e} \in SUBSET S
    OBVIOUS
  <2>2. \A a \in A : \A t \in SUBSET S : Members(t, a) \in SUBSET S
    OBVIOUS
  <2>3. \A a \in A : Of(s)[a] \in Int /\ Of(s \cup {e})[a] \in Int
    <3>1. \A t \in SUBSET S : Sum(f, t) \in Int
      BY SumIsInt
    <3> QED BY <2>1, <2>2, <3>1
  <2>4. \A a \in A \ {class[e]} : Of(s \cup {e})[a] = Of(s)[a]
    <3>1. \A a \in A \ {class[e]} : Members(s \cup {e}, a) = Members(s, a)
      OBVIOUS
    <3> QED BY <3>1
  <2>5. Of(s \cup {e})[class[e]] = Of(s)[class[e]] + f[e]
    <3> DEFINE m == Members(s, class[e])
    <3>1. m \in SUBSET S /\ e \in S \ m /\ Members(s \cup {e}, class[e]) = m \cup {e}
      OBVIOUS
    <3> HIDE DEF m
    <3>2. Sum(f, m \cup {e}) = f[e] + Sum(f, m)
      BY <3>1, SumAdd
    <3>3. Sum(f, m) \in Int
      BY <3>1, SumIsInt
    <3>4. Sum(f, m \cup {e}) = Sum(f, m) + f[e]
      BY <2>1, <3>2, <3>3
    <3> QED BY <2>1, <3>1, <3>4 DEF m
  <2>6. Sum(f, s \cup {e}) = f[e] + Sum(f, s) /\ Sum(f, s) \in Int
    BY SumAdd, SumIsInt
  <2> DEFINE before == Of(s)
             after == Of(s \cup {e})
             c == class[e]
  <2> HIDE DEF Of, before, after, c
  <2>7. Sum(after, A) = Sum(before, A) + after[c] - before[c]
    <3>1. c \in A /\ \A a \in A : before[a] \in Int /\ after[a] \in Int
      BY <2>1, <2>3 DEF before, after, c
    <3>2. \A a \in A \ {c} : after[a] = before[a]
      BY <2>4 DEF before, after, c
    <3> QED BY <3>1, <3>2, SumUpdate
  <2>8. Sum(before, A) = Sum(f, s)
    BY <1>2 DEF before
  <2>9. after[c] = before[c] + f[e] /\ before[c] \in Int
    BY <2>1, <2>3, <2>5 DEF before, after, c
  <2>10. Sum(after, A) = Sum(f, s \cup {e})
    BY <2>1, <2>6, <2>7, <2>8, <2>9
  <2> QED BY <2>1, <2>10 DEF after
<1>3. S \in T
  <2> HIDE DEF T
  <2> QED BY <1>1, <1>2, AddElementInduction
<1> QED BY <1>3

\* Counting by adding
LEMMA SumOfOnes ==
  ASSUME NEW f, NEW S, IsFiniteSet(S), \A a \in S : f[a] = 1
  PROVE  Sum(f, S) = Cardinality(S)
<1> DEFINE T == {s \in SUBSET S : Sum(f, s) = Cardinality(s)}
<1>1. {} \in T
  BY SumEmpty, FS_EmptySet
<1>2. ASSUME NEW s \in SUBSET S, NEW a \in S \ s, s \in T
      PROVE  s \cup {a} \in T
  <2>1. IsFiniteSet(s)
    BY FS_Subset
  <2>2. Cardinality(s \cup {a}) = Cardinality(s) + 1 /\ Cardinality(s) \in Nat
    BY <2>1, FS_AddElement, FS_CardinalityType
  <2>3. Sum(f, s \cup {a}) = f[a] + Sum(f, s) /\ f[a] = 1
    <3>1. \A b \in S : f[b] \in Int
      OBVIOUS
    <3> QED BY <3>1, SumAdd
  <2> QED BY <1>2, <2>2, <2>3
<1>3. S \in T
  <2> HIDE DEF T
  <2> QED BY <1>1, <1>2, AddElementInduction
<1> QED BY <1>3

\* What one element loses and another one gains leaves the sum as it was.
LEMMA SumMove ==
  ASSUME NEW f, NEW g, NEW S, IsFiniteSet(S), NEW a \in S, NEW b \in S, a # b,
         \A c \in S : f[c] \in Int, NEW x \in Int,
         g[a] = f[a] - x, g[b] = f[b] + x,
         \A c \in S \ {a, b} : g[c] = f[c]
  PROVE  Sum(g, S) = Sum(f, S)
<1> DEFINE h == [c \in S |-> IF c = a THEN f[a] - x ELSE f[c]]
<1>1. /\ \A c \in S : h[c] \in Int /\ g[c] \in Int
      /\ \A c \in S \ {a} : h[c] = f[c]
      /\ \A c \in S \ {b} : g[c] = h[c]
      /\ h[a] - f[a] = -x /\ g[b] - h[b] = x
  OBVIOUS
<1> HIDE DEF h
<1>2. Sum(h, S) = Sum(f, S) + h[a] - f[a]
  BY <1>1, SumUpdate
<1>3. Sum(g, S) = Sum(h, S) + g[b] - h[b]
  BY <1>1, SumUpdate
<1>4. Sum(f, S) \in Int /\ Sum(h, S) \in Int
  <2>1. S \in SUBSET S
    OBVIOUS
  <2> QED BY <1>1, <2>1, SumIsInt
<1> QED BY <1>1, <1>2, <1>3, <1>4

\* What one element gives away, the elements together get.
LEMMA SumHandOut ==
  ASSUME NEW f, NEW g, NEW got, NEW S, IsFiniteSet(S), NEW a \in S, NEW x \in Int,
         \A b \in S : f[b] \in Int /\ got[b] \in Int,
         g[a] = f[a] + got[a] - x,
         \A b \in S \ {a} : g[b] = f[b] + got[b],
         Sum(got, S) = x
  PROVE  Sum(g, S) = Sum(f, S)
<1> DEFINE h == [b \in S |-> f[b] + got[b]]
<1>1. /\ \A b \in S : h[b] \in Int /\ g[b] \in Int
      /\ \A b \in S \ {a} : g[b] = h[b]
      /\ \A b \in S : f[b] \in Int /\ got[b] \in Int /\ h[b] = f[b] + got[b]
      /\ g[a] - h[a] = -x
  OBVIOUS
<1> HIDE DEF h
<1>2. Sum(h, S) = Sum(f, S) + Sum(got, S)
  BY <1>1, SumPlus
<1>3. Sum(g, S) = Sum(h, S) + g[a] - h[a]
  BY <1>1, SumUpdate
<1>4. Sum(f, S) \in Int
  <2>1. S \in SUBSET S
    OBVIOUS
  <2> QED BY <1>1, <2>1, SumIsInt
<1> QED BY <1>1, <1>2, <1>3, <1>4
=============================================================================
