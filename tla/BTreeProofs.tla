---------------------------- MODULE BTreeProofs ----------------------------
(***************************************************************************)
(* Theorems about BTree, for every set of keys and values, every page size *)
(* and every file size, as long as the root's internal page does not fill  *)
(* up (InternalSplits = FALSE): the tree is then a leaf, or one internal   *)
(* page over leaves.  What happens after that is a finding.                *)
(***************************************************************************)
EXTENDS BTree, Integers, FiniteSetTheorems, WellFoundedInduction, TLAPS

-----------------------------------------------------------------------------
(* The invariant: the leaves are numbered by the separator they hang       *)
(* behind, -1 for the leftmost one or the only one                         *)

Inner(t)  == t.root # NoPage /\ t.node[t.root].level = "internal"
Top(t)    == t.node[t.root]
Idx(t)    == IF t.root = NoPage THEN {}
             ELSE IF ~Inner(t) THEN {-1}
             ELSE DOMAIN Top(t).cells \cup (IF Top(t).leftmost = NoPage THEN {} ELSE {-1})
Kid(t, i) == IF ~Inner(t) THEN t.root ELSE IF i = -1 THEN Top(t).leftmost ELSE Top(t).cells[i]
At(t, i)  == t.node[Kid(t, i)]

\* a page of the model, field by field
Page(level, cells, used, parent, prev, next, leftmost) ==
    [level |-> level, cells |-> cells, used |-> used, parent |-> parent,
     prev |-> prev, next |-> next, leftmost |-> leftmost]
Fielded(n) == n = Page(n.level, n.cells, n.used, n.parent, n.prev, n.next, n.leftmost)

Room(n) == IF n.level = "internal" THEN InternalCap ELSE MergeCap
NodeOK(n) ==
    /\ Fielded(n)
    /\ n.level \in {"leaf", "internal", "unused"}
    /\ DOMAIN n.cells \subseteq Keys
    /\ \A k \in DOMAIN n.cells : n.cells[k] \in IF n.level = "leaf" THEN Values ELSE Pages
    /\ n.used \in Nat /\ Size(n) <= n.used /\ n.used <= Room(n)
    /\ {n.parent, n.prev, n.next, n.leftmost} \subseteq Pages \cup {NoPage}

\* each leaf has one place and knows its parent
Leaves(t) == \A i \in Idx(t) :
    /\ Kid(t, i) \in Pages /\ At(t, i).level = "leaf"
    /\ At(t, i).parent = IF Inner(t) THEN t.root ELSE NoPage
    /\ \A j \in Idx(t) : Kid(t, i) = Kid(t, j) => i = j
\* a leaf's keys are not below its separator and below all later ones
Sorted(t) == \A i \in Idx(t) : \A k \in DOMAIN At(t, i).cells :
    i <= k /\ \A j \in Idx(t) : i < j => k < j
\* next_page_id leads to the leaf behind the next separator
Chained(t) == \A i \in Idx(t) :
    \/ At(t, i).next = NoPage /\ \A j \in Idx(t) : j <= i
    \/ \E j \in Idx(t) : /\ i < j /\ At(t, i).next = Kid(t, j)
                         /\ \A m \in Idx(t) : i < m => j <= m
Accounted(t) == /\ t.alloc = {Kid(t, i) : i \in Idx(t)} \cup ({t.root} \ {NoPage})
                /\ \A p \in Pages \ t.alloc : t.node[p] = Unused
Fields(t) == /\ t = [node |-> t.node, alloc |-> t.alloc, root |-> t.root]
             /\ t.node = [p \in Pages |-> t.node[p]]
Shape(t) ==
    /\ Fields(t)
    /\ \A p \in Pages : NodeOK(t.node[p])
    /\ t.root \in Pages \cup {NoPage}
    /\ t.root # NoPage => Top(t).level \in {"leaf", "internal"} /\ Top(t).parent = NoPage
    /\ Idx(t) # {} => -1 \in Idx(t) /\ At(t, -1).prev = NoPage
    /\ Leaves(t) /\ Sorted(t) /\ Chained(t) /\ Accounted(t)

-----------------------------------------------------------------------------
(* Sets of numbers                                                         *)

LEMMA LeastNatural ==
    ASSUME NEW T, T \subseteq Nat, T # {}
    PROVE  \E x \in T : \A y \in T : x <= y
<1>1. \E x \in T : \A y \in T : ~(<<y, x>> \in OpToRel(<, Nat))
  BY NatLessThanWellFounded, WFMin
<1>2. PICK x \in T : \A y \in T : ~(<<y, x>> \in OpToRel(<, Nat))
  BY <1>1
<1>3. ASSUME NEW y \in T PROVE x <= y
  <2>1. ~(y < x)
    BY <1>2 DEF OpToRel
  <2> QED BY <2>1
<1> QED BY <1>3

LEMMA LeastIs ==
    ASSUME NEW T, T \subseteq Int, T # {}, NEW b \in Int, \A x \in T : b <= x
    PROVE  Least(T) \in T /\ \A y \in T : Least(T) <= y
<1> DEFINE N == {x - b : x \in T}
<1>1. N \subseteq Nat /\ N # {}
  <2>1. \A x \in T : x \in Int /\ b <= x
    OBVIOUS
  <2>2. \A x \in T : x - b \in Nat
    BY <2>1
  <2> QED BY <2>2
<1>2. PICK n \in N : \A m \in N : n <= m
  BY <1>1, LeastNatural
<1>3. n + b \in T /\ \A y \in T : n + b <= y
  <2>1. PICK x \in T : n = x - b
    OBVIOUS
  <2>2. ASSUME NEW y \in T PROVE x <= y
    <3>1. n <= y - b
      BY <1>2
    <3> QED BY <2>1, <3>1
  <2> QED BY <2>1, <2>2
<1> QED BY <1>3 DEF Least

LEMMA GreatestIs ==
    ASSUME NEW T, T \subseteq Int, T # {}, NEW b \in Int, \A x \in T : x <= b
    PROVE  Greatest(T) \in T /\ \A y \in T : y <= Greatest(T)
<1> DEFINE N == {b - x : x \in T}
<1>1. N \subseteq Nat /\ N # {}
  OBVIOUS
<1>2. PICK n \in N : \A m \in N : n <= m
  BY <1>1, LeastNatural
<1>3. \E x \in T : \A y \in T : y <= x
  <2>1. PICK x \in T : n = b - x
    OBVIOUS
  <2>2. ASSUME NEW y \in T PROVE y <= x
    <3>1. n <= b - y
      BY <1>2
    <3> QED BY <2>1, <3>1
  <2> QED BY <2>2
<1> QED BY <1>3 DEF Greatest

LEMMA FiniteHasGreatest ==
    ASSUME NEW S, IsFiniteSet(S), S \subseteq Nat, S # {}
    PROVE  \E x \in S : \A y \in S : y <= x
<1> DEFINE Bad == {U \in FiniteSubsetsOf(S) : U # {} /\ ~ \E x \in U : \A y \in U : y <= x}
<1> SUFFICES ASSUME Bad # {} PROVE FALSE
  <2>1. S \in FiniteSubsetsOf(S)
    BY DEF FiniteSubsetsOf
  <2> QED BY <2>1
<1>1. Bad \subseteq FiniteSubsetsOf(S)
  OBVIOUS
<1>2. IsWellFoundedOn(StrictSubsetOrdering(S), FiniteSubsetsOf(S))
  BY FS_StrictSubsetOrderingWellFounded
<1> HIDE DEF Bad
<1>3. PICK U \in Bad : \A V \in Bad : ~(<<V, U>> \in StrictSubsetOrdering(S))
  BY <1>1, <1>2, WFMin
<1>4. U \subseteq S /\ IsFiniteSet(U) /\ U # {} /\ ~ \E x \in U : \A y \in U : y <= x
  BY DEF Bad, FiniteSubsetsOf
<1>5. PICK u \in U : TRUE
  BY <1>4
<1> DEFINE V == U \ {u}
<1>6. V \in FiniteSubsetsOf(S)
  BY <1>4, FS_RemoveElement DEF FiniteSubsetsOf
<1>7. <<V, U>> \in StrictSubsetOrdering(S)
  BY <1>4, <1>5 DEF StrictSubsetOrdering
<1>8. V \notin Bad
  BY <1>3, <1>7
<1>9. V = {} \/ \E x \in V : \A y \in V : y <= x
  BY <1>6, <1>8 DEF Bad
<1>10. CASE V = {}
  <2>1. U = {u}
    BY <1>5, <1>10
  <2> QED BY <1>4, <2>1
<1>11. CASE \E x \in V : \A y \in V : y <= x
  <2>1. PICK x \in V : \A y \in V : y <= x
    BY <1>11
  <2>2. x \in Nat /\ u \in Nat /\ x \in U
    BY <1>4, <1>5, <2>1
  <2>3. CASE u <= x
    <3>1. \A y \in U : y <= x
      BY <2>1, <2>3
    <3> QED BY <1>4, <2>2, <3>1
  <2>4. CASE ~(u <= x)
    <3>1. \A y \in U : y <= u
      <4> TAKE y \in U
      <4>1. y \in Nat
        BY <1>4
      <4>2. y = u \/ y <= x
        BY <2>1
      <4> QED BY <2>2, <2>4, <4>1, <4>2
    <3> QED BY <1>4, <1>5, <3>1
  <2> QED BY <2>3, <2>4
<1> QED BY <1>9, <1>10, <1>11

\* the n smallest of S and the others, as a split divides the keys of a page
LEMMA Dividing ==
    ASSUME NEW S, IsFiniteSet(S), S \subseteq Nat, NEW n \in Nat \ {0}, n < Cardinality(S)
    PROVE  LET low == Smallest(S, n)
               high == S \ low
           IN  /\ low \subseteq S /\ low # {} /\ high # {}
               /\ \A a \in low, b \in high : a < b
               /\ IsFiniteSet(low) /\ IsFiniteSet(high)
               /\ Cardinality(low) \in Nat /\ Cardinality(low) < Cardinality(S)
               /\ Cardinality(high) \in Nat /\ Cardinality(high) < Cardinality(S)
<1> DEFINE Under(k) == {j \in S : j < k}
           low == Smallest(S, n)
           high == S \ low
<1>1. \A k \in S : IsFiniteSet(Under(k)) /\ Cardinality(Under(k)) \in Nat
  BY FS_Subset, FS_CardinalityType
<1>2. \A k \in S : k \in low <=> Cardinality(Under(k)) < n
  BY DEF Smallest
<1>3. low \subseteq S
  BY DEF Smallest
<1>4. S # {}
  BY FS_EmptySet
<1>5. low # {}
  <2>1. PICK k \in S : \A j \in S : k <= j
    BY <1>4, LeastNatural
  <2>2. Under(k) = {}
    <3> SUFFICES ASSUME NEW j \in S, j < k PROVE FALSE
      OBVIOUS
    <3>1. j \in Nat /\ k \in Nat /\ k <= j
      BY <2>1
    <3> QED BY <3>1
  <2>3. Cardinality(Under(k)) = 0
    BY <2>2, FS_EmptySet
  <2> QED BY <1>2, <2>3
<1>6. high # {}
  <2>1. PICK k \in S : \A j \in S : j <= k
    BY <1>4, FiniteHasGreatest
  <2>2. Under(k) = S \ {k}
    <3>1. ASSUME NEW j \in S PROVE j < k <=> j # k
      <4>1. j \in Nat /\ k \in Nat /\ j <= k
        BY <2>1
      <4> QED BY <4>1
    <3> QED BY <3>1
  <2>3. Cardinality(Under(k)) = Cardinality(S) - 1
    BY <2>1, <2>2, FS_RemoveElement
  <2>4. Cardinality(S) \in Nat
    BY FS_CardinalityType
  <2> QED BY <1>2, <2>3, <2>4
<1>7. ASSUME NEW a \in low, NEW b \in high PROVE a < b
  <2> SUFFICES ASSUME ~(a < b) PROVE FALSE
    OBVIOUS
  <2>1. a \in S /\ b \in S /\ a \in Nat /\ b \in Nat /\ b <= a
    <3>1. a \in S /\ b \in S
      BY <1>3
    <3>2. a \in Nat /\ b \in Nat
      BY <3>1
    <3> QED BY <3>1, <3>2
  <2>2. Under(b) \subseteq Under(a)
    <3> SUFFICES ASSUME NEW j \in S, j < b PROVE j < a
      OBVIOUS
    <3>1. j \in Nat
      OBVIOUS
    <3> QED BY <2>1, <3>1
  <2> HIDE DEF Under, low
  <2>3. Cardinality(Under(b)) <= Cardinality(Under(a))
    BY <1>1, <2>1, <2>2, FS_Subset
  <2>4. Cardinality(Under(a)) < n /\ ~(Cardinality(Under(b)) < n)
    BY <1>2, <2>1
  <2> QED BY <1>1, <2>1, <2>3, <2>4
<1>8. /\ IsFiniteSet(low) /\ IsFiniteSet(high)
      /\ Cardinality(low) \in Nat /\ Cardinality(high) \in Nat /\ Cardinality(S) \in Nat
  BY <1>3, FS_Subset, FS_CardinalityType
<1>9. Cardinality(low) < Cardinality(S) /\ Cardinality(high) < Cardinality(S)
  <2>1. low # S /\ high # S /\ high \subseteq S
    BY <1>3, <1>5, <1>6
  <2> HIDE DEF low, high
  <2>2. Cardinality(low) <= Cardinality(S) /\ Cardinality(high) <= Cardinality(S)
    BY <1>3, <2>1, FS_Subset
  <2>3. Cardinality(low) # Cardinality(S) /\ Cardinality(high) # Cardinality(S)
    BY <1>3, <2>1, FS_Subset
  <2> QED BY <1>8, <2>2, <2>3
<1> QED BY <1>3, <1>5, <1>6, <1>7, <1>8, <1>9

-----------------------------------------------------------------------------
(* What a tree of this shape is                                            *)

LEMMA Basics ==
    /\ NoPage \notin Pages /\ NoPage = 0 /\ Pages \subseteq Nat /\ Keys \subseteq Nat
    /\ \A S : S \subseteq Keys => IsFiniteSet(S) /\ Cardinality(S) \in Nat
    /\ LeafCap \in Nat /\ LeafCap >= 2 /\ MergeCap \in Nat /\ MergeCap >= LeafCap
    /\ InternalCap \in Nat /\ InternalCap >= 1
    /\ NoValue \notin Values
<1>1. \A S : S \subseteq Keys => IsFiniteSet(S) /\ Cardinality(S) \in Nat
  BY BTAssumption, FS_Subset, FS_CardinalityType
<1> QED BY <1>1, BTAssumption DEF NoPage, Pages

LEMMA IdxFacts ==
    ASSUME NEW t, Shape(t)
    PROVE  /\ Idx(t) \subseteq Keys \cup {-1} /\ Idx(t) \subseteq Int
           /\ \A i \in Idx(t) : -1 <= i
           /\ Inner(t) => /\ DOMAIN Top(t).cells = Idx(t) \ {-1} /\ t.root \in Pages
                          /\ Top(t).leftmost = IF Idx(t) = {} THEN NoPage ELSE Kid(t, -1)
                          /\ \A i \in Idx(t) \ {-1} : Kid(t, i) = Top(t).cells[i]
           /\ ~Inner(t) => Idx(t) = IF t.root = NoPage THEN {} ELSE {-1}
           /\ ~Inner(t) /\ t.root # NoPage => Top(t).level = "leaf" /\ Kid(t, -1) = t.root
<1>1. t.root # NoPage => t.root \in Pages /\ NodeOK(Top(t)) /\ Top(t).level \in {"leaf", "internal"}
  BY DEF Shape, Top
<1>2. Inner(t) => DOMAIN Top(t).cells \subseteq Keys /\ t.root \in Pages
  BY <1>1 DEF NodeOK, Inner
<1>3. Inner(t) => Idx(t) = DOMAIN Top(t).cells \cup (IF Top(t).leftmost = NoPage THEN {} ELSE {-1})
  BY DEF Idx, Inner
<1>4. ~Inner(t) => Idx(t) = IF t.root = NoPage THEN {} ELSE {-1}
  BY DEF Idx
<1>5. Idx(t) \subseteq Keys \cup {-1}
  BY <1>2, <1>3, <1>4
<1>6. Idx(t) \subseteq Int /\ \A i \in Idx(t) : -1 <= i
  <2>1. ASSUME NEW i \in Idx(t) PROVE i \in Int /\ -1 <= i
    <3>1. i \in Nat \/ i = -1
      BY <1>5, Basics
    <3> QED BY <3>1
  <2> QED BY <2>1
<1>7. -1 \notin Keys
  BY Basics
<1>8. ASSUME Inner(t)
      PROVE  /\ DOMAIN Top(t).cells = Idx(t) \ {-1}
             /\ Top(t).leftmost = IF Idx(t) = {} THEN NoPage ELSE Kid(t, -1)
             /\ \A i \in Idx(t) \ {-1} : Kid(t, i) = Top(t).cells[i]
  <2>1. Idx(t) # {} => -1 \in Idx(t)
    BY DEF Shape
  <2>2. \A i : Kid(t, i) = IF i = -1 THEN Top(t).leftmost ELSE Top(t).cells[i]
    BY <1>8 DEF Kid
  <2> QED BY <1>2, <1>3, <1>7, <1>8, <2>1, <2>2
<1>9. ~Inner(t) /\ t.root # NoPage => Top(t).level = "leaf" /\ Kid(t, -1) = t.root
  BY <1>1 DEF Inner, Top, Kid
<1> QED BY <1>2, <1>4, <1>5, <1>6, <1>8, <1>9

\* internal_find_child and the descent end in the leaf of the last index not
\* above the key
Home(t, k, i) == i \in Idx(t) /\ i <= k /\ \A j \in Idx(t) : j <= k => j <= i

LEMMA FindLeafIs ==
    ASSUME NEW t, Shape(t), NEW k \in Keys
    PROVE  IF Idx(t) = {} THEN FindLeaf(t, k) = NoPage
           ELSE \E i \in Idx(t) : Home(t, k, i) /\ FindLeaf(t, k) = Kid(t, i)
<1> DEFINE Below(p) == IF p # NoPage /\ t.node[p].level = "internal" THEN Child(t.node[p], k) ELSE p
           end == Below(Below(Below(t.root)))
<1>1. FindLeaf(t, k) = IF end # NoPage /\ t.node[end].level = "leaf" THEN end ELSE NoPage
  BY DEF FindLeaf, Descend
<1>2. k \in Nat
  BY Basics
<1>3. CASE ~Inner(t)
  <2>1. end = t.root
    BY <1>3 DEF Inner
  <2>2. CASE t.root = NoPage
    <3>1. Idx(t) = {}
      BY <1>3, <2>2, IdxFacts
    <3> QED BY <1>1, <2>1, <2>2, <3>1
  <2>3. CASE t.root # NoPage
    <3>1. Idx(t) = {-1} /\ Top(t).level = "leaf" /\ Kid(t, -1) = t.root
      BY <1>3, <2>3, IdxFacts, SMTT(40)
    <3>2. FindLeaf(t, k) = t.root
      BY <1>1, <2>1, <2>3, <3>1 DEF Top
    <3>3. Home(t, k, -1)
      BY <1>2, <3>1 DEF Home
    <3> QED BY <3>1, <3>2, <3>3
  <2> QED BY <2>2, <2>3, SMTT(40)
<1>4. CASE Inner(t)
  <2> DEFINE n == Top(t)
             below == ChildSeparators(n, k)
             c == Child(n, k)
  <2>1. /\ DOMAIN n.cells = Idx(t) \ {-1} /\ Idx(t) \subseteq Int
        /\ n.leftmost = IF Idx(t) = {} THEN NoPage ELSE Kid(t, -1)
        /\ \A i \in Idx(t) \ {-1} : Kid(t, i) = n.cells[i]
        /\ \A i \in Idx(t) : -1 <= i
    BY <1>4, IdxFacts
  <2>2. Below(t.root) = c
    BY <1>4 DEF Inner, Top
  <2>3. below = {s \in Idx(t) \ {-1} : s <= k}
    BY <2>1 DEF ChildSeparators
  <2>4. \A i \in Idx(t) : Kid(t, i) \in Pages /\ t.node[Kid(t, i)].level = "leaf"
    BY SMTT(40) DEF Shape, Leaves, At
  <2>5. CASE Idx(t) = {}
    <3>1. c = NoPage
      BY <2>1, <2>3, <2>5 DEF Child
    <3> QED BY <1>1, <2>2, <2>5, <3>1
  <2>6. ASSUME Idx(t) # {}
        PROVE  \E i \in Idx(t) : Home(t, k, i) /\ c = Kid(t, i)
    <3>1. -1 \in Idx(t)
      BY <2>6 DEF Shape
    <3>2. CASE below # {}
      <4> DEFINE g == Greatest(below)
      <4>1. below \subseteq Int /\ \A s \in below : s <= k
        BY <2>1, <2>3
      <4> HIDE DEF below
      <4>2. g \in below /\ \A s \in below : s <= g
        <5>1. k \in Int
          BY <1>2
        <5> QED BY <3>2, <4>1, <5>1, GreatestIs
      <4>3. c = n.cells[g]
        BY <3>2 DEF Child, below
      <4> HIDE DEF g
      <4>4. g \in Idx(t) \ {-1} /\ g <= k /\ g \in Int /\ -1 <= g
        BY <2>1, <2>3, <4>2
      <4>5. \A j \in Idx(t) : j <= k => j <= g
        BY <2>3, <4>2, <4>4
      <4> QED BY <2>1, <4>3, <4>4, <4>5 DEF Home
    <3>3. CASE below = {}
      <4>1. n.leftmost = Kid(t, -1) /\ Kid(t, -1) # NoPage
        BY <2>1, <2>4, <2>6, <3>1, Basics
      <4>2. c = Kid(t, -1)
        BY <3>3, <4>1 DEF Child
      <4>3. Home(t, k, -1)
        BY <1>2, <2>3, <3>1, <3>3 DEF Home
      <4> QED BY <3>1, <4>2, <4>3
    <3> QED BY <3>2, <3>3
  <2>7. CASE Idx(t) # {}
    <3>1. PICK i \in Idx(t) : Home(t, k, i) /\ c = Kid(t, i)
      BY <2>6, <2>7
    <3>2. c # NoPage /\ t.node[c].level = "leaf"
      BY <2>4, <3>1, Basics
    <3> HIDE DEF c
    <3>3. Below(c) = c
      BY <3>2
    <3>4. end = Below(Below(Below(t.root)))
      OBVIOUS
    <3> HIDE DEF Below, end
    <3>5. end = c
      BY <2>2, <3>3, <3>4
    <3> QED BY <1>1, <2>7, <3>1, <3>2, <3>5
  <2> QED BY <2>5, <2>7
<1> QED BY <1>3, <1>4

\* there is one such leaf, and a key is in no other
LEMMA HomeIsOne ==
    ASSUME NEW t, Shape(t), NEW k \in Keys, NEW i, Home(t, k, i), NEW j \in Idx(t)
    PROVE  /\ Home(t, k, j) => j = i
           /\ k \in DOMAIN At(t, j).cells => j = i
<1>1. i \in Int /\ j \in Int /\ k \in Int /\ i \in Idx(t)
  BY IdxFacts, Basics DEF Home
<1>2. Home(t, k, j) => j = i
  <2>1. Home(t, k, j) => i <= j /\ j <= i
    BY <1>1 DEF Home
  <2> QED BY <1>1, <2>1
<1>3. ASSUME k \in DOMAIN At(t, j).cells PROVE Home(t, k, j)
  <2>1. j <= k /\ \A m \in Idx(t) : j < m => k < m
    BY <1>3 DEF Shape, Sorted
  <2>2. ASSUME NEW m \in Idx(t), m <= k PROVE m <= j
    <3>1. m \in Int
      BY IdxFacts
    <3> QED BY <1>1, <2>1, <2>2, <3>1
  <2> QED BY <2>1, <2>2 DEF Home
<1> QED BY <1>2, <1>3

\* the tree holds the value v for k
Holds(t, k, v) == \E i \in Idx(t) : k \in DOMAIN At(t, i).cells /\ At(t, i).cells[k] = v

LEMMA Searching ==
    ASSUME NEW t, Shape(t), NEW k \in Keys
    PROVE  /\ Search(t, k) \in Values \cup {NoValue}
           /\ \A v \in Values : Search(t, k) = v <=> Holds(t, k, v)
<1>1. \A i \in Idx(t) : \A j \in DOMAIN At(t, i).cells : At(t, i).cells[j] \in Values
  BY DEF Shape, Leaves, At, NodeOK
<1>2. CASE Idx(t) = {}
  <2>1. FindLeaf(t, k) = NoPage
    BY <1>2, FindLeafIs
  <2> QED BY <1>2, <2>1, Basics DEF Search, Holds
<1>3. CASE Idx(t) # {}
  <2>1. PICK i \in Idx(t) : Home(t, k, i) /\ FindLeaf(t, k) = Kid(t, i)
    BY <1>3, FindLeafIs
  <2>2. Kid(t, i) # NoPage
    BY Basics DEF Shape, Leaves
  <2>3. Search(t, k) = IF k \in DOMAIN At(t, i).cells THEN At(t, i).cells[k] ELSE NoValue
    BY <2>1, <2>2 DEF Search, At
  <2>4. \A j \in Idx(t) : k \in DOMAIN At(t, j).cells => j = i
    BY <2>1, HomeIsOne
  <2> QED BY <1>1, <2>1, <2>3, <2>4, Basics DEF Holds
<1> QED BY <1>2, <1>3

-----------------------------------------------------------------------------
(* A leaf's records change                                                 *)

\* the page p is m now
Set(t, p, m) == [t EXCEPT !.node[p] = m]

LEMMA Setting ==
    ASSUME NEW t, Fields(t), NEW p \in Pages, NEW m, NEW s, s = Set(t, p, m)
    PROVE  /\ s.root = t.root /\ s.alloc = t.alloc /\ Fields(s)
           /\ s.node[p] = m
           /\ \A q \in Pages \ {p} : s.node[q] = t.node[q]
<1> DEFINE g == [t.node EXCEPT ![p] = m]
<1>1. /\ t = [node |-> t.node, alloc |-> t.alloc, root |-> t.root]
      /\ t.node = [q \in Pages |-> t.node[q]]
  BY DEF Fields
<1>2. s = [node |-> g, alloc |-> t.alloc, root |-> t.root]
  BY <1>1 DEF Set
<1>3. g = [q \in Pages |-> IF q = p THEN m ELSE t.node[q]]
  BY <1>1
<1> HIDE DEF g
<1>4. s.node = g /\ s.alloc = t.alloc /\ s.root = t.root
  BY <1>2
<1>5. g = [q \in Pages |-> g[q]] /\ g[p] = m /\ \A q \in Pages \ {p} : g[q] = t.node[q]
  BY <1>3
<1>6. Fields(s)
  BY <1>2, <1>4, <1>5 DEF Fields
<1> QED BY <1>4, <1>5, <1>6

\* the page p of s holds the records c, and u cells were written to it
Edited(t, s, p, c, u) ==
    /\ s.root = t.root /\ s.alloc = t.alloc /\ Fields(s)
    /\ LET n == t.node[p] IN s.node[p] = Page(n.level, c, u, n.parent, n.prev, n.next, n.leftmost)
    /\ \A q \in Pages \ {p} : s.node[q] = t.node[q]

LEMMA PutEdits ==
    ASSUME NEW t, Fields(t), NEW p \in Pages, Fielded(t.node[p]), NEW k, NEW v
    PROVE  Edited(t, Put(t, p, k, v), p, With(t.node[p].cells, k, v), t.node[p].used + 1)
<1> DEFINE n == t.node[p]
           c == With(n.cells, k, v)
           a == [n EXCEPT !.cells = c]
           f == Set(t, p, a)
           b == [f.node[p] EXCEPT !.used = f.node[p].used + 1]
           s == Set(f, p, b)
<1>1. Put(t, p, k, v) = s
  BY DEF Put, Set
<1>2. n = Page(n.level, n.cells, n.used, n.parent, n.prev, n.next, n.leftmost)
  BY DEF Fielded
<1> HIDE DEF n, c
<1>3. a = Page(n.level, c, n.used, n.parent, n.prev, n.next, n.leftmost)
  BY <1>2 DEF Page
<1>4. /\ f.root = t.root /\ f.alloc = t.alloc /\ Fields(f) /\ f.node[p] = a
      /\ \A q \in Pages \ {p} : f.node[q] = t.node[q]
  <2> HIDE DEF a
  <2> QED BY Setting
<1> HIDE DEF f, a
<1>5. b = Page(n.level, c, n.used + 1, n.parent, n.prev, n.next, n.leftmost)
  BY <1>3, <1>4 DEF Page
<1> HIDE DEF b
<1>6. /\ s.root = f.root /\ s.alloc = f.alloc /\ Fields(s) /\ s.node[p] = b
      /\ \A q \in Pages \ {p} : s.node[q] = f.node[q]
  BY <1>4, Setting
<1> HIDE DEF s
<1>7. Edited(t, s, p, c, n.used + 1)
  BY <1>4, <1>5, <1>6 DEF Edited, n
<1> QED BY <1>1, <1>7 DEF c, n

\* the cells of the page p are c now
Recelled(t, p, c) == [t EXCEPT !.node[p].cells = c]

LEMMA CutEdits ==
    ASSUME NEW t, Fields(t), NEW p \in Pages, Fielded(t.node[p]), NEW c, NEW s, s = Recelled(t, p, c)
    PROVE  Edited(t, s, p, c, t.node[p].used)
<1> DEFINE n == t.node[p]
           a == [n EXCEPT !.cells = c]
<1>1. s = Set(t, p, a)
  BY DEF Set, Recelled
<1>2. n = Page(n.level, n.cells, n.used, n.parent, n.prev, n.next, n.leftmost)
  BY DEF Fielded
<1> HIDE DEF n
<1>3. a = Page(n.level, c, n.used, n.parent, n.prev, n.next, n.leftmost)
  BY <1>2 DEF Page
<1> HIDE DEF a
<1>4. /\ s.root = t.root /\ s.alloc = t.alloc /\ Fields(s) /\ s.node[p] = a
      /\ \A q \in Pages \ {p} : s.node[q] = t.node[q]
  BY <1>1, Setting
<1> QED BY <1>3, <1>4 DEF Edited, n

\* records that may stand in the leaf with index i
Fit(t, i, c) == /\ DOMAIN c \subseteq Keys
                /\ \A k \in DOMAIN c : /\ c[k] \in Values /\ i <= k
                                       /\ \A j \in Idx(t) : i < j => k < j

LEMMA LeafOK ==
    ASSUME NEW c, DOMAIN c \subseteq Keys, \A k \in DOMAIN c : c[k] \in Values,
           NEW u \in Nat, Cardinality(DOMAIN c) <= u, u <= MergeCap,
           NEW a, NEW x, NEW y, NEW z, {a, x, y, z} \subseteq Pages \cup {NoPage},
           NEW m, m = Page("leaf", c, u, a, x, y, z)
    PROVE  /\ NodeOK(m) /\ m.level = "leaf" /\ m.cells = c /\ m.used = u
           /\ m.parent = a /\ m.prev = x /\ m.next = y /\ m.leftmost = z
<1>1. /\ m.level = "leaf" /\ m.cells = c /\ m.used = u
      /\ m.parent = a /\ m.prev = x /\ m.next = y /\ m.leftmost = z
  BY DEF Page
<1>2. Fielded(m)
  BY <1>1 DEF Fielded
<1>3. Room(m) = MergeCap
  BY <1>1 DEF Room
<1> QED BY <1>1, <1>2, <1>3 DEF NodeOK, Size

\* s has the indices and leaves of t, with other records in the leaf i
Refilled(t, s, i, c) ==
    /\ Shape(s) /\ s.root = t.root /\ s.alloc = t.alloc /\ Idx(s) = Idx(t) /\ Inner(s) = Inner(t)
    /\ \A j \in Idx(t) : Kid(s, j) = Kid(t, j)
    /\ At(s, i).cells = c /\ \A j \in Idx(t) \ {i} : At(s, j).cells = At(t, j).cells

LEMMA Refill ==
    ASSUME NEW t, Shape(t), NEW i \in Idx(t), NEW c, Fit(t, i, c), NEW u \in Nat,
           Cardinality(DOMAIN c) <= u, u <= MergeCap,
           NEW s, Edited(t, s, Kid(t, i), c, u)
    PROVE  /\ Refilled(t, s, i, c)
           /\ \A j \in Idx(t) : At(s, j).next = At(t, j).next
<1> DEFINE p == Kid(t, i)
           n == At(t, i)
           m == s.node[p]
<1>1. /\ p \in Pages /\ n.level = "leaf" /\ NodeOK(n) /\ n = t.node[p]
      /\ \A j \in Idx(t) : Kid(t, j) \in Pages
      /\ \A j \in Idx(t) \ {i} : Kid(t, j) # p
  BY DEF Shape, Leaves, At
<1>3. /\ s.root = t.root /\ s.alloc = t.alloc /\ Fields(s)
      /\ m = Page("leaf", c, u, n.parent, n.prev, n.next, n.leftmost)
      /\ \A q \in Pages \ {p} : s.node[q] = t.node[q]
      /\ s.node[p] = m /\ t.node[p] = n
  BY <1>1 DEF Edited
<1> HIDE DEF p, n, m
<1>2. /\ NodeOK(m) /\ m.cells = c
      /\ m.level = n.level /\ m.parent = n.parent /\ m.prev = n.prev
      /\ m.next = n.next /\ m.leftmost = n.leftmost
  <2>1. DOMAIN c \subseteq Keys /\ \A k \in DOMAIN c : c[k] \in Values
    BY DEF Fit
  <2>2. {n.parent, n.prev, n.next, n.leftmost} \subseteq Pages \cup {NoPage}
    BY <1>1 DEF NodeOK
  <2> QED BY <1>1, <1>3, <2>1, <2>2, LeafOK
<1>4. Inner(s) = Inner(t)
  <2>1. CASE t.root = NoPage
    BY <1>3, <2>1 DEF Inner
  <2>2. CASE t.root # NoPage
    <3>1. t.root \in Pages
      BY <2>2 DEF Shape
    <3>2. s.node[t.root].level = t.node[t.root].level
      BY <1>2, <1>3, <3>1
    <3> QED BY <1>3, <2>2, <3>2 DEF Inner
  <2> QED BY <2>1, <2>2
<1>5. ASSUME Inner(t) PROVE Top(s) = Top(t)
  <2>1. t.root \in Pages /\ t.root # p
    BY <1>1, <1>3, <1>5, IdxFacts DEF Inner
  <2> QED BY <1>3, <2>1 DEF Top
<1>6. Idx(s) = Idx(t) /\ \A j \in Idx(t) : Kid(s, j) = Kid(t, j)
  BY <1>3, <1>4, <1>5 DEF Idx, Kid
<1>7. At(s, i) = m /\ \A j \in Idx(t) \ {i} : At(s, j) = At(t, j)
  <2>1. Kid(s, i) = p
    BY <1>6 DEF p
  <2> QED BY <1>1, <1>3, <1>6, <2>1 DEF At
<1>8. \A j \in Idx(t) : /\ At(s, j).next = At(t, j).next /\ At(s, j).prev = At(t, j).prev
                        /\ At(s, j).level = At(t, j).level /\ At(s, j).parent = At(t, j).parent
  BY <1>2, <1>7 DEF n
<1>9. \A q \in Pages : NodeOK(s.node[q])
  BY <1>2, <1>3 DEF Shape
<1>10. s.root # NoPage => Top(s).level \in {"leaf", "internal"} /\ Top(s).parent = NoPage
  <2> SUFFICES ASSUME t.root # NoPage
               PROVE  Top(s).level \in {"leaf", "internal"} /\ Top(s).parent = NoPage
    BY <1>3
  <2>1. t.root \in Pages /\ Top(t).level \in {"leaf", "internal"} /\ Top(t).parent = NoPage
    BY DEF Shape
  <2>2. s.node[t.root].level = t.node[t.root].level /\ s.node[t.root].parent = t.node[t.root].parent
    BY <1>2, <1>3, <2>1
  <2> QED BY <1>3, <2>1, <2>2 DEF Top
<1>11. Leaves(s)
  <2>1. Leaves(t)
    BY DEF Shape
  <2> QED BY <1>3, <1>4, <1>6, <1>8, <2>1 DEF Leaves
<1>12. Sorted(s)
  <2>1. Sorted(t)
    BY DEF Shape
  <2>2. ASSUME NEW j \in Idx(t), NEW k \in DOMAIN At(s, j).cells
        PROVE  j <= k /\ \A h \in Idx(t) : j < h => k < h
    <3>1. CASE j = i
      BY <1>2, <1>7, <2>2, <3>1 DEF Fit
    <3>2. CASE j # i
      BY <1>7, <2>1, <2>2, <3>2 DEF Sorted
    <3> QED BY <3>1, <3>2
  <2> QED BY <1>6, <2>2 DEF Sorted
<1>13. Chained(s)
  <2>1. Chained(t)
    BY DEF Shape
  <2> QED BY <1>6, <1>8, <2>1 DEF Chained
<1>14. Accounted(s)
  <2>1. /\ t.alloc = {Kid(t, j) : j \in Idx(t)} \cup ({t.root} \ {NoPage})
        /\ \A q \in Pages \ t.alloc : t.node[q] = Unused
    BY DEF Shape, Accounted
  <2>2. p \in t.alloc
    BY <2>1 DEF p
  <2> QED BY <1>3, <1>6, <2>1, <2>2 DEF Accounted
<1>15. Idx(s) # {} => -1 \in Idx(s) /\ At(s, -1).prev = NoPage
  BY <1>6, <1>8 DEF Shape
<1>16. s.root \in Pages \cup {NoPage}
  BY <1>3 DEF Shape
<1>17. Shape(s)
  BY <1>3, <1>9, <1>10, <1>11, <1>12, <1>13, <1>14, <1>15, <1>16 DEF Shape
<1> QED BY <1>2, <1>3, <1>4, <1>6, <1>7, <1>8, <1>17 DEF Refilled

-----------------------------------------------------------------------------
(* A leaf becomes two                                                      *)

\* a leaf of u below g
LeafBelow(n, g) == NodeOK(n) /\ n.level = "leaf" /\ n.parent = g

\* a separator x and a new leaf r fit in between i and the next index
Between(t, i, x, cl, cr) ==
    /\ i \in Idx(t) /\ x \in Keys /\ i < x /\ \A j \in Idx(t) : i < j => x < j
    /\ \A k \in DOMAIN cl : i <= k /\ k < x
    /\ \A k \in DOMAIN cr : x <= k /\ \A j \in Idx(t) : i < j => k < j

\* u has the root page g over the leaves of t and, behind the separator x, r
Grown(t, u, i, x, cl, cr, g, r) ==
    /\ Fields(u) /\ u.root = g /\ u.alloc = t.alloc \cup {r, g}
    /\ r \in Pages \ t.alloc /\ g \in Pages \ {r} /\ \A j \in Idx(t) : Kid(t, j) # g
    /\ Inner(t) => g = t.root
    /\ \A q \in Pages \ u.alloc : u.node[q] = t.node[q]
    /\ NodeOK(u.node[g]) /\ u.node[g].level = "internal" /\ u.node[g].parent = NoPage
    /\ DOMAIN u.node[g].cells = (Idx(t) \cup {x}) \ {-1} /\ u.node[g].cells[x] = r
    /\ u.node[g].leftmost = Kid(t, -1)
    /\ \A j \in Idx(t) \ {-1} : u.node[g].cells[j] = Kid(t, j)
    /\ LeafBelow(u.node[Kid(t, i)], g) /\ LeafBelow(u.node[r], g)
    /\ u.node[Kid(t, i)].next = r /\ u.node[Kid(t, i)].prev = NoPage
    /\ u.node[Kid(t, i)].cells = cl
    /\ u.node[r].next = At(t, i).next /\ u.node[r].cells = cr
    /\ \A j \in Idx(t) \ {i} : /\ LeafBelow(u.node[Kid(t, j)], g)
                               /\ u.node[Kid(t, j)].next = At(t, j).next
                               /\ u.node[Kid(t, j)].cells = At(t, j).cells
                               /\ j = -1 => u.node[Kid(t, j)].prev = NoPage

LEMMA Grow ==
    ASSUME NEW t, Shape(t), NEW i, NEW x, NEW cl, NEW cr, Between(t, i, x, cl, cr),
           NEW u, NEW g, NEW r, Grown(t, u, i, x, cl, cr, g, r)
    PROVE  /\ Shape(u) /\ Idx(u) = Idx(t) \cup {x}
           /\ At(u, i).cells = cl /\ At(u, x).cells = cr
           /\ \A j \in Idx(t) \ {i} : At(u, j).cells = At(t, j).cells
<1>1. /\ i \in Idx(t) /\ x \in Keys /\ i < x /\ \A j \in Idx(t) : i < j => x < j
      /\ \A k \in DOMAIN cl : i <= k /\ k < x
      /\ \A k \in DOMAIN cr : x <= k /\ \A j \in Idx(t) : i < j => k < j
  BY DEF Between
<1>2. /\ Idx(t) \subseteq Int /\ x \in Nat /\ i \in Int /\ -1 \notin Keys /\ x # -1
      /\ \A j \in Idx(t) : -1 <= j
      /\ -1 \in Idx(t) /\ x \notin Idx(t) /\ NoPage \notin Pages
  <2>1. Idx(t) \subseteq Int /\ x \in Nat /\ -1 \notin Keys /\ \A j \in Idx(t) : -1 <= j
    BY <1>1, IdxFacts, Basics
  <2>2. -1 \in Idx(t)
    BY <1>1 DEF Shape
  <2>3. x \notin Idx(t)
    BY <1>1, <2>1
  <2> QED BY <1>1, <2>1, <2>2, <2>3, Basics
<1>3. /\ \A j \in Idx(t) : Kid(t, j) \in Pages /\ Kid(t, j) \in t.alloc /\ Kid(t, j) # r /\ Kid(t, j) # g
      /\ \A j \in Idx(t) : \A h \in Idx(t) : Kid(t, j) = Kid(t, h) => j = h
      /\ r # g /\ r \in Pages /\ g \in Pages
  BY DEF Shape, Leaves, Accounted, Grown
<1>4. Inner(u) /\ Top(u) = u.node[g] /\ u.root = g
  BY <1>2, <1>3 DEF Inner, Top, Grown
<1>5. Idx(u) = Idx(t) \cup {x}
  <2>1. Top(u).leftmost # NoPage /\ DOMAIN Top(u).cells = (Idx(t) \cup {x}) \ {-1}
    BY <1>2, <1>3, <1>4 DEF Grown
  <2> QED BY <1>2, <1>3, <1>4, <2>1 DEF Idx
<1>6. Kid(u, x) = r /\ \A j \in Idx(t) : Kid(u, j) = Kid(t, j)
  BY <1>2, <1>4 DEF Kid, Grown
<1>7. /\ At(u, i).cells = cl /\ At(u, x).cells = cr
      /\ \A j \in Idx(t) \ {i} : At(u, j).cells = At(t, j).cells
  BY <1>1, <1>6 DEF At, Grown
<1>8. /\ At(u, i).next = r /\ At(u, x).next = At(t, i).next
      /\ \A j \in Idx(t) \ {i} : At(u, j).next = At(t, j).next
  BY <1>1, <1>6 DEF At, Grown
<1>9. \A j \in Idx(u) : Kid(u, j) \in Pages /\ LeafBelow(At(u, j), g)
  BY <1>1, <1>3, <1>5, <1>6 DEF At, Grown
<1>10. Leaves(u)
  <2>1. ASSUME NEW j \in Idx(u), NEW h \in Idx(u), Kid(u, j) = Kid(u, h) PROVE j = h
    BY <1>3, <1>5, <1>6, <2>1
  <2> QED BY <1>4, <1>9, <2>1 DEF Leaves, LeafBelow
<1>11. Sorted(u)
  <2> SUFFICES ASSUME NEW j \in Idx(u), NEW k \in DOMAIN At(u, j).cells
               PROVE  j <= k /\ \A h \in Idx(u) : j < h => k < h
    BY DEF Sorted
  <2>1. k \in Nat
    BY <1>9, Basics DEF LeafBelow, NodeOK
  <2>2. CASE j = i
    <3>1. i <= k /\ k < x
      BY <1>1, <1>7, <2>2
    <3>2. ASSUME NEW h \in Idx(t), i < h PROVE k < h
      <4>1. h \in Int /\ x < h
        BY <1>1, <1>2, <3>2
      <4> QED BY <1>2, <2>1, <3>1, <4>1
    <3> QED BY <1>5, <2>2, <3>1, <3>2
  <2>3. CASE j = x
    <3>1. x <= k /\ \A h \in Idx(t) : i < h => k < h
      BY <1>1, <1>7, <2>3
    <3>2. \A h \in Idx(t) : x < h => i < h
      BY <1>1, <1>2
    <3>3. ~(x < x)
      BY <1>2
    <3> QED BY <1>5, <2>3, <3>1, <3>2, <3>3
  <2>4. CASE j # i /\ j # x
    <3>1. j \in Idx(t) \ {i} /\ j \in Int
      BY <1>2, <1>5, <2>4
    <3>2. j <= k /\ \A h \in Idx(t) : j < h => k < h
      BY <1>7, <3>1 DEF Shape, Sorted
    <3>3. j < x => k < x
      <4> SUFFICES ASSUME j < x PROVE k < x
        OBVIOUS
      <4>1. ~(i < j)
        BY <1>1, <1>2, <3>1
      <4>2. j < i
        BY <1>2, <3>1, <4>1
      <4>3. k < i
        BY <1>1, <3>2, <4>2
      <4> QED BY <1>1, <1>2, <2>1, <4>3
    <3> QED BY <1>5, <3>2, <3>3
  <2> QED BY <2>2, <2>3, <2>4
<1>12. Chained(u)
  <2> SUFFICES ASSUME NEW j \in Idx(u)
               PROVE  \/ At(u, j).next = NoPage /\ \A m \in Idx(u) : m <= j
                      \/ \E h \in Idx(u) : /\ j < h /\ At(u, j).next = Kid(u, h)
                                           /\ \A m \in Idx(u) : j < m => h <= m
    BY DEF Chained
  <2>1. CASE j = i
    <3>1. i < x /\ At(u, j).next = Kid(u, x)
      BY <1>1, <1>6, <1>8, <2>1
    <3>2. \A m \in Idx(u) : i < m => x <= m
      BY <1>1, <1>2, <1>5
    <3> QED BY <1>5, <2>1, <3>1, <3>2
  <2>2. CASE j = x
    <3>1. CASE At(t, i).next = NoPage /\ \A m \in Idx(t) : m <= i
      <4>1. \A m \in Idx(u) : m <= x
        BY <1>1, <1>2, <1>5, <3>1
      <4> QED BY <1>8, <2>2, <3>1, <4>1
    <3>2. ASSUME NEW h \in Idx(t), i < h, At(t, i).next = Kid(t, h),
                 \A m \in Idx(t) : i < m => h <= m
          PROVE  /\ x < h /\ At(u, x).next = Kid(u, h)
                 /\ \A m \in Idx(u) : x < m => h <= m
      <4>1. x < h /\ At(u, x).next = Kid(u, h)
        BY <1>1, <1>6, <1>8, <3>2
      <4>2. ASSUME NEW m \in Idx(u), x < m PROVE h <= m
        <5>1. m \in Idx(t) /\ m \in Int
          BY <1>2, <1>5, <4>2
        <5> QED BY <1>1, <1>2, <3>2, <4>2, <5>1
      <4> QED BY <4>1, <4>2
    <3> QED BY <1>1, <1>5, <2>2, <3>1, <3>2 DEF Shape, Chained
  <2>3. CASE j # i /\ j # x
    <3>1. j \in Idx(t) \ {i} /\ j \in Int
      BY <1>2, <1>5, <2>3
    <3>2. CASE At(t, j).next = NoPage /\ \A m \in Idx(t) : m <= j
      <4>1. i <= j /\ i # j
        BY <1>1, <2>3, <3>2
      <4>2. x < j
        BY <1>1, <1>2, <3>1, <4>1
      <4>3. \A m \in Idx(u) : m <= j
        BY <1>2, <1>5, <3>1, <3>2, <4>2
      <4> QED BY <1>8, <3>1, <3>2, <4>3
    <3>3. ASSUME NEW h \in Idx(t), j < h, At(t, j).next = Kid(t, h),
                 \A m \in Idx(t) : j < m => h <= m
          PROVE  /\ At(u, j).next = Kid(u, h) /\ \A m \in Idx(u) : j < m => h <= m
      <4>1. At(u, j).next = Kid(u, h)
        BY <1>6, <1>8, <3>1, <3>3
      <4>2. j < x => h <= x
        <5> SUFFICES ASSUME j < x PROVE h <= x
          OBVIOUS
        <5>1. ~(i < j)
          BY <1>1, <1>2, <3>1
        <5>2. j < i
          BY <1>2, <3>1, <5>1
        <5>3. h <= i /\ h \in Int
          BY <1>1, <1>2, <3>3, <5>2
        <5> QED BY <1>1, <1>2, <5>3
      <4> QED BY <1>5, <3>3, <4>1, <4>2
    <3> QED BY <1>5, <3>1, <3>2, <3>3 DEF Shape, Chained
  <2> QED BY <2>1, <2>2, <2>3
<1>13. Accounted(u)
  <2>1. /\ t.alloc = {Kid(t, j) : j \in Idx(t)} \cup ({t.root} \ {NoPage})
        /\ \A q \in Pages \ t.alloc : t.node[q] = Unused
    BY DEF Shape, Accounted
  <2>2. u.alloc = t.alloc \cup {r, g} /\ \A q \in Pages \ u.alloc : u.node[q] = t.node[q]
    BY DEF Grown
  <2>3. t.root \in {Kid(t, j) : j \in Idx(t)} \cup {g, NoPage}
    <3>1. CASE Inner(t)
      BY <3>1 DEF Grown
    <3>2. CASE ~Inner(t)
      BY <1>2, <3>2, IdxFacts
    <3> QED BY <3>1, <3>2
  <2>4. {Kid(u, j) : j \in Idx(u)} = {Kid(t, j) : j \in Idx(t)} \cup {r}
    BY <1>5, <1>6
  <2>5. u.alloc = {Kid(u, j) : j \in Idx(u)} \cup {g}
    BY <1>2, <1>3, <2>1, <2>2, <2>3, <2>4
  <2>6. \A q \in Pages \ u.alloc : u.node[q] = Unused
    BY <2>1, <2>2
  <2> QED BY <1>2, <1>3, <1>4, <2>5, <2>6 DEF Accounted
<1>14. ASSUME NEW q \in Pages PROVE NodeOK(u.node[q])
  <2>1. CASE q \in {Kid(t, j) : j \in Idx(t)} \cup {r}
    BY <1>1, <2>1 DEF Grown, LeafBelow
  <2>2. CASE q = g
    BY <2>2 DEF Grown
  <2>3. CASE q \notin {Kid(t, j) : j \in Idx(t)} \cup {r} /\ q # g
    <3>1. q \notin u.alloc
      <4>1. u.alloc = t.alloc \cup {r, g}
        BY DEF Grown
      <4>2. t.alloc = {Kid(t, j) : j \in Idx(t)} \cup ({t.root} \ {NoPage})
        BY DEF Shape, Accounted
      <4>3. CASE Inner(t)
        BY <2>3, <4>1, <4>2, <4>3 DEF Grown
      <4>4. CASE ~Inner(t)
        BY <1>2, <2>3, <4>1, <4>2, <4>4, IdxFacts
      <4> QED BY <4>3, <4>4
    <3>2. u.node[q] = t.node[q]
      BY <3>1 DEF Grown
    <3> QED BY <3>2 DEF Shape
  <2> QED BY <2>1, <2>2, <2>3
<1>15. -1 \in Idx(u) /\ At(u, -1).prev = NoPage
  <2>1. CASE i = -1
    BY <1>1, <1>5, <1>6, <2>1 DEF At, Grown
  <2>2. CASE i # -1
    BY <1>2, <1>5, <1>6, <2>2 DEF At, Grown
  <2> QED BY <2>1, <2>2
<1>16. Fields(u) /\ u.root \in Pages /\ Top(u).level = "internal" /\ Top(u).parent = NoPage
  BY <1>3, <1>4 DEF Grown
<1>17. Shape(u)
  BY <1>10, <1>11, <1>12, <1>13, <1>14, <1>15, <1>16 DEF Shape
<1> QED BY <1>5, <1>7, <1>17

\* in u the key k has the value v and every other key what it has in t
Gains(t, u, k, v) ==
    \A j \in Keys : \A w \in Values :
        Holds(u, j, w) <=> IF j = k THEN w = v ELSE Holds(t, j, w)
\* c and the new entry are divided between cl and cr
Shared(c, k, v, cl, cr) ==
    /\ DOMAIN cl \cup DOMAIN cr = DOMAIN c \cup {k}
    /\ \A j \in DOMAIN cl : cl[j] = IF j = k THEN v ELSE c[j]
    /\ \A j \in DOMAIN cr : cr[j] = IF j = k THEN v ELSE c[j]

LEMMA GrowGains ==
    ASSUME NEW t, NEW u, NEW i \in Idx(t), NEW x, x \notin Idx(t), Idx(u) = Idx(t) \cup {x},
           NEW cl, NEW cr, At(u, i).cells = cl, At(u, x).cells = cr,
           \A j \in Idx(t) \ {i} : At(u, j).cells = At(t, j).cells,
           NEW k, NEW v, \A j \in Idx(t) : k \notin DOMAIN At(t, j).cells,
           Shared(At(t, i).cells, k, v, cl, cr)
    PROVE  Gains(t, u, k, v)
<1> DEFINE c == At(t, i).cells
<1>1. /\ DOMAIN cl \cup DOMAIN cr = DOMAIN c \cup {k}
      /\ \A j \in DOMAIN cl : cl[j] = IF j = k THEN v ELSE c[j]
      /\ \A j \in DOMAIN cr : cr[j] = IF j = k THEN v ELSE c[j]
  BY DEF Shared
<1>2. ASSUME NEW j, NEW w
      PROVE  Holds(u, j, w) <=> \/ j \in DOMAIN cl /\ cl[j] = w
                                \/ j \in DOMAIN cr /\ cr[j] = w
                                \/ \E h \in Idx(t) \ {i} : j \in DOMAIN At(t, h).cells /\ At(t, h).cells[j] = w
  BY DEF Holds
<1>3. ASSUME NEW j, NEW w
      PROVE  Holds(t, j, w) <=> \/ j \in DOMAIN c /\ c[j] = w
                                \/ \E h \in Idx(t) \ {i} : j \in DOMAIN At(t, h).cells /\ At(t, h).cells[j] = w
  BY DEF Holds
<1> HIDE DEF c
<1>4. ASSUME NEW j, NEW w PROVE Holds(u, j, w) <=> IF j = k THEN w = v ELSE Holds(t, j, w)
  <2>1. CASE j = k
    <3>1. ~ \E h \in Idx(t) \ {i} : j \in DOMAIN At(t, h).cells /\ At(t, h).cells[j] = w
      BY <2>1
    <3> QED BY <1>1, <1>2, <2>1, <3>1
  <2>2. CASE j # k
    BY <1>1, <1>2, <1>3, <2>2
  <2> QED BY <2>1, <2>2
<1> QED BY <1>4 DEF Gains

-----------------------------------------------------------------------------
(* What the operations on pages write                                      *)

LEMMA NewPidIs ==
    ASSUME NEW t, Unallocated(t) # {}
    PROVE  NewPid(t) \in Pages /\ NewPid(t) \notin t.alloc /\ NewPid(t) \in Unallocated(t)
<1>1. Unallocated(t) \subseteq Nat
  BY Basics DEF Unallocated
<1>2. \E x \in Unallocated(t) : \A y \in Unallocated(t) : x <= y
  BY <1>1, LeastNatural
<1>3. NewPid(t) \in Unallocated(t)
  BY <1>2 DEF NewPid, Least
<1> QED BY <1>3 DEF Unallocated

\* the page p hangs below g now
Moved(t, p, g) == [t EXCEPT !.node[p].parent = g]

LEMMA ParentSet ==
    ASSUME NEW t, Fields(t), NEW p \in Pages, Fielded(t.node[p]), NEW g,
           NEW s, s = Moved(t, p, g)
    PROVE  /\ s.root = t.root /\ s.alloc = t.alloc /\ Fields(s)
           /\ LET n == t.node[p]
              IN  s.node[p] = Page(n.level, n.cells, n.used, g, n.prev, n.next, n.leftmost)
           /\ \A q \in Pages \ {p} : s.node[q] = t.node[q]
<1> DEFINE n == t.node[p]
           a == [n EXCEPT !.parent = g]
<1>1. s = Set(t, p, a)
  BY DEF Set, Moved
<1>2. n = Page(n.level, n.cells, n.used, n.parent, n.prev, n.next, n.leftmost)
  BY DEF Fielded
<1> HIDE DEF n
<1>3. a = Page(n.level, n.cells, n.used, g, n.prev, n.next, n.leftmost)
  BY <1>2 DEF Page
<1> HIDE DEF a
<1>4. /\ s.root = t.root /\ s.alloc = t.alloc /\ Fields(s) /\ s.node[p] = a
      /\ \A q \in Pages \ {p} : s.node[q] = t.node[q]
  BY <1>1, Setting
<1> QED BY <1>3, <1>4 DEF n

LEMMA NewRootIs ==
    ASSUME NEW t, Fields(t), Unallocated(t) # {}, NEW l \in Pages, NEW r \in Pages, l # r,
           l \in t.alloc, r \in t.alloc, Fielded(t.node[l]), Fielded(t.node[r]), NEW x
    PROVE  LET g == NewPid(t)
               u == NewRoot(t, l, x, r)
               Below(n) == Page(n.level, n.cells, n.used, g, n.prev, n.next, n.leftmost)
           IN  /\ Fields(u) /\ u.root = g /\ u.alloc = t.alloc \cup {g}
               /\ u.node[g] = Page("internal", With(<<>>, x, r), 1, NoPage, NoPage, NoPage, l)
               /\ u.node[l] = Below(t.node[l]) /\ u.node[r] = Below(t.node[r])
               /\ \A q \in Pages \ {g, l, r} : u.node[q] = t.node[q]
<1> DEFINE g == NewPid(t)
           n == [Internal(NoPage, l) EXCEPT !.cells = With(@, x, r), !.used = 1]
           z == [t EXCEPT !.root = g]
           a == [z EXCEPT !.alloc = z.alloc \cup {g}]
           b == Set(a, g, n)
           c == Moved(b, l, g)
           d == Moved(c, r, g)
<1>6. NewRoot(t, l, x, r) = d
  BY DEF NewRoot, Set, Moved
<1>1. g \in Pages /\ g \notin t.alloc /\ g # l /\ g # r
  BY NewPidIs
<1>2. n = Page("internal", With(<<>>, x, r), 1, NoPage, NoPage, NoPage, l)
  <2> DEFINE j == [Leaf(NoPage) EXCEPT !.level = "internal"]
             m == Internal(NoPage, l)
             y == With(m.cells, x, r)
             h == [m EXCEPT !.cells = y]
  <2>1. j = Page("internal", <<>>, 0, NoPage, NoPage, NoPage, NoPage)
    BY DEF Leaf, Page
  <2>2. m = [j EXCEPT !.leftmost = l]
    BY DEF Internal
  <2> HIDE DEF j
  <2>3. m = Page("internal", <<>>, 0, NoPage, NoPage, NoPage, l)
    BY <2>1, <2>2 DEF Page
  <2>4. n = [h EXCEPT !.used = 1]
    OBVIOUS
  <2> HIDE DEF m, n
  <2>5. m.cells = <<>>
    BY <2>3 DEF Page
  <2> HIDE DEF y
  <2>6. h = Page("internal", y, 0, NoPage, NoPage, NoPage, l)
    BY <2>3 DEF Page
  <2> HIDE DEF h
  <2>7. n = Page("internal", y, 1, NoPage, NoPage, NoPage, l)
    BY <2>4, <2>6 DEF Page
  <2> QED BY <2>5, <2>7 DEF y
<1> HIDE DEF n, d, g
<1>3. /\ t = [node |-> t.node, alloc |-> t.alloc, root |-> t.root]
      /\ t.node = [p \in Pages |-> t.node[p]]
  BY DEF Fields
<1>a. z = [node |-> t.node, alloc |-> t.alloc, root |-> g]
  BY <1>3
<1> HIDE DEF z
<1>4. a = [node |-> t.node, alloc |-> t.alloc \cup {g}, root |-> g]
  BY <1>a
<1> HIDE DEF a
<1>5. Fields(a) /\ a.node = t.node /\ a.alloc = t.alloc \cup {g} /\ a.root = g
  BY <1>3, <1>4 DEF Fields
<1>7. /\ b.root = a.root /\ b.alloc = a.alloc /\ Fields(b) /\ b.node[g] = n
      /\ \A q \in Pages \ {g} : b.node[q] = a.node[q]
  BY <1>1, <1>5, Setting
<1> HIDE DEF b
<1>8. b.node[l] = t.node[l] /\ b.node[r] = t.node[r]
  BY <1>1, <1>5, <1>7
<1>9. /\ c.root = b.root /\ c.alloc = b.alloc /\ Fields(c)
      /\ c.node[l] = Page(t.node[l].level, t.node[l].cells, t.node[l].used, g, t.node[l].prev,
                          t.node[l].next, t.node[l].leftmost)
      /\ \A q \in Pages \ {l} : c.node[q] = b.node[q]
  BY <1>7, <1>8, ParentSet
<1> HIDE DEF c
<1>10. c.node[r] = t.node[r]
  BY <1>8, <1>9
<1>11. /\ d.root = c.root /\ d.alloc = c.alloc /\ Fields(d)
       /\ d.node[r] = Page(t.node[r].level, t.node[r].cells, t.node[r].used, g, t.node[r].prev,
                           t.node[r].next, t.node[r].leftmost)
       /\ \A q \in Pages \ {r} : d.node[q] = c.node[q]
  BY <1>9, <1>10, ParentSet DEF d
<1> QED BY <1>1, <1>2, <1>5, <1>6, <1>7, <1>9, <1>11 DEF g

\* u has the separator x and the page r in the internal page g
LinkedUnder(t, u, g, l, x, r) ==
    LET n == t.node[g]
        first == IF ChildSeparators(n, x) = {} THEN l ELSE n.leftmost
    IN  /\ Fields(u) /\ u.root = t.root /\ u.alloc = t.alloc
        /\ u.node[g] = Page(n.level, With(n.cells, x, r), n.used + 1, n.parent, n.prev, n.next, first)
        /\ \A q \in Pages \ {g} : u.node[q] = t.node[q]

LEMMA LinkedIs ==
    ASSUME NEW t, Fields(t), NEW l \in Pages, NEW g \in Pages, g = t.node[l].parent,
           Fielded(t.node[g]), NEW x, NEW r
    PROVE  LinkedUnder(t, Linked(t, l, x, r), g, l, x, r)
<1> DEFINE n == t.node[g]
           first == IF ChildSeparators(n, x) = {} THEN l ELSE n.leftmost
           a == [n EXCEPT !.leftmost = l]
           s == LeftmostSet(t, l, x)
           m == s.node[g]
           u == Put(s, g, x, r)
<1>1. Linked(t, l, x, r) = u
  BY DEF Linked, Put
<1>2. n = Page(n.level, n.cells, n.used, n.parent, n.prev, n.next, n.leftmost)
  BY DEF Fielded
<1>3. s = IF ChildSeparators(n, x) = {} THEN Set(t, g, a) ELSE t
  BY DEF LeftmostSet, Set
<1> HIDE DEF n, s
<1>4. a = Page(n.level, n.cells, n.used, n.parent, n.prev, n.next, l)
  BY <1>2 DEF Page
<1> HIDE DEF a
<1>5. /\ s.root = t.root /\ s.alloc = t.alloc /\ Fields(s)
      /\ m = Page(n.level, n.cells, n.used, n.parent, n.prev, n.next, first)
      /\ \A q \in Pages \ {g} : s.node[q] = t.node[q]
  <2>1. CASE ChildSeparators(n, x) = {}
    <3>1. s = Set(t, g, a) /\ first = l
      BY <1>3, <2>1, SMTT(40)
    <3> HIDE DEF first
    <3> QED BY <1>4, <3>1, Setting
  <2>2. CASE ChildSeparators(n, x) # {}
    <3>1. s = t /\ first = n.leftmost
      BY <1>3, <2>2
    <3> QED BY <1>2, <3>1 DEF n
  <2> QED BY <2>1, <2>2
<1> HIDE DEF first, m
<1>6. /\ m.level = n.level /\ m.cells = n.cells /\ m.used = n.used /\ m.parent = n.parent
      /\ m.prev = n.prev /\ m.next = n.next /\ m.leftmost = first
  BY <1>5 DEF Page
<1>7. Fielded(m)
  BY <1>5, <1>6 DEF Fielded
<1>8. Edited(s, u, g, With(n.cells, x, r), n.used + 1)
  BY <1>5, <1>6, <1>7, PutEdits DEF m
<1> HIDE DEF u
<1>9. u.node[g] = Page(n.level, With(n.cells, x, r), n.used + 1, n.parent, n.prev, n.next, first)
  BY <1>6, <1>8 DEF Edited, m
<1>10. /\ Fields(u) /\ u.root = t.root /\ u.alloc = t.alloc
       /\ \A q \in Pages \ {g} : u.node[q] = t.node[q]
  BY <1>5, <1>8 DEF Edited
<1> QED BY <1>1, <1>9, <1>10 DEF LinkedUnder, n, first

\* the page q of t, its prev_page_id set to r if it is next
Before(t, q, next, r) ==
    LET n == t.node[q]
    IN  IF q = next THEN Page(n.level, n.cells, n.used, n.parent, r, n.next, n.leftmost) ELSE n

LEMMA PrevSet ==
    ASSUME NEW n, Fielded(n), NEW r
    PROVE  [n EXCEPT !.prev = r] = Page(n.level, n.cells, n.used, n.parent, r, n.next, n.leftmost)
<1>1. n = Page(n.level, n.cells, n.used, n.parent, n.prev, n.next, n.leftmost)
  BY DEF Fielded
<1> QED BY <1>1 DEF Page

LEMMA SplitLeafIs ==
    ASSUME NEW t, Fields(t), \A q \in Pages : Fielded(t.node[q]), Unallocated(t) # {},
           NEW l \in t.alloc, l \in Pages, t.node[l].next # l, t.node[l].next # NewPid(t)
    PROVE  LET n == t.node[l]
               r == NewPid(t)
               low == Smallest(DOMAIN n.cells, SplitIndex(n))
               high == DOMAIN n.cells \ low
               s == SplitLeaf(t, l)
               u == s.tree
           IN  /\ s.right = r /\ s.sep = Least(high)
               /\ Fields(u) /\ u.root = t.root /\ u.alloc = t.alloc \cup {r}
               /\ u.node[l] = Page("leaf", Only(n.cells, low), Cardinality(low), n.parent, NoPage, r, NoPage)
               /\ u.node[r] = Page("leaf", Only(n.cells, high), Cardinality(high), n.parent, l, n.next, NoPage)
               /\ \A q \in Pages \ {l, r} : u.node[q] = Before(t, q, n.next, r)
<1> DEFINE n == t.node[l]
           r == NewPid(t)
           low == Smallest(DOMAIN n.cells, SplitIndex(n))
           high == DOMAIN n.cells \ low
           a == [Leaf(n.parent) EXCEPT !.cells = Only(n.cells, low), !.used = Cardinality(low), !.next = r]
           b == [Leaf(n.parent) EXCEPT !.cells = Only(n.cells, high), !.used = Cardinality(high),
                                       !.prev = l, !.next = n.next]
           arm(q) == CASE q = l -> a [] q = r -> b
                       [] q = n.next -> [t.node[q] EXCEPT !.prev = r] [] OTHER -> t.node[q]
           f == [q \in Pages |-> arm(q)]
           z == [t EXCEPT !.alloc = t.alloc \cup {r}]
           u == [z EXCEPT !.node = f]
<1>1. SplitLeaf(t, l) = [sep |-> Least(high), right |-> r, tree |-> u]
  BY DEF SplitLeaf, NextOfRight
<1>2. /\ t = [node |-> t.node, alloc |-> t.alloc, root |-> t.root]
      /\ t.node = [p \in Pages |-> t.node[p]]
  BY DEF Fields
<1>3. r \in Pages /\ r \notin t.alloc /\ r # l /\ n.next # r /\ n.next # l
  BY NewPidIs
<1>4. a = Page("leaf", Only(n.cells, low), Cardinality(low), n.parent, NoPage, r, NoPage)
  <2> DEFINE c == Only(n.cells, low)
             w == Cardinality(low)
             h == [Leaf(n.parent) EXCEPT !.cells = c]
             j == [h EXCEPT !.used = w]
  <2>1. a = [j EXCEPT !.next = r]
    OBVIOUS
  <2> HIDE DEF c, w, r, n, a
  <2>2. h = Page("leaf", c, 0, n.parent, NoPage, NoPage, NoPage)
    BY DEF Leaf, Page
  <2> HIDE DEF h
  <2>3. j = Page("leaf", c, w, n.parent, NoPage, NoPage, NoPage)
    BY <2>2 DEF Page
  <2> HIDE DEF j
  <2>4. a = Page("leaf", c, w, n.parent, NoPage, r, NoPage)
    BY <2>1, <2>3 DEF Page
  <2> QED BY <2>4 DEF c, w
<1>5. b = Page("leaf", Only(n.cells, high), Cardinality(high), n.parent, l, n.next, NoPage)
  <2> DEFINE c == Only(n.cells, high)
             w == Cardinality(high)
             h == [Leaf(n.parent) EXCEPT !.cells = c]
             j == [h EXCEPT !.used = w]
             k == [j EXCEPT !.prev = l]
  <2>1. b = [k EXCEPT !.next = n.next]
    OBVIOUS
  <2> HIDE DEF c, w, r, n, b
  <2>2. h = Page("leaf", c, 0, n.parent, NoPage, NoPage, NoPage)
    BY DEF Leaf, Page
  <2> HIDE DEF h
  <2>3. j = Page("leaf", c, w, n.parent, NoPage, NoPage, NoPage)
    BY <2>2 DEF Page
  <2> HIDE DEF j
  <2>4. k = Page("leaf", c, w, n.parent, l, NoPage, NoPage)
    BY <2>3 DEF Page
  <2> HIDE DEF k
  <2>5. b = Page("leaf", c, w, n.parent, l, n.next, NoPage)
    BY <2>1, <2>4 DEF Page
  <2> QED BY <2>5 DEF c, w
<1>6. ASSUME NEW q \in Pages \ {l, r} PROVE arm(q) = Before(t, q, n.next, r)
  <2>1. CASE q = n.next
    <3>1. arm(q) = [t.node[q] EXCEPT !.prev = r]
      BY <1>3, <1>6, <2>1
    <3> HIDE DEF arm
    <3> QED BY <2>1, <3>1, PrevSet DEF Before
  <2>2. CASE q # n.next
    <3>1. arm(q) = t.node[q]
      BY <1>6, <2>2
    <3> HIDE DEF arm
    <3> QED BY <2>2, <3>1 DEF Before
  <2> QED BY <2>1, <2>2
<1>7. arm(l) = a /\ arm(r) = b
  <2> HIDE DEF a, b
  <2> QED BY <1>3
<1> HIDE DEF a, b, arm, n, r, low, high
<1>8. z = [node |-> t.node, alloc |-> t.alloc \cup {r}, root |-> t.root]
  BY <1>2
<1> HIDE DEF z
<1>9. f = [q \in Pages |-> f[q]] /\ \A q \in Pages : f[q] = arm(q)
  OBVIOUS
<1> HIDE DEF f
<1>10. u = [node |-> f, alloc |-> t.alloc \cup {r}, root |-> t.root]
  BY <1>8
<1> HIDE DEF u
<1>11. u.node = f /\ u.alloc = t.alloc \cup {r} /\ u.root = t.root
  BY <1>10
<1>12. Fields(u)
  BY <1>9, <1>10, <1>11 DEF Fields
<1>13. /\ u.node[l] = a /\ u.node[r] = b
       /\ \A q \in Pages \ {l, r} : u.node[q] = Before(t, q, n.next, r)
  BY <1>3, <1>6, <1>7, <1>9, <1>11
<1>14. /\ SplitLeaf(t, l).sep = Least(high) /\ SplitLeaf(t, l).right = r /\ SplitLeaf(t, l).tree = u
  BY <1>1
<1> QED BY <1>4, <1>5, <1>11, <1>12, <1>13, <1>14 DEF n, r, low, high

\* m is n with other links
Relinked(m, n, a, b, c) == m = Page(n.level, n.cells, n.used, a, b, c, n.leftmost)

LEMMA LinksOK ==
    ASSUME NEW n, NodeOK(n), NEW a, NEW b, NEW c, {a, b, c} \subseteq Pages \cup {NoPage},
           NEW m, Relinked(m, n, a, b, c)
    PROVE  /\ NodeOK(m) /\ m.level = n.level /\ m.cells = n.cells /\ m.used = n.used
           /\ m.parent = a /\ m.prev = b /\ m.next = c /\ m.leftmost = n.leftmost
<1>1. /\ m.level = n.level /\ m.cells = n.cells /\ m.used = n.used
      /\ m.parent = a /\ m.prev = b /\ m.next = c /\ m.leftmost = n.leftmost
  BY DEF Page, Relinked
<1>2. Fielded(m)
  BY <1>1 DEF Fielded, Relinked
<1>3. Room(m) = Room(n)
  BY <1>1 DEF Room
<1> QED BY <1>1, <1>2, <1>3 DEF NodeOK, Size

\* d is c with k set to v
Extends(d, c, k, v) == /\ DOMAIN d = DOMAIN c \cup {k} /\ d[k] = v
                       /\ \A j \in DOMAIN c \ {k} : d[j] = c[j]
LEMMA WithIs == \A c, k, v : Extends(With(c, k, v), c, k, v)
  BY DEF With, Extends

\* the leaf i is divided into itself and the new leaf r
Halved(t, u, i, r, cl, cr) ==
    /\ Fields(u) /\ u.root = t.root /\ u.alloc = t.alloc \cup {r} /\ r \in Pages \ t.alloc
    /\ LeafBelow(u.node[Kid(t, i)], At(t, i).parent) /\ LeafBelow(u.node[r], At(t, i).parent)
    /\ u.node[Kid(t, i)].cells = cl /\ u.node[r].cells = cr
    /\ u.node[Kid(t, i)].prev = NoPage /\ u.node[Kid(t, i)].next = r
    /\ u.node[r].next = At(t, i).next
    /\ \A q \in Pages \ {Kid(t, i), r} : u.node[q] = Before(t, q, At(t, i).next, r)

LEMMA Halve ==
    ASSUME NEW t, Shape(t), NEW k \in Keys, NEW v \in Values, NEW i, Home(t, k, i),
           k \notin DOMAIN At(t, i).cells, Size(At(t, i)) >= 2, Unallocated(t) # {}
    PROVE  LET l == Kid(t, i)
               s == SplitLeaf(t, l)
               u == Put(s.tree, IF k < s.sep THEN l ELSE s.right, k, v)
           IN  /\ s.right = NewPid(t) /\ s.sep = NextSep(At(t, i))
               /\ \E cl, cr : /\ Halved(t, u, i, s.right, cl, cr)
                              /\ Between(t, i, s.sep, cl, cr)
                              /\ Shared(At(t, i).cells, k, v, cl, cr)
<1> DEFINE l == Kid(t, i)
           n == At(t, i)
           c == n.cells
           D == DOMAIN n.cells
           r == NewPid(t)
           h == SplitIndex(n)
           low == Smallest(D, h)
           high == D \ low
           x == Least(high)
           s == SplitLeaf(t, l)
           w == s.tree
           p == IF k < x THEN l ELSE r
           u == Put(w, p, k, v)
<1>1. /\ i \in Idx(t) /\ l \in Pages /\ l \in t.alloc /\ n = t.node[l] /\ n.level = "leaf" /\ NodeOK(n)
      /\ r \in Pages /\ r \notin t.alloc /\ r # l
  BY NewPidIs DEF Home, Shape, Leaves, At, Accounted
<1>2. n.next # l /\ n.next # r /\ n.next \in Pages \cup {NoPage}
  <2>1. CASE n.next = NoPage
    BY <1>1, <2>1, Basics
  <2>2. ASSUME NEW j \in Idx(t), i < j, n.next = Kid(t, j) PROVE n.next # l /\ n.next # r /\ n.next \in Pages
    <3>1. i # j
      BY <1>1, <2>2, IdxFacts
    <3>2. Kid(t, j) \in t.alloc /\ Kid(t, j) # l /\ Kid(t, j) \in Pages
      BY <1>1, <3>1 DEF Shape, Leaves, Accounted
    <3> QED BY <1>1, <2>2, <3>2
  <2> QED BY <1>1, <2>1, <2>2 DEF Shape, Chained
<1>3. /\ D \subseteq Keys /\ D \subseteq Nat /\ IsFiniteSet(D) /\ Cardinality(D) \in Nat
      /\ Cardinality(D) >= 2 /\ n.used \in Nat /\ Cardinality(D) <= n.used /\ n.used <= MergeCap
      /\ \A j \in D : c[j] \in Values
  <2>1. D \subseteq Keys /\ n.used \in Nat /\ Size(n) <= n.used /\ n.used <= MergeCap /\ \A j \in D : c[j] \in Values
    BY <1>1 DEF NodeOK, Room
  <2> QED BY <2>1, Basics DEF Size
<1>4. h \in Nat \ {0} /\ h < Cardinality(D)
  <2> DEFINE z == Cardinality(D)
  <2>1. z \in Nat /\ z >= 2 /\ h = IF z \div 2 = 0 THEN 1 ELSE z \div 2
    BY <1>3 DEF SplitIndex, Size
  <2> HIDE DEF z, h
  <2>2. z \div 2 \in Nat /\ z \div 2 >= 1 /\ z \div 2 < z
    BY ONLY <2>1
  <2>3. h = z \div 2
    BY <2>1, <2>2
  <2> QED BY <2>2, <2>3 DEF z
<1>5. /\ low \subseteq D /\ low # {} /\ high # {}
      /\ \A a \in low, b \in high : a < b
      /\ IsFiniteSet(low) /\ IsFiniteSet(high)
      /\ Cardinality(low) \in Nat /\ Cardinality(low) < Cardinality(D)
      /\ Cardinality(high) \in Nat /\ Cardinality(high) < Cardinality(D)
  <2> HIDE DEF D, h
  <2> QED BY <1>3, <1>4, Dividing
<1>6. x \in high /\ \A y \in high : x <= y
  <2>1. \A y \in high : y \in Int /\ 0 <= y
    BY <1>3
  <2>2. high \subseteq Int /\ high # {} /\ 0 \in Int
    BY <1>5, <2>1
  <2> HIDE DEF high
  <2> QED BY <2>1, <2>2, LeastIs
<1>7. /\ s.right = r /\ s.sep = x
      /\ Fields(w) /\ w.root = t.root /\ w.alloc = t.alloc \cup {r}
      /\ w.node[l] = Page("leaf", Only(c, low), Cardinality(low), n.parent, NoPage, r, NoPage)
      /\ w.node[r] = Page("leaf", Only(c, high), Cardinality(high), n.parent, l, n.next, NoPage)
      /\ \A q \in Pages \ {l, r} : w.node[q] = Before(t, q, n.next, r)
  <2>1. Fields(t) /\ \A q \in Pages : Fielded(t.node[q])
    BY DEF Shape, NodeOK
  <2>2. t.node[l].next # l /\ t.node[l].next # NewPid(t) /\ n = t.node[l] /\ l \in t.alloc /\ l \in Pages
    BY <1>1, <1>2
  <2> HIDE DEF l, n
  <2> QED BY <2>1, <2>2, SplitLeafIs, ZenonT(60)
<1>8. x = NextSep(n)
  BY DEF NextSep
<1> DEFINE a == Only(c, low)
           b == Only(c, high)
           cl == IF k < x THEN With(a, k, v) ELSE a
           cr == IF k < x THEN b ELSE With(b, k, v)
           ul == IF k < x THEN Cardinality(low) + 1 ELSE Cardinality(low)
           ur == IF k < x THEN Cardinality(high) ELSE Cardinality(high) + 1
<1>9. /\ DOMAIN a = low /\ DOMAIN b = high
      /\ \A j \in low : a[j] = c[j]
      /\ \A j \in high : b[j] = c[j]
  BY DEF Only
<1>10. high = D \ low
  OBVIOUS
<1> HIDE DEF s, w, p, u, a, b, low, high, x, r, n, l, h
<1>11. /\ DOMAIN cl = low \cup (IF k < x THEN {k} ELSE {})
       /\ DOMAIN cr = high \cup (IF k < x THEN {} ELSE {k})
       /\ \A j \in DOMAIN cl : cl[j] = IF j = k THEN v ELSE c[j]
       /\ \A j \in DOMAIN cr : cr[j] = IF j = k THEN v ELSE c[j]
  <2>1. k \notin low /\ k \notin high
    BY <1>5, <1>10 DEF n
  <2>2. CASE k < x
    <3>1. cl = With(a, k, v) /\ cr = b
      BY <2>2
    <3> HIDE DEF cl, cr
    <3>2. DOMAIN cl = low \cup {k} /\ cl[k] = v /\ \A j \in low \ {k} : cl[j] = a[j]
      <4>1. DOMAIN cl = DOMAIN a \cup {k} /\ cl[k] = v /\ \A j \in DOMAIN a \ {k} : cl[j] = a[j]
        <5>1. Extends(cl, a, k, v)
          BY <3>1, WithIs
        <5> QED BY <5>1 DEF Extends
      <4> QED BY <1>9, <4>1
    <3>3. \A j \in DOMAIN cl : cl[j] = IF j = k THEN v ELSE c[j]
      BY <1>9, <2>1, <3>2
    <3>4. \A j \in DOMAIN cr : cr[j] = IF j = k THEN v ELSE c[j]
      BY <1>9, <2>1, <3>1
    <3> QED BY <1>9, <2>2, <3>1, <3>2, <3>3, <3>4
  <2>3. CASE ~(k < x)
    <3>1. cr = With(b, k, v) /\ cl = a
      BY <2>3
    <3> HIDE DEF cl, cr
    <3>2. DOMAIN cr = high \cup {k} /\ cr[k] = v /\ \A j \in high \ {k} : cr[j] = b[j]
      <4>1. DOMAIN cr = DOMAIN b \cup {k} /\ cr[k] = v /\ \A j \in DOMAIN b \ {k} : cr[j] = b[j]
        <5>1. Extends(cr, b, k, v)
          BY <3>1, WithIs
        <5> QED BY <5>1 DEF Extends
      <4> QED BY <1>9, <4>1
    <3>3. \A j \in DOMAIN cr : cr[j] = IF j = k THEN v ELSE c[j]
      BY <1>9, <2>1, <3>2
    <3>4. \A j \in DOMAIN cl : cl[j] = IF j = k THEN v ELSE c[j]
      BY <1>9, <2>1, <3>1
    <3> QED BY <1>9, <2>3, <3>1, <3>2, <3>3, <3>4
  <2> QED BY <2>2, <2>3
<1>12. /\ ul \in Nat /\ Cardinality(DOMAIN cl) <= ul /\ ul <= MergeCap
       /\ ur \in Nat /\ Cardinality(DOMAIN cr) <= ur /\ ur <= MergeCap
  <2> DEFINE z == Cardinality(D)
             y == Cardinality(low)
             g == Cardinality(high)
  <2>1. /\ z \in Nat /\ z <= MergeCap /\ MergeCap \in Nat
        /\ y \in Nat /\ g \in Nat /\ y < z /\ g < z
    BY <1>3, <1>5, Basics
  <2>2. /\ Cardinality(low \cup {k}) = y + 1 /\ Cardinality(high \cup {k}) = g + 1
    <3>1. k \notin low /\ k \notin high
      BY <1>5, <1>10 DEF n
    <3> QED BY <1>5, <3>1, FS_AddElement
  <2> HIDE DEF D, z, y, g
  <2>3. y + 1 <= MergeCap /\ g + 1 <= MergeCap /\ y <= MergeCap /\ g <= MergeCap /\ y <= y /\ g <= g
        /\ y + 1 \in Nat /\ g + 1 \in Nat /\ y + 1 <= y + 1 /\ g + 1 <= g + 1
    BY ONLY <2>1
  <2>4. CASE k < x
    <3>1. ul = y + 1 /\ ur = g /\ DOMAIN cl = low \cup {k} /\ DOMAIN cr = high
      BY <1>11, <2>4 DEF y, g
    <3> HIDE DEF ul, ur, cl, cr
    <3> QED BY <2>1, <2>2, <2>3, <3>1 DEF g
  <2>5. CASE ~(k < x)
    <3>1. ul = y /\ ur = g + 1 /\ DOMAIN cl = low /\ DOMAIN cr = high \cup {k}
      BY <1>11, <2>5 DEF y, g
    <3> HIDE DEF ul, ur, cl, cr
    <3> QED BY <2>1, <2>2, <2>3, <3>1 DEF y
  <2> QED BY <2>4, <2>5
<1>13. /\ DOMAIN cl \subseteq Keys /\ \A j \in DOMAIN cl : cl[j] \in Values
       /\ DOMAIN cr \subseteq Keys /\ \A j \in DOMAIN cr : cr[j] \in Values
  <2>1. low \subseteq D /\ high \subseteq D /\ D \subseteq Keys /\ \A j \in D : c[j] \in Values
    BY <1>3, <1>5, <1>10
  <2>2. DOMAIN cl \subseteq D \cup {k} /\ DOMAIN cr \subseteq D \cup {k}
    BY <1>11, <2>1
  <2> HIDE DEF cl, cr, D
  <2> QED BY <1>11, <2>1, <2>2
<1>14. Shared(c, k, v, cl, cr)
  <2>1. DOMAIN cl \cup DOMAIN cr = D \cup {k}
    BY <1>5, <1>10, <1>11
  <2> HIDE DEF cl, cr
  <2> QED BY <1>11, <2>1 DEF Shared
<1>15. Between(t, i, x, cl, cr)
  <2>1. /\ i \in Idx(t) /\ i <= k /\ k \in Nat /\ i \in Int
        /\ \A j \in Idx(t) : j \in Int /\ (i < j => k < j)
        /\ \A y \in D : y \in Nat /\ i <= y /\ \A j \in Idx(t) : i < j => y < j
    <3>1. \A j \in Idx(t) : j \in Int
      BY IdxFacts
    <3>2. \A j \in Idx(t) : j <= k => j <= i
      BY DEF Home
    <3>3. k \in Nat /\ i <= k
      BY Basics DEF Home
    <3>4. \A j \in Idx(t) : i < j => k < j
      BY <1>1, <3>1, <3>2, <3>3
    <3>5. \A y \in D : i <= y /\ \A j \in Idx(t) : i < j => y < j
      BY <1>1 DEF Shape, Sorted, n
    <3> QED BY <1>1, <1>3, <3>1, <3>3, <3>4, <3>5
  <2>2. x \in D /\ x \in Nat /\ x \in Keys
    BY <1>3, <1>6, <1>10
  <2>3. i < x
    <3>1. PICK y \in low : TRUE
      BY <1>5
    <3>2. i <= y /\ y < x /\ y \in Nat
      BY <1>5, <1>6, <2>1
    <3> QED BY <2>1, <2>2, <3>2
  <2>4. ASSUME NEW j \in DOMAIN cl PROVE i <= j /\ j < x
    <3>1. j \in low \/ (j = k /\ k < x)
      BY <1>11
    <3>2. CASE j \in low
      BY <1>5, <1>6, <2>1, <3>2
    <3>3. CASE j = k /\ k < x
      BY <2>1, <3>3
    <3> QED BY <3>1, <3>2, <3>3
  <2>5. ASSUME NEW j \in DOMAIN cr PROVE x <= j /\ \A m \in Idx(t) : i < m => j < m
    <3>1. j \in high \/ (j = k /\ ~(k < x))
      BY <1>11
    <3>2. CASE j \in high
      BY <1>6, <1>10, <2>1, <3>2
    <3>3. CASE j = k /\ ~(k < x)
      BY <2>1, <2>2, <3>3
    <3> QED BY <3>1, <3>2, <3>3
  <2> HIDE DEF cl, cr
  <2> QED BY <2>1, <2>2, <2>3, <2>4, <2>5 DEF Between
<1>16. /\ Fields(u) /\ u.root = t.root /\ u.alloc = t.alloc \cup {r}
       /\ \A q \in Pages \ {l, r} : u.node[q] = Before(t, q, n.next, r)
       /\ u.node[l] = Page("leaf", cl, ul, n.parent, NoPage, r, NoPage)
       /\ u.node[r] = Page("leaf", cr, ur, n.parent, l, n.next, NoPage)
  <2>1. /\ Fielded(w.node[l]) /\ w.node[l].level = "leaf" /\ w.node[l].cells = a
        /\ w.node[l].used = Cardinality(low) /\ w.node[l].parent = n.parent
        /\ w.node[l].prev = NoPage /\ w.node[l].next = r /\ w.node[l].leftmost = NoPage
    <3>1. w.node[l] = Page("leaf", a, Cardinality(low), n.parent, NoPage, r, NoPage)
      BY <1>7 DEF a
    <3> QED BY <3>1 DEF Page, Fielded
  <2>2. /\ Fielded(w.node[r]) /\ w.node[r].level = "leaf" /\ w.node[r].cells = b
        /\ w.node[r].used = Cardinality(high) /\ w.node[r].parent = n.parent
        /\ w.node[r].prev = l /\ w.node[r].next = n.next /\ w.node[r].leftmost = NoPage
    <3>1. w.node[r] = Page("leaf", b, Cardinality(high), n.parent, l, n.next, NoPage)
      BY <1>7 DEF b
    <3> QED BY <3>1 DEF Page, Fielded
  <2>3. p \in {l, r} /\ Fielded(w.node[p]) /\ p \in Pages
    BY <1>1, <2>1, <2>2 DEF p
  <2>4. Edited(w, u, p, With(w.node[p].cells, k, v), w.node[p].used + 1)
    BY <1>7, <2>3, PutEdits DEF u
  <2>5. /\ Fields(u) /\ u.root = t.root /\ u.alloc = t.alloc \cup {r}
        /\ \A q \in Pages \ {l, r} : u.node[q] = Before(t, q, n.next, r)
    BY <1>7, <2>3, <2>4 DEF Edited
  <2>6. CASE k < x
    <3>1. /\ p = l /\ cl = With(a, k, v) /\ cr = b
          /\ ul = Cardinality(low) + 1 /\ ur = Cardinality(high)
      BY <2>6 DEF p
    <3> HIDE DEF cl, cr, ul, ur
    <3>2. u.node[l] = Page("leaf", cl, ul, n.parent, NoPage, r, NoPage)
      BY <2>1, <2>4, <3>1 DEF Edited
    <3>3. u.node[r] = Page("leaf", cr, ur, n.parent, l, n.next, NoPage)
      BY <1>1, <1>7, <2>4, <3>1 DEF Edited, b
    <3> QED BY <2>5, <3>2, <3>3
  <2>7. CASE ~(k < x)
    <3>1. /\ p = r /\ cr = With(b, k, v) /\ cl = a
          /\ ur = Cardinality(high) + 1 /\ ul = Cardinality(low)
      BY <2>7 DEF p
    <3> HIDE DEF cl, cr, ul, ur
    <3>2. u.node[r] = Page("leaf", cr, ur, n.parent, l, n.next, NoPage)
      BY <2>2, <2>4, <3>1 DEF Edited
    <3>3. u.node[l] = Page("leaf", cl, ul, n.parent, NoPage, r, NoPage)
      BY <1>1, <1>7, <2>4, <3>1 DEF Edited, a
    <3> QED BY <2>5, <3>2, <3>3
  <2> QED BY <2>6, <2>7
<1> HIDE DEF cl, cr, ul, ur
<1>17. /\ LeafBelow(u.node[l], n.parent) /\ u.node[l].cells = cl
       /\ u.node[l].prev = NoPage /\ u.node[l].next = r
       /\ LeafBelow(u.node[r], n.parent) /\ u.node[r].cells = cr /\ u.node[r].next = n.next
  <2>1. {n.parent, NoPage, r, l, n.next} \subseteq Pages \cup {NoPage}
    BY <1>1, <1>2 DEF NodeOK
  <2>2. /\ NodeOK(u.node[l]) /\ u.node[l].level = "leaf" /\ u.node[l].cells = cl
        /\ u.node[l].parent = n.parent /\ u.node[l].prev = NoPage /\ u.node[l].next = r
    BY <1>12, <1>13, <1>16, <2>1, LeafOK
  <2>3. /\ NodeOK(u.node[r]) /\ u.node[r].level = "leaf" /\ u.node[r].cells = cr
        /\ u.node[r].parent = n.parent /\ u.node[r].next = n.next
    BY <1>12, <1>13, <1>16, <2>1, LeafOK
  <2> QED BY <2>2, <2>3 DEF LeafBelow
<1>18. Halved(t, u, i, r, cl, cr)
  BY <1>1, <1>16, <1>17 DEF Halved, l, n
<1>19. SplitLeaf(t, l).right = r /\ SplitLeaf(t, l).sep = x
  BY <1>7 DEF s
<1>20. Put(SplitLeaf(t, l).tree, IF k < SplitLeaf(t, l).sep THEN l ELSE SplitLeaf(t, l).right, k, v) = u
  BY <1>19 DEF u, w, s, p
<1> QED BY <1>8, <1>14, <1>15, <1>18, <1>19, <1>20 DEF l, n, r

LEMMA InternalOK ==
    ASSUME NEW c, DOMAIN c \subseteq Keys, \A k \in DOMAIN c : c[k] \in Pages,
           NEW u \in Nat, Cardinality(DOMAIN c) <= u, u <= InternalCap,
           NEW a, NEW x, NEW y, NEW z, {a, x, y, z} \subseteq Pages \cup {NoPage},
           NEW m, m = Page("internal", c, u, a, x, y, z)
    PROVE  /\ NodeOK(m) /\ m.level = "internal" /\ m.cells = c /\ m.used = u
           /\ m.parent = a /\ m.prev = x /\ m.next = y /\ m.leftmost = z
<1>1. /\ m.level = "internal" /\ m.cells = c /\ m.used = u
      /\ m.parent = a /\ m.prev = x /\ m.next = y /\ m.leftmost = z
  BY DEF Page
<1>2. Fielded(m)
  BY <1>1 DEF Fielded
<1>3. Room(m) = InternalCap
  BY <1>1 DEF Room
<1> QED BY <1>1, <1>2, <1>3 DEF NodeOK, Size

\* which of the leaves a leaf's next_page_id names, if any
LEMMA NextIs ==
    ASSUME NEW t, Shape(t), NEW i \in Idx(t)
    PROVE  \/ At(t, i).next = NoPage
           \/ \E j \in Idx(t) : i < j /\ j # i /\ j # -1 /\ At(t, i).next = Kid(t, j)
<1>1. ASSUME NEW j \in Idx(t), i < j PROVE j # i /\ j # -1
  BY <1>1, IdxFacts
<1> QED BY <1>1 DEF Shape, Chained

\* the pages a divided leaf leaves alone
LEMMA HalvedOthers ==
    ASSUME NEW t, Shape(t), NEW i \in Idx(t), NEW r, NEW cl, NEW cr, NEW u, Halved(t, u, i, r, cl, cr)
    PROVE  /\ \A q \in Pages \ u.alloc : u.node[q] = t.node[q]
           /\ Inner(t) => u.node[t.root] = t.node[t.root]
           /\ \A j \in Idx(t) \ {i} : /\ LeafBelow(u.node[Kid(t, j)], At(t, j).parent)
                                      /\ u.node[Kid(t, j)].next = At(t, j).next
                                      /\ u.node[Kid(t, j)].cells = At(t, j).cells
                                      /\ j = -1 => u.node[Kid(t, j)].prev = NoPage
<1> DEFINE next == At(t, i).next
           l == Kid(t, i)
<1>1. /\ u.alloc = t.alloc \cup {r} /\ r \in Pages \ t.alloc
      /\ \A q \in Pages \ {l, r} : u.node[q] = Before(t, q, next, r)
      /\ \A j \in Idx(t) : /\ Kid(t, j) \in Pages /\ Kid(t, j) \in t.alloc /\ Kid(t, j) # r
                           /\ LeafBelow(At(t, j), At(t, j).parent) /\ At(t, j) = t.node[Kid(t, j)]
                           /\ j # i => Kid(t, j) # l
      /\ -1 \in Idx(t) /\ At(t, -1).prev = NoPage
  BY DEF Halved, Shape, Leaves, Accounted, LeafBelow, At
<1>2. next = NoPage \/ (next \in t.alloc /\ t.node[next].level = "leaf" /\ next # Kid(t, -1))
  <2>1. ASSUME NEW j \in Idx(t), j # -1, next = Kid(t, j)
        PROVE  next \in t.alloc /\ t.node[next].level = "leaf" /\ next # Kid(t, -1)
    BY <1>1, <2>1 DEF Shape, Leaves, LeafBelow
  <2> QED BY <2>1, NextIs
<1> HIDE DEF next, l
<1>3. ASSUME NEW q \in Pages \ u.alloc PROVE u.node[q] = t.node[q]
  <2>1. q # l /\ q # r /\ q # next
    BY <1>1, <1>2, Basics DEF l
  <2> QED BY <1>1, <2>1 DEF Before
<1>4. ASSUME Inner(t) PROVE u.node[t.root] = t.node[t.root]
  <2>1. t.root \in Pages /\ t.root \in t.alloc /\ t.node[t.root].level = "internal"
    BY <1>4, IdxFacts, Basics DEF Inner, Shape, Accounted
  <2>2. t.root # l /\ t.root # r /\ t.root # next
    BY <1>1, <1>2, <2>1, Basics DEF l, LeafBelow
  <2> QED BY <1>1, <2>1, <2>2 DEF Before
<1>5. ASSUME NEW j \in Idx(t) \ {i}
      PROVE  /\ LeafBelow(u.node[Kid(t, j)], At(t, j).parent)
             /\ u.node[Kid(t, j)].next = At(t, j).next
             /\ u.node[Kid(t, j)].cells = At(t, j).cells
             /\ j = -1 => u.node[Kid(t, j)].prev = NoPage
  <2> DEFINE q == Kid(t, j)
             n == At(t, j)
  <2>1. u.node[q] = Before(t, q, next, r) /\ n = t.node[q] /\ LeafBelow(n, n.parent)
    BY <1>1
  <2>2. j = -1 => q # next /\ n.prev = NoPage
    BY <1>1, <1>2, Basics
  <2> HIDE DEF q, n
  <2>3. CASE q # next
    <3>1. u.node[q] = n
      BY <2>1, <2>3 DEF Before
    <3> QED BY <2>1, <2>2, <3>1 DEF q, n
  <2>4. CASE q = next
    <3>1. u.node[q] = Page(n.level, n.cells, n.used, n.parent, r, n.next, n.leftmost)
      BY <2>1, <2>4 DEF Before
    <3>2. NodeOK(n) /\ {n.parent, r, n.next} \subseteq Pages \cup {NoPage}
      BY <1>1, <2>1 DEF LeafBelow, NodeOK
    <3> DEFINE m == u.node[q]
    <3>a. Relinked(m, n, n.parent, r, n.next)
      BY <3>1 DEF Relinked
    <3> HIDE DEF m
    <3>3. /\ NodeOK(m) /\ m.level = n.level /\ m.cells = n.cells
          /\ m.parent = n.parent /\ m.next = n.next
      BY ONLY <3>2, <3>a, LinksOK
    <3> QED BY <2>1, <2>2, <2>4, <3>3 DEF q, n, m, LeafBelow
  <2> QED BY <2>3, <2>4
<1> QED BY <1>3, <1>4, <1>5

LEMMA PagesLeft ==
    ASSUME NEW t, Cardinality(Unallocated(t)) >= 3, NEW r
    PROVE  Unallocated(t) # {} /\ Unallocated(t) \ {r} # {}
<1>1. Unallocated(t) # {}
  BY FS_EmptySet
<1>2. Unallocated(t) \ {r} # {}
  <2> SUFFICES ASSUME Unallocated(t) \subseteq {r} PROVE FALSE
    OBVIOUS
  <2>1. Cardinality({r}) = 1 /\ IsFiniteSet({r})
    BY FS_Singleton
  <2>2. Cardinality(Unallocated(t)) <= 1
    BY <2>1, FS_Subset
  <2>3. Cardinality(Unallocated(t)) \in Nat
    BY <2>1, FS_Subset, FS_CardinalityType
  <2> QED BY <2>2, <2>3
<1> QED BY <1>1, <1>2

LEMMA HangUnderNewRoot ==
    ASSUME NEW t, Shape(t), ~Inner(t), NEW i, NEW r, NEW x, NEW cl, NEW cr, NEW u,
           Halved(t, u, i, r, cl, cr), Between(t, i, x, cl, cr), Cardinality(Unallocated(t)) >= 3
    PROVE  /\ AddToParent(u, Kid(t, i), x, r) = NewRoot(u, Kid(t, i), x, r)
           /\ Grown(t, NewRoot(u, Kid(t, i), x, r), i, x, cl, cr, NewPid(u), r)
<1> DEFINE l == Kid(t, i)
           n == At(t, i)
           g == NewPid(u)
           w == NewRoot(u, l, x, r)
<1>1. i \in Idx(t) /\ i = -1 /\ Idx(t) = {-1} /\ x \in Keys /\ x # -1
  BY IdxFacts, Basics DEF Between
<1>2. /\ l \in Pages /\ l \in t.alloc /\ n.parent = NoPage
      /\ n.next \in Pages \cup {NoPage}
  BY <1>1 DEF Shape, Leaves, Accounted, At, NodeOK
<1>3. /\ Fields(u) /\ u.root = t.root /\ u.alloc = t.alloc \cup {r} /\ r \in Pages /\ r \notin t.alloc
      /\ LeafBelow(u.node[l], NoPage) /\ LeafBelow(u.node[r], NoPage)
      /\ u.node[l].cells = cl /\ u.node[r].cells = cr
      /\ u.node[l].prev = NoPage /\ u.node[l].next = r /\ u.node[r].next = n.next
  BY <1>2 DEF Halved
<1>4. AddToParent(u, l, x, r) = w
  BY <1>3 DEF AddToParent, NeedsRoot, LeafBelow
<1>5. Unallocated(u) # {}
  <2>1. Unallocated(u) = Unallocated(t) \ {r}
    BY <1>3 DEF Unallocated
  <2> QED BY <2>1, PagesLeft
<1>6. g \in Pages /\ g \notin t.alloc /\ g # r /\ g # l
  BY <1>2, <1>3, <1>5, NewPidIs
<1>7. /\ Fields(w) /\ w.root = g /\ w.alloc = u.alloc \cup {g}
      /\ w.node[g] = Page("internal", With(<<>>, x, r), 1, NoPage, NoPage, NoPage, l)
      /\ LET m == u.node[l]
         IN  w.node[l] = Page(m.level, m.cells, m.used, g, m.prev, m.next, m.leftmost)
      /\ LET m == u.node[r]
         IN  w.node[r] = Page(m.level, m.cells, m.used, g, m.prev, m.next, m.leftmost)
      /\ \A q \in Pages \ {g, l, r} : w.node[q] = u.node[q]
  <2>1. l # r /\ l \in u.alloc /\ r \in u.alloc /\ Fielded(u.node[l]) /\ Fielded(u.node[r])
    BY <1>2, <1>3 DEF LeafBelow, NodeOK
  <2> HIDE DEF l
  <2> QED BY <1>2, <1>3, <1>5, <2>1, NewRootIs
<1> HIDE DEF g, w, l, n
<1>8. /\ NodeOK(w.node[g]) /\ w.node[g].level = "internal" /\ w.node[g].parent = NoPage
      /\ DOMAIN w.node[g].cells = {x} /\ w.node[g].cells[x] = r /\ w.node[g].leftmost = l
  <2> DEFINE c == With(<<>>, x, r)
             m == w.node[g]
  <2>1. DOMAIN c = {x} /\ c[x] = r
    BY DEF With
  <2> HIDE DEF c
  <2>2. /\ Cardinality(DOMAIN c) <= 1 /\ 1 \in Nat /\ 1 <= InternalCap
        /\ DOMAIN c \subseteq Keys /\ \A k \in DOMAIN c : c[k] \in Pages
    BY <1>1, <1>3, <2>1, Basics, FS_Singleton, SMTT(40)
  <2>3. m = Page("internal", c, 1, NoPage, NoPage, NoPage, l)
    BY <1>7 DEF c
  <2>4. {NoPage, l} \subseteq Pages \cup {NoPage}
    BY <1>2
  <2> HIDE DEF m
  <2>5. NodeOK(m) /\ m.level = "internal" /\ m.cells = c /\ m.parent = NoPage /\ m.leftmost = l
    BY ONLY <2>2, <2>3, <2>4, InternalOK
  <2> QED BY <2>1, <2>5 DEF m
<1>9. /\ LeafBelow(w.node[l], g) /\ w.node[l].cells = cl /\ w.node[l].next = r /\ w.node[l].prev = NoPage
  <2> DEFINE m == w.node[l]
             o == u.node[l]
  <2>1. Relinked(m, o, g, o.prev, o.next)
    BY <1>7 DEF Relinked
  <2>2. NodeOK(o) /\ {g, o.prev, o.next} \subseteq Pages \cup {NoPage} /\ o.level = "leaf"
    BY <1>3, <1>6 DEF LeafBelow, NodeOK
  <2> HIDE DEF m, o
  <2>3. /\ NodeOK(m) /\ m.level = o.level /\ m.cells = o.cells
        /\ m.parent = g /\ m.prev = o.prev /\ m.next = o.next
    BY ONLY <2>1, <2>2, LinksOK, SMTT(40)
  <2> QED BY <1>3, <2>2, <2>3 DEF m, o, LeafBelow
<1>10. LeafBelow(w.node[r], g) /\ w.node[r].cells = cr /\ w.node[r].next = n.next
  <2> DEFINE m == w.node[r]
             o == u.node[r]
  <2>1. Relinked(m, o, g, o.prev, o.next)
    BY <1>7 DEF Relinked
  <2>2. NodeOK(o) /\ {g, o.prev, o.next} \subseteq Pages \cup {NoPage} /\ o.level = "leaf"
    BY <1>3, <1>6 DEF LeafBelow, NodeOK
  <2> HIDE DEF m, o
  <2>3. /\ NodeOK(m) /\ m.level = o.level /\ m.cells = o.cells
        /\ m.parent = g /\ m.prev = o.prev /\ m.next = o.next
    BY ONLY <2>1, <2>2, LinksOK
  <2> QED BY <1>3, <2>2, <2>3 DEF m, o, LeafBelow
<1>11. \A q \in Pages \ w.alloc : w.node[q] = t.node[q]
  <2>1. \A q \in Pages \ u.alloc : u.node[q] = t.node[q]
    BY <1>1, HalvedOthers
  <2> QED BY <1>2, <1>3, <1>7, <2>1
<1>12. \A j \in Idx(t) : Kid(t, j) = l
  BY <1>1, SMTT(40) DEF l
<1>13. Grown(t, w, i, x, cl, cr, g, r)
  BY <1>1, <1>3, <1>6, <1>7, <1>8, <1>9, <1>10, <1>11, <1>12 DEF Grown, l, n
<1> QED BY <1>4, <1>13 DEF g, w, l

LEMMA HangUnderRoot ==
    ASSUME NEW t, Shape(t), Inner(t), NEW i, NEW r, NEW x, NEW cl, NEW cr, NEW u,
           Halved(t, u, i, r, cl, cr), Between(t, i, x, cl, cr), ~ParentFull(t, Kid(t, i), x)
    PROVE  /\ AddToParent(u, Kid(t, i), x, r) = Linked(u, Kid(t, i), x, r)
           /\ Grown(t, Linked(u, Kid(t, i), x, r), i, x, cl, cr, t.root, r)
<1> DEFINE l == Kid(t, i)
           n == At(t, i)
           g == t.root
           o == Top(t)
           w == Linked(u, l, x, r)
           c == With(o.cells, x, r)
           first == IF ChildSeparators(o, x) = {} THEN l ELSE o.leftmost
<1>1. i \in Idx(t) /\ i < x /\ i \in Int /\ x \in Keys /\ x # -1 /\ x \notin Idx(t) /\ -1 \in Idx(t)
  <2>1. i \in Idx(t) /\ x \in Keys /\ i < x /\ \A j \in Idx(t) : i < j => x < j
    BY DEF Between
  <2>2. i \in Int /\ x \in Nat
    BY <2>1, IdxFacts, Basics
  <2>3. x \notin Idx(t)
    BY <2>1, <2>2
  <2> QED BY <2>1, <2>2, <2>3 DEF Shape
<1>2. /\ g \in Pages /\ g \in t.alloc /\ o = t.node[g] /\ o.level = "internal" /\ o.parent = NoPage /\ NodeOK(o)
      /\ DOMAIN o.cells = Idx(t) \ {-1} /\ o.leftmost = Kid(t, -1)
      /\ \A j \in Idx(t) \ {-1} : Kid(t, j) = o.cells[j]
  BY <1>1, IdxFacts, Basics DEF Inner, Top, Shape, Accounted
<1>3. /\ l \in Pages /\ l # g /\ n.parent = g /\ t.node[l] = n
      /\ \A j \in Idx(t) : Kid(t, j) # g /\ At(t, j).parent = g /\ Kid(t, j) \in t.alloc
  BY <1>1, <1>2 DEF Shape, Leaves, Accounted, At
<1>4. /\ Fields(u) /\ u.root = g /\ u.alloc = t.alloc \cup {r} /\ r \in Pages /\ r \notin t.alloc
      /\ LeafBelow(u.node[l], g) /\ LeafBelow(u.node[r], g)
      /\ u.node[l].cells = cl /\ u.node[r].cells = cr
      /\ u.node[l].prev = NoPage /\ u.node[l].next = r /\ u.node[r].next = n.next
      /\ u.node[g] = o
  <2>1. u.node[g] = o
    BY <1>1, HalvedOthers DEF Top
  <2>2. n.parent = g
    BY <1>3
  <2> HIDE DEF n, g, o, l
  <2> QED BY <2>1, <2>2 DEF Halved, n, g, l
<1>5. /\ ~NeedsRoot(u, l, x) /\ ~InternalFull(u, u.node[l].parent) /\ o.used < InternalCap
  <2>1. ~NeedsRoot(t, l, x)
    BY <1>1, <1>2, <1>3, Basics DEF NeedsRoot
  <2>2. ~(o.used >= InternalCap)
    BY <1>2, <1>3, <2>1 DEF ParentFull, InternalFull
  <2>3. o.used < InternalCap
    BY <1>2, <2>2, Basics DEF NodeOK
  <2>4. u.node[l].parent = g
    BY <1>4 DEF LeafBelow
  <2> QED BY <1>1, <1>2, <1>4, <2>2, <2>3, <2>4, Basics DEF NeedsRoot, InternalFull
<1>6. AddToParent(u, l, x, r) = w
  BY <1>5 DEF AddToParent
<1>7. /\ Fields(w) /\ w.root = g /\ w.alloc = u.alloc
      /\ w.node[g] = Page(o.level, c, o.used + 1, o.parent, o.prev, o.next, first)
      /\ \A q \in Pages \ {g} : w.node[q] = u.node[q]
  <2>1. g = u.node[l].parent /\ Fielded(u.node[g])
    BY <1>2, <1>4 DEF LeafBelow, NodeOK
  <2>2. Fields(u) /\ l \in Pages /\ g \in Pages
    BY <1>2, <1>3, <1>4
  <2> HIDE DEF l, g
  <2>3. LinkedUnder(u, w, g, l, x, r)
    BY ONLY <2>1, <2>2, LinkedIs
  <2>4. u.node[g] = o /\ u.root = g
    BY <1>4
  <2> HIDE DEF w, o
  <2> QED BY <2>3, <2>4 DEF LinkedUnder
<1>8. first = Kid(t, -1)
  <2>1. CASE i = -1
    BY <1>2, <2>1
  <2>2. CASE i # -1
    <3>1. i \in DOMAIN o.cells /\ i <= x
      BY <1>1, <1>2, <2>2, Basics
    <3>2. ChildSeparators(o, x) # {}
      BY <3>1 DEF ChildSeparators
    <3> QED BY <1>2, <3>2
  <2> QED BY <2>1, <2>2
<1>9. DOMAIN c = (Idx(t) \cup {x}) \ {-1} /\ c[x] = r /\ \A j \in Idx(t) \ {-1} : c[j] = Kid(t, j)
  <2>1. Extends(c, o.cells, x, r)
    BY WithIs
  <2> HIDE DEF c, o
  <2>2. DOMAIN c = DOMAIN o.cells \cup {x} /\ c[x] = r /\ \A j \in DOMAIN o.cells \ {x} : c[j] = o.cells[j]
    BY <2>1 DEF Extends
  <2> QED BY <1>1, <1>2, <2>2
<1>10. Cardinality(DOMAIN c) <= o.used + 1 /\ o.used + 1 \in Nat /\ o.used + 1 <= InternalCap
  <2>1. DOMAIN o.cells \subseteq Keys /\ o.used \in Nat /\ Cardinality(DOMAIN o.cells) <= o.used
    BY <1>2 DEF NodeOK, Size
  <2>2. DOMAIN c = DOMAIN o.cells \cup {x} /\ x \notin DOMAIN o.cells
    BY <1>1, <1>2, <1>9
  <2>3. IsFiniteSet(DOMAIN o.cells) /\ Cardinality(DOMAIN o.cells) \in Nat
    BY <2>1, Basics
  <2>4. Cardinality(DOMAIN c) = Cardinality(DOMAIN o.cells) + 1
    BY <2>2, <2>3, FS_AddElement
  <2> HIDE DEF c, o
  <2> QED BY <1>5, <2>1, <2>3, <2>4, Basics
<1> HIDE DEF l, g, o, w, c, n, first
<1>11. /\ NodeOK(w.node[g]) /\ w.node[g].level = "internal" /\ w.node[g].parent = NoPage
       /\ w.node[g].cells = c /\ w.node[g].leftmost = Kid(t, -1)
  <2> DEFINE m == w.node[g]
             e == o.used + 1
  <2>1. m = Page("internal", c, e, NoPage, o.prev, o.next, Kid(t, -1))
    BY <1>2, <1>7, <1>8
  <2>2. {NoPage, o.prev, o.next, Kid(t, -1)} \subseteq Pages \cup {NoPage}
    BY <1>2 DEF NodeOK
  <2>3. DOMAIN c \subseteq Keys /\ \A k \in DOMAIN c : c[k] \in Pages
    <3>1. Idx(t) \subseteq Keys \cup {-1} /\ \A j \in Idx(t) : Kid(t, j) \in Pages
      BY IdxFacts DEF Shape, Leaves
    <3>2. DOMAIN c \subseteq Keys
      BY <1>1, <1>9, <3>1
    <3>3. \A k \in DOMAIN c : k = x \/ k \in Idx(t) \ {-1}
      BY <1>9
    <3>4. c[x] \in Pages /\ \A k \in Idx(t) \ {-1} : c[k] \in Pages
      BY <1>4, <1>9, <3>1
    <3> QED BY <3>2, <3>3, <3>4
  <2>4. Cardinality(DOMAIN c) <= e /\ e \in Nat /\ e <= InternalCap
    BY <1>10
  <2> HIDE DEF m, e
  <2>5. NodeOK(m) /\ m.level = "internal" /\ m.cells = c /\ m.parent = NoPage /\ m.leftmost = Kid(t, -1)
    BY ONLY <2>1, <2>2, <2>3, <2>4, InternalOK
  <2> QED BY <2>5 DEF m
<1>12. w.node[l] = u.node[l] /\ w.node[r] = u.node[r]
  BY <1>2, <1>3, <1>4, <1>7
<1>13. \A q \in Pages \ w.alloc : w.node[q] = t.node[q]
  <2>1. \A q \in Pages \ u.alloc : u.node[q] = t.node[q]
    BY <1>1, HalvedOthers
  <2> QED BY <1>2, <1>4, <1>7, <2>1
<1>14. \A j \in Idx(t) \ {i} : /\ LeafBelow(w.node[Kid(t, j)], g)
                               /\ w.node[Kid(t, j)].next = At(t, j).next
                               /\ w.node[Kid(t, j)].cells = At(t, j).cells
                               /\ j = -1 => w.node[Kid(t, j)].prev = NoPage
  <2>1. \A j \in Idx(t) \ {i} : /\ LeafBelow(u.node[Kid(t, j)], At(t, j).parent)
                                /\ u.node[Kid(t, j)].next = At(t, j).next
                                /\ u.node[Kid(t, j)].cells = At(t, j).cells
                                /\ j = -1 => u.node[Kid(t, j)].prev = NoPage
    BY <1>1, HalvedOthers
  <2>2. \A j \in Idx(t) : Kid(t, j) \in Pages \ {g} /\ At(t, j).parent = g
    BY <1>3 DEF Shape, Leaves
  <2> QED BY <1>7, <2>1, <2>2
<1>15. w.alloc = t.alloc \cup {r, g} /\ \A j \in Idx(t) : Kid(t, j) # g
  BY <1>2, <1>3, <1>4, <1>7, SMTT(40)
<1>16. Grown(t, w, i, x, cl, cr, g, r)
  BY <1>2, <1>4, <1>7, <1>9, <1>11, <1>12, <1>13, <1>14, <1>15 DEF Grown, l, n, g
<1> QED BY <1>6, <1>16 DEF g, w, l

LEMMA SplitInsertIs ==
    ASSUME NEW t, Shape(t), NEW k \in Keys, NEW v \in Values, NEW i, Home(t, k, i),
           k \notin DOMAIN At(t, i).cells, Size(At(t, i)) >= 2, Cardinality(Unallocated(t)) >= 3,
           ~ParentFull(t, Kid(t, i), NextSep(At(t, i)))
    PROVE  Shape(SplitInsert(t, Kid(t, i), k, v)) /\ Gains(t, SplitInsert(t, Kid(t, i), k, v), k, v)
<1> DEFINE l == Kid(t, i)
           s == SplitLeaf(t, l)
           x == s.sep
           r == s.right
           u == Put(s.tree, IF k < x THEN l ELSE r, k, v)
           w == AddToParent(u, l, x, r)
<1>1. SplitInsert(t, l, k, v) = w
  BY DEF SplitInsert
<1>2. /\ x = NextSep(At(t, i))
      /\ \E cl, cr : /\ Halved(t, u, i, r, cl, cr)
                     /\ Between(t, i, x, cl, cr)
                     /\ Shared(At(t, i).cells, k, v, cl, cr)
  BY PagesLeft, Halve
<1> HIDE DEF l, s, u, x, r
<1>3. PICK cl, cr : /\ Halved(t, u, i, r, cl, cr)
                    /\ Between(t, i, x, cl, cr)
                    /\ Shared(At(t, i).cells, k, v, cl, cr)
  BY <1>2
<1>4. \E g : Grown(t, w, i, x, cl, cr, g, r)
  <2>1. CASE Inner(t)
    BY <1>2, <1>3, <2>1, HangUnderRoot DEF l
  <2>2. CASE ~Inner(t)
    BY <1>2, <1>3, <2>2, HangUnderNewRoot DEF l
  <2> QED BY <2>1, <2>2
<1> HIDE DEF w
<1>5. /\ Shape(w) /\ Idx(w) = Idx(t) \cup {x}
      /\ At(w, i).cells = cl /\ At(w, x).cells = cr
      /\ \A j \in Idx(t) \ {i} : At(w, j).cells = At(t, j).cells
  BY <1>3, <1>4, Grow
<1>6. i \in Idx(t) /\ x \notin Idx(t) /\ \A j \in Idx(t) : k \notin DOMAIN At(t, j).cells
  <2>1. i \in Idx(t) /\ \A j \in Idx(t) : k \notin DOMAIN At(t, j).cells
    BY HomeIsOne DEF Home
  <2>2. x \in Keys /\ i < x /\ \A j \in Idx(t) : i < j => x < j
    BY <1>3 DEF Between
  <2>3. x \notin Idx(t)
    BY <2>2, Basics
  <2> QED BY <2>1, <2>3
<1>7. Gains(t, w, k, v)
  BY <1>3, <1>5, <1>6, GrowGains
<1> QED BY <1>1, <1>5, <1>7 DEF l

-----------------------------------------------------------------------------
(* The other inserts                                                       *)

\* in u the key k has no value and every other key what it has in t
Loses(t, u, k) ==
    \A j \in Keys : \A w \in Values : Holds(u, j, w) <=> j # k /\ Holds(t, j, w)

\* a leaf other than i has the value w for j
Elsewhere(t, i, j, w) == \E h \in Idx(t) \ {i} : j \in DOMAIN At(t, h).cells /\ At(t, h).cells[j] = w

LEMMA RefilledHolds ==
    ASSUME NEW t, NEW s, NEW i \in Idx(t), NEW c, Refilled(t, s, i, c), NEW j, NEW w
    PROVE  /\ Holds(s, j, w) <=> (j \in DOMAIN c /\ c[j] = w) \/ Elsewhere(t, i, j, w)
           /\ Holds(t, j, w) <=> \/ j \in DOMAIN At(t, i).cells /\ At(t, i).cells[j] = w
                                 \/ Elsewhere(t, i, j, w)
<1>1. /\ Idx(s) = Idx(t) /\ At(s, i).cells = c
      /\ \A h \in Idx(t) \ {i} : At(s, h).cells = At(t, h).cells
  BY DEF Refilled
<1>2. Holds(s, j, w) <=> (j \in DOMAIN c /\ c[j] = w) \/ Elsewhere(t, i, j, w)
  BY <1>1 DEF Holds, Elsewhere
<1>3. Holds(t, j, w) <=> \/ j \in DOMAIN At(t, i).cells /\ At(t, i).cells[j] = w
                         \/ Elsewhere(t, i, j, w)
  BY DEF Holds, Elsewhere
<1> QED BY <1>2, <1>3

LEMMA NotElsewhere ==
    ASSUME NEW t, Shape(t), NEW k \in Keys, NEW i, Home(t, k, i), NEW w
    PROVE  ~Elsewhere(t, i, k, w)
  BY HomeIsOne DEF Elsewhere

LEMMA PutIs ==
    ASSUME NEW t, Shape(t), NEW k \in Keys, NEW v \in Values, NEW i, Home(t, k, i),
           k \notin DOMAIN At(t, i).cells, At(t, i).used < MergeCap
    PROVE  Shape(Put(t, Kid(t, i), k, v)) /\ Gains(t, Put(t, Kid(t, i), k, v), k, v)
<1> DEFINE l == Kid(t, i)
           n == At(t, i)
           c == With(n.cells, k, v)
           s == Put(t, l, k, v)
           y == n.used + 1
<1>1. i \in Idx(t) /\ l \in Pages /\ n = t.node[l] /\ NodeOK(n) /\ n.level = "leaf" /\ Fields(t)
  BY DEF Home, Shape, Leaves, At
<1>2. Extends(c, n.cells, k, v)
  BY WithIs
<1> HIDE DEF c
<1>3. DOMAIN c = DOMAIN n.cells \cup {k} /\ c[k] = v /\ \A j \in DOMAIN n.cells \ {k} : c[j] = n.cells[j]
  BY <1>2 DEF Extends
<1>4. Fit(t, i, c)
  <2>1. DOMAIN n.cells \subseteq Keys /\ \A j \in DOMAIN n.cells : n.cells[j] \in Values
    BY <1>1 DEF NodeOK
  <2>2. \A j \in DOMAIN n.cells : i <= j /\ \A m \in Idx(t) : i < m => j < m
    BY <1>1 DEF Shape, Sorted
  <2>3. i <= k /\ \A m \in Idx(t) : i < m => k < m
    <3>1. k \in Nat /\ \A m \in Idx(t) : m \in Int
      BY IdxFacts, Basics
    <3> QED BY <1>1, <3>1 DEF Home
  <2> QED BY <1>3, <2>1, <2>2, <2>3 DEF Fit
<1>5. Cardinality(DOMAIN c) <= y /\ y \in Nat /\ y <= MergeCap
  <2> DEFINE D == DOMAIN n.cells
  <2>1. D \subseteq Keys /\ n.used \in Nat /\ Cardinality(D) <= n.used
    BY <1>1 DEF NodeOK, Size
  <2>2. IsFiniteSet(D) /\ Cardinality(D) \in Nat
    BY <2>1, Basics
  <2>3. Cardinality(DOMAIN c) = Cardinality(D) + 1
    BY <1>3, <2>2, FS_AddElement
  <2> HIDE DEF D
  <2> QED BY <2>1, <2>2, <2>3, Basics
<1>6. Edited(t, s, l, c, y)
  <2>1. Fielded(t.node[l])
    BY <1>1 DEF NodeOK
  <2> QED BY <1>1, <2>1, PutEdits DEF c
<1> HIDE DEF l, n, s, y
<1>7. Refilled(t, s, i, c)
  BY <1>1, <1>4, <1>5, <1>6, Refill DEF l
<1>8. Gains(t, s, k, v)
  <2> SUFFICES ASSUME NEW j \in Keys, NEW w \in Values
               PROVE  Holds(s, j, w) <=> IF j = k THEN w = v ELSE Holds(t, j, w)
    BY DEF Gains
  <2>1. Holds(s, j, w) <=> (j \in DOMAIN c /\ c[j] = w) \/ Elsewhere(t, i, j, w)
    BY <1>1, <1>7, RefilledHolds
  <2>2. Holds(t, j, w) <=> (j \in DOMAIN n.cells /\ n.cells[j] = w) \/ Elsewhere(t, i, j, w)
    BY <1>1, <1>7, RefilledHolds DEF n
  <2>5. j = k => ~Elsewhere(t, i, j, w)
    BY NotElsewhere
  <2>3. CASE j = k
    BY <1>3, <2>1, <2>3, <2>5
  <2>4. CASE j # k
    BY <1>3, <2>1, <2>2, <2>4
  <2> QED BY <2>3, <2>4
<1> QED BY <1>7, <1>8 DEF Refilled, s, l

\* an unused page is well formed
LEMMA UnusedOK == NodeOK(Unused) /\ Unused.level = "unused"
<1> DEFINE n == Leaf(NoPage)
<1>1. n = Page("leaf", <<>>, 0, NoPage, NoPage, NoPage, NoPage)
  BY DEF Leaf, Page
<1>2. Unused = Page("unused", <<>>, 0, NoPage, NoPage, NoPage, NoPage)
  BY <1>1 DEF Unused, Page
<1>3. /\ Unused.level = "unused" /\ Unused.cells = <<>> /\ Unused.used = 0 /\ Unused.parent = NoPage
      /\ Unused.prev = NoPage /\ Unused.next = NoPage /\ Unused.leftmost = NoPage
  BY <1>2 DEF Page
<1>4. DOMAIN <<>> = {} /\ Cardinality({}) = 0
  BY FS_EmptySet
<1> QED BY <1>2, <1>3, <1>4, Basics DEF NodeOK, Fielded, Room, Size

\* an empty leaf is the tree
LEMMA OneLeaf ==
    ASSUME NEW s, Fields(s), NEW p \in Pages, s.root = p, s.alloc = {p}, s.node[p] = Leaf(NoPage),
           \A q \in Pages \ {p} : s.node[q] = Unused
    PROVE  /\ Shape(s) /\ ~Inner(s) /\ Idx(s) = {-1} /\ Kid(s, -1) = p /\ At(s, -1) = Leaf(NoPage)
           /\ \A j, w : ~Holds(s, j, w)
<1> DEFINE n == Leaf(NoPage)
<1>1. n = Page("leaf", <<>>, 0, NoPage, NoPage, NoPage, NoPage)
  BY DEF Leaf, Page
<1> HIDE DEF n
<1>3. /\ n.level = "leaf" /\ n.cells = <<>> /\ n.used = 0 /\ n.parent = NoPage
      /\ n.prev = NoPage /\ n.next = NoPage /\ n.leftmost = NoPage
  BY <1>1 DEF Page
<1>5. DOMAIN <<>> = {} /\ Cardinality({}) = 0
  BY FS_EmptySet
<1>6. NodeOK(n)
  BY <1>1, <1>3, <1>5, Basics DEF NodeOK, Fielded, Room, Size
<1>8. p # NoPage /\ Top(s) = n
  BY Basics DEF n, Top
<1>9. ~Inner(s) /\ Idx(s) = {-1} /\ \A i : Kid(s, i) = p /\ At(s, i) = n
  BY <1>3, <1>8 DEF Inner, Top, Idx, Kid, At
<1>10. Leaves(s) /\ Sorted(s) /\ Chained(s) /\ Accounted(s)
  BY <1>3, <1>5, <1>8, <1>9 DEF Leaves, Sorted, Chained, Accounted
<1>11. \A q \in Pages : NodeOK(s.node[q])
  BY <1>6, UnusedOK DEF n
<1>12. Shape(s)
  BY <1>3, <1>8, <1>9, <1>10, <1>11 DEF Shape
<1>13. \A j, w : ~Holds(s, j, w)
  BY <1>3, <1>5, <1>9 DEF Holds
<1> QED BY <1>9, <1>12, <1>13 DEF n

LEMMA FirstInsertIs ==
    ASSUME NEW t, Shape(t), t.root = NoPage, Unallocated(t) # {}, NEW k \in Keys, NEW v \in Values
    PROVE  Shape(FirstInsert(t, k, v)) /\ Gains(t, FirstInsert(t, k, v), k, v)
<1> DEFINE p == NewPid(t)
           z == [t EXCEPT !.root = p]
           y == [z EXCEPT !.alloc = z.alloc \cup {p}]
           n == Leaf(NoPage)
           s == Set(y, p, n)
<1>1. FirstInsert(t, k, v) = Put(s, p, k, v)
  BY DEF FirstInsert, Set
<1>2. p \in Pages
  BY NewPidIs
<1>3. Idx(t) = {} /\ t.alloc = {} /\ \A q \in Pages : t.node[q] = Unused
  BY DEF Idx, Shape, Accounted
<1> HIDE DEF p, n
<1>4. t = [node |-> t.node, alloc |-> t.alloc, root |-> t.root] /\ t.node = [q \in Pages |-> t.node[q]]
  BY DEF Shape, Fields
<1>5. z = [node |-> t.node, alloc |-> t.alloc, root |-> p]
  BY <1>4
<1> HIDE DEF z
<1>6. y = [node |-> t.node, alloc |-> {p}, root |-> p]
  BY <1>3, <1>5
<1> HIDE DEF y
<1>7. Fields(y) /\ y.root = p /\ y.alloc = {p} /\ y.node = t.node
  BY <1>4, <1>6 DEF Fields
<1> HIDE DEF s
<1>8. /\ s.root = y.root /\ s.alloc = y.alloc /\ Fields(s) /\ s.node[p] = n
      /\ \A q \in Pages \ {p} : s.node[q] = y.node[q]
  BY <1>2, <1>7, Setting DEF s
<1>9. /\ Shape(s) /\ Idx(s) = {-1} /\ Kid(s, -1) = p /\ At(s, -1) = Leaf(NoPage)
      /\ \A j, w : ~Holds(s, j, w)
  BY <1>2, <1>3, <1>7, <1>8, OneLeaf DEF n
<1>10. Home(s, k, -1) /\ k \notin DOMAIN At(s, -1).cells /\ At(s, -1).used < MergeCap
  <2>1. k \in Nat /\ 0 < MergeCap
    BY Basics
  <2>2. Leaf(NoPage).cells = <<>> /\ Leaf(NoPage).used = 0
    BY DEF Leaf
  <2> QED BY <1>9, <2>1, <2>2 DEF Home
<1>11. Shape(Put(s, p, k, v)) /\ Gains(s, Put(s, p, k, v), k, v)
  BY <1>9, <1>10, PutIs
<1>12. \A j, w : ~Holds(t, j, w)
  BY <1>3 DEF Holds
<1> QED BY <1>1, <1>9, <1>11, <1>12 DEF Gains

-----------------------------------------------------------------------------
(* Deletes: the record is taken out of its leaf                            *)

LEMMA CutIs ==
    ASSUME NEW t, Shape(t), NEW k \in Keys, NEW i, Home(t, k, i), k \in DOMAIN At(t, i).cells,
           NEW s, s = Recelled(t, Kid(t, i), Without(At(t, i).cells, k))
    PROVE  Refilled(t, s, i, Without(At(t, i).cells, k)) /\ Loses(t, s, k)
<1> DEFINE l == Kid(t, i)
           n == At(t, i)
           c == Without(n.cells, k)
           y == n.used
<1>1. i \in Idx(t) /\ l \in Pages /\ n = t.node[l] /\ NodeOK(n) /\ n.level = "leaf" /\ Fields(t)
  BY DEF Home, Shape, Leaves, At
<1>2. DOMAIN c = DOMAIN n.cells \ {k} /\ \A j \in DOMAIN c : c[j] = n.cells[j]
  BY DEF Without, Only
<1> HIDE DEF c
<1>3. /\ DOMAIN n.cells \subseteq Keys /\ \A j \in DOMAIN n.cells : n.cells[j] \in Values
      /\ y \in Nat /\ Cardinality(DOMAIN n.cells) <= y /\ y <= MergeCap
  BY <1>1 DEF NodeOK, Size, Room
<1>4. Fit(t, i, c)
  <2>1. \A j \in DOMAIN n.cells : i <= j /\ \A m \in Idx(t) : i < m => j < m
    BY <1>1 DEF Shape, Sorted
  <2> QED BY <1>2, <1>3, <2>1 DEF Fit
<1>5. Cardinality(DOMAIN c) <= y
  <2>1. IsFiniteSet(DOMAIN n.cells) /\ DOMAIN c \subseteq DOMAIN n.cells
    BY <1>2, <1>3, Basics
  <2>2. Cardinality(DOMAIN c) <= Cardinality(DOMAIN n.cells)
    BY <2>1, FS_Subset
  <2>3. Cardinality(DOMAIN c) \in Nat /\ Cardinality(DOMAIN n.cells) \in Nat
    BY <2>1, FS_Subset, FS_CardinalityType
  <2> QED BY <1>3, <2>2, <2>3
<1>6. Edited(t, s, l, c, y)
  <2>1. Fielded(t.node[l])
    BY <1>1 DEF NodeOK
  <2> QED BY <1>1, <2>1, CutEdits DEF c
<1> HIDE DEF l, n, y
<1>7. Refilled(t, s, i, c)
  BY <1>1, <1>3, <1>4, <1>5, <1>6, Refill DEF l
<1>8. Loses(t, s, k)
  <2> SUFFICES ASSUME NEW j \in Keys, NEW w \in Values
               PROVE  Holds(s, j, w) <=> j # k /\ Holds(t, j, w)
    BY DEF Loses
  <2>1. Holds(s, j, w) <=> (j \in DOMAIN c /\ c[j] = w) \/ Elsewhere(t, i, j, w)
    BY <1>1, <1>7, RefilledHolds
  <2>2. Holds(t, j, w) <=> (j \in DOMAIN n.cells /\ n.cells[j] = w) \/ Elsewhere(t, i, j, w)
    BY <1>1, <1>7, RefilledHolds DEF n
  <2>3. j = k => ~Elsewhere(t, i, j, w)
    BY NotElsewhere
  <2> QED BY <1>2, <2>1, <2>2, <2>3
<1> QED BY <1>7, <1>8 DEF c, n

-----------------------------------------------------------------------------
(* Deletes: a leaf with its neighbours                                     *)

\* a and b are neighbours among the indices
Adjacent(t, a, b) == a \in Idx(t) /\ b \in Idx(t) /\ a < b /\ \A m \in Idx(t) : m <= a \/ b <= m

\* find_leaf_siblings finds the separator of a leaf and its neighbours
LEMMA Siblings ==
    ASSUME NEW t, Shape(t), Inner(t), NEW i \in Idx(t), NEW p, p = Kid(t, i)
    PROVE  /\ t.node[p].parent = t.root
           /\ IsLeftmost(t, p) <=> i = -1
           /\ i # -1 => SeparatorsOf(t, p) = {i} /\ Least(SeparatorsOf(t, p)) = i
           /\ IF i = -1 THEN LeftSibling(t, p) = NoPage
              ELSE \E h : Adjacent(t, h, i) /\ LeftSibling(t, p) = Kid(t, h)
           /\ \/ RightSeparator(t, p) = {} /\ \A m \in Idx(t) : m <= i
              \/ \E j : Adjacent(t, i, j) /\ RightSeparator(t, p) = {j}
<1> DEFINE n == Top(t)
<1>1. /\ Idx(t) \subseteq Int /\ DOMAIN n.cells = Idx(t) \ {-1} /\ n.leftmost = Kid(t, -1)
      /\ \A j \in Idx(t) : -1 <= j
      /\ \A j \in Idx(t) \ {-1} : Kid(t, j) = n.cells[j]
  BY IdxFacts
<1>2. /\ t.node[p].parent = t.root /\ n = t.node[t.node[p].parent] /\ -1 \in Idx(t) /\ i \in Int
      /\ \A j \in Idx(t) : Kid(t, j) = p => j = i
  BY <1>1 DEF Shape, Leaves, At, Top
<1> HIDE DEF n
<1>3. IsLeftmost(t, p) <=> i = -1
  BY <1>1, <1>2 DEF IsLeftmost
<1>4. ASSUME i # -1 PROVE SeparatorsOf(t, p) = {i} /\ Least(SeparatorsOf(t, p)) = i
  <2>1. SeparatorsOf(t, p) = {s \in DOMAIN n.cells : n.cells[s] = p}
    BY <1>2 DEF SeparatorsOf
  <2>2. SeparatorsOf(t, p) = {i}
    BY <1>1, <1>2, <1>4, <2>1
  <2>3. Least({i}) = i
    BY <1>2 DEF Least
  <2> QED BY <2>2, <2>3
<1>5. i = -1 => LeftSibling(t, p) = NoPage
  BY <1>3 DEF LeftSibling
<1>6. ASSUME i # -1 PROVE \E h : Adjacent(t, h, i) /\ LeftSibling(t, p) = Kid(t, h)
  <2> DEFINE below == {s \in DOMAIN n.cells : s < i}
  <2>1. LeftSibling(t, p) = IF below = {} THEN n.leftmost ELSE n.cells[Greatest(below)]
    BY <1>2, <1>3, <1>4, <1>6 DEF LeftSibling
  <2>2. below = {m \in Idx(t) \ {-1} : m < i}
    BY <1>1
  <2>3. CASE below = {}
    <3>1. -1 < i /\ \A m \in Idx(t) : m <= -1 \/ i <= m
      <4>1. -1 <= i
        BY <1>1
      <4>2. ASSUME NEW m \in Idx(t) PROVE m <= -1 \/ i <= m
        <5>1. m \in Int /\ (m = -1 \/ ~(m < i))
          BY <1>1, <2>2, <2>3
        <5> QED BY <1>2, <5>1
      <4> QED BY <1>2, <1>6, <4>1, <4>2
    <3>2. Adjacent(t, -1, i)
      BY <1>2, <3>1 DEF Adjacent
    <3>3. LeftSibling(t, p) = Kid(t, -1)
      BY <1>1, <2>1, <2>3
    <3> QED BY <3>2, <3>3
  <2>4. CASE below # {}
    <3> DEFINE h == Greatest(below)
    <3>1. below \subseteq Int /\ \A s \in below : s <= i
      BY <1>1, <1>2, <2>2
    <3>2. LeftSibling(t, p) = n.cells[h]
      BY <2>1, <2>4
    <3> HIDE DEF below
    <3>3. h \in below /\ \A s \in below : s <= h
      BY <1>2, <2>4, <3>1, GreatestIs
    <3> HIDE DEF h
    <3>4. h \in Idx(t) \ {-1} /\ h < i /\ h \in Int /\ -1 <= h
      BY <1>1, <2>2, <3>3
    <3>5. ASSUME NEW m \in Idx(t) PROVE m <= h \/ i <= m
      <4>1. m \in Int /\ (m = -1 \/ m \in below \/ ~(m < i))
        BY <1>1, <2>2
      <4> QED BY <1>2, <3>3, <3>4, <4>1
    <3>6. Adjacent(t, h, i)
      BY <3>4, <3>5 DEF Adjacent
    <3> QED BY <1>1, <3>2, <3>4, <3>6
  <2> QED BY <2>3, <2>4
<1>7. \/ RightSeparator(t, p) = {} /\ \A m \in Idx(t) : m <= i
      \/ \E j : Adjacent(t, i, j) /\ RightSeparator(t, p) = {j}
  <2> DEFINE above == {m \in Idx(t) : i < m}
  <2>1. RightSeparator(t, p) = IF above = {} THEN {} ELSE {Least(above)}
    <3>1. CASE i = -1
      <4>1. above = DOMAIN n.cells
        <5>1. \A m \in Idx(t) : i < m <=> m # -1
          BY <1>1, <3>1
        <5> QED BY <1>1, <5>1
      <4> HIDE DEF above
      <4> QED BY <1>2, <1>3, <3>1, <4>1 DEF RightSeparator
    <3>2. CASE i # -1
      <4>1. above = {s \in DOMAIN n.cells : s > i}
        <5>1. \A m \in Idx(t) : i < m => m # -1
          BY <1>1, <1>2, <3>2
        <5>2. \A m \in Idx(t) : m > i <=> i < m
          BY <1>1, <1>2
        <5> QED BY <1>1, <5>1, <5>2
      <4> HIDE DEF above
      <4> QED BY <1>2, <1>3, <1>4, <3>2, <4>1 DEF RightSeparator
    <3> QED BY <3>1, <3>2
  <2>2. CASE above = {}
    <3>1. \A m \in Idx(t) : m <= i
      BY <1>1, <1>2, <2>2
    <3> QED BY <2>1, <2>2, <3>1
  <2>3. CASE above # {}
    <3> DEFINE j == Least(above)
    <3>1. above \subseteq Int /\ \A s \in above : i <= s
      BY <1>1, <1>2
    <3>2. RightSeparator(t, p) = {j}
      BY <2>1, <2>3
    <3>3. j \in above /\ \A s \in above : j <= s
      <4> HIDE DEF above
      <4> QED BY <1>2, <2>3, <3>1, LeastIs
    <3> HIDE DEF j
    <3>4. j \in Idx(t) /\ i < j /\ j \in Int
      BY <1>1, <3>3
    <3>5. ASSUME NEW m \in Idx(t) PROVE m <= i \/ j <= m
      <4>1. m \in Int /\ (m \in above \/ ~(i < m))
        BY <1>1
      <4> QED BY <1>2, <3>3, <4>1
    <3>6. Adjacent(t, i, j)
      BY <3>4, <3>5 DEF Adjacent
    <3> QED BY <3>2, <3>6
  <2> QED BY <2>2, <2>3
<1> QED BY <1>2, <1>3, <1>4, <1>5, <1>6, <1>7

\* the page p is free
LEMMA FreedIs ==
    ASSUME NEW t, Fields(t), NEW p \in Pages, NEW s, s = Freed(t, p)
    PROVE  /\ s.root = t.root /\ s.alloc = t.alloc \ {p} /\ Fields(s) /\ s.node[p] = Unused
           /\ \A q \in Pages \ {p} : s.node[q] = t.node[q]
<1> DEFINE a == [t EXCEPT !.alloc = t.alloc \ {p}]
<1>1. s = Set(a, p, Unused)
  BY DEF Freed, Set
<1>2. /\ t = [node |-> t.node, alloc |-> t.alloc, root |-> t.root]
      /\ t.node = [q \in Pages |-> t.node[q]]
  BY DEF Fields
<1>3. a = [node |-> t.node, alloc |-> t.alloc \ {p}, root |-> t.root]
  BY <1>2
<1> HIDE DEF a
<1>4. Fields(a) /\ a.node = t.node /\ a.alloc = t.alloc \ {p} /\ a.root = t.root
  BY <1>2, <1>3 DEF Fields
<1> QED BY <1>1, <1>4, Setting

\* update_leaf_links_on_free changes nothing for a page without neighbours
LEMMA UnlinkedIs ==
    ASSUME NEW t, Fields(t), NEW p, t.node[p].prev = NoPage, t.node[p].next = NoPage
    PROVE  Unlinked(t, p) = t
<1> DEFINE n == t.node[p]
           arm(q) == CASE q = n.prev -> [t.node[q] EXCEPT !.next = n.next]
                       [] q = n.next -> [t.node[q] EXCEPT !.prev = n.prev]
                       [] OTHER -> t.node[q]
           f == [q \in Pages |-> arm(q)]
<1>1. Unlinked(t, p) = [t EXCEPT !.node = f]
  BY DEF Unlinked
<1>2. \A q \in Pages : arm(q) = t.node[q]
  <2> TAKE q \in Pages
  <2>1. q # n.prev /\ q # n.next
    BY Basics
  <2> QED BY <2>1
<1>3. /\ t = [node |-> t.node, alloc |-> t.alloc, root |-> t.root]
      /\ t.node = [q \in Pages |-> t.node[q]]
  BY DEF Fields
<1> HIDE DEF arm
<1>4. f = [q \in Pages |-> t.node[q]]
  BY <1>2
<1>5. f = t.node
  BY <1>3, <1>4
<1> HIDE DEF f
<1>6. [t EXCEPT !.node = f] = [node |-> f, alloc |-> t.alloc, root |-> t.root]
  BY <1>3, SMTT(40)
<1> QED BY <1>1, <1>3, <1>5, <1>6

\* what merge_leaf_pages and remove_from_internal write
MergedPages(t, u, l, r, x) ==
    LET a == t.node[l]
        b == t.node[r]
        g == t.node[a.parent]
    IN  /\ Fields(u) /\ u.root = t.root /\ u.alloc = t.alloc \ {r}
        /\ u.node[r] = Unused
        /\ u.node[l] = Page(a.level, Joined(a.cells, b.cells), Size(a) + Size(b), a.parent, a.prev,
                            b.next, a.leftmost)
        /\ u.node[a.parent] = Page(g.level, Without(g.cells, x), g.used, g.parent, g.prev, g.next,
                                   g.leftmost)
        /\ \A q \in Pages \ {l, r, a.parent} : u.node[q] = Before(t, q, b.next, l)

LEMMA MergeIs ==
    ASSUME NEW t, Fields(t), \A q \in Pages : Fielded(t.node[q]),
           NEW l \in Pages, NEW r \in Pages, l # r, t.node[l].parent \in Pages \ {l, r},
           t.node[r].next \notin {l, r, t.node[l].parent}, NEW x, NEW u, u = Merge(t, l, r, x)
    PROVE  MergedPages(t, u, l, r, x)
<1> DEFINE a == t.node[l]
           b == t.node[r]
           g == a.parent
           c == Joined(a.cells, b.cells)
           w == Size(a) + Size(b)
           m == [a EXCEPT !.cells = c, !.used = w, !.next = b.next]
           arm(q) == CASE q = l -> m [] q = b.next -> [t.node[q] EXCEPT !.prev = l]
                       [] OTHER -> t.node[q]
           f == [q \in Pages |-> arm(q)]
           y == [t EXCEPT !.node = f]
           d == Without(y.node[g].cells, x)
           z == Recelled(y, g, d)
<1>1. u = Freed(z, r)
  BY DEF Merge, NextAfterMerge, Removed, Recelled
<1>2. /\ t = [node |-> t.node, alloc |-> t.alloc, root |-> t.root]
      /\ t.node = [q \in Pages |-> t.node[q]]
  BY DEF Fields
<1>3. g \in Pages /\ g # l /\ g # r /\ b.next # l /\ b.next # r /\ b.next # g
  OBVIOUS
<1>4. a = Page(a.level, a.cells, a.used, a.parent, a.prev, a.next, a.leftmost)
  BY DEF Fielded
<1>5. m = Page(a.level, c, w, g, a.prev, b.next, a.leftmost)
  <2> DEFINE h == [a EXCEPT !.cells = c]
             j == [h EXCEPT !.used = w]
  <2>1. m = [j EXCEPT !.next = b.next]
    OBVIOUS
  <2> HIDE DEF c, w, m, a, b
  <2>2. h = Page(a.level, c, a.used, a.parent, a.prev, a.next, a.leftmost)
    BY <1>4 DEF Page
  <2> HIDE DEF h
  <2>3. j = Page(a.level, c, w, a.parent, a.prev, a.next, a.leftmost)
    BY <2>2 DEF Page
  <2> HIDE DEF j
  <2>4. m = Page(a.level, c, w, a.parent, a.prev, b.next, a.leftmost)
    BY <2>1, <2>3 DEF Page
  <2> QED BY <2>4
<1>6. ASSUME NEW q \in Pages \ {l} PROVE arm(q) = Before(t, q, b.next, l)
  <2>1. CASE q = b.next
    <3>1. arm(q) = [t.node[q] EXCEPT !.prev = l]
      BY <1>6, <2>1
    <3> HIDE DEF arm
    <3> QED BY <2>1, <3>1, PrevSet DEF Before
  <2>2. CASE q # b.next
    <3>1. arm(q) = t.node[q]
      BY <1>6, <2>2
    <3> HIDE DEF arm
    <3> QED BY <2>2, <3>1 DEF Before
  <2> QED BY <2>1, <2>2
<1>7. arm(l) = m
  <2> HIDE DEF m
  <2> QED OBVIOUS
<1> HIDE DEF m, c, w, arm
<1>8. f = [q \in Pages |-> f[q]] /\ \A q \in Pages : f[q] = arm(q)
  OBVIOUS
<1> HIDE DEF f
<1>9. y = [node |-> f, alloc |-> t.alloc, root |-> t.root]
  BY <1>2
<1> HIDE DEF y
<1>10. y.node = f /\ y.alloc = t.alloc /\ y.root = t.root
  BY <1>9
<1>11. Fields(y)
  BY <1>8, <1>9, <1>10 DEF Fields
<1>12. y.node[l] = m /\ \A q \in Pages \ {l} : y.node[q] = Before(t, q, b.next, l)
  BY <1>6, <1>7, <1>8, <1>10
<1>13. y.node[g] = t.node[g] /\ Fielded(t.node[g])
  BY <1>3, <1>12 DEF Before
<1> HIDE DEF d
<1>14. Edited(y, z, g, d, y.node[g].used)
  BY <1>3, <1>11, <1>13, CutEdits
<1> HIDE DEF z
<1>15. /\ z.root = t.root /\ z.alloc = t.alloc /\ Fields(z)
       /\ \A q \in Pages \ {g} : z.node[q] = y.node[q]
       /\ LET n == t.node[g]
          IN  z.node[g] = Page(n.level, Without(n.cells, x), n.used, n.parent, n.prev, n.next, n.leftmost)
  BY <1>10, <1>13, <1>14 DEF Edited, d
<1>16. /\ u.root = z.root /\ u.alloc = z.alloc \ {r} /\ Fields(u) /\ u.node[r] = Unused
       /\ \A q \in Pages \ {r} : u.node[q] = z.node[q]
  <2>1. Fields(z) /\ r \in Pages
    BY <1>15
  <2> QED BY ONLY <1>1, <2>1, FreedIs, SMTT(40)
<1>17. u.node[g] = z.node[g] /\ u.node[l] = m
  BY <1>3, <1>12, <1>15, <1>16
<1>18. \A q \in Pages \ {l, r, g} : u.node[q] = Before(t, q, b.next, l)
  BY <1>12, <1>15, <1>16
<1> QED BY <1>5, <1>15, <1>16, <1>17, <1>18, SMTT(40) DEF MergedPages, c, w

-----------------------------------------------------------------------------
(* Deletes: two leaves become one                                          *)

\* records that may stand in the place of the neighbours a and b
Spanning(t, a, b, c) == /\ Adjacent(t, a, b)
                        /\ \A k \in DOMAIN c : a <= k /\ \A j \in Idx(t) : b < j => k < j

\* u has the root page and the leaves of t without b, and a holds c
Shrunk(t, u, a, b, c) ==
    /\ Fields(u) /\ u.root = t.root /\ u.alloc = t.alloc \ {Kid(t, b)}
    /\ u.node[Kid(t, b)] = Unused /\ NodeOK(Unused)
    /\ \A q \in Pages \ t.alloc : u.node[q] = t.node[q]
    /\ NodeOK(Top(u)) /\ Top(u).level = "internal" /\ Top(u).parent = NoPage
    /\ DOMAIN Top(u).cells = Idx(t) \ {b, -1} /\ Top(u).leftmost = Kid(t, -1)
    /\ \A j \in Idx(t) \ {b, -1} : Top(u).cells[j] = Kid(t, j)
    /\ LeafBelow(u.node[Kid(t, a)], t.root)
    /\ u.node[Kid(t, a)].next = At(t, b).next /\ u.node[Kid(t, a)].cells = c
    /\ a = -1 => u.node[Kid(t, a)].prev = NoPage
    /\ \A j \in Idx(t) \ {a, b} : /\ LeafBelow(u.node[Kid(t, j)], t.root)
                                  /\ u.node[Kid(t, j)].next = At(t, j).next
                                  /\ u.node[Kid(t, j)].cells = At(t, j).cells
                                  /\ j = -1 => u.node[Kid(t, j)].prev = NoPage

LEMMA Shrink ==
    ASSUME NEW t, Shape(t), Inner(t), NEW a, NEW b, NEW c, Spanning(t, a, b, c),
           NEW u, Shrunk(t, u, a, b, c)
    PROVE  /\ Shape(u) /\ Idx(u) = Idx(t) \ {b}
           /\ At(u, a).cells = c /\ \A j \in Idx(t) \ {a, b} : At(u, j).cells = At(t, j).cells
<1>1. /\ a \in Idx(t) /\ b \in Idx(t) /\ a < b /\ \A m \in Idx(t) : m <= a \/ b <= m
      /\ \A k \in DOMAIN c : a <= k /\ \A j \in Idx(t) : b < j => k < j
  BY DEF Spanning, Adjacent
<1>2. /\ Idx(t) \subseteq Int /\ a \in Int /\ b \in Int /\ b # a /\ b # -1
      /\ -1 \in Idx(t) /\ -1 \notin Keys /\ NoPage \notin Pages
  <2>1. Idx(t) \subseteq Int /\ a \in Int /\ b \in Int /\ -1 <= a
    BY <1>1, IdxFacts
  <2>2. b # a /\ b # -1
    BY <1>1, <2>1
  <2> QED BY <1>1, <2>1, <2>2, Basics DEF Shape
<1>3. /\ \A j \in Idx(t) : Kid(t, j) \in Pages /\ Kid(t, j) \in t.alloc /\ Kid(t, j) # t.root
      /\ \A j \in Idx(t) : \A h \in Idx(t) : Kid(t, j) = Kid(t, h) => j = h
      /\ t.root \in Pages /\ t.root # NoPage
  BY IdxFacts DEF Shape, Leaves, Accounted, Inner, At
<1>4. Inner(u) /\ u.root = t.root
  BY <1>3 DEF Inner, Top, Shrunk
<1>5. Idx(u) = Idx(t) \ {b}
  <2>1. Top(u).leftmost # NoPage /\ DOMAIN Top(u).cells = Idx(t) \ {b, -1}
    BY <1>2, <1>3 DEF Shrunk
  <2> QED BY <1>2, <1>3, <1>4, <2>1 DEF Idx
<1>6. \A j \in Idx(t) \ {b} : Kid(u, j) = Kid(t, j)
  BY <1>4 DEF Kid, Shrunk
<1>7. At(u, a).cells = c /\ \A j \in Idx(t) \ {a, b} : At(u, j).cells = At(t, j).cells
  BY <1>1, <1>2, <1>6 DEF At, Shrunk
<1>8. At(u, a).next = At(t, b).next /\ \A j \in Idx(t) \ {a, b} : At(u, j).next = At(t, j).next
  BY <1>1, <1>2, <1>6 DEF At, Shrunk
<1>9. \A j \in Idx(u) : Kid(u, j) \in Pages /\ LeafBelow(At(u, j), t.root)
  BY <1>3, <1>5, <1>6 DEF At, Shrunk
<1>10. Leaves(u)
  <2>1. ASSUME NEW j \in Idx(u), NEW h \in Idx(u), Kid(u, j) = Kid(u, h) PROVE j = h
    BY <1>3, <1>5, <1>6, <2>1
  <2> QED BY <1>4, <1>9, <2>1 DEF Leaves, LeafBelow
<1>11. Sorted(u)
  <2> SUFFICES ASSUME NEW j \in Idx(u), NEW k \in DOMAIN At(u, j).cells
               PROVE  j <= k /\ \A h \in Idx(u) : j < h => k < h
    BY DEF Sorted
  <2>1. CASE j = a
    <3>1. a <= k /\ \A h \in Idx(t) : b < h => k < h
      BY <1>1, <1>7, <2>1
    <3>2. \A h \in Idx(u) : a < h => b < h
      <4> TAKE h \in Idx(u)
      <4>1. h \in Int /\ h # b /\ (h <= a \/ b <= h)
        BY <1>1, <1>2, <1>5
      <4> QED BY <1>2, <4>1
    <3> QED BY <1>5, <2>1, <3>1, <3>2
  <2>2. CASE j # a
    <3>1. j \in Idx(t) \ {a, b} /\ At(u, j).cells = At(t, j).cells
      BY <1>5, <1>7, <2>2
    <3>2. j <= k /\ \A h \in Idx(t) : j < h => k < h
      BY <3>1 DEF Shape, Sorted
    <3> QED BY <1>5, <3>2
  <2> QED BY <2>1, <2>2
<1>12. Chained(u)
  <2> SUFFICES ASSUME NEW j \in Idx(u)
               PROVE  \/ At(u, j).next = NoPage /\ \A m \in Idx(u) : m <= j
                      \/ \E h \in Idx(u) : /\ j < h /\ At(u, j).next = Kid(u, h)
                                           /\ \A m \in Idx(u) : j < m => h <= m
    BY DEF Chained
  <2>1. CASE j = a
    <3>1. CASE At(t, b).next = NoPage /\ \A m \in Idx(t) : m <= b
      <4>1. ASSUME NEW m \in Idx(u) PROVE m <= a
        <5>1. m \in Idx(t) /\ m \in Int /\ m # b /\ m <= b /\ (m <= a \/ b <= m)
          BY <1>1, <1>2, <1>5, <3>1
        <5> QED BY <1>2, <5>1
      <4> QED BY <1>8, <2>1, <3>1, <4>1
    <3>2. ASSUME NEW h \in Idx(t), b < h, At(t, b).next = Kid(t, h),
                 \A m \in Idx(t) : b < m => h <= m
          PROVE  /\ h \in Idx(u) /\ a < h /\ At(u, a).next = Kid(u, h)
                 /\ \A m \in Idx(u) : a < m => h <= m
      <4>1. h \in Int /\ h # b /\ a < h
        BY <1>1, <1>2, <3>2
      <4>2. ASSUME NEW m \in Idx(u), a < m PROVE h <= m
        <5>1. m \in Idx(t) /\ m \in Int /\ m # b /\ (m <= a \/ b <= m)
          BY <1>1, <1>2, <1>5
        <5>2. b < m
          BY <1>2, <4>2, <5>1
        <5> QED BY <3>2, <5>1, <5>2
      <4> QED BY <1>5, <1>6, <1>8, <3>2, <4>1, <4>2
    <3> QED BY <1>1, <1>8, <2>1, <3>1, <3>2 DEF Shape, Chained
  <2>2. CASE j # a
    <3>1. j \in Idx(t) \ {a, b} /\ j \in Int /\ At(u, j).next = At(t, j).next
      BY <1>2, <1>5, <1>8, <2>2
    <3>2. CASE At(t, j).next = NoPage /\ \A m \in Idx(t) : m <= j
      BY <1>5, <3>1, <3>2
    <3>3. ASSUME NEW h \in Idx(t), j < h, At(t, j).next = Kid(t, h),
                 \A m \in Idx(t) : j < m => h <= m
          PROVE  /\ h \in Idx(u) /\ At(u, j).next = Kid(u, h) /\ \A m \in Idx(u) : j < m => h <= m
      <4>1. h # b
        <5> SUFFICES ASSUME h = b PROVE FALSE
          OBVIOUS
        <5>1. j <= a \/ b <= j
          BY <1>1, <3>1
        <5>2. j < a
          BY <1>2, <2>2, <3>1, <3>3, <5>1
        <5>3. b <= a
          BY <1>1, <3>3, <5>2
        <5> QED BY <1>1, <1>2, <5>3
      <4> QED BY <1>5, <1>6, <3>1, <3>3, <4>1
    <3> QED BY <1>5, <3>1, <3>2, <3>3 DEF Shape, Chained
  <2> QED BY <2>1, <2>2
<1>13. Accounted(u)
  <2>1. /\ t.alloc = {Kid(t, j) : j \in Idx(t)} \cup ({t.root} \ {NoPage})
        /\ \A q \in Pages \ t.alloc : t.node[q] = Unused
    BY DEF Shape, Accounted
  <2>2. /\ u.alloc = t.alloc \ {Kid(t, b)} /\ u.node[Kid(t, b)] = Unused
        /\ \A q \in Pages \ t.alloc : u.node[q] = t.node[q]
    BY DEF Shrunk
  <2>3. {Kid(u, j) : j \in Idx(u)} = {Kid(t, j) : j \in Idx(t)} \ {Kid(t, b)}
    BY <1>1, <1>3, <1>5, <1>6
  <2>4. u.alloc = {Kid(u, j) : j \in Idx(u)} \cup ({u.root} \ {NoPage})
    BY <1>1, <1>3, <1>4, <2>1, <2>2, <2>3
  <2>5. \A q \in Pages \ u.alloc : u.node[q] = Unused
    BY <2>1, <2>2
  <2> QED BY <2>4, <2>5 DEF Accounted
<1>14. ASSUME NEW q \in Pages PROVE NodeOK(u.node[q])
  <2>1. CASE q \in {Kid(t, j) : j \in Idx(t) \ {b}}
    BY <2>1 DEF Shrunk, LeafBelow
  <2>2. CASE q = t.root
    BY <1>4, <2>2 DEF Shrunk, Top
  <2>3. CASE q = Kid(t, b)
    BY <2>3 DEF Shrunk
  <2>4. CASE q \notin {Kid(t, j) : j \in Idx(t)} /\ q # t.root
    <3>1. q \notin t.alloc
      BY <2>4 DEF Shape, Accounted
    <3> QED BY <3>1 DEF Shrunk, Shape
  <2> QED BY <2>1, <2>2, <2>3, <2>4
<1>15. -1 \in Idx(u) /\ At(u, -1).prev = NoPage
  BY <1>2, <1>5, <1>6 DEF At, Shrunk
<1>16. Fields(u) /\ u.root \in Pages /\ Top(u).level = "internal" /\ Top(u).parent = NoPage
  BY <1>3, <1>4 DEF Shrunk
<1>17. Shape(u)
  BY <1>10, <1>11, <1>12, <1>13, <1>14, <1>15, <1>16 DEF Shape
<1> QED BY <1>5, <1>7, <1>17

\* every key has in u what it has in t
Keeps(t, u) == \A j \in Keys : \A w \in Values : Holds(u, j, w) <=> Holds(t, j, w)

\* c holds what the neighbours a and b hold
Pooled(t, a, b, c) ==
    /\ DOMAIN c = DOMAIN At(t, a).cells \cup DOMAIN At(t, b).cells
    /\ \A k \in DOMAIN At(t, a).cells : c[k] = At(t, a).cells[k]
    /\ \A k \in DOMAIN At(t, b).cells : c[k] = At(t, b).cells[k]

LEMMA Pool ==
    ASSUME NEW t, Shape(t), NEW a, NEW b, Adjacent(t, a, b)
    PROVE  LET c == Joined(At(t, a).cells, At(t, b).cells)
           IN  Pooled(t, a, b, c) /\ Spanning(t, a, b, c)
<1> DEFINE f == At(t, a).cells
           g == At(t, b).cells
           c == Joined(f, g)
<1>1. a \in Idx(t) /\ b \in Idx(t) /\ a < b /\ a \in Int /\ b \in Int
  BY IdxFacts DEF Adjacent
<1>2. /\ \A k \in DOMAIN f : k \in Nat /\ a <= k /\ \A j \in Idx(t) : a < j => k < j
      /\ \A k \in DOMAIN g : k \in Nat /\ b <= k /\ \A j \in Idx(t) : b < j => k < j
  BY <1>1, Basics DEF Shape, Sorted, Leaves, NodeOK, At
<1>3. DOMAIN f \cap DOMAIN g = {}
  <2> SUFFICES ASSUME NEW k \in DOMAIN f, k \in DOMAIN g PROVE FALSE
    OBVIOUS
  <2>1. k < b /\ b <= k /\ k \in Nat
    BY <1>1, <1>2
  <2> QED BY <1>1, <2>1
<1>4. /\ DOMAIN c = DOMAIN f \cup DOMAIN g
      /\ \A k \in DOMAIN f : c[k] = f[k]
      /\ \A k \in DOMAIN g : c[k] = g[k]
  <2> HIDE DEF f, g
  <2> QED BY <1>3 DEF Joined
<1> HIDE DEF c, f, g
<1>5. ASSUME NEW k \in DOMAIN c PROVE a <= k /\ \A j \in Idx(t) : b < j => k < j
  <2>1. CASE k \in DOMAIN f
    <3>1. \A j \in Idx(t) : b < j => a < j
      BY <1>1, IdxFacts
    <3> QED BY <1>2, <2>1, <3>1
  <2>2. CASE k \in DOMAIN g
    BY <1>1, <1>2, <2>2
  <2> QED BY <1>4, <2>1, <2>2
<1> QED BY <1>4, <1>5 DEF Pooled, Spanning, c, f, g

LEMMA ShrinkKeeps ==
    ASSUME NEW t, NEW u, NEW a, NEW b, NEW c, Adjacent(t, a, b), a # b, Idx(u) = Idx(t) \ {b},
           At(u, a).cells = c, \A j \in Idx(t) \ {a, b} : At(u, j).cells = At(t, j).cells,
           Pooled(t, a, b, c)
    PROVE  Keeps(t, u)
<1>1. a \in Idx(t) /\ b \in Idx(t)
  BY DEF Adjacent
<1> DEFINE rest(j, w) == \E h \in Idx(t) \ {a, b} : j \in DOMAIN At(t, h).cells /\ At(t, h).cells[j] = w
<1>2. ASSUME NEW j, NEW w PROVE Holds(u, j, w) <=> (j \in DOMAIN c /\ c[j] = w) \/ rest(j, w)
  BY <1>1 DEF Holds
<1>3. ASSUME NEW j, NEW w
      PROVE  Holds(t, j, w) <=> \/ j \in DOMAIN At(t, a).cells /\ At(t, a).cells[j] = w
                                \/ j \in DOMAIN At(t, b).cells /\ At(t, b).cells[j] = w
                                \/ rest(j, w)
  BY <1>1 DEF Holds
<1> HIDE DEF rest
<1>4. ASSUME NEW j, NEW w PROVE Holds(u, j, w) <=> Holds(t, j, w)
  BY <1>2, <1>3 DEF Pooled
<1> QED BY <1>4 DEF Keeps

LEMMA MergedShrinks ==
    ASSUME NEW t, Shape(t), Inner(t), NEW a, NEW b, Adjacent(t, a, b),
           CanMerge(t, Kid(t, a), Kid(t, b)), NEW u, MergedPages(t, u, Kid(t, a), Kid(t, b), b)
    PROVE  Shrunk(t, u, a, b, Joined(At(t, a).cells, At(t, b).cells))
<1> DEFINE l == Kid(t, a)
           r == Kid(t, b)
           m == At(t, a)
           n == At(t, b)
           g == t.root
           o == Top(t)
           c == Joined(m.cells, n.cells)
           d == Without(o.cells, b)
           e == Size(m) + Size(n)
           next == n.next
<1>1. /\ a \in Idx(t) /\ b \in Idx(t) /\ a < b /\ b # a /\ b # -1 /\ -1 \in Idx(t)
      /\ a \in Int /\ b \in Int
  <2>1. a \in Idx(t) /\ b \in Idx(t) /\ a < b /\ a \in Int /\ b \in Int /\ -1 <= a
    BY IdxFacts DEF Adjacent
  <2> QED BY <2>1 DEF Shape
<1>2. /\ \A j \in Idx(t) : /\ Kid(t, j) \in Pages /\ Kid(t, j) \in t.alloc /\ Kid(t, j) # g
                           /\ LeafBelow(At(t, j), g) /\ At(t, j) = t.node[Kid(t, j)]
      /\ \A j \in Idx(t) : \A h \in Idx(t) : Kid(t, j) = Kid(t, h) => j = h
      /\ At(t, -1).prev = NoPage /\ g \in Pages /\ g \in t.alloc
  BY <1>1, IdxFacts, Basics DEF Shape, Leaves, Accounted, Inner, At, LeafBelow
<1>3. /\ l # r /\ l # g /\ r # g /\ m.parent = g /\ m = t.node[l] /\ n = t.node[r] /\ o = t.node[g]
      /\ LeafBelow(m, g) /\ LeafBelow(n, g)
  BY <1>1, <1>2 DEF LeafBelow, Top
<1>4. next = NoPage \/ \E j \in Idx(t) \ {-1, b} : b < j /\ next = Kid(t, j)
  BY <1>1, NextIs
<1>5. next \in Pages \cup {NoPage} /\ next # l /\ next # r /\ next # g
  <2>1. ASSUME NEW j \in Idx(t) \ {-1, b}, b < j, next = Kid(t, j)
        PROVE  next \in Pages /\ next # l /\ next # r /\ next # g
    <3>1. j # a /\ j # b
      BY <1>1, <2>1, IdxFacts
    <3> QED BY <1>1, <1>2, <2>1, <3>1
  <2> QED BY <1>1, <1>2, <1>4, <2>1, Basics
<1>6. /\ Fields(u) /\ u.root = g /\ u.alloc = t.alloc \ {r} /\ u.node[r] = Unused
      /\ u.node[l] = Page(m.level, c, e, m.parent, m.prev, next, m.leftmost)
      /\ u.node[g] = Page(o.level, d, o.used, o.parent, o.prev, o.next, o.leftmost)
      /\ \A q \in Pages \ {l, r, g} : u.node[q] = Before(t, q, next, l)
  <2> HIDE DEF l, r, m, n, g, o
  <2>1. MergedPages(t, u, l, r, b)
    BY DEF l, r
  <2> QED BY <1>3, <2>1 DEF MergedPages, g
<1>7. e \in Nat /\ Cardinality(DOMAIN c) <= e /\ e <= MergeCap
  <2>1. DOMAIN m.cells \subseteq Keys /\ DOMAIN n.cells \subseteq Keys
    BY <1>3 DEF LeafBelow, NodeOK
  <2>2. /\ Size(m) = Cardinality(DOMAIN m.cells) /\ Size(n) = Cardinality(DOMAIN n.cells)
        /\ Size(m) \in Nat /\ Size(n) \in Nat
        /\ IsFiniteSet(DOMAIN m.cells) /\ IsFiniteSet(DOMAIN n.cells)
    BY <2>1, Basics DEF Size
  <2>3. DOMAIN c = DOMAIN m.cells \cup DOMAIN n.cells
    BY DEF Joined
  <2>4. e <= MergeCap
    BY <1>3 DEF CanMerge
  <2> HIDE DEF c, m, n
  <2>5. LET S == DOMAIN m.cells
            T == DOMAIN n.cells
        IN  Cardinality(S \cup T) = Cardinality(S) + Cardinality(T) - Cardinality(S \cap T)
    BY <2>2, FS_Union
  <2>6. Cardinality(DOMAIN m.cells \cap DOMAIN n.cells) \in Nat
    BY <2>2, FS_Intersection, FS_CardinalityType
  <2> QED BY <2>2, <2>3, <2>4, <2>5, <2>6
<1>8. DOMAIN c \subseteq Keys /\ \A k \in DOMAIN c : c[k] \in Values
  <2>1. /\ DOMAIN m.cells \subseteq Keys /\ \A k \in DOMAIN m.cells : m.cells[k] \in Values
        /\ DOMAIN n.cells \subseteq Keys /\ \A k \in DOMAIN n.cells : n.cells[k] \in Values
    BY <1>3 DEF LeafBelow, NodeOK
  <2> HIDE DEF m, n
  <2> QED BY <2>1 DEF Joined
<1>9. DOMAIN d = Idx(t) \ {b, -1} /\ \A j \in Idx(t) \ {b, -1} : d[j] = Kid(t, j)
  <2>1. DOMAIN o.cells = Idx(t) \ {-1} /\ \A j \in Idx(t) \ {-1} : Kid(t, j) = o.cells[j]
    BY IdxFacts
  <2> HIDE DEF o
  <2> QED BY <2>1 DEF Without, Only
<1>10. /\ NodeOK(o) /\ o.level = "internal" /\ o.parent = NoPage /\ o.leftmost = Kid(t, -1)
       /\ DOMAIN d \subseteq DOMAIN o.cells
  BY <1>1, <1>2, <1>9, IdxFacts DEF Inner, Top, Shape
<1> HIDE DEF l, r, m, n, g, o, c, d, e, next
<1>11. LeafBelow(u.node[l], g) /\ u.node[l].cells = c /\ u.node[l].next = next /\ u.node[l].prev = m.prev
  <2> DEFINE h == u.node[l]
  <2>1. h = Page("leaf", c, e, g, m.prev, next, m.leftmost)
    BY <1>3, <1>6 DEF LeafBelow
  <2>2. {g, m.prev, next, m.leftmost} \subseteq Pages \cup {NoPage}
    BY <1>2, <1>3, <1>5 DEF LeafBelow, NodeOK
  <2> HIDE DEF h
  <2>3. NodeOK(h) /\ h.level = "leaf" /\ h.cells = c /\ h.parent = g /\ h.next = next /\ h.prev = m.prev
    BY ONLY <1>7, <1>8, <2>1, <2>2, LeafOK
  <2> QED BY <2>3 DEF LeafBelow, h
<1>12. /\ NodeOK(u.node[g]) /\ u.node[g].level = "internal" /\ u.node[g].parent = NoPage
       /\ u.node[g].cells = d /\ u.node[g].leftmost = Kid(t, -1)
  <2> DEFINE h == u.node[g]
             w == o.used
  <2>1. h = Page("internal", d, w, NoPage, o.prev, o.next, Kid(t, -1))
    BY <1>6, <1>10
  <2>2. /\ {NoPage, o.prev, o.next, Kid(t, -1)} \subseteq Pages \cup {NoPage}
        /\ DOMAIN o.cells \subseteq Keys /\ w \in Nat /\ Cardinality(DOMAIN o.cells) <= w /\ w <= InternalCap
    BY <1>1, <1>2, <1>10 DEF NodeOK, Size, Room
  <2>3. DOMAIN d \subseteq Keys /\ \A k \in DOMAIN d : d[k] \in Pages
    BY <1>2, <1>9, <1>10, <2>2
  <2>4. Cardinality(DOMAIN d) <= w
    <3>1. IsFiniteSet(DOMAIN o.cells)
      BY <2>2, Basics
    <3>2. Cardinality(DOMAIN d) <= Cardinality(DOMAIN o.cells)
      BY <1>10, <3>1, FS_Subset
    <3>3. Cardinality(DOMAIN d) \in Nat /\ Cardinality(DOMAIN o.cells) \in Nat
      BY <2>2, <2>3, Basics
    <3> QED BY <2>2, <3>2, <3>3
  <2> HIDE DEF h, w
  <2>5. NodeOK(h) /\ h.level = "internal" /\ h.cells = d /\ h.parent = NoPage /\ h.leftmost = Kid(t, -1)
    BY ONLY <2>1, <2>2, <2>3, <2>4, InternalOK
  <2> QED BY <2>5 DEF h
<1>13. \A q \in Pages \ t.alloc : u.node[q] = t.node[q]
  <2> TAKE q \in Pages \ t.alloc
  <2>1. q # l /\ q # r /\ q # g /\ q # next
    BY <1>1, <1>2, <1>4, Basics DEF l, r
  <2> QED BY <1>6, <2>1 DEF Before
<1>14. ASSUME NEW j \in Idx(t) \ {a, b}
       PROVE  /\ LeafBelow(u.node[Kid(t, j)], g)
              /\ u.node[Kid(t, j)].next = At(t, j).next
              /\ u.node[Kid(t, j)].cells = At(t, j).cells
              /\ j = -1 => u.node[Kid(t, j)].prev = NoPage
  <2> DEFINE q == Kid(t, j)
             h == At(t, j)
             w == u.node[q]
  <2>1. /\ w = Before(t, q, next, l) /\ h = t.node[q] /\ LeafBelow(h, g)
        /\ j = -1 => h.prev = NoPage /\ q # next
    <3>1. q \in Pages \ {l, r, g}
      BY <1>1, <1>2, <1>14 DEF l, r
    <3>2. j = -1 => q # next
      BY <1>1, <1>2, <1>4, Basics
    <3> QED BY <1>2, <1>6, <1>14, <3>1, <3>2
  <2> HIDE DEF q, h
  <2>2. CASE q # next
    <3>1. w = h
      BY <2>1, <2>2 DEF Before
    <3> QED BY <2>1, <3>1 DEF q, h
  <2>3. CASE q = next
    <3>1. Relinked(w, h, h.parent, l, h.next)
      BY <2>1, <2>3 DEF Before, Relinked
    <3>2. NodeOK(h) /\ {h.parent, l, h.next} \subseteq Pages \cup {NoPage}
      BY <1>1, <1>2, <2>1 DEF LeafBelow, NodeOK, l
    <3> HIDE DEF w
    <3>3. /\ NodeOK(w) /\ w.level = h.level /\ w.cells = h.cells
          /\ w.parent = h.parent /\ w.next = h.next
      BY ONLY <3>1, <3>2, LinksOK
    <3> QED BY <2>1, <2>3, <3>3 DEF q, h, w, LeafBelow
  <2> QED BY <2>2, <2>3
<1>15. a = -1 => u.node[l].prev = NoPage
  BY <1>2, <1>11 DEF m
<1>16. Top(u) = u.node[g]
  BY <1>6 DEF Top
<1> QED BY <1>6, <1>9, <1>11, <1>12, <1>13, <1>14, <1>15, <1>16, UnusedOK DEF Shrunk, l, r, n, m, g, c, next

LEMMA Merging ==
    ASSUME NEW t, Shape(t), Inner(t), NEW a, NEW b, Adjacent(t, a, b),
           CanMerge(t, Kid(t, a), Kid(t, b)), NEW u, u = Merge(t, Kid(t, a), Kid(t, b), b)
    PROVE  Shape(u) /\ Keeps(t, u)
<1> DEFINE l == Kid(t, a)
           r == Kid(t, b)
           c == Joined(At(t, a).cells, At(t, b).cells)
<1>1. /\ a \in Idx(t) /\ b \in Idx(t) /\ a < b /\ b # a /\ b \in Int
  <2>1. a \in Idx(t) /\ b \in Idx(t) /\ a < b /\ a \in Int /\ b \in Int
    BY IdxFacts DEF Adjacent
  <2> QED BY <2>1
<1>2. Fields(t) /\ (\A q \in Pages : Fielded(t.node[q])) /\ t.root \in Pages
  BY IdxFacts DEF Shape, NodeOK
<1>3. /\ \A j \in Idx(t) : Kid(t, j) \in Pages \ {t.root} /\ t.node[Kid(t, j)].parent = t.root
      /\ \A j \in Idx(t) : \A h \in Idx(t) : Kid(t, j) = Kid(t, h) => j = h
  BY DEF Shape, Leaves, At, Inner
<1>4. l \in Pages /\ r \in Pages /\ l # r /\ t.node[l].parent \in Pages \ {l, r} /\ t.node[l].parent = t.root
  BY <1>1, <1>2, <1>3
<1>5. t.node[r].next \notin {l, r, t.node[l].parent}
  <2>1. CASE At(t, b).next = NoPage
    BY <1>4, <2>1, Basics DEF At
  <2>2. ASSUME NEW j \in Idx(t), b < j, At(t, b).next = Kid(t, j)
        PROVE  t.node[r].next \notin {l, r, t.node[l].parent}
    <3>1. j # a /\ j # b
      BY <1>1, <2>2, IdxFacts
    <3> QED BY <1>1, <1>3, <1>4, <2>2, <3>1 DEF At
  <2> QED BY <1>1, <2>1, <2>2, NextIs
<1>6. MergedPages(t, u, l, r, b)
  <2> HIDE DEF l, r
  <2>1. u = Merge(t, l, r, b)
    BY DEF l, r
  <2> QED BY ONLY <1>2, <1>4, <1>5, <2>1, MergeIs
<1>7. Shrunk(t, u, a, b, c)
  BY <1>6, MergedShrinks
<1>8. Pooled(t, a, b, c) /\ Spanning(t, a, b, c)
  BY Pool
<1> HIDE DEF c
<1>9. /\ Shape(u) /\ Idx(u) = Idx(t) \ {b}
      /\ At(u, a).cells = c /\ \A j \in Idx(t) \ {a, b} : At(u, j).cells = At(t, j).cells
  BY <1>7, <1>8, Shrink
<1>10. Keeps(t, u)
  BY <1>1, <1>8, <1>9, ShrinkKeeps
<1> QED BY <1>9, <1>10

-----------------------------------------------------------------------------
(* Deletes: the last record goes                                           *)

\* a single leaf has no neighbours
LEMMA AloneHasNoLinks ==
    ASSUME NEW t, Shape(t), Idx(t) = {-1}
    PROVE  At(t, -1).prev = NoPage /\ At(t, -1).next = NoPage
<1>1. At(t, -1).next = NoPage
  BY NextIs
<1> QED BY <1>1 DEF Shape

LEMMA EmptyRootIs ==
    ASSUME NEW t, Shape(t), ~Inner(t), NEW p, t.root = p, p # NoPage,
           DOMAIN At(t, -1).cells = {}, NEW u, u = EmptyRoot(t, p)
    PROVE  Shape(u) /\ Keeps(t, u)
<1> DEFINE y == [t EXCEPT !.root = NoPage]
<1>1. /\ t = [node |-> t.node, alloc |-> t.alloc, root |-> t.root]
      /\ t.node = [q \in Pages |-> t.node[q]]
  BY DEF Shape, Fields
<1>2. Idx(t) = {-1} /\ Kid(t, -1) = p /\ At(t, -1) = t.node[p] /\ p \in Pages
  BY IdxFacts DEF At, Shape
<1>3. t.alloc = {p} /\ \A q \in Pages \ {p} : t.node[q] = Unused
  BY <1>2, Basics DEF Shape, Accounted
<1>4. u = Freed(Unlinked(y, p), p)
  BY DEF EmptyRoot
<1>5. y = [node |-> t.node, alloc |-> t.alloc, root |-> NoPage]
  BY <1>1
<1> HIDE DEF y
<1>6. Fields(y) /\ y.node = t.node /\ y.alloc = t.alloc /\ y.root = NoPage
  BY <1>1, <1>5 DEF Fields
<1>7. y.node[p].prev = NoPage /\ y.node[p].next = NoPage
  BY <1>2, <1>6, AloneHasNoLinks
<1>8. Unlinked(y, p) = y
  BY <1>6, <1>7, UnlinkedIs
<1>9. /\ Fields(u) /\ u.root = NoPage /\ u.alloc = {} /\ \A q \in Pages : u.node[q] = Unused
  BY <1>2, <1>3, <1>4, <1>6, <1>8, FreedIs
<1>10. ~Inner(u) /\ Idx(u) = {}
  BY <1>9 DEF Inner, Idx
<1>11. Leaves(u) /\ Sorted(u) /\ Chained(u) /\ Accounted(u)
  BY <1>9, <1>10 DEF Leaves, Sorted, Chained, Accounted
<1>12. Shape(u)
  BY <1>9, <1>10, <1>11, UnusedOK DEF Shape
<1>13. Keeps(t, u)
  BY <1>2, <1>10 DEF Keeps, Holds
<1> QED BY <1>12, <1>13

LEMMA LastChildIs ==
    ASSUME NEW t, Shape(t), Inner(t), Idx(t) = {-1}, NEW p, p = Kid(t, -1),
           DOMAIN At(t, -1).cells = {}, NEW u, u = LastChild(t, p)
    PROVE  Shape(u) /\ Keeps(t, u)
<1> DEFINE g == t.root
           o == Top(t)
           a == [o EXCEPT !.leftmost = NoPage]
           y == Set(t, g, a)
<1>1. /\ g \in Pages /\ p \in Pages /\ g # p /\ At(t, -1) = t.node[p] /\ t.node[p].parent = g
      /\ o = t.node[g] /\ NodeOK(o) /\ o.level = "internal" /\ o.parent = NoPage /\ DOMAIN o.cells = {}
  BY IdxFacts DEF Shape, Leaves, At, Inner, Top
<1>2. t.alloc = {p, g} /\ \A q \in Pages \ {p, g} : t.node[q] = Unused
  BY <1>1, Basics DEF Shape, Accounted
<1>3. u = Freed(Unlinked(y, p), p)
  BY <1>1 DEF LastChild, Set, Top
<1>4. o = Page(o.level, o.cells, o.used, o.parent, o.prev, o.next, o.leftmost)
  BY <1>1 DEF NodeOK, Fielded
<1> HIDE DEF o, g
<1>5. a = Page("internal", o.cells, o.used, NoPage, o.prev, o.next, NoPage)
  BY <1>1, <1>4 DEF Page
<1> HIDE DEF a
<1>6. y.root = g /\ y.alloc = t.alloc /\ Fields(y) /\ y.node[g] = a /\ \A q \in Pages \ {g} : y.node[q] = t.node[q]
  BY <1>1, Setting DEF Shape, g
<1> HIDE DEF y
<1>7. y.node[p].prev = NoPage /\ y.node[p].next = NoPage
  BY <1>1, <1>6, AloneHasNoLinks
<1>8. Unlinked(y, p) = y
  BY <1>6, <1>7, UnlinkedIs
<1>9. /\ Fields(u) /\ u.root = g /\ u.alloc = {g} /\ u.node[g] = a
      /\ \A q \in Pages \ {g} : u.node[q] = Unused
  <2>1. /\ u.root = y.root /\ u.alloc = y.alloc \ {p} /\ Fields(u) /\ u.node[p] = Unused
        /\ \A q \in Pages \ {p} : u.node[q] = y.node[q]
    BY <1>1, <1>3, <1>6, <1>8, FreedIs, SMTT(40)
  <2> QED BY <1>1, <1>2, <1>6, <2>1
<1>10. /\ NodeOK(a) /\ a.level = "internal" /\ a.cells = o.cells /\ a.parent = NoPage /\ a.leftmost = NoPage
  <2>1. /\ {NoPage, o.prev, o.next} \subseteq Pages \cup {NoPage}
        /\ o.used \in Nat /\ Cardinality(DOMAIN o.cells) <= o.used /\ o.used <= InternalCap
    BY <1>1 DEF NodeOK, Size, Room
  <2>2. DOMAIN o.cells \subseteq Keys /\ \A k \in DOMAIN o.cells : o.cells[k] \in Pages
    BY <1>1
  <2> QED BY ONLY <1>5, <2>1, <2>2, InternalOK
<1>11. Inner(u) /\ Top(u) = a
  BY <1>1, <1>9, <1>10, Basics DEF Inner, Top
<1>12. Idx(u) = {}
  BY <1>1, <1>10, <1>11 DEF Idx
<1>13. Leaves(u) /\ Sorted(u) /\ Chained(u) /\ Accounted(u)
  BY <1>1, <1>9, <1>12, Basics DEF Leaves, Sorted, Chained, Accounted
<1>14. \A q \in Pages : NodeOK(u.node[q])
  BY <1>9, <1>10, UnusedOK
<1>15. Shape(u)
  BY <1>1, <1>9, <1>10, <1>11, <1>12, <1>13, <1>14 DEF Shape
<1>16. Keeps(t, u)
  BY <1>12 DEF Keeps, Holds
<1> QED BY <1>15, <1>16

-----------------------------------------------------------------------------
(* Deletes: the rest of btree_delete                                       *)

\* an empty page can be merged with any leaf
LEMMA EmptyMerges ==
    ASSUME NEW t, Shape(t), NEW a \in Idx(t), NEW p \in Pages, Size(t.node[p]) = 0
    PROVE  CanMerge(t, Kid(t, a), p) /\ CanMerge(t, p, Kid(t, a))
<1>1. LET n == At(t, a)
      IN  DOMAIN n.cells \subseteq Keys /\ n.used \in Nat /\ Size(n) <= n.used /\ n.used <= MergeCap
  BY DEF Shape, Leaves, NodeOK, Room, At
<1>2. Size(At(t, a)) \in Nat /\ Size(At(t, a)) <= MergeCap
  <2>1. Size(At(t, a)) \in Nat
    BY <1>1, Basics DEF Size
  <2> QED BY <1>1, <2>1, Basics
<1> QED BY <1>2 DEF CanMerge, At

LEMMA Rebalanced ==
    ASSUME NEW t, Shape(t), Inner(t), NEW i \in Idx(t), NEW p, p = Kid(t, i), NEW u, u = Rebalance(t, p)
    PROVE  Shape(u) /\ Keeps(t, u)
<1> DEFINE l == LeftSibling(t, p)
           rs == RightSeparator(t, p)
           r == t.node[t.node[p].parent].cells[Least(rs)]
           sep == Least(SeparatorsOf(t, p))
<1>1. /\ t.node[p].parent = t.root
      /\ i # -1 => sep = i
      /\ IF i = -1 THEN l = NoPage ELSE \E h : Adjacent(t, h, i) /\ l = Kid(t, h)
      /\ \/ rs = {} /\ \A m \in Idx(t) : m <= i
         \/ \E j : Adjacent(t, i, j) /\ rs = {j}
  BY Siblings
<1>2. u = IF ~Underutilized(t.node[p]) THEN t
          ELSE IF l # NoPage /\ CanMerge(t, l, p) THEN Merge(t, l, p, sep)
          ELSE IF rs # {} /\ CanMerge(t, p, r) THEN Merge(t, p, r, Least(rs))
          ELSE IF Size(t.node[p]) = 0 THEN LastChild(t, p)
          ELSE t
  BY DEF Rebalance
<1>3. ASSUME NEW j, rs = {j}, Adjacent(t, i, j) PROVE Least(rs) = j /\ r = Kid(t, j)
  <2>1. j \in Idx(t) /\ j # -1 /\ j \in Int
    <3>1. j \in Idx(t) /\ i < j /\ i \in Int /\ j \in Int /\ -1 <= i
      BY <1>3, IdxFacts DEF Adjacent
    <3> QED BY <3>1
  <2>2. Least({j}) = j
    BY <2>1 DEF Least
  <2>3. Kid(t, j) = Top(t).cells[j]
    BY <2>1, IdxFacts
  <2> QED BY <1>1, <1>3, <2>2, <2>3 DEF Top
<1>4. Keeps(t, t)
  BY DEF Keeps
<1>5. \A j \in Idx(t) : Kid(t, j) \in Pages
  BY DEF Shape, Leaves
<1> HIDE DEF l, rs, r, sep
<1>6. CASE l # NoPage /\ CanMerge(t, l, p) /\ u = Merge(t, l, p, sep)
  <2>1. i # -1 /\ \E h : Adjacent(t, h, i) /\ l = Kid(t, h)
    BY <1>1, <1>6
  <2>2. PICK h : Adjacent(t, h, i) /\ l = Kid(t, h)
    BY <2>1
  <2> QED BY <1>1, <1>6, <2>1, <2>2, Merging
<1>7. CASE rs # {} /\ CanMerge(t, p, r) /\ u = Merge(t, p, r, Least(rs))
  <2>1. PICK j : Adjacent(t, i, j) /\ rs = {j}
    BY <1>1, <1>7
  <2>2. Least(rs) = j /\ r = Kid(t, j)
    BY <1>3, <2>1
  <2> QED BY <1>7, <2>1, <2>2, Merging
<1>8. CASE /\ ~(l # NoPage /\ CanMerge(t, l, p)) /\ ~(rs # {} /\ CanMerge(t, p, r))
           /\ Size(t.node[p]) = 0 /\ u = LastChild(t, p)
  <2>1. i = -1
    <3> SUFFICES ASSUME i # -1 PROVE FALSE
      OBVIOUS
    <3>1. PICK h : Adjacent(t, h, i) /\ l = Kid(t, h)
      BY <1>1
    <3>2. h \in Idx(t)
      BY <3>1 DEF Adjacent
    <3>3. CanMerge(t, l, p) /\ l # NoPage
      BY <1>5, <1>8, <3>1, <3>2, EmptyMerges, Basics
    <3> QED BY <1>8, <3>3
  <2>2. rs = {}
    <3> SUFFICES ASSUME rs # {} PROVE FALSE
      OBVIOUS
    <3>1. PICK j : Adjacent(t, i, j) /\ rs = {j}
      BY <1>1
    <3>2. j \in Idx(t) /\ r = Kid(t, j)
      BY <1>3, <3>1 DEF Adjacent
    <3>3. CanMerge(t, p, r)
      BY <1>5, <1>8, <3>2, EmptyMerges
    <3> QED BY <1>8, <3>3
  <2>3. Idx(t) = {-1}
    <3>1. \A m \in Idx(t) : m <= i
      BY <1>1, <2>2
    <3>2. \A m \in Idx(t) : m \in Int /\ -1 <= m /\ m <= -1
      BY <2>1, <3>1, IdxFacts
    <3>3. \A m \in Idx(t) : m = -1
      BY <3>2
    <3> QED BY <2>1, <3>3
  <2>4. DOMAIN At(t, -1).cells = {}
    <3>1. IsFiniteSet(DOMAIN At(t, -1).cells)
      BY <1>5, <2>1, Basics DEF Shape, NodeOK, At
    <3>2. Cardinality(DOMAIN At(t, -1).cells) = 0
      BY <1>8, <2>1 DEF Size, At
    <3> QED BY <3>1, <3>2, FS_EmptySet
  <2> QED BY <1>8, <2>1, <2>3, <2>4, LastChildIs
<1>9. CASE u = t
  BY <1>4, <1>9
<1> QED BY <1>2, <1>6, <1>7, <1>8, <1>9

-----------------------------------------------------------------------------
(* The steps of the specification                                          *)

\* where FindLeaf ends
LEMMA FoundLeaf ==
    ASSUME NEW t, Shape(t), NEW k \in Keys
    PROVE  /\ FindLeaf(t, k) = NoPage => Idx(t) = {} /\ \A j \in Keys : Search(t, j) = NoValue
           /\ FindLeaf(t, k) # NoPage =>
                 \E i : /\ Home(t, k, i) /\ FindLeaf(t, k) = Kid(t, i) /\ t.node[FindLeaf(t, k)] = At(t, i)
                        /\ t.root # NoPage
                        /\ k \in DOMAIN At(t, i).cells <=> Search(t, k) # NoValue
<1>1. ASSUME FindLeaf(t, k) = NoPage
      PROVE  Idx(t) = {} /\ \A j \in Keys : Search(t, j) = NoValue
  <2>1. Idx(t) = {}
    <3> SUFFICES ASSUME Idx(t) # {} PROVE FALSE
      OBVIOUS
    <3>1. PICK i \in Idx(t) : FindLeaf(t, k) = Kid(t, i)
      BY FindLeafIs
    <3> QED BY <1>1, <3>1, Basics DEF Shape, Leaves
  <2>2. ASSUME NEW j \in Keys PROVE Search(t, j) = NoValue
    <3>1. \A w \in Values : ~Holds(t, j, w)
      BY <2>1 DEF Holds
    <3> QED BY <3>1, Searching
  <2> QED BY <2>1, <2>2
<1>2. ASSUME FindLeaf(t, k) # NoPage
      PROVE  \E i : /\ Home(t, k, i) /\ FindLeaf(t, k) = Kid(t, i) /\ t.node[FindLeaf(t, k)] = At(t, i)
                    /\ t.root # NoPage
                    /\ k \in DOMAIN At(t, i).cells <=> Search(t, k) # NoValue
  <2>1. Idx(t) # {}
    BY <1>2, FindLeafIs
  <2>2. PICK i \in Idx(t) : Home(t, k, i) /\ FindLeaf(t, k) = Kid(t, i)
    BY <2>1, FindLeafIs
  <2>3. t.root # NoPage
    BY <2>1 DEF Idx
  <2>4. t.node[FindLeaf(t, k)] = At(t, i)
    BY <2>2 DEF At
  <2>5. k \in DOMAIN At(t, i).cells => At(t, i).cells[k] \in Values
    BY DEF Shape, Leaves, At, NodeOK
  <2>6. Search(t, k) = IF k \in DOMAIN At(t, i).cells THEN At(t, i).cells[k] ELSE NoValue
    BY <1>2, <2>4 DEF Search
  <2>7. k \in DOMAIN At(t, i).cells <=> Search(t, k) # NoValue
    BY <2>5, <2>6, Basics
  <2> QED BY <2>2, <2>3, <2>4, <2>7
<1> QED BY <1>1, <1>2

\* what a call can come to
InsertDoes(k, v) ==
    \/ /\ answer' = [op |-> "insert", ok |-> TRUE]
       /\ Search(tree, k) = NoValue /\ Shape(tree') /\ Gains(tree, tree', k, v)
    \/ /\ answer' = [op |-> "insert", ok |-> FALSE] /\ tree' = tree
       /\ Emptied \/ Search(tree, k) # NoValue
    \/ answer' = answer /\ tree' = tree
DeleteDoes(k) ==
    \/ /\ answer' = [op |-> "delete", ok |-> TRUE]
       /\ Search(tree, k) # NoValue /\ Shape(tree') /\ Loses(tree, tree', k)
    \/ answer' = [op |-> "delete", ok |-> FALSE] /\ tree' = tree /\ Search(tree, k) = NoValue
    \/ answer' = answer /\ tree' = tree

LEMMA InsertOutcome ==
    ASSUME ~InternalSplits, Shape(tree), NEW k \in Keys, NEW v \in Values, Insert(k, v)
    PROVE  InsertDoes(k, v) /\ aborted' \in {aborted, TRUE}
<1> DEFINE l == FindLeaf(tree, k)
           n == tree.node[l]
<1>1. ASSUME tree.root = NoPage, Unallocated(tree) # {}, tree' = FirstInsert(tree, k, v),
             Answer("insert", TRUE), UNCHANGED aborted
      PROVE  InsertDoes(k, v) /\ aborted' \in {aborted, TRUE}
  <2>1. Shape(tree') /\ Gains(tree, tree', k, v)
    BY <1>1, FirstInsertIs
  <2>2. Search(tree, k) = NoValue
    <3>1. l = NoPage
      BY <1>1, FindLeafIs DEF Idx
    <3> QED BY <3>1, FoundLeaf
  <2> QED BY <1>1, <2>1, <2>2 DEF InsertDoes, Answer
<1>2. ASSUME IF l = NoPage THEN Emptied ELSE k \in DOMAIN n.cells, Refuse("insert")
      PROVE  InsertDoes(k, v) /\ aborted' \in {aborted, TRUE}
  <2>1. Emptied \/ Search(tree, k) # NoValue
    BY <1>2, FoundLeaf
  <2>2. answer' = [op |-> "insert", ok |-> FALSE] /\ tree' = tree /\ aborted' = aborted
    BY <1>2 DEF Refuse, Answer
  <2> QED BY <2>1, <2>2 DEF InsertDoes
<1>3. ASSUME l # NoPage, k \notin DOMAIN n.cells
      PROVE  \E i : /\ Home(tree, k, i) /\ l = Kid(tree, i) /\ n = At(tree, i)
                    /\ k \notin DOMAIN At(tree, i).cells /\ Search(tree, k) = NoValue
                    /\ NodeOK(n)
  <2>1. PICK i : /\ Home(tree, k, i) /\ l = Kid(tree, i) /\ n = At(tree, i)
                 /\ k \in DOMAIN At(tree, i).cells <=> Search(tree, k) # NoValue
    BY <1>3, FoundLeaf
  <2>2. NodeOK(n)
    BY <2>1 DEF Home, Shape, Leaves, At
  <2> QED BY <1>3, <2>1, <2>2
<1>4. ASSUME l # NoPage, k \notin DOMAIN n.cells, n.used < LeafCap, tree' = Put(tree, l, k, v),
             Answer("insert", TRUE), UNCHANGED aborted
      PROVE  InsertDoes(k, v) /\ aborted' \in {aborted, TRUE}
  <2>1. PICK i : /\ Home(tree, k, i) /\ l = Kid(tree, i) /\ n = At(tree, i)
                 /\ k \notin DOMAIN At(tree, i).cells /\ Search(tree, k) = NoValue /\ NodeOK(n)
    BY <1>3, <1>4
  <2>2. At(tree, i).used < MergeCap
    <3>1. n.used \in Nat /\ n.used < LeafCap
      BY <1>4, <2>1 DEF NodeOK
    <3>2. n.used < MergeCap
      BY <3>1, Basics
    <3> QED BY <2>1, <3>2
  <2>3. Shape(tree') /\ Gains(tree, tree', k, v)
    BY <1>4, <2>1, <2>2, PutIs
  <2> QED BY <1>4, <2>1, <2>3 DEF InsertDoes, Answer
<1>5. ASSUME l # NoPage, k \notin DOMAIN n.cells, n.used >= LeafCap, Explored(tree, l), ~(Size(n) < 2),
             tree' = SplitInsert(tree, l, k, v), Answer("insert", TRUE), UNCHANGED aborted
      PROVE  InsertDoes(k, v) /\ aborted' \in {aborted, TRUE}
  <2>1. PICK i : /\ Home(tree, k, i) /\ l = Kid(tree, i) /\ n = At(tree, i)
                 /\ k \notin DOMAIN At(tree, i).cells /\ Search(tree, k) = NoValue /\ NodeOK(n)
    BY <1>3, <1>5
  <2>2. Size(n) \in Nat
    BY <2>1, Basics DEF NodeOK, Size
  <2>3. Size(n) >= 2 /\ Size(n) > 1
    BY <1>5, <2>2
  <2>4. Cardinality(Unallocated(tree)) >= 3 /\ ~ParentFull(tree, l, NextSep(n))
    BY <1>5, <2>3 DEF Explored
  <2> HIDE DEF l, n
  <2>5. Shape(tree') /\ Gains(tree, tree', k, v)
    BY <1>5, <2>1, <2>3, <2>4, SplitInsertIs
  <2> QED BY <1>5, <2>1, <2>5 DEF InsertDoes, Answer
<1>6. ASSUME Abort PROVE InsertDoes(k, v) /\ aborted' \in {aborted, TRUE}
  BY <1>6 DEF InsertDoes, Abort
<1> QED BY <1>1, <1>2, <1>4, <1>5, <1>6 DEF Insert

LEMMA CutOne ==
    ASSUME NEW t, Shape(t), NEW k \in Keys, Search(t, k) # NoValue
    PROVE  LET p == FindLeaf(t, k)
               s == Recelled(t, p, Without(t.node[p].cells, k))
           IN  \E i : /\ i \in Idx(s) /\ p = Kid(s, i) /\ Shape(s) /\ Loses(t, s, k)
                      /\ Inner(s) <=> s.node[p].parent # NoPage
                      /\ s.root # NoPage
<1> DEFINE p == FindLeaf(t, k)
           c == Without(t.node[p].cells, k)
           s == Recelled(t, p, c)
<1>1. p # NoPage
  BY FoundLeaf
<1>2. PICK i : /\ Home(t, k, i) /\ p = Kid(t, i) /\ t.node[p] = At(t, i) /\ t.root # NoPage
               /\ k \in DOMAIN At(t, i).cells
  BY <1>1, FoundLeaf
<1>3. s = Recelled(t, Kid(t, i), Without(At(t, i).cells, k))
  BY <1>2
<1> HIDE DEF s, p
<1>4. Refilled(t, s, i, Without(At(t, i).cells, k)) /\ Loses(t, s, k)
  BY <1>2, <1>3, CutIs
<1>5. /\ Shape(s) /\ s.root = t.root /\ Idx(s) = Idx(t) /\ i \in Idx(t) /\ Kid(s, i) = p
  BY <1>2, <1>4 DEF Refilled, Home
<1>6. s.node[p].parent = IF Inner(s) THEN s.root ELSE NoPage
  BY <1>5 DEF Shape, Leaves, At
<1> QED BY <1>2, <1>4, <1>5, <1>6 DEF s, p

LEMMA LosesKeeps ==
    ASSUME NEW t, NEW s, NEW u, NEW k, Loses(t, s, k), Keeps(s, u)
    PROVE  Loses(t, u, k)
  BY DEF Loses, Keeps

LEMMA DeleteOutcome ==
    ASSUME Shape(tree), NEW k \in Keys, Delete(k)
    PROVE  DeleteDoes(k) /\ aborted' \in {aborted, TRUE}
<1> DEFINE p == FindLeaf(tree, k)
           s == Recelled(tree, p, Without(tree.node[p].cells, k))
<1>1. \/ Search(tree, k) = NoValue /\ Refuse("delete")
      \/ /\ Search(tree, k) # NoValue /\ s.node[p].parent = NoPage
         /\ tree' = IF Size(s.node[p]) = 0 THEN EmptyRoot(s, p) ELSE s
         /\ Answer("delete", TRUE) /\ UNCHANGED aborted
      \/ /\ Search(tree, k) # NoValue /\ s.node[p].parent # NoPage
         /\ Abort \/ (tree' = Rebalance(s, p) /\ Answer("delete", TRUE) /\ UNCHANGED aborted)
  BY DEF Delete, Recelled
<1>2. ASSUME Search(tree, k) # NoValue
      PROVE  \E i : /\ i \in Idx(s) /\ p = Kid(s, i) /\ Shape(s) /\ Loses(tree, s, k)
                    /\ Inner(s) <=> s.node[p].parent # NoPage
                    /\ s.root # NoPage
  BY <1>2, CutOne
<1> HIDE DEF s, p
<1>3. CASE Search(tree, k) = NoValue /\ Refuse("delete")
  BY <1>3 DEF DeleteDoes, Refuse, Answer
<1>4. CASE Abort
  BY <1>4 DEF DeleteDoes, Abort
<1>5. ASSUME Search(tree, k) # NoValue, s.node[p].parent = NoPage,
             tree' = IF Size(s.node[p]) = 0 THEN EmptyRoot(s, p) ELSE s
      PROVE  Shape(tree') /\ Loses(tree, tree', k)
  <2>1. PICK i : /\ i \in Idx(s) /\ p = Kid(s, i) /\ Shape(s) /\ Loses(tree, s, k)
                 /\ ~Inner(s) /\ s.root # NoPage
    BY <1>2, <1>5
  <2>2. CASE Size(s.node[p]) = 0
    <3>1. i = -1 /\ p = s.root /\ At(s, -1) = s.node[p]
      BY <2>1, IdxFacts DEF At
    <3>2. DOMAIN At(s, -1).cells = {}
      <4>1. IsFiniteSet(DOMAIN At(s, -1).cells)
        BY <2>1, <3>1, Basics DEF Shape, NodeOK, Leaves
      <4>2. Cardinality(DOMAIN At(s, -1).cells) = 0
        BY <2>2, <3>1 DEF Size
      <4> QED BY <4>1, <4>2, FS_EmptySet
    <3>3. tree' = EmptyRoot(s, p)
      BY <1>5, <2>2
    <3>4. Shape(tree') /\ Keeps(s, tree')
      BY <2>1, <3>1, <3>2, <3>3, EmptyRootIs
    <3> QED BY <2>1, <3>4, LosesKeeps
  <2>3. CASE Size(s.node[p]) # 0
    BY <1>5, <2>1, <2>3
  <2> QED BY <2>2, <2>3
<1>6. ASSUME Search(tree, k) # NoValue, s.node[p].parent # NoPage, tree' = Rebalance(s, p)
      PROVE  Shape(tree') /\ Loses(tree, tree', k)
  <2>1. PICK i : /\ i \in Idx(s) /\ p = Kid(s, i) /\ Shape(s) /\ Loses(tree, s, k) /\ Inner(s)
    BY <1>2, <1>6
  <2>2. Shape(tree') /\ Keeps(s, tree')
    BY <1>6, <2>1, Rebalanced
  <2> QED BY <2>1, <2>2, LosesKeeps
<1> QED BY <1>1, <1>3, <1>4, <1>5, <1>6 DEF DeleteDoes, Answer

\* what is found after a call
LEMMA GainsFinds ==
    ASSUME NEW t, Shape(t), NEW u, Shape(u), NEW k \in Keys, NEW v \in Values, Gains(t, u, k, v)
    PROVE  \A j \in Keys : Search(u, j) = IF j = k THEN v ELSE Search(t, j)
<1> TAKE j \in Keys
<1>1. /\ Search(u, j) \in Values \cup {NoValue} /\ Search(t, j) \in Values \cup {NoValue}
      /\ \A w \in Values : Search(u, j) = w <=> Holds(u, j, w)
      /\ \A w \in Values : Search(t, j) = w <=> Holds(t, j, w)
  BY Searching
<1>2. \A w \in Values : Holds(u, j, w) <=> IF j = k THEN w = v ELSE Holds(t, j, w)
  BY DEF Gains
<1> QED BY <1>1, <1>2, Basics

LEMMA LosesFinds ==
    ASSUME NEW t, Shape(t), NEW u, Shape(u), NEW k \in Keys, Loses(t, u, k)
    PROVE  \A j \in Keys : Search(u, j) = IF j = k THEN NoValue ELSE Search(t, j)
<1> TAKE j \in Keys
<1>1. /\ Search(u, j) \in Values \cup {NoValue} /\ Search(t, j) \in Values \cup {NoValue}
      /\ \A w \in Values : Search(u, j) = w <=> Holds(u, j, w)
      /\ \A w \in Values : Search(t, j) = w <=> Holds(t, j, w)
  BY Searching
<1>2. \A w \in Values : Holds(u, j, w) <=> j # k /\ Holds(t, j, w)
  BY DEF Loses
<1> QED BY <1>1, <1>2, Basics

-----------------------------------------------------------------------------
(* Theorems                                                                *)

\* the inductive invariant
Inv == /\ Shape(tree) /\ aborted \in BOOLEAN
       /\ answer \in [op : {"none", "insert", "delete"}, ok : BOOLEAN]

LEMMA Start == Init => Inv /\ \A k \in Keys : Search(tree, k) = NoValue
<1> SUFFICES ASSUME Init PROVE Inv /\ \A k \in Keys : Search(tree, k) = NoValue
  OBVIOUS
<1> DEFINE f == [p \in Pages |-> IF p = 2 THEN Leaf(NoPage) ELSE Unused]
<1>1. tree = [node |-> f, alloc |-> {2}, root |-> 2]
  BY DEF Init
<1>2. 2 \in Pages
  BY BTAssumption DEF Pages
<1>3. f = [p \in Pages |-> f[p]] /\ f[2] = Leaf(NoPage) /\ \A p \in Pages \ {2} : f[p] = Unused
  BY <1>2
<1> HIDE DEF f
<1>4. Fields(tree) /\ tree.node = f /\ tree.alloc = {2} /\ tree.root = 2
  BY <1>1, <1>3 DEF Fields
<1>5. Shape(tree) /\ \A j, w : ~Holds(tree, j, w)
  BY <1>2, <1>3, <1>4, OneLeaf
<1>6. \A k \in Keys : Search(tree, k) = NoValue
  BY <1>5, Searching
<1> QED BY <1>5, <1>6 DEF Init, Inv

LEMMA Step == ~InternalSplits /\ Inv /\ [Next]_vars => Inv'
<1> SUFFICES ASSUME ~InternalSplits, Inv, [Next]_vars PROVE Inv'
  OBVIOUS
<1>1. Shape(tree)
  BY DEF Inv
<1>2. ASSUME NEW k \in Keys, NEW v \in Values, Insert(k, v) PROVE Inv'
  <2>1. InsertDoes(k, v) /\ aborted' \in {aborted, TRUE}
    BY <1>1, <1>2, InsertOutcome
  <2>2. Shape(tree')
    BY <1>1, <2>1 DEF InsertDoes
  <2>3. answer' \in [op : {"none", "insert", "delete"}, ok : BOOLEAN]
    <3>1. \A ok \in BOOLEAN : [op |-> "insert", ok |-> ok] \in [op : {"none", "insert", "delete"}, ok : BOOLEAN]
      OBVIOUS
    <3>2. answer' \in {answer, [op |-> "insert", ok |-> TRUE], [op |-> "insert", ok |-> FALSE]}
      BY <2>1 DEF InsertDoes
    <3> QED BY <3>1, <3>2 DEF Inv
  <2> QED BY <2>1, <2>2, <2>3 DEF Inv
<1>3. ASSUME NEW k \in Keys, Delete(k) PROVE Inv'
  <2>1. DeleteDoes(k) /\ aborted' \in {aborted, TRUE}
    BY <1>1, <1>3, DeleteOutcome
  <2>2. Shape(tree')
    BY <1>1, <2>1 DEF DeleteDoes
  <2>3. answer' \in [op : {"none", "insert", "delete"}, ok : BOOLEAN]
    <3>1. \A ok \in BOOLEAN : [op |-> "delete", ok |-> ok] \in [op : {"none", "insert", "delete"}, ok : BOOLEAN]
      OBVIOUS
    <3>2. answer' \in {answer, [op |-> "delete", ok |-> TRUE], [op |-> "delete", ok |-> FALSE]}
      BY <2>1 DEF DeleteDoes
    <3> QED BY <3>1, <3>2 DEF Inv
  <2> QED BY <2>1, <2>2, <2>3 DEF Inv
<1>4. CASE UNCHANGED vars
  BY <1>4 DEF Inv, vars
<1> QED BY <1>2, <1>3, <1>4 DEF Next

\* The leaves stay sorted, chained and accounted for, under one root.
THEOREM TreeInvariant == ~InternalSplits => (Spec => []Inv)
<1> SUFFICES ASSUME ~InternalSplits PROVE Spec => []Inv
  OBVIOUS
<1>1. Init => Inv
  BY Start
<1>2. Inv /\ [Next]_vars => Inv'
  BY Step
<1> QED BY <1>1, <1>2, PTL DEF Spec

\* The pages keep the kinds of cells their level calls for and never hold more
\* than was written to them or than they have room for (init_page, slot_insert).
THEOREM TypesKept == ~InternalSplits => (Spec => []TypeOK)
<1>1. Inv => TypeOK
  <2> SUFFICES ASSUME Inv PROVE TypeOK
    OBVIOUS
  <2>1. \A p \in Pages : NodeOK(tree.node[p])
    BY DEF Inv, Shape
  <2>2. tree.root \in Pages \cup {NoPage}
    BY DEF Inv, Shape
  <2>3. tree.alloc \subseteq Pages
    <3>1. \A i \in Idx(tree) : Kid(tree, i) \in Pages
      BY DEF Inv, Shape, Leaves
    <3> QED BY <2>2, <3>1 DEF Inv, Shape, Accounted
  <2> QED BY <2>1, <2>2, <2>3 DEF TypeOK, Inv, NodeOK, Room
<1> QED BY <1>1, TreeInvariant, PTL

\* A page whose bit is set in the bitmap is the root or hangs below it, and no
\* child is free: splits, merges and freed pages neither leak a page nor leave a
\* pointer to a free one (allocate_page, free_page, merge_leaf_pages).
THEOREM NoPageLeaks == ~InternalSplits => (Spec => []PagesAccounted)
<1>1. Inv => PagesAccounted
  <2> SUFFICES ASSUME Inv PROVE PagesAccounted
    OBVIOUS
  <2> DEFINE r == tree.root
             n == tree.node[r]
  <2>1. Shape(tree)
    BY DEF Inv
  <2>2. /\ tree.alloc = {Kid(tree, i) : i \in Idx(tree)} \cup ({r} \ {NoPage})
        /\ r # NoPage => n.parent = NoPage
    BY <2>1 DEF Shape, Accounted, Top
  <2>3. \A i \in Idx(tree) : /\ tree.node[Kid(tree, i)].level = "leaf"
                             /\ tree.node[Kid(tree, i)].parent = IF Inner(tree) THEN r ELSE NoPage
                             /\ Kid(tree, i) \in Pages
    BY <2>1 DEF Shape, Leaves, At
  <2>4. r # NoPage => r \in tree.alloc /\ n.parent = NoPage
    BY <2>2
  <2>5. ASSUME Inner(tree)
        PROVE  /\ Children(n) = {Kid(tree, i) : i \in Idx(tree)}
               /\ r # NoPage
    <3>1. /\ DOMAIN n.cells = Idx(tree) \ {-1} /\ n.level = "internal" /\ r # NoPage
          /\ n.leftmost = IF Idx(tree) = {} THEN NoPage ELSE Kid(tree, -1)
          /\ \A i \in Idx(tree) \ {-1} : Kid(tree, i) = n.cells[i]
          /\ Idx(tree) # {} => -1 \in Idx(tree)
      BY <2>1, <2>5, IdxFacts DEF Top, Inner, Shape
    <3>2. Children(n) = ({n.leftmost} \ {NoPage}) \cup {n.cells[i] : i \in DOMAIN n.cells}
      BY <3>1 DEF Children
    <3> HIDE DEF n
    <3>3. {n.cells[i] : i \in DOMAIN n.cells} = {Kid(tree, i) : i \in Idx(tree) \ {-1}}
      BY <3>1
    <3>4. CASE Idx(tree) = {}
      BY <3>1, <3>2, <3>3, <3>4
    <3>5. CASE Idx(tree) # {}
      <4>1. n.leftmost = Kid(tree, -1) /\ n.leftmost # NoPage /\ -1 \in Idx(tree)
        BY <2>3, <3>1, <3>5, Basics
      <4>2. {n.leftmost} \ {NoPage} = {Kid(tree, -1)}
        BY <4>1
      <4>3. {Kid(tree, i) : i \in Idx(tree)} = {Kid(tree, -1)} \cup {Kid(tree, i) : i \in Idx(tree) \ {-1}}
        BY <4>1
      <4> QED BY <3>1, <3>2, <3>3, <4>2, <4>3
    <3> QED BY <3>1, <3>4, <3>5
  <2>6. ASSUME ~Inner(tree) PROVE \A i \in Idx(tree) : Kid(tree, i) = r
    BY <2>6 DEF Kid
  <2>7. ASSUME NEW p \in tree.alloc \ {r}
        PROVE  /\ tree.node[p].parent \in tree.alloc
               /\ p \in Children(tree.node[tree.node[p].parent])
    <3>1. PICK i \in Idx(tree) : p = Kid(tree, i)
      BY <2>2
    <3>2. Inner(tree) /\ tree.node[p].parent = r
      BY <2>3, <2>6, <2>7, <3>1
    <3> QED BY <2>4, <2>5, <3>1, <3>2
  <2>8. ASSUME NEW p \in tree.alloc PROVE Children(tree.node[p]) \subseteq tree.alloc
    <3>1. CASE tree.node[p].level # "internal"
      BY <3>1 DEF Children
    <3>2. CASE tree.node[p].level = "internal"
      <4>1. p = r /\ r # NoPage
        BY <2>2, <2>3, <3>2
      <4>2. Inner(tree)
        BY <3>2, <4>1 DEF Inner
      <4> QED BY <2>2, <2>5, <4>1, <4>2
    <3> QED BY <3>1, <3>2
  <2> QED BY <2>4, <2>7, <2>8 DEF PagesAccounted
<1> QED BY <1>1, TreeInvariant, PTL

\* The tree is the map it promises to be: every call changes what is found for
\* its own key only, through every split of a leaf and every merge, and an insert
\* is refused for a key that is present only (no insert into an emptied tree).
THEOREM TreeIsAMap == ~InternalSplits /\ ~Emptied => (Spec => MapKept)
<1> SUFFICES ASSUME ~InternalSplits, ~Emptied PROVE Spec => MapKept
  OBVIOUS
<1>1. Init => Map!Init
  <2> SUFFICES ASSUME Init PROVE Map!Init
    OBVIOUS
  <2>1. \A k \in Keys : Search(tree, k) = NoValue
    BY Start
  <2>2. Found = [k \in Keys |-> NoValue]
    BY <2>1 DEF Found
  <2> QED BY <2>2 DEF Map!Init, Map!Empty, Init
<1>2. Inv /\ [Next]_vars => [Map!Next]_(Map!vars)
  <2> SUFFICES ASSUME Inv, [Next]_vars PROVE [Map!Next]_(Map!vars)
    OBVIOUS
  <2>1. Shape(tree)
    BY DEF Inv
  <2>2. Found = [k \in Keys |-> Search(tree, k)] /\ Found' = [k \in Keys |-> Search(tree', k)]
    BY DEF Found
  <2>3. tree' = tree => Found' = Found
    BY <2>2
  <2>4. ASSUME NEW k \in Keys, NEW v \in Values, Insert(k, v) PROVE [Map!Next]_(Map!vars)
    <3>1. InsertDoes(k, v)
      BY <2>1, <2>4, InsertOutcome
    <3>2. CASE /\ answer' = [op |-> "insert", ok |-> TRUE]
               /\ Search(tree, k) = NoValue /\ Shape(tree') /\ Gains(tree, tree', k, v)
      <4>1. \A j \in Keys : Search(tree', j) = IF j = k THEN v ELSE Search(tree, j)
        BY <2>1, <3>2, GainsFinds
      <4>2. Found' = [Found EXCEPT ![k] = v] /\ Found[k] = NoValue
        BY <2>2, <3>2, <4>1
      <4>3. Map!Insert(k, v)
        BY <3>2, <4>2 DEF Map!Insert
      <4> QED BY <4>3 DEF Map!Next
    <3>3. CASE /\ answer' = [op |-> "insert", ok |-> FALSE] /\ tree' = tree
               /\ Emptied \/ Search(tree, k) # NoValue
      <4>1. Found[k] # NoValue
        BY <2>2, <3>3
      <4>2. Map!Insert(k, v)
        BY <2>3, <3>3, <4>1 DEF Map!Insert
      <4> QED BY <4>2 DEF Map!Next
    <3>4. CASE answer' = answer /\ tree' = tree
      BY <2>3, <3>4 DEF Map!vars
    <3> QED BY <3>1, <3>2, <3>3, <3>4 DEF InsertDoes
  <2>5. ASSUME NEW k \in Keys, Delete(k) PROVE [Map!Next]_(Map!vars)
    <3>1. DeleteDoes(k)
      BY <2>1, <2>5, DeleteOutcome
    <3>2. CASE /\ answer' = [op |-> "delete", ok |-> TRUE]
               /\ Search(tree, k) # NoValue /\ Shape(tree') /\ Loses(tree, tree', k)
      <4>1. \A j \in Keys : Search(tree', j) = IF j = k THEN NoValue ELSE Search(tree, j)
        BY <2>1, <3>2, LosesFinds
      <4>2. Found' = [Found EXCEPT ![k] = NoValue] /\ Found[k] # NoValue
        BY <2>2, <3>2, <4>1
      <4>3. Map!Delete(k)
        BY <3>2, <4>2 DEF Map!Delete
      <4> QED BY <4>3 DEF Map!Next
    <3>3. CASE answer' = [op |-> "delete", ok |-> FALSE] /\ tree' = tree /\ Search(tree, k) = NoValue
      <4>1. Found[k] = NoValue /\ Found' = Found
        BY <2>2, <2>3, <3>3
      <4>2. Found' = [Found EXCEPT ![k] = NoValue]
        BY <2>2, <4>1
      <4>3. Map!Delete(k)
        BY <3>3, <4>1, <4>2 DEF Map!Delete
      <4> QED BY <4>3 DEF Map!Next
    <3>4. CASE answer' = answer /\ tree' = tree
      BY <2>3, <3>4 DEF Map!vars
    <3> QED BY <3>1, <3>2, <3>3, <3>4 DEF DeleteDoes
  <2>6. CASE UNCHANGED vars
    BY <2>3, <2>6 DEF vars, Map!vars
  <2> QED BY <2>4, <2>5, <2>6 DEF Next
<1>3. Spec => []Inv
  BY TreeInvariant
<1> QED BY <1>1, <1>2, <1>3, PTL DEF Spec, MapKept, Map!Spec

-----------------------------------------------------------------------------
(* The chain of leaves                                                     *)

\* the place of a leaf in the order of the separators
Rank(t, h) == Cardinality({m \in Idx(t) : m < h}) + 1

LEMMA IdxFinite ==
    ASSUME NEW t, Shape(t)
    PROVE  IsFiniteSet(Idx(t)) /\ Cardinality(Idx(t)) \in Nat /\ Cardinality(Idx(t)) <= LastPage
<1>1. IsFiniteSet(Idx(t)) /\ Cardinality(Idx(t)) \in Nat
  <2>1. IsFiniteSet(Keys \cup {-1})
    BY BTAssumption, FS_AddElement
  <2>2. Idx(t) \subseteq Keys \cup {-1}
    BY IdxFacts
  <2> QED BY <2>1, <2>2, FS_Subset, FS_CardinalityType
<1>2. IsFiniteSet(Pages) /\ Cardinality(Pages) = LastPage - 1 /\ LastPage \in Nat
  BY BTAssumption, FS_Interval DEF Pages
<1>3. ASSUME Cardinality(Pages) < Cardinality(Idx(t)) PROVE FALSE
  <2> DEFINE f == [i \in Idx(t) |-> Kid(t, i)]
  <2>1. f \in [Idx(t) -> Pages]
    BY DEF Shape, Leaves
  <2>2. \A i \in Idx(t) : f[i] = Kid(t, i)
    OBVIOUS
  <2> HIDE DEF f
  <2>3. \E x \in Idx(t) : \E y \in Idx(t) : x # y /\ f[x] = f[y]
    BY <1>1, <1>2, <1>3, <2>1, FS_PigeonHole
  <2> QED BY <2>2, <2>3 DEF Shape, Leaves
<1> QED BY <1>1, <1>2, <1>3

LEMMA Predecessor ==
    ASSUME NEW t, Shape(t), NEW i \in Idx(t), i # -1
    PROVE  \E h : Adjacent(t, h, i)
<1> DEFINE below == {m \in Idx(t) : m < i}
<1>1. Idx(t) \subseteq Int /\ i \in Int /\ -1 \in Idx(t) /\ -1 <= i
  BY IdxFacts DEF Shape
<1>2. below \subseteq Int /\ -1 \in below /\ \A m \in below : m <= i
  BY <1>1
<1> DEFINE h == Greatest(below)
<1>3. h \in below /\ \A m \in below : m <= h
  <2> HIDE DEF below
  <2> QED BY <1>1, <1>2, GreatestIs
<1> HIDE DEF h
<1>4. h \in Idx(t) /\ h < i /\ h \in Int
  BY <1>1, <1>3
<1>5. ASSUME NEW m \in Idx(t) PROVE m <= h \/ i <= m
  <2>1. m \in Int /\ (m \in below \/ ~(m < i))
    BY <1>1
  <2> QED BY <1>1, <1>3, <2>1
<1> QED BY <1>4, <1>5 DEF Adjacent

LEMMA Ranks ==
    ASSUME NEW t, Shape(t)
    PROVE  /\ \A h \in Idx(t) : Rank(t, h) \in 1..LastPage
           /\ \A h \in Idx(t) : \A j \in Idx(t) : h < j => Rank(t, h) < Rank(t, j)
           /\ \A h \in Idx(t) : \A j \in Idx(t) : Rank(t, h) = Rank(t, j) => h = j
           /\ \A h, j : Adjacent(t, h, j) => Rank(t, j) = Rank(t, h) + 1
           /\ -1 \in Idx(t) => Rank(t, -1) = 1
           /\ \A h \in Idx(t) : h # -1 => \E j \in Idx(t) : Rank(t, h) = Rank(t, j) + 1
<1> DEFINE under(h) == {m \in Idx(t) : m < h}
<1>1. \A h : Rank(t, h) = Cardinality(under(h)) + 1
  BY DEF Rank
<1>2. /\ IsFiniteSet(Idx(t)) /\ Cardinality(Idx(t)) \in Nat /\ Cardinality(Idx(t)) <= LastPage
      /\ LastPage \in Nat
  BY IdxFinite, BTAssumption
<1>3. \A h : under(h) \subseteq Idx(t) /\ IsFiniteSet(under(h)) /\ Cardinality(under(h)) \in Nat
  BY <1>2, FS_Subset, FS_CardinalityType
<1>4. Idx(t) \subseteq Int /\ \A m \in Idx(t) : -1 <= m
  BY IdxFacts
<1>5. ASSUME NEW h \in Idx(t) PROVE h \notin under(h) /\ Cardinality(under(h)) + 1 <= Cardinality(Idx(t))
  <2>1. h \notin under(h)
    BY <1>4
  <2>2. under(h) \cup {h} \subseteq Idx(t)
    OBVIOUS
  <2> HIDE DEF under
  <2>3. Cardinality(under(h) \cup {h}) = Cardinality(under(h)) + 1
    BY <1>3, <2>1, FS_AddElement
  <2>4. Cardinality(under(h) \cup {h}) <= Cardinality(Idx(t))
    BY <1>2, <2>2, FS_Subset
  <2> QED BY <2>1, <2>3, <2>4
<1>6. ASSUME NEW h \in Idx(t) PROVE Rank(t, h) \in 1..LastPage
  <2> DEFINE a == Cardinality(under(h))
             b == Cardinality(Idx(t))
  <2>1. a \in Nat /\ a + 1 <= b /\ b \in Nat /\ b <= LastPage /\ Rank(t, h) = a + 1
    BY <1>1, <1>2, <1>3, <1>5
  <2> HIDE DEF a, b
  <2> QED BY <1>2, <2>1
<1>7. ASSUME NEW h \in Idx(t), NEW j \in Idx(t), h < j PROVE Rank(t, h) < Rank(t, j)
  <2>1. under(h) \cup {h} \subseteq under(j)
    <3> SUFFICES ASSUME NEW m \in Idx(t), m < h PROVE m < j
      BY <1>7
    <3> QED BY <1>4, <1>7
  <2>2. h \notin under(h)
    BY <1>5
  <2> HIDE DEF under
  <2>3. Cardinality(under(h) \cup {h}) = Cardinality(under(h)) + 1
    BY <1>3, <2>2, FS_AddElement
  <2>4. Cardinality(under(h) \cup {h}) <= Cardinality(under(j))
    BY <1>3, <2>1, FS_Subset
  <2> QED BY <1>1, <1>3, <2>3, <2>4
<1>8. ASSUME NEW h \in Idx(t), NEW j \in Idx(t), Rank(t, h) = Rank(t, j) PROVE h = j
  <2>1. ~(h < j) /\ ~(j < h)
    BY <1>6, <1>7, <1>8
  <2> QED BY <1>4, <2>1
<1>9. ASSUME NEW h, NEW j, Adjacent(t, h, j) PROVE Rank(t, j) = Rank(t, h) + 1
  <2>1. /\ h \in Idx(t) /\ j \in Idx(t) /\ h < j /\ h \in Int /\ j \in Int
        /\ \A m \in Idx(t) : m <= h \/ j <= m
    BY <1>4, <1>9 DEF Adjacent
  <2>2. under(j) = under(h) \cup {h}
    <3>1. ASSUME NEW m \in Idx(t) PROVE m < j <=> m < h \/ m = h
      <4>1. m \in Int /\ (m <= h \/ j <= m)
        BY <1>4, <2>1
      <4> QED BY <2>1, <4>1
    <3> QED BY <2>1, <3>1
  <2>3. h \notin under(h)
    BY <1>5, <2>1
  <2> HIDE DEF under
  <2>4. Cardinality(under(j)) = Cardinality(under(h)) + 1
    BY <1>3, <2>2, <2>3, FS_AddElement
  <2> QED BY <1>1, <2>4
<1>10. Rank(t, -1) = 1
  <2>1. under(-1) = {}
    <3> SUFFICES ASSUME NEW m \in Idx(t), m < -1 PROVE FALSE
      OBVIOUS
    <3>1. m \in Int /\ -1 <= m
      BY <1>4
    <3> QED BY <3>1
  <2>2. Cardinality(under(-1)) = 0
    BY <2>1, FS_EmptySet
  <2> QED BY <1>1, <2>2
<1>11. ASSUME NEW h \in Idx(t), h # -1 PROVE \E j \in Idx(t) : Rank(t, h) = Rank(t, j) + 1
  <2>1. PICK j : Adjacent(t, j, h)
    BY <1>11, Predecessor
  <2> QED BY <1>9, <2>1 DEF Adjacent
<1> QED BY <1>6, <1>7, <1>8, <1>9, <1>10, <1>11

\* the i-th leaf
Nth(t, i) == IF \E h \in Idx(t) : Rank(t, h) = i
             THEN Kid(t, CHOOSE h \in Idx(t) : Rank(t, h) = i) ELSE NoPage

LEMMA NthIs ==
    ASSUME NEW t, Shape(t)
    PROVE  /\ \A h \in Idx(t) : Nth(t, Rank(t, h)) = Kid(t, h)
           /\ \A i : Nth(t, i) # NoPage <=> \E h \in Idx(t) : Rank(t, h) = i
<1>1. ASSUME NEW i, NEW h \in Idx(t), Rank(t, h) = i PROVE Nth(t, i) = Kid(t, h)
  <2> DEFINE j == CHOOSE j \in Idx(t) : Rank(t, j) = i
  <2>1. j \in Idx(t) /\ Rank(t, j) = i
    BY <1>1
  <2>2. Nth(t, i) = Kid(t, j)
    BY <1>1 DEF Nth
  <2> HIDE DEF j
  <2>3. j = h
    BY <1>1, <2>1, Ranks
  <2> QED BY <2>2, <2>3
<1>2. \A h \in Idx(t) : Kid(t, h) # NoPage
  BY Basics DEF Shape, Leaves
<1>3. ASSUME NEW i, ~ \E h \in Idx(t) : Rank(t, h) = i PROVE Nth(t, i) = NoPage
  BY <1>3 DEF Nth
<1> QED BY <1>1, <1>2, <1>3

LEMMA LeftmostIs ==
    ASSUME NEW t, Shape(t)
    PROVE  Leftmost(t) = IF Idx(t) = {} THEN NoPage ELSE Kid(t, -1)
<1> DEFINE Below(p) == IF p # NoPage /\ t.node[p].level = "internal" THEN t.node[p].leftmost ELSE p
<1>1. Leftmost(t) = Below(Below(Below(t.root)))
  BY DEF Leftmost, Descend
<1>2. CASE ~Inner(t)
  <2>1. Below(t.root) = t.root
    BY <1>2 DEF Inner
  <2> HIDE DEF Below
  <2>2. Leftmost(t) = t.root
    BY <1>1, <2>1
  <2>3. Idx(t) = IF t.root = NoPage THEN {} ELSE {-1}
    BY <1>2, IdxFacts
  <2>4. t.root # NoPage => Kid(t, -1) = t.root
    BY <1>2, IdxFacts
  <2> QED BY <2>2, <2>3, <2>4
<1>3. CASE Inner(t)
  <2> DEFINE c == Top(t).leftmost
  <2>1. Below(t.root) = c
    BY <1>3 DEF Inner, Top
  <2>2. c = IF Idx(t) = {} THEN NoPage ELSE Kid(t, -1)
    BY <1>3, IdxFacts
  <2>3. Idx(t) # {} => -1 \in Idx(t) /\ t.node[Kid(t, -1)].level = "leaf"
    BY DEF Shape, Leaves, At
  <2>4. Below(c) = c
    BY <2>2, <2>3
  <2> HIDE DEF Below, c
  <2> QED BY <1>1, <2>1, <2>2, <2>4
<1> QED BY <1>2, <1>3

\* the pages a scan follows, one by one
Follows(t, f) ==
    f = [i \in 1..LastPage |->
           IF i = 1 THEN Leftmost(t) ELSE IF f[i - 1] = NoPage THEN NoPage ELSE t.node[f[i - 1]].next]

LEMMA ChainUnfolds ==
    \A t : Chain(t) = LET at == CHOOSE f : Follows(t, f)
                      IN  [i \in 1..Cardinality({i \in 1..LastPage : at[i] # NoPage}) |-> at[i]]
  BY DEF Chain, Follows

LEMMA NthFollows ==
    ASSUME NEW t, Shape(t)
    PROVE  Follows(t, [i \in 1..LastPage |-> Nth(t, i)])
<1> DEFINE f == [i \in 1..LastPage |-> Nth(t, i)]
           step(i) == IF i = 1 THEN Leftmost(t)
                      ELSE IF f[i - 1] = NoPage THEN NoPage ELSE t.node[f[i - 1]].next
<1>1. ASSUME NEW i \in 1..LastPage PROVE Nth(t, i) = step(i)
  <2>1. CASE i = 1
    <3>1. CASE Idx(t) = {}
      BY <2>1, <3>1, NthIs, LeftmostIs
    <3>2. CASE Idx(t) # {}
      <4>1. -1 \in Idx(t) /\ Rank(t, -1) = 1
        BY <3>2, Ranks DEF Shape
      <4>2. Nth(t, 1) = Kid(t, -1)
        BY <4>1, NthIs
      <4> QED BY <2>1, <3>2, <4>2, LeftmostIs
    <3> QED BY <3>1, <3>2
  <2>2. CASE i # 1
    <3>1. i - 1 \in 1..LastPage /\ i \in Nat /\ LastPage \in Nat
      BY <2>2, BTAssumption
    <3>2. f[i - 1] = Nth(t, i - 1)
      BY <3>1
    <3>3. step(i) = IF Nth(t, i - 1) = NoPage THEN NoPage ELSE t.node[Nth(t, i - 1)].next
      BY <2>2, <3>2
    <3> HIDE DEF f, step
    <3>4. CASE Nth(t, i - 1) = NoPage
      <4>1. ASSUME NEW h \in Idx(t), Rank(t, h) = i PROVE FALSE
        <5>1. h # -1
          BY <2>2, <4>1, Ranks
        <5>2. PICK j \in Idx(t) : Rank(t, h) = Rank(t, j) + 1
          BY <5>1, Ranks
        <5>3. Rank(t, j) \in 1..LastPage
          BY Ranks
        <5>4. Rank(t, j) = i - 1
          BY <3>1, <4>1, <5>2, <5>3
        <5> QED BY <3>4, <5>4, NthIs
      <4> QED BY <3>3, <3>4, <4>1, NthIs
    <3>5. CASE Nth(t, i - 1) # NoPage
      <4>1. PICK h \in Idx(t) : Rank(t, h) = i - 1
        BY <3>5, NthIs
      <4>2. Nth(t, i - 1) = Kid(t, h)
        BY <4>1, NthIs
      <4>3. step(i) = At(t, h).next
        BY <3>3, <3>5, <4>2 DEF At
      <4>4. CASE At(t, h).next = NoPage /\ \A m \in Idx(t) : m <= h
        <5>1. ASSUME NEW m \in Idx(t), Rank(t, m) = i PROVE FALSE
          <6>1. m <= h /\ m \in Int /\ h \in Int
            BY <4>4, IdxFacts
          <6>2. CASE m = h
            BY <3>1, <4>1, <5>1, <6>2
          <6>3. CASE m # h
            <7>1. m < h
              BY <6>1, <6>3
            <7>2. Rank(t, m) < Rank(t, h)
              BY <7>1, Ranks
            <7> QED BY <3>1, <4>1, <5>1, <7>2
          <6> QED BY <6>2, <6>3
        <5> QED BY <4>3, <4>4, <5>1, NthIs
      <4>5. ASSUME NEW j \in Idx(t), h < j, At(t, h).next = Kid(t, j), \A m \in Idx(t) : h < m => j <= m
            PROVE  Nth(t, i) = step(i)
        <5>1. Adjacent(t, h, j)
          <6>1. \A m \in Idx(t) : m <= h \/ j <= m
            <7> TAKE m \in Idx(t)
            <7>1. m \in Int /\ h \in Int
              BY IdxFacts
            <7> QED BY <4>5, <7>1
          <6> QED BY <4>5, <6>1 DEF Adjacent
        <5>2. Rank(t, j) = i
          BY <3>1, <4>1, <5>1, Ranks
        <5>3. Nth(t, i) = Kid(t, j)
          BY <5>2, NthIs
        <5> QED BY <4>3, <4>5, <5>3
      <4> QED BY <4>4, <4>5 DEF Shape, Chained
    <3> QED BY <3>4, <3>5
  <2> QED BY <2>1, <2>2
<1> HIDE DEF step
<1>2. f = [i \in 1..LastPage |-> step(i)]
  BY <1>1
<1> QED BY <1>2 DEF Follows, step

LEMMA FollowsOnce ==
    ASSUME NEW t, NEW f, NEW g, Follows(t, f), Follows(t, g)
    PROVE  \A i \in 1..LastPage : f[i] = g[i]
<1> DEFINE bad == {i \in 1..LastPage : f[i] # g[i]}
<1> SUFFICES ASSUME bad # {} PROVE FALSE
  OBVIOUS
<1>1. /\ \A i \in 1..LastPage : f[i] = IF i = 1 THEN Leftmost(t)
                                       ELSE IF f[i - 1] = NoPage THEN NoPage ELSE t.node[f[i - 1]].next
      /\ \A i \in 1..LastPage : g[i] = IF i = 1 THEN Leftmost(t)
                                       ELSE IF g[i - 1] = NoPage THEN NoPage ELSE t.node[g[i - 1]].next
  BY ZenonT(60) DEF Follows
<1>2. PICK i \in bad : \A j \in bad : i <= j
  <2>1. bad \subseteq Nat
    BY BTAssumption
  <2> HIDE DEF bad
  <2> QED BY <2>1, LeastNatural
<1>3. i \in 1..LastPage /\ f[i] # g[i] /\ LastPage \in Nat
  BY BTAssumption
<1>4. i # 1
  BY <1>1, <1>3
<1>5. i - 1 \in 1..LastPage /\ ~(i <= i - 1)
  BY <1>3, <1>4
<1>6. f[i - 1] = g[i - 1]
  BY <1>2, <1>5
<1> QED BY <1>1, <1>3, <1>4, <1>6

LEMMA Prefix ==
    ASSUME NEW n \in Nat, NEW S \in SUBSET (1..n), \A i \in S : i # 1 => i - 1 \in S
    PROVE  S = 1..Cardinality(S)
<1> DEFINE out == {i \in 1..(n + 1) : i \notin S}
<1>1. n + 1 \in out
  OBVIOUS
<1>2. PICK m \in out : \A i \in out : m <= i
  <2>1. out \subseteq Nat
    OBVIOUS
  <2> HIDE DEF out
  <2> QED BY <1>1, <2>1, LeastNatural
<1>3. m \in 1..(n + 1) /\ m \notin S /\ m \in Nat
  OBVIOUS
<1>4. ASSUME NEW i \in 1..(m - 1) PROVE i \in S
  <2>1. i \in 1..(n + 1) /\ ~(m <= i)
    BY <1>3
  <2> QED BY <1>2, <2>1
<1>5. ASSUME NEW i \in S PROVE i \in 1..(m - 1)
  <2> DEFINE above == {j \in S : m <= j}
  <2> SUFFICES ASSUME above # {} PROVE FALSE
    <3>1. i \in 1..n /\ (above = {} => ~(m <= i))
      OBVIOUS
    <3> QED BY <1>3, <3>1
  <2>1. PICK j \in above : \A h \in above : j <= h
    <3>a. \A h \in S : h \in Nat
      OBVIOUS
    <3>1. above \subseteq Nat
      BY <3>a
    <3> HIDE DEF above
    <3> QED BY <3>1, LeastNatural
  <2>2. j \in S /\ m <= j /\ j \in 1..n /\ j # m
    BY <1>3
  <2>3. j # 1 /\ m <= j - 1 /\ ~(j <= j - 1)
    BY <1>3, <2>2
  <2>4. j - 1 \in above
    BY <2>2, <2>3
  <2> QED BY <2>1, <2>3, <2>4
<1> HIDE DEF out
<1>6. S = 1..(m - 1)
  BY <1>4, <1>5
<1>7. Cardinality(1..(m - 1)) = m - 1
  <2>1. m - 1 \in Int /\ 1 \in Int /\ (1 > m - 1 => m - 1 = 0)
    BY <1>3
  <2>2. Cardinality(1..(m - 1)) = IF 1 > m - 1 THEN 0 ELSE m - 1 - 1 + 1
    BY <2>1, FS_Interval
  <2> QED BY <2>1, <2>2
<1> QED BY <1>6, <1>7

\* a scan reads every leaf, in the order of the separators
LEMMA ScanIs ==
    ASSUME NEW t, Shape(t)
    PROVE  /\ \A h \in Idx(t) : Rank(t, h) \in DOMAIN Chain(t) /\ Chain(t)[Rank(t, h)] = Kid(t, h)
           /\ \A i \in DOMAIN Chain(t) : \E h \in Idx(t) : Rank(t, h) = i
<1> DEFINE f == [i \in 1..LastPage |-> Nth(t, i)]
           at == CHOOSE g : Follows(t, g)
           S == {i \in 1..LastPage : at[i] # NoPage}
<1>1. Chain(t) = [i \in 1..Cardinality(S) |-> at[i]]
  BY ChainUnfolds
<1>2. Follows(t, f)
  BY NthFollows
<1>3. \A i \in 1..LastPage : f[i] = Nth(t, i)
  OBVIOUS
<1> HIDE DEF f
<1>4. Follows(t, at)
  BY <1>2
<1> HIDE DEF at
<1>5. \A i \in 1..LastPage : at[i] = Nth(t, i)
  BY <1>2, <1>3, <1>4, FollowsOnce
<1>6. \A i \in 1..LastPage : i \in S <=> \E h \in Idx(t) : Rank(t, h) = i
  BY <1>5, NthIs
<1>7. S \in SUBSET (1..LastPage) /\ LastPage \in Nat
  BY BTAssumption
<1> HIDE DEF S
<1>8. ASSUME NEW i \in S, i # 1 PROVE i - 1 \in S
  <2>1. PICK h \in Idx(t) : Rank(t, h) = i
    BY <1>6, <1>7
  <2>2. h # -1
    BY <1>8, <2>1, Ranks
  <2>3. PICK j \in Idx(t) : Rank(t, h) = Rank(t, j) + 1
    BY <2>2, Ranks
  <2>4. Rank(t, j) \in 1..LastPage
    BY Ranks
  <2>5. Rank(t, j) = i - 1
    BY <2>1, <2>3, <2>4
  <2> QED BY <1>6, <2>4, <2>5
<1>9. S = 1..Cardinality(S)
  BY <1>7, <1>8, Prefix
<1>10. DOMAIN Chain(t) = S /\ \A i \in S : Chain(t)[i] = at[i]
  BY <1>1, <1>9
<1>11. ASSUME NEW h \in Idx(t)
       PROVE  Rank(t, h) \in DOMAIN Chain(t) /\ Chain(t)[Rank(t, h)] = Kid(t, h)
  <2>1. Rank(t, h) \in 1..LastPage
    BY Ranks
  <2>2. Rank(t, h) \in S
    BY <1>6, <2>1
  <2>3. Nth(t, Rank(t, h)) = Kid(t, h)
    BY NthIs
  <2> QED BY <1>5, <1>10, <2>1, <2>2, <2>3
<1> QED BY <1>6, <1>7, <1>10, <1>11

\* A scan of the chain of leaves meets every key a search finds, once and in
\* order, and nothing else (split_leaf_page's and merge_leaf_pages's links).
THEOREM ScansAgree == ~InternalSplits => (Spec => []ScanAgrees)
<1>1. Inv => ScanAgrees
  <2> SUFFICES ASSUME Inv PROVE ScanAgrees
    OBVIOUS
  <2> DEFINE chain == Chain(tree)
             KeysAt(i) == DOMAIN tree.node[chain[i]].cells
  <2>1. Shape(tree)
    BY DEF Inv
  <2>2. /\ \A h \in Idx(tree) : Rank(tree, h) \in DOMAIN chain /\ chain[Rank(tree, h)] = Kid(tree, h)
        /\ \A i \in DOMAIN chain : \E h \in Idx(tree) : Rank(tree, h) = i
    BY <2>1, ScanIs
  <2> HIDE DEF chain
  <2>3. \A i \in DOMAIN chain : \E h \in Idx(tree) : Rank(tree, h) = i /\ KeysAt(i) = DOMAIN At(tree, h).cells
    BY <2>2 DEF At
  <2>4. \A h \in Idx(tree) : KeysAt(Rank(tree, h)) = DOMAIN At(tree, h).cells
    BY <2>2 DEF At
  <2>5. \A h \in Idx(tree) : /\ DOMAIN At(tree, h).cells \subseteq Keys
                             /\ \A k \in DOMAIN At(tree, h).cells : At(tree, h).cells[k] \in Values
    BY <2>1 DEF Shape, Leaves, NodeOK, At
  <2> HIDE DEF KeysAt
  <2>6. ASSUME NEW k \in Keys
        PROVE  Found[k] # NoValue <=> \E h \in Idx(tree) : k \in DOMAIN At(tree, h).cells
    <3>1. Found[k] = Search(tree, k)
      BY DEF Found
    <3>2. Found[k] # NoValue <=> \E w \in Values : Holds(tree, k, w)
      BY <2>1, <3>1, Searching, Basics
    <3> QED BY <2>5, <3>2 DEF Holds
  <2>7. {k \in Keys : Found[k] # NoValue} = UNION {KeysAt(i) : i \in DOMAIN chain}
    <3>1. ASSUME NEW k \in Keys, Found[k] # NoValue PROVE \E i \in DOMAIN chain : k \in KeysAt(i)
      BY <2>2, <2>4, <2>6, <3>1
    <3>2. ASSUME NEW i \in DOMAIN chain, NEW k \in KeysAt(i) PROVE k \in Keys /\ Found[k] # NoValue
      BY <2>3, <2>5, <2>6
    <3> QED BY <3>1, <3>2
  <2>8. ASSUME NEW i \in DOMAIN chain, NEW j \in DOMAIN chain, i < j,
               NEW a \in KeysAt(i), NEW b \in KeysAt(j)
        PROVE  a < b
    <3>1. PICK h \in Idx(tree) : Rank(tree, h) = i /\ KeysAt(i) = DOMAIN At(tree, h).cells
      BY <2>3
    <3>2. PICK m \in Idx(tree) : Rank(tree, m) = j /\ KeysAt(j) = DOMAIN At(tree, m).cells
      BY <2>3
    <3>3. h \in Int /\ m \in Int /\ i \in Nat /\ j \in Nat
      BY <2>1, <3>1, <3>2, IdxFacts, Ranks
    <3>4. h < m
      <4>1. ~(m < h) /\ m # h
        <5>1. m < h => Rank(tree, m) < Rank(tree, h)
          BY <2>1, Ranks
        <5> QED BY <2>8, <3>1, <3>2, <3>3, <5>1
      <4> QED BY <3>3, <4>1
    <3>5. a < m /\ m <= b
      BY <2>1, <3>1, <3>2, <3>4 DEF Shape, Sorted
    <3>6. a \in Nat /\ b \in Nat
      BY <2>5, <3>1, <3>2, Basics
    <3> QED BY <3>3, <3>5, <3>6
  <2> QED BY <2>7, <2>8 DEF ScanAgrees, chain, KeysAt
<1> QED BY <1>1, TreeInvariant, PTL

\* A delete always finds the leaf in its parent: find_leaf_siblings's
\* assert(false && "Leaf page not found in parent") cannot fail.
THEOREM LeafFoundInParent ==
    ~InternalSplits => (Spec => [][\A k \in Keys : Delete(k) => UNCHANGED aborted]_vars)
<1> SUFFICES ASSUME ~InternalSplits
             PROVE  Spec => [][\A k \in Keys : Delete(k) => UNCHANGED aborted]_vars
  OBVIOUS
<1>1. Inv => \A k \in Keys : Delete(k) => UNCHANGED aborted
  <2> SUFFICES ASSUME Inv, NEW k \in Keys, Delete(k) PROVE aborted' = aborted
    OBVIOUS
  <2> DEFINE p == FindLeaf(tree, k)
             s == Recelled(tree, p, Without(tree.node[p].cells, k))
  <2>1. \/ aborted' = aborted
        \/ /\ Search(tree, k) # NoValue /\ s.node[p].parent # NoPage
           /\ ~IsLeftmost(s, p) /\ SeparatorsOf(s, p) = {}
    BY DEF Delete, Recelled, Refuse
  <2>2. ASSUME Search(tree, k) # NoValue, s.node[p].parent # NoPage, ~IsLeftmost(s, p),
               SeparatorsOf(s, p) = {}
        PROVE  FALSE
    <3>1. PICK i : /\ i \in Idx(s) /\ p = Kid(s, i) /\ Shape(s) /\ Inner(s)
      BY <2>2, CutOne DEF Inv
    <3> HIDE DEF s, p
    <3>2. (IsLeftmost(s, p) <=> i = -1) /\ (i # -1 => SeparatorsOf(s, p) = {i})
      BY <3>1, Siblings
    <3> QED BY <2>2, <3>2
  <2> QED BY <2>1, <2>2
<1>2. Spec => []Inv
  BY TreeInvariant
<1> QED BY <1>1, <1>2, PTL DEF Spec

\* No assert of btree_insert or btree_delete fails, as long as no page full of
\* holes with one record is split: a delete finds its leaf in the parent, a split
\* leaves records on both sides.
THEOREM NoAssertFails == ~InternalSplits /\ ~Holes => (Spec => []AssertsHold)
<1> SUFFICES ASSUME ~InternalSplits, ~Holes PROVE Spec => []AssertsHold
  OBVIOUS
<1>1. Init => AssertsHold
  BY DEF Init, AssertsHold
<1>2. Inv /\ AssertsHold /\ [Next]_vars /\ [\A k \in Keys : Delete(k) => UNCHANGED aborted]_vars
        => AssertsHold'
  <2> SUFFICES ASSUME Inv, AssertsHold, [Next]_vars,
                      [\A k \in Keys : Delete(k) => UNCHANGED aborted]_vars
               PROVE  aborted' = aborted
    BY DEF AssertsHold
  <2>1. ASSUME NEW k \in Keys, Delete(k) PROVE aborted' = aborted
    BY <2>1 DEF vars
  <2>2. ASSUME NEW k \in Keys, NEW v \in Values, Insert(k, v) PROVE aborted' = aborted
    <3> DEFINE l == FindLeaf(tree, k)
               n == tree.node[l]
    <3>1. ASSUME l # NoPage, n.used >= LeafCap, Explored(tree, l), Size(n) < 2 \/ ParentFull(tree, l, NextSep(n))
          PROVE  FALSE
      <4>1. PICK i : n = At(tree, i) /\ Home(tree, k, i)
        BY <3>1, FoundLeaf DEF Inv
      <4>2. NodeOK(n)
        BY <4>1 DEF Home, Inv, Shape, Leaves, At
      <4>3. Size(n) \in Nat
        BY <4>2, Basics DEF NodeOK, Size
      <4>4. ~(Size(n) < 2)
        BY <3>1 DEF Explored
      <4>5. Size(n) > 1
        BY <4>3, <4>4
      <4> QED BY <3>1, <4>4, <4>5 DEF Explored
    <3> HIDE DEF l, n
    <3> QED BY <2>2, <3>1 DEF Insert, Refuse, l, n
  <2> QED BY <2>1, <2>2 DEF Next, vars
<1>3. Spec => []Inv
  BY TreeInvariant
<1>4. Spec => [][\A k \in Keys : Delete(k) => UNCHANGED aborted]_vars
  BY LeafFoundInParent
<1> QED BY <1>1, <1>2, <1>3, <1>4, PTL DEF Spec
=============================================================================
