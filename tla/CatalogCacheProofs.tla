------------------------- MODULE CatalogCacheProofs -------------------------
(***************************************************************************)
(* The catalog cache, for every number of slots, databases, tables and     *)
(* columns: its slots never mix tables up, a page that is not dirty is     *)
(* what its file holds, and no caller can tell the cache from a catalog    *)
(* without one (CatalogStore).                                             *)
(*                                                                         *)
(* The private functions of CatalogManager work on states [file, index,    *)
(* pages, dirty, order].  Good is what holds of such a state between any   *)
(* two of them, and Quiet what a step that no caller may notice leaves     *)
(* alone; the actions are put together from lemmas on the two.             *)
(***************************************************************************)
EXTENDS CatalogCache, FiniteSetTheorems, NaturalsInduction, TLAPS

-----------------------------------------------------------------------------
(* The invariant, of any state of the cache                                *)

States == [file  : [Tables -> TablePages \cup {None}],
           index : [Slots -> Entries \cup {None}],
           pages : [Slots -> TablePages \cup {Blank}],
           dirty : SUBSET (Slots \X Parts),
           order : Seq(Slots)]

Used(st) == {i \in Slots : st.index[i] # None}

\* a slot in use caches another table of database d, whose file exists, in a
\* pool slot of its own, with its schema
Slotted(st, d) ==
    /\ \A i \in Used(st) : /\ st.index[i].table[1] = d
                           /\ st.file[st.index[i].table] # None
                           /\ st.pages[st.index[i].pool] \in TablePages
                           /\ st.pages[st.index[i].pool].body # None
    /\ \A i, j \in Used(st) : i # j => /\ st.index[i].pool # st.index[j].pool
                                       /\ st.index[i].table # st.index[j].table

Distinct(s) == \A k, l \in DOMAIN s : s[k] = s[l] => k = l
Members(s) == {s[k] : k \in DOMAIN s}

Ordered(st) == Members(st.order) = Used(st) /\ Distinct(st.order)

\* only pages of slots in use are dirty, and the clean ones equal the file
Agree(st) == /\ \A x \in st.dirty : InUse(st, x[1])
             /\ \A i \in Used(st), p \in Parts :
                   <<st.index[i].pool, p>> \notin st.dirty =>
                      st.pages[st.index[i].pool][p] = st.file[st.index[i].table][p]

Good(st, d) == st \in States /\ Slotted(st, d) /\ Ordered(st) /\ Agree(st)

IInv == /\ dirs \subseteq Dbs
        /\ cur \in Dbs \cup {None}
        /\ Good(Now, cur)

-----------------------------------------------------------------------------
(* Sets of numbers, and the list of slots                                  *)

\* A set of numbers has a first element.
LEMMA LeastElement ==
    ASSUME NEW T, T \subseteq Nat, T # {}
    PROVE  \E x \in T : \A y \in T : x <= y
<1>1. \E x \in T : \A y \in T : ~(<<y, x>> \in OpToRel(<, Nat))
  BY NatLessThanWellFounded, WFMin
<1>2. \A x, y \in T : y < x => <<y, x>> \in OpToRel(<, Nat)
  BY DEF OpToRel
<1>3. \A x, y \in T : ~(y < x) => x <= y
  OBVIOUS
<1> QED BY <1>1, <1>2, <1>3

\* First finds it.
LEMMA FirstIn ==
    ASSUME NEW S, S \subseteq Slots, S # {}
    PROVE  First(S) \in S
<1>1. S \subseteq Nat
  BY SlotAssumption DEF Slots
<1> QED BY <1>1, LeastElement DEF First

LEMMA FirstOfOne ==
    ASSUME NEW i \in Slots
    PROVE  First({i}) = i
  BY FirstIn

\* With a slot of the index free, a slot of the pool is free: each slot in use
\* owns one of them.
LEMMA PoolFree ==
    ASSUME NEW st, NEW d, Good(st, d), NEW i \in Slots, st.index[i] = None
    PROVE  {p \in Slots : ~InUse(st, p)} # {}
<1> SUFFICES ASSUME \A p \in Slots : InUse(st, p)
             PROVE  FALSE
  OBVIOUS
<1> DEFINE U == Slots \ {i}
           owner == [p \in Slots |-> CHOOSE j \in U : st.index[j] # None /\ st.index[j].pool = p]
<1>1. \A p \in Slots : owner[p] \in U /\ st.index[owner[p]].pool = p
  BY DEF InUse
<1>2. IsFiniteSet(Slots) /\ Cardinality(Slots) = NSlots
  BY FS_Interval, SlotAssumption DEF Slots
<1>3. IsFiniteSet(U) /\ Cardinality(U) = NSlots - 1
  BY <1>2, FS_RemoveElement
<1>4. owner \in [Slots -> U]
  BY <1>1
<1> HIDE DEF owner, U
<1>5. NSlots - 1 < NSlots
  BY SlotAssumption
<1>6. \E p, q \in Slots : p # q /\ owner[p] = owner[q]
  BY <1>2, <1>3, <1>4, <1>5, FS_PigeonHole
<1> QED BY <1>1, <1>6

\* Without drops one slot of the list and keeps the rest in order.
LEMMA WithoutList ==
    ASSUME NEW s \in Seq(Slots), Distinct(s), NEW i \in Slots
    PROVE  /\ Without(s, i) \in Seq(Slots)
           /\ Distinct(Without(s, i))
           /\ Members(Without(s, i)) = Members(s) \ {i}
<1>1. CASE \A k \in DOMAIN s : s[k] # i
  BY <1>1 DEF Without, Members
<1>2. CASE ~ \A k \in DOMAIN s : s[k] # i
  <2> DEFINE n == Len(s)
             m == Place(s, i)
             t == [k \in 1..(n - 1) |-> IF k < m THEN s[k] ELSE s[k + 1]]
  <2>1. n \in Nat /\ DOMAIN s = 1..n /\ \A k \in 1..n : s[k] \in Slots
    OBVIOUS
  <2>2. m \in 1..n /\ s[m] = i
    BY <1>2, <2>1 DEF Place
  <2>3. Without(s, i) = t
    BY <1>2 DEF Without
  <2> HIDE DEF m
  <2>4. \A k \in 1..(n - 1) : t[k] \in Slots
    BY <2>1, <2>2
  <2>5. t \in Seq(Slots) /\ DOMAIN t = 1..(n - 1)
    BY <2>1, <2>2, <2>4
  <2>6. Distinct(t)
    BY <2>1, <2>2, <2>5, SMTT(40) DEF Distinct
  <2>7. \A k \in 1..(n - 1) : t[k] \in Members(s) /\ t[k] # i
    BY <2>1, <2>2 DEF Distinct, Members
  <2>8. ASSUME NEW x \in Members(s), x # i
        PROVE  \E k \in 1..(n - 1) : t[k] = x
    <3>1. PICK k \in 1..n : s[k] = x
      BY <2>1, <2>8 DEF Members
    <3>2. k # m
      BY <2>2, <2>8, <3>1
    <3>3. CASE k < m
      BY <2>1, <2>2, <3>1, <3>3
    <3>4. CASE k > m
      <4>1. k - 1 \in 1..(n - 1) /\ ~(k - 1 < m) /\ (k - 1) + 1 = k
        BY <2>1, <2>2, <3>1, <3>4
      <4> QED BY <3>1, <4>1
    <3> QED BY <2>1, <2>2, <3>1, <3>2, <3>3, <3>4
  <2> HIDE DEF t
  <2>9. Members(t) = Members(s) \ {i}
    BY <2>5, <2>7, <2>8 DEF Members
  <2> QED BY <2>3, <2>5, <2>6, <2>9
<1> QED BY <1>1, <1>2

\* Appending a slot the list does not hold.
LEMMA AppendList ==
    ASSUME NEW s \in Seq(Slots), Distinct(s), NEW i \in Slots, i \notin Members(s)
    PROVE  /\ Append(s, i) \in Seq(Slots)
           /\ Distinct(Append(s, i))
           /\ Members(Append(s, i)) = Members(s) \cup {i}
<1> DEFINE n == Len(s)
           t == Append(s, i)
<1>1. n \in Nat /\ DOMAIN s = 1..n
  OBVIOUS
<1>2. t \in Seq(Slots) /\ DOMAIN t = 1..(n + 1) /\ t[n + 1] = i /\ \A k \in 1..n : t[k] = s[k]
  OBVIOUS
<1> HIDE DEF t
<1>3. \A k \in 1..n : s[k] # i
  BY <1>1 DEF Members
<1>4. \A k \in 1..(n + 1) : k \in 1..n \/ k = n + 1
  BY <1>1
<1>5. Distinct(t)
  BY <1>1, <1>2, <1>3, <1>4 DEF Distinct
<1>6. Members(t) = Members(s) \cup {i}
  BY <1>1, <1>2, <1>4 DEF Members
<1> QED BY <1>2, <1>5, <1>6 DEF t

-----------------------------------------------------------------------------
(* Steps no caller notices                                                 *)

\* the files take pages of the catalog, and nothing else
FileTakes(f, g, m) ==
    \A t \in Tables : \/ g[t] = f[t]
                      \/ /\ f[t] # None /\ g[t] # None
                         /\ \A p \in Parts : g[t][p] \in {f[t][p], m[t][p]}

Quiet(st, s2) == Meta(s2) = Meta(st) /\ FileTakes(st.file, s2.file, Meta(st))

LEMMA QuietTwice ==
    ASSUME NEW r, NEW s, NEW u, Quiet(r, s), Quiet(s, u)
    PROVE  Quiet(r, u)
<1> DEFINE f == r.file
           g == s.file
           h == u.file
           m == Meta(r)
<1>1. FileTakes(f, g, m) /\ FileTakes(g, h, m)
  BY DEF Quiet
<1> HIDE DEF f, g, h, m
<1>2. FileTakes(f, h, m)
  BY <1>1 DEF FileTakes
<1> QED BY <1>2 DEF Quiet, f, h, m

LEMMA QuietSame ==
    ASSUME NEW r, NEW s, s.file = r.file, s.pages = r.pages, s.index = r.index
    PROVE  Quiet(r, s)
  BY DEF Quiet, Meta, FileTakes, CachedIn

\* A table of the current database is cached in one slot at most, and found
\* there by its name.
LEMMA CachedOnce ==
    ASSUME NEW st, NEW d, Good(st, d), NEW i \in Used(st)
    PROVE  /\ st.index[i] \in Entries
           /\ CachedIn(st, st.index[i].table) = {i}
           /\ FindSlot(st, st.index[i].table[2]) = {i}
           /\ Meta(st)[st.index[i].table] = st.pages[st.index[i].pool]
<1>1. st.index[i] \in Entries /\ i \in Slots
  BY DEF Good, States, Used
<1>2. \A j \in Used(st) : st.index[j] \in Entries /\ st.index[j].table[1] = d
  BY DEF Good, States, Used, Slotted
<1>3. \A j \in Used(st) : st.index[j].table = st.index[i].table => j = i
  BY DEF Good, Slotted
<1>4. CachedIn(st, st.index[i].table) = {i}
  BY <1>1, <1>3 DEF CachedIn, Used
<1>5. \A j \in Used(st) : st.index[j].table[2] = st.index[i].table[2] => j = i
  BY <1>1, <1>2, <1>3 DEF Entries, Tables
<1>6. FindSlot(st, st.index[i].table[2]) = {i}
  BY <1>1, <1>5 DEF FindSlot, Used
<1>7. st.index[i].table \in Tables
  BY <1>1 DEF Entries
<1> QED BY <1>1, <1>4, <1>6, <1>7, FirstOfOne DEF Meta

LEMMA NotCached ==
    ASSUME NEW st, NEW t \in Tables, \A i \in Used(st) : st.index[i].table # t
    PROVE  Meta(st)[t] = st.file[t]
<1>1. CachedIn(st, t) = {}
  BY DEF CachedIn, Used
<1> QED BY <1>1 DEF Meta

\* A slot found by the name of a table of the current database caches it.
LEMMA FoundSlot ==
    ASSUME NEW st, NEW d, Good(st, d), NEW t \in Tables, t[1] = d
    PROVE  /\ \A i \in FindSlot(st, t[2]) : i \in Used(st) /\ st.index[i].table = t
           /\ FindSlot(st, t[2]) = {} => \A i \in Used(st) : st.index[i].table # t
           /\ FindSlot(st, t[2]) # {} => /\ First(FindSlot(st, t[2])) \in Used(st)
                                         /\ st.index[First(FindSlot(st, t[2]))].table = t
<1>1. ASSUME NEW i \in FindSlot(st, t[2])
      PROVE  i \in Used(st) /\ st.index[i].table = t
  <2>1. i \in Used(st) /\ st.index[i].table[2] = t[2] /\ st.index[i].table[1] = d
    BY DEF FindSlot, Used, Good, Slotted
  <2>2. st.index[i].table \in Tables
    BY <2>1 DEF Good, States, Used, Entries
  <2> QED BY <2>1, <2>2 DEF Tables
<1>2. FindSlot(st, t[2]) \subseteq Slots
  BY DEF FindSlot
<1>3. FindSlot(st, t[2]) # {} => First(FindSlot(st, t[2])) \in FindSlot(st, t[2])
  BY <1>2, FirstIn
<1>4. FindSlot(st, t[2]) = {} => \A i \in Used(st) : st.index[i].table # t
  BY DEF FindSlot, Used
<1> QED BY <1>1, <1>3, <1>4

\* Using a slot only moves it to the end of the order.
LEMMA TouchStep ==
    ASSUME NEW st, NEW d, Good(st, d), NEW i \in Used(st)
    PROVE  /\ Good(Touch(st, i), d) /\ Quiet(st, Touch(st, i))
           /\ Touch(st, i).index = st.index /\ Touch(st, i).pages = st.pages
           /\ Touch(st, i).dirty = st.dirty /\ Touch(st, i).file = st.file
<1> DEFINE u == Touch(st, i)
           s == st.order
<1>1. st \in States /\ i \in Slots
  BY DEF Good, Used
<1>2. /\ u.index = st.index /\ u.pages = st.pages /\ u.dirty = st.dirty /\ u.file = st.file
      /\ u.order = Append(Without(s, i), i)
  BY <1>1 DEF Touch, States
<1>3. s \in Seq(Slots) /\ Distinct(s) /\ Members(s) = Used(st)
  BY <1>1 DEF States, Good, Ordered
<1>4. /\ Without(s, i) \in Seq(Slots) /\ Distinct(Without(s, i))
      /\ Members(Without(s, i)) = Used(st) \ {i}
  BY <1>1, <1>3, WithoutList
<1>5. /\ u.order \in Seq(Slots) /\ Distinct(u.order)
      /\ Members(u.order) = Used(st)
  <2> DEFINE w == Without(s, i)
  <2> HIDE DEF w
  <2>1. w \in Seq(Slots) /\ Distinct(w) /\ Members(w) = Used(st) \ {i} /\ u.order = Append(w, i)
    BY <1>2, <1>4 DEF w
  <2>2. i \notin Members(w)
    BY <2>1
  <2>3. /\ Append(w, i) \in Seq(Slots) /\ Distinct(Append(w, i))
        /\ Members(Append(w, i)) = Members(w) \cup {i}
    BY <1>1, <2>1, <2>2, AppendList
  <2> QED BY <2>1, <2>3
<1>6. u \in States
  BY <1>1, <1>5 DEF Touch, States
<1>7. Used(u) = Used(st)
  BY <1>2 DEF Used
<1> HIDE DEF u, s
<1>8. Good(u, d)
  BY <1>2, <1>5, <1>6, <1>7 DEF Good, Slotted, Ordered, Agree, InUse
<1> QED BY <1>2, <1>8, QuietSame DEF u

\* A page of a table, and a pair of pages that is a table's.
LEMMA PagesOfTable ==
    /\ \A q \in TablePages : q # None /\ q \in [Parts -> UNION {[Counters -> Nat], Schemas \cup {None}}]
    /\ \A q \in TablePages : q.head \in [Counters -> Nat] /\ q.body \in Schemas \cup {None}
    /\ \A q, r \in TablePages : (\A p \in Parts : q[p] = r[p]) => q = r
<1>1. \A q \in TablePages : q # None
  BY NoneAssumption
<1> QED BY <1>1 DEF TablePages, Parts

LEMMA MixedPages ==
    ASSUME NEW q \in TablePages, NEW r \in TablePages, NEW W
    PROVE  [p \in Parts |-> IF p \in W THEN q[p] ELSE r[p]] \in TablePages
  BY DEF TablePages, Parts

\* A slot in use owns its pool slot alone.
LEMMA OwnedPool ==
    ASSUME NEW st, NEW d, Good(st, d), NEW i \in Used(st)
    PROVE  /\ InUse(st, st.index[i].pool) /\ st.index[i].pool \in Slots
           /\ OwnerOf(st, st.index[i].pool) = st.index[i].table
           /\ PoolsOf(st, st.index[i].table) = {st.index[i].pool}
<1>1. \A j \in Used(st) : j \in Slots /\ st.index[j] \in Entries
  BY DEF Good, States, Used
<1>2. \A j, k \in Used(st) : j # k => /\ st.index[j].pool # st.index[k].pool
                                      /\ st.index[j].table # st.index[k].table
  BY DEF Good, Slotted
<1>3. ASSUME NEW j \in Used(st)
      PROVE  InUse(st, st.index[j].pool) /\ OwnerOf(st, st.index[j].pool) = st.index[j].table
  <2> DEFINE Q(k) == st.index[k] # None /\ st.index[k].pool = st.index[j].pool
  <2>1. j \in Slots /\ Q(j)
    BY <1>1 DEF Used
  <2>2. \A k \in Slots : Q(k) => k = j
    BY <1>2 DEF Used
  <2>3. (CHOOSE k \in Slots : Q(k)) = j
    BY <2>1, <2>2
  <2> QED BY <2>1, <2>3 DEF InUse, OwnerOf
<1>4. \A p \in Slots : InUse(st, p) => \E j \in Used(st) : st.index[j].pool = p
  BY DEF InUse, Used
<1>5. st.index[i].pool \in Slots
  BY <1>1 DEF Entries
<1>6. PoolsOf(st, st.index[i].table) = {st.index[i].pool}
  BY <1>2, <1>3, <1>4, <1>5 DEF PoolsOf
<1> QED BY <1>3, <1>5, <1>6

LEMMA UnownedPool ==
    ASSUME NEW st, NEW d, Good(st, d), NEW t, \A i \in Used(st) : st.index[i].table # t
    PROVE  PoolsOf(st, t) = {}
<1>1. \A p \in Slots : InUse(st, p) => \E j \in Used(st) : st.index[j].pool = p
  BY DEF InUse, Used
<1> QED BY <1>1, OwnedPool DEF PoolsOf

\* Writing dirty pages out: the files take them, and they are dirty no more.
LEMMA WrittenStep ==
    ASSUME NEW st, NEW d, Good(st, d), NEW W, W \subseteq st.dirty
    PROVE  /\ Good(Written(st, W), d) /\ Quiet(st, Written(st, W))
           /\ Written(st, W).index = st.index /\ Written(st, W).pages = st.pages
           /\ Written(st, W).order = st.order /\ Written(st, W).dirty = st.dirty \ W
<1> DEFINE u == Written(st, W)
           pool(i) == st.index[i].pool
           new(i) == [p \in Parts |-> IF <<pool(i), p>> \in W THEN st.pages[pool(i)][p]
                                      ELSE st.file[st.index[i].table][p]]
<1>1. st \in States
  BY DEF Good
<1>2. /\ u.index = st.index /\ u.pages = st.pages /\ u.order = st.order
      /\ u.dirty = st.dirty \ W
  BY <1>1 DEF Written, States
<1>3. u.file = [t \in Tables |->
                  IF PoolsOf(st, t) = {} THEN st.file[t]
                  ELSE [part \in Parts |-> IF <<First(PoolsOf(st, t)), part>> \in W
                                            THEN st.pages[First(PoolsOf(st, t))][part]
                                            ELSE st.file[t][part]]]
  BY <1>1 DEF Written, States
<1>4. \A i \in Used(st) : st.index[i].table \in Tables /\ pool(i) \in Slots
  BY <1>1, SMTT(40) DEF Used, States, Entries
<1>5. ASSUME NEW i \in Used(st)
      PROVE  u.file[st.index[i].table] = new(i)
  <2>1. PoolsOf(st, st.index[i].table) = {pool(i)} /\ First({pool(i)}) = pool(i)
    BY <1>4, <1>5, OwnedPool, FirstOfOne
  <2> DEFINE t == st.index[i].table
             S == PoolsOf(st, t)
             q == pool(i)
  <2>2. t \in Tables /\ S # {} /\ First(S) = q
    BY <1>4, <2>1
  <2> HIDE DEF S, q, t
  <2>3. u.file[t] = [part \in Parts |-> IF <<q, part>> \in W THEN st.pages[q][part]
                                        ELSE st.file[t][part]]
    <3>1. u.file[t] = [part \in Parts |-> IF <<First(S), part>> \in W
                                          THEN st.pages[First(S)][part]
                                          ELSE st.file[t][part]]
      BY <1>3, <2>2 DEF S
    <3> QED BY <2>2, <3>1
  <2> QED BY <2>3 DEF q, t
<1>6. \A t \in Tables : (\A i \in Used(st) : st.index[i].table # t) => u.file[t] = st.file[t]
  BY <1>3, UnownedPool, SMTT(40)
<1>7. ASSUME NEW i \in Used(st)
      PROVE  /\ st.pages[pool(i)] \in TablePages
             /\ st.file[st.index[i].table] \in TablePages
             /\ new(i) \in TablePages
  <2>1. st.pages[pool(i)] \in TablePages /\ st.file[st.index[i].table] # None
    BY DEF Good, Slotted
  <2>2. st.file[st.index[i].table] \in TablePages
    BY <1>1, <1>4, <2>1, SMTT(40) DEF States
  <2> DEFINE V == {p \in Parts : <<pool(i), p>> \in W}
             q == st.pages[pool(i)]
             f == st.file[st.index[i].table]
  <2> HIDE DEF q, f
  <2>3. [p \in Parts |-> IF p \in V THEN q[p] ELSE f[p]] \in TablePages
    BY <2>1, <2>2, MixedPages DEF q, f
  <2>4. new(i) = [p \in Parts |-> IF p \in V THEN q[p] ELSE f[p]]
    BY DEF q, f
  <2> QED BY <2>1, <2>2, <2>3, <2>4
<1> HIDE DEF u
<1>8. \A t \in Tables : \/ u.file[t] = st.file[t]
                        \/ \E i \in Used(st) : st.index[i].table = t /\ u.file[t] = new(i)
  BY <1>5, <1>6
<1>9. u.file \in [Tables -> TablePages \cup {None}]
  <2>1. \A t \in Tables : u.file[t] \in TablePages \cup {None}
    BY <1>1, <1>7, <1>8, ZenonT(60) DEF States
  <2>2. u.file = [t \in Tables |-> u.file[t]]
    BY <1>3
  <2> QED BY <2>1, <2>2
<1>10. u \in States
  BY <1>1, <1>9 DEF Written, States, u
<1>11. Used(u) = Used(st)
  BY <1>2 DEF Used
<1>12. Slotted(u, d) /\ Ordered(u)
  <2>1. \A i \in Used(st) : u.file[st.index[i].table] # None
    BY <1>5, <1>7, PagesOfTable
  <2> QED BY <1>2, <1>11, <2>1 DEF Good, Slotted, Ordered
<1>13. Agree(u)
  <2>1. \A x \in u.dirty : InUse(u, x[1])
    BY <1>2 DEF Good, Agree, InUse
  <2>2. ASSUME NEW i \in Used(u), NEW p \in Parts, <<u.index[i].pool, p>> \notin u.dirty
        PROVE  u.pages[u.index[i].pool][p] = u.file[u.index[i].table][p]
    <3>1. i \in Used(st) /\ u.file[u.index[i].table][p] = new(i)[p]
      BY <1>2, <1>5, <1>11
    <3>2. CASE <<pool(i), p>> \in W
      BY <1>2, <3>1, <3>2
    <3>3. CASE <<pool(i), p>> \notin W
      <4>1. <<pool(i), p>> \notin st.dirty
        BY <1>2, <2>2, <3>3, SMTT(40)
      <4>2. st.pages[pool(i)][p] = st.file[st.index[i].table][p]
        BY <3>1, <4>1 DEF Good, Agree
      <4> QED BY <1>2, <3>1, <3>3, <4>2
    <3> QED BY <3>2, <3>3
  <2> QED BY <2>1, <2>2 DEF Agree
<1>14. Good(u, d)
  BY <1>10, <1>12, <1>13 DEF Good
<1>15. Meta(u) = Meta(st)
  <2>1. \A t \in Tables : CachedIn(u, t) = CachedIn(st, t)
    BY <1>2 DEF CachedIn
  <2>2. \A t \in Tables : CachedIn(st, t) = {} => u.file[t] = st.file[t]
    BY <1>6 DEF CachedIn, Used
  <2> QED BY <1>2, <2>1, <2>2 DEF Meta
<1>16. FileTakes(st.file, u.file, Meta(st))
  <2>1. ASSUME NEW i \in Used(st)
        PROVE  LET t == st.index[i].table
               IN  /\ st.file[t] # None /\ u.file[t] # None
                   /\ \A p \in Parts : u.file[t][p] \in {st.file[t][p], Meta(st)[t][p]}
    <3>1. Meta(st)[st.index[i].table] = st.pages[pool(i)]
      BY CachedOnce
    <3>2. st.file[st.index[i].table] # None /\ new(i) # None
      BY <1>7, PagesOfTable
    <3>3. \A p \in Parts : new(i)[p] \in {st.file[st.index[i].table][p], st.pages[pool(i)][p]}
      OBVIOUS
    <3> QED BY <1>5, <3>1, <3>2, <3>3
  <2> QED BY <1>6, <2>1, SMTT(40) DEF FileTakes
<1> QED BY <1>2, <1>14, <1>15, <1>16 DEF Quiet, u

\* A write of dirty pages that may stop half way.
LEMMA WriteStep ==
    ASSUME NEW st, NEW d, Good(st, d), NEW D, D \subseteq st.dirty, NEW w \in Write(st, D)
    PROVE  /\ Good(w.st, d) /\ Quiet(st, w.st)
           /\ w.st.index = st.index /\ w.st.pages = st.pages /\ w.st.order = st.order
           /\ w.ok => w.st.dirty = st.dirty \ D
<1>1. PICK W : /\ W \subseteq D
               /\ w = IF W = {} THEN Done(st, D = {}) ELSE Done(Written(st, W), W = D)
  <2> DEFINE after(k) == {x \in D : Rank(x) <= k}
             done(V) == IF V = {} THEN Done(st, D = {}) ELSE Done(Written(st, V), V = D)
  <2>1. \E k \in {0} \cup {Rank(x) : x \in D} : w = done(after(k))
    BY DEF Write
  <2>2. \A k : after(k) \subseteq D
    OBVIOUS
  <2> QED BY <2>1, <2>2
<1>2. CASE W = {}
  <2>1. w.st = st /\ w.ok = (D = {})
    BY <1>1, <1>2 DEF Done
  <2>2. Quiet(st, st)
    BY QuietSame
  <2> QED BY <2>1, <2>2
<1>3. CASE W # {}
  <2>1. w.st = Written(st, W) /\ w.ok = (W = D)
    BY <1>1, <1>3 DEF Done
  <2>2. /\ Good(w.st, d) /\ Quiet(st, w.st)
        /\ w.st.index = st.index /\ w.st.pages = st.pages
        /\ w.st.order = st.order /\ w.st.dirty = st.dirty \ W
    <3>1. W \subseteq st.dirty
      BY <1>1
    <3> QED BY <2>1, <3>1, WrittenStep
  <2> QED BY <2>1, <2>2
<1> QED BY <1>2, <1>3

\* Giving up a slot none of whose pages is dirty.
LEMMA InvalidateStep ==
    ASSUME NEW st, NEW d, Good(st, d), NEW i \in Used(st), DirtyOf(st, st.index[i].pool) = {}
    PROVE  /\ Good(Invalidate(st, i), d) /\ Quiet(st, Invalidate(st, i))
           /\ Invalidate(st, i).index = [st.index EXCEPT ![i] = None]
           /\ Invalidate(st, i).file = st.file
<1> DEFINE u == Invalidate(st, i)
           p == st.index[i].pool
<1>1. st \in States /\ i \in Slots /\ p \in Slots
  BY OwnedPool DEF Good, Used
<1>2. /\ u.index = [st.index EXCEPT ![i] = None] /\ u.pages = [st.pages EXCEPT ![p] = Blank]
      /\ u.file = st.file /\ u.dirty = st.dirty /\ u.order = Without(st.order, i)
  BY <1>1 DEF Invalidate, States
<1>3. /\ Without(st.order, i) \in Seq(Slots) /\ Distinct(Without(st.order, i))
      /\ Members(Without(st.order, i)) = Used(st) \ {i}
  BY <1>1, WithoutList DEF Good, Ordered, States
<1>4. u \in States
  BY <1>1, <1>2, <1>3 DEF States, Invalidate
<1>5. Used(u) = Used(st) \ {i}
  BY <1>1, <1>2 DEF Used, States
<1>6. \A x \in st.dirty : x \in Slots \X Parts /\ x[1] # p
  BY <1>1 DEF DirtyOf, States
<1> HIDE DEF u
<1>7. \A j \in Used(u) : /\ j \in Used(st) /\ u.index[j] = st.index[j]
                         /\ st.index[j].pool # p
                         /\ u.pages[u.index[j].pool] = st.pages[st.index[j].pool]
  <2>1. \A j \in Used(u) : j \in Used(st) /\ j # i /\ u.index[j] = st.index[j]
    BY <1>1, <1>2, <1>5 DEF Used, States
  <2>2. \A j \in Used(u) : st.index[j].pool # p
    BY <2>1 DEF Good, Slotted
  <2>3. \A j \in Used(u) : st.index[j].pool \in Slots
    BY <2>1, OwnedPool
  <2> HIDE DEF p
  <2> QED BY <1>1, <1>2, <2>1, <2>2, <2>3 DEF States
<1>8. Slotted(u, d) /\ Ordered(u)
  <2>1. Ordered(u)
    BY <1>2, <1>3, <1>5 DEF Ordered
  <2>2. Slotted(u, d)
    BY <1>2, <1>7 DEF Good, Slotted
  <2> QED BY <2>1, <2>2
<1>9. Agree(u)
  <2>1. ASSUME NEW x \in u.dirty
        PROVE  InUse(u, x[1])
    <3>1. InUse(st, x[1])
      BY <1>2 DEF Good, Agree
    <3>2. PICK j \in Used(st) : st.index[j].pool = x[1]
      BY <3>1 DEF InUse, Used
    <3>3. j # i
      BY <1>2, <1>6, <3>2
    <3>4. j \in Used(u) /\ u.index[j] = st.index[j]
      BY <1>5, <1>7, <3>2, <3>3
    <3> QED BY <3>2, <3>4 DEF InUse, Used
  <2>2. \A j \in Used(u), q \in Parts :
           <<u.index[j].pool, q>> \notin u.dirty =>
              u.pages[u.index[j].pool][q] = u.file[u.index[j].table][q]
    BY <1>2, <1>7, SMTT(40) DEF Good, Agree
  <2> QED BY <2>1, <2>2 DEF Agree
<1>10. Good(u, d)
  BY <1>4, <1>8, <1>9 DEF Good
<1>11. Meta(u) = Meta(st)
  <2> DEFINE t0 == st.index[i].table
  <2>1. t0 \in Tables /\ Meta(st)[t0] = st.pages[p] /\ st.file[t0] # None
    BY CachedOnce DEF Entries, Good, Slotted
  <2>2. st.pages[p] = st.file[t0]
    <3>1. st.pages[p] \in TablePages /\ st.file[t0] \in TablePages
      BY <1>1, <2>1 DEF Good, Slotted, States
    <3>2. \A q \in Parts : st.pages[p][q] = st.file[t0][q]
      <4>1. \A q \in Parts : <<p, q>> \notin st.dirty
        BY <1>6
      <4> QED BY <4>1 DEF Good, Agree
    <3> QED BY <3>1, <3>2, PagesOfTable
  <2>3. Meta(u)[t0] = Meta(st)[t0]
    <3>1. \A j \in Used(u) : u.index[j].table # t0
      BY <1>5, <1>7 DEF Good, Slotted
    <3>2. Meta(u)[t0] = u.file[t0]
      BY <2>1, <3>1, NotCached
    <3> QED BY <1>2, <2>1, <2>2, <3>2
  <2>4. ASSUME NEW t \in Tables, t # t0
        PROVE  Meta(u)[t] = Meta(st)[t]
    <3>1. CASE \E j \in Used(u) : u.index[j].table = t
      <4>1. PICK j \in Used(u) : u.index[j].table = t
        BY <3>1
      <4>2. Meta(u)[t] = u.pages[u.index[j].pool]
        BY <1>10, <4>1, CachedOnce
      <4>3. j \in Used(st) /\ st.index[j].table = t
        BY <1>7, <4>1
      <4>4. Meta(st)[t] = st.pages[st.index[j].pool]
        BY <4>3, CachedOnce
      <4> QED BY <1>7, <4>2, <4>4
    <3>2. CASE \A j \in Used(u) : u.index[j].table # t
      <4>1. \A j \in Used(st) : st.index[j].table # t
        BY <1>5, <1>7, <2>4, <3>2
      <4>2. Meta(st)[t] = st.file[t]
        BY <4>1, NotCached
      <4>3. Meta(u)[t] = u.file[t]
        BY <3>2, NotCached
      <4> QED BY <1>2, <4>2, <4>3
    <3> QED BY <3>1, <3>2
  <2>5. \A t \in Tables : Meta(u)[t] = Meta(st)[t]
    BY <2>3, <2>4
  <2> QED BY <2>5 DEF Meta
<1>12. Quiet(st, u)
  BY <1>2, <1>11 DEF Quiet, FileTakes
<1> QED BY <1>2, <1>10, <1>12 DEF u

\* Writing a slot's dirty pages and giving it up.
LEMMA EvictStep ==
    ASSUME NEW st, NEW d, Good(st, d), NEW i \in Used(st), NEW r \in EvictSlot(st, i)
    PROVE  /\ Good(r.st, d) /\ Quiet(st, r.st)
           /\ r.ok => r.st.index = [st.index EXCEPT ![i] = None]
<1> DEFINE D == DirtyOf(st, st.index[i].pool)
<1>1. PICK w \in Write(st, D) : r = Done(IF w.ok THEN Invalidate(w.st, i) ELSE w.st, w.ok)
  BY DEF EvictSlot
<1>2. r.ok = w.ok /\ r.st = IF w.ok THEN Invalidate(w.st, i) ELSE w.st
  BY <1>1 DEF Done
<1>3. /\ Good(w.st, d) /\ Quiet(st, w.st) /\ w.st.index = st.index
      /\ w.ok => w.st.dirty = st.dirty \ D
  BY <1>1, WriteStep DEF DirtyOf
<1>4. i \in Used(w.st)
  BY <1>3 DEF Used
<1>5. CASE w.ok
  <2>1. DirtyOf(w.st, w.st.index[i].pool) = {}
    BY <1>3, <1>5 DEF DirtyOf
  <2>2. /\ Good(Invalidate(w.st, i), d) /\ Quiet(w.st, Invalidate(w.st, i))
        /\ Invalidate(w.st, i).index = [w.st.index EXCEPT ![i] = None]
    BY <1>3, <1>4, <2>1, InvalidateStep
  <2> QED BY <1>2, <1>3, <1>5, <2>2, QuietTwice
<1>6. CASE ~w.ok
  BY <1>2, <1>3, <1>6
<1> QED BY <1>5, <1>6

-----------------------------------------------------------------------------
(* Loading a table                                                         *)

\* A slot for a table: the one that caches it, or a free one, for which another
\* may have to go.
LEMMA AllocateStep ==
    ASSUME NEW st, NEW d, Good(st, d), NEW t \in Tables, t[1] = d,
           NEW r \in FindOrAllocate(st, t[2])
    PROVE  /\ Good(r.st, d) /\ Quiet(st, r.st)
           /\ FindSlot(st, t[2]) # {} => r.ok /\ r.st = st
           /\ FindSlot(st, t[2]) = {} => FindSlot(r.st, t[2]) = {}
           /\ r.ok => /\ SlotFor(r.st, t[2]) \in Slots
                      /\ FindSlot(st, t[2]) # {} =>
                            /\ SlotFor(r.st, t[2]) \in Used(r.st)
                            /\ r.st.index[SlotFor(r.st, t[2])].table = t
                      /\ FindSlot(st, t[2]) = {} => r.st.index[SlotFor(r.st, t[2])] = None
<1> DEFINE n == t[2]
<1>1. CASE FindSlot(st, n) # {}
  <2>1. r = Done(st, TRUE) /\ r.st = st /\ r.ok = TRUE
    BY <1>1 DEF FindOrAllocate, Done
  <2>2. SlotFor(st, n) \in Used(st) /\ st.index[SlotFor(st, n)].table = t
    BY <1>1, FoundSlot DEF SlotFor
  <2> QED BY <1>1, <2>1, <2>2, QuietSame DEF Used
<1>2. CASE FindSlot(st, n) = {} /\ \E i \in Slots : st.index[i] = None
  <2>1. r = Done(st, TRUE) /\ r.st = st /\ r.ok = TRUE
    BY <1>2 DEF FindOrAllocate, Done
  <2> DEFINE S == {i \in Slots : st.index[i] = None}
  <2>2. SlotFor(st, n) = First(S) /\ First(S) \in S
    BY <1>2, FirstIn DEF SlotFor
  <2> QED BY <1>2, <2>1, <2>2, QuietSame
<1>3. CASE FindSlot(st, n) = {} /\ ~ \E i \in Slots : st.index[i] = None
  <2> DEFINE k == Head(st.order)
  <2>1. r \in EvictSlot(st, k)
    BY <1>3 DEF FindOrAllocate
  <2>2. k \in Used(st)
    <3>1. Used(st) = Slots /\ 1 \in Slots
      BY <1>3, SlotAssumption DEF Used, Slots
    <3>2. st.order \in Seq(Slots) /\ Members(st.order) = Slots
      BY <3>1 DEF Good, States, Ordered
    <3>3. Len(st.order) # 0
      <4>1. ASSUME Len(st.order) = 0
            PROVE  FALSE
        <5>1. DOMAIN st.order = {}
          BY <3>2, <4>1
        <5> QED BY <3>1, <3>2, <5>1 DEF Members
      <4> QED BY <4>1
    <3>4. k \in Slots
      BY <3>2, <3>3
    <3> QED BY <3>1, <3>4
  <2> HIDE DEF k
  <2>3. /\ Good(r.st, d) /\ Quiet(st, r.st)
        /\ r.ok => r.st.index = [st.index EXCEPT ![k] = None]
    BY <2>1, <2>2, EvictStep
  <2>4. CASE r.ok
    <3>1. k \in Slots /\ st.index \in [Slots -> Entries \cup {None}]
      BY <2>2 DEF Good, States, Used
    <3>2. r.st.index[k] = None /\ \A j \in Slots : r.st.index[j] # None => r.st.index[j] = st.index[j]
      BY <2>3, <2>4, <3>1
    <3>3. FindSlot(r.st, n) = {}
      BY <1>3, <3>2 DEF FindSlot
    <3> DEFINE S == {i \in Slots : r.st.index[i] = None}
    <3>4. SlotFor(r.st, n) = First(S)
      BY <3>3 DEF SlotFor
    <3>5. First(S) \in S
      BY <3>1, <3>2, FirstIn
    <3> QED BY <1>3, <2>3, <3>3, <3>4, <3>5
  <2>5. CASE ~r.ok
    <3>1. PICK w \in Write(st, DirtyOf(st, st.index[k].pool)) :
             r = Done(IF w.ok THEN Invalidate(w.st, k) ELSE w.st, w.ok)
      BY <2>1 DEF EvictSlot
    <3>2. r.st = w.st
      BY <2>5, <3>1 DEF Done
    <3>3. w.st.index = st.index
      BY <3>1, WriteStep DEF DirtyOf
    <3>4. FindSlot(r.st, n) = {}
      BY <1>3, <3>2, <3>3 DEF FindSlot
    <3> QED BY <1>3, <2>3, <2>5, <3>4
  <2> QED BY <2>4, <2>5
<1> QED BY <1>1, <1>2, <1>3

\* The pages of a table reach a slot that caches it already, or one that is free.
LEMMA LoadedStep ==
    ASSUME NEW st, NEW d, Good(st, d), NEW t \in Tables, t[1] = d,
           CanOpen(st, t), HasBothPages(st, t), NEW i \in Slots,
           \/ i \in Used(st) /\ st.index[i].table = t
           \/ st.index[i] = None /\ FindSlot(st, t[2]) = {}
    PROVE  LET u == Loaded(st, t, i, PoolFor(st, i))
           IN  /\ Good(u, d) /\ u.file = st.file
               /\ FindSlot(u, t[2]) # {}
               /\ Meta(u) = [Meta(st) EXCEPT ![t] = st.file[t]]
<1> DEFINE p == PoolFor(st, i)
           e == [table |-> t, pool |-> p]
           u == Loaded(st, t, i, p)
<1>1. st \in States
  BY DEF Good
<1>2. p \in Slots
  <2>1. CASE st.index[i] # None
    BY <2>1, OwnedPool DEF PoolFor, Used
  <2>2. CASE st.index[i] = None
    <3> DEFINE S == {q \in Slots : ~InUse(st, q)}
    <3>1. S # {}
      BY <2>2, PoolFree
    <3>2. First(S) \in S
      BY <3>1, FirstIn
    <3> QED BY <2>2, <3>2 DEF PoolFor
  <2> QED BY <2>1, <2>2
<1>3. \A j \in Used(st) : j # i => st.index[j].pool # p /\ st.index[j].table # t
  <2>1. CASE i \in Used(st) /\ st.index[i].table = t
    BY <2>1 DEF Good, Slotted, PoolFor, Used
  <2>2. CASE st.index[i] = None /\ FindSlot(st, t[2]) = {}
    <3>1. \A j \in Used(st) : st.index[j].table # t
      BY <2>2, FoundSlot
    <3> DEFINE S == {q \in Slots : ~InUse(st, q)}
    <3>2. S # {}
      BY <2>2, PoolFree
    <3>3. First(S) \in S
      BY <3>2, FirstIn
    <3>4. ~InUse(st, p)
      BY <2>2, <3>3 DEF PoolFor
    <3> QED BY <3>1, <3>4 DEF InUse, Used
  <2> QED BY <2>1, <2>2
<1>4. i \in Used(st) => st.index[i].pool = p
  BY DEF Used, PoolFor
<1> HIDE DEF p
<1>5. e \in Entries /\ e # None /\ e.table = t /\ e.pool = p
  <2>1. e \in Entries
    BY <1>2 DEF Entries
  <2> HIDE DEF e
  <2>2. e # None
    BY <2>1, NoneAssumption
  <2> USE DEF e
  <2> QED BY <2>1, <2>2
<1>6. /\ u.index = [st.index EXCEPT ![i] = e] /\ u.pages = [st.pages EXCEPT ![p] = st.file[t]]
      /\ u.file = st.file /\ u.dirty = st.dirty \ ({p} \X Parts)
      /\ u.order = Append(Without(st.order, i), i)
  BY <1>1 DEF Loaded, Touch, States
<1>7. u \in [file : {u.file}, index : {u.index}, pages : {u.pages}, dirty : {u.dirty}, order : {u.order}]
  BY <1>1 DEF Loaded, Touch, States
<1>8. st.file[t] \in TablePages /\ st.file[t].body # None
  BY <1>1 DEF CanOpen, HasBothPages, States
<1> HIDE DEF u, e
<1>9. u.order \in Seq(Slots) /\ Distinct(u.order) /\ Members(u.order) = Used(st) \cup {i}
  <2> DEFINE w == Without(st.order, i)
  <2>1. w \in Seq(Slots) /\ Distinct(w) /\ Members(w) = Used(st) \ {i}
    BY <1>1, WithoutList DEF Good, Ordered, States
  <2> HIDE DEF w
  <2>2. i \notin Members(w)
    BY <2>1
  <2>3. /\ Append(w, i) \in Seq(Slots) /\ Distinct(Append(w, i))
        /\ Members(Append(w, i)) = Members(w) \cup {i}
    BY <2>1, <2>2, AppendList
  <2> QED BY <1>6, <2>1, <2>3 DEF w
<1>10. u \in States
  <2>1. u.index \in [Slots -> Entries \cup {None}]
    BY <1>1, <1>5, <1>6 DEF States
  <2>2. u.pages \in [Slots -> TablePages \cup {Blank}]
    BY <1>1, <1>2, <1>6, <1>8 DEF States
  <2>3. u.dirty \in SUBSET (Slots \X Parts) /\ u.file \in [Tables -> TablePages \cup {None}]
    BY <1>1, <1>6 DEF States
  <2> QED BY <1>7, <1>9, <2>1, <2>2, <2>3 DEF States
<1>11. Used(u) = Used(st) \cup {i}
  BY <1>1, <1>5, <1>6 DEF Used, States
<1>12. u.index[i] = e /\ u.pages[p] = st.file[t]
  BY <1>1, <1>2, <1>6 DEF States
<1>13. \A j \in Used(u) \ {i} : /\ j \in Used(st) /\ u.index[j] = st.index[j]
                               /\ u.index[j].pool # p /\ u.index[j].table # t
                               /\ u.pages[u.index[j].pool] = st.pages[st.index[j].pool]
  <2>1. \A j \in Used(u) \ {i} : j \in Used(st) /\ u.index[j] = st.index[j]
    BY <1>1, <1>6, <1>11 DEF Used, States
  <2>2. \A j \in Used(u) \ {i} : st.index[j].pool \in Slots
    BY <2>1, OwnedPool
  <2> QED BY <1>1, <1>2, <1>3, <1>6, <2>1, <2>2 DEF States
<1>14. Slotted(u, d)
  <2>1. \A j \in Used(st) : /\ st.index[j].table[1] = d /\ st.file[st.index[j].table] # None
                            /\ st.pages[st.index[j].pool] \in TablePages
                            /\ st.pages[st.index[j].pool].body # None
    BY DEF Good, Slotted
  <2>2. ASSUME NEW j \in Used(u)
        PROVE  /\ u.index[j].table[1] = d /\ u.file[u.index[j].table] # None
               /\ u.pages[u.index[j].pool] \in TablePages
               /\ u.pages[u.index[j].pool].body # None
    <3>1. CASE j = i
      BY <1>5, <1>6, <1>8, <1>12, <3>1, PagesOfTable
    <3>2. CASE j # i
      BY <1>6, <1>13, <2>1, <3>2
    <3> QED BY <3>1, <3>2
  <2>3. ASSUME NEW j \in Used(u), NEW k \in Used(u), j # k
        PROVE  u.index[j].pool # u.index[k].pool /\ u.index[j].table # u.index[k].table
    <3>1. CASE j = i
      BY <1>5, <1>12, <1>13, <2>3, <3>1
    <3>2. CASE k = i
      BY <1>5, <1>12, <1>13, <2>3, <3>2
    <3>3. CASE j # i /\ k # i
      BY <1>13, <2>3, <3>3 DEF Good, Slotted
    <3> QED BY <3>1, <3>2, <3>3
  <2> QED BY <2>2, <2>3 DEF Slotted
<1>15. Agree(u)
  <2>1. ASSUME NEW x \in u.dirty
        PROVE  InUse(u, x[1])
    <3>1. x \in st.dirty /\ x[1] # p
      BY <1>1, <1>6 DEF States
    <3>2. PICK j \in Used(st) : st.index[j].pool = x[1]
      BY <3>1 DEF Good, Agree, InUse, Used
    <3>3. j # i
      BY <1>4, <3>1, <3>2
    <3>4. j \in Used(u) /\ u.index[j] = st.index[j]
      BY <1>11, <1>13, <3>3
    <3> QED BY <3>2, <3>4 DEF InUse, Used
  <2>2. ASSUME NEW j \in Used(u), NEW q \in Parts, <<u.index[j].pool, q>> \notin u.dirty
        PROVE  u.pages[u.index[j].pool][q] = u.file[u.index[j].table][q]
    <3>1. CASE j = i
      BY <1>5, <1>6, <1>12, <3>1
    <3>2. CASE j # i
      <4>1. j \in Used(st) /\ u.index[j] = st.index[j] /\ u.index[j].pool # p
        BY <1>13, <3>2
      <4>2. <<st.index[j].pool, q>> \notin st.dirty
        BY <1>6, <2>2, <4>1
      <4>3. st.pages[st.index[j].pool][q] = st.file[st.index[j].table][q]
        BY <4>1, <4>2 DEF Good, Agree
      <4> QED BY <1>6, <1>13, <3>2, <4>1, <4>3
    <3> QED BY <3>1, <3>2
  <2> QED BY <2>1, <2>2 DEF Agree
<1>16. Good(u, d)
  BY <1>9, <1>10, <1>11, <1>14, <1>15 DEF Good, Ordered
<1>17. FindSlot(u, t[2]) # {}
  BY <1>5, <1>12 DEF FindSlot
<1>18. Meta(u) = [Meta(st) EXCEPT ![t] = st.file[t]]
  <2>1. i \in Used(u)
    BY <1>11
  <2>2. Meta(u)[t] = st.file[t]
    BY <1>5, <1>12, <1>16, <2>1, CachedOnce
  <2>3. ASSUME NEW s \in Tables, s # t
        PROVE  Meta(u)[s] = Meta(st)[s]
    <3>1. CASE \E j \in Used(u) : u.index[j].table = s
      <4>1. PICK j \in Used(u) : u.index[j].table = s
        BY <3>1
      <4>2. j # i
        BY <1>5, <1>12, <2>3, <4>1
      <4>3. Meta(u)[s] = u.pages[u.index[j].pool]
        BY <1>16, <4>1, CachedOnce
      <4>4. j \in Used(st) /\ st.index[j].table = s
        BY <1>13, <4>1, <4>2
      <4>5. Meta(st)[s] = st.pages[st.index[j].pool]
        BY <4>4, CachedOnce
      <4> QED BY <1>13, <4>2, <4>3, <4>5
    <3>2. CASE \A j \in Used(u) : u.index[j].table # s
      <4>1. \A j \in Used(st) : st.index[j].table # s
        <5>1. i \in Used(st) => st.index[i].table = t
          BY DEF Used
        <5>2. \A j \in Used(st) \ {i} : j \in Used(u) /\ u.index[j] = st.index[j]
          BY <1>11, <1>13
        <5> QED BY <2>3, <3>2, <5>1, <5>2
      <4>2. Meta(st)[s] = st.file[s] /\ Meta(u)[s] = u.file[s]
        BY <3>2, <4>1, NotCached
      <4> QED BY <1>6, <4>2
    <3> QED BY <3>1, <3>2
  <2>4. Meta(u) = [s \in Tables |-> Meta(u)[s]] /\ Meta(st) = [s \in Tables |-> Meta(st)[s]]
    BY DEF Meta
  <2> QED BY <2>2, <2>3, <2>4
<1> QED BY <1>6, <1>16, <1>17, <1>18 DEF u, p

LEMMA MetaOfCached ==
    \A st, d : Good(st, d) =>
       \A i \in Used(st) : Meta(st)[st.index[i].table] = st.pages[st.index[i].pool]
  BY CachedOnce

Changed(st, p, q, E) == [st EXCEPT !.pages[p] = q, !.dirty = @ \cup E]

\* The pages of a table in a slot change; those that are not dirty afterwards
\* equal the file.
LEMMA ChangedStep ==
    ASSUME NEW st, NEW d, Good(st, d), NEW i \in Used(st),
           NEW q \in TablePages, q.body # None,
           NEW E, E \subseteq {st.index[i].pool} \X Parts,
           \A x \in Parts : \/ <<st.index[i].pool, x>> \in E
                            \/ q[x] = st.file[st.index[i].table][x]
                            \/ q[x] = st.pages[st.index[i].pool][x]
    PROVE  LET u == Changed(st, st.index[i].pool, q, E)
           IN  /\ Good(u, d) /\ u.file = st.file
               /\ Meta(u) = [Meta(st) EXCEPT ![st.index[i].table] = q]
<1> DEFINE p == st.index[i].pool
           u == Changed(st, p, q, E)
           t == st.index[i].table
<1>1. st \in States /\ p \in Slots /\ t \in Tables /\ i \in Slots
  BY OwnedPool, CachedOnce DEF Good, Entries, Used
<1>2. /\ u.index = st.index /\ u.file = st.file /\ u.order = st.order
      /\ u.pages = [st.pages EXCEPT ![p] = q] /\ u.dirty = st.dirty \cup E
  BY <1>1 DEF States, Changed
<1>3. u \in States
  BY <1>1, ZenonT(60) DEF States, Changed
<1> HIDE DEF u
<1>4. Used(u) = Used(st)
  BY <1>2 DEF Used
<1>5. \A j \in Used(st) : j # i => /\ st.index[j].pool # p /\ st.index[j].table # t
                                   /\ u.pages[st.index[j].pool] = st.pages[st.index[j].pool]
  <2>1. \A j \in Used(st) : j # i => st.index[j].pool # p /\ st.index[j].table # t
    BY DEF Good, Slotted
  <2>2. \A j \in Used(st) : st.index[j].pool \in Slots
    BY OwnedPool
  <2> QED BY <1>1, <1>2, <2>1, <2>2 DEF States
<1>6. u.pages[p] = q
  BY <1>1, <1>2, SMTT(40) DEF States
<1>7. Slotted(u, d)
  <2>1. \A j \in Used(st) : /\ u.pages[st.index[j].pool] \in TablePages
                            /\ u.pages[st.index[j].pool].body # None
    BY <1>5, <1>6 DEF Good, Slotted
  <2> QED BY <1>2, <1>4, <2>1 DEF Good, Slotted
<1>8. Agree(u)
  <2>1. \A x \in u.dirty : InUse(u, x[1])
    BY <1>2 DEF Good, Agree, InUse, Used
  <2>2. ASSUME NEW j \in Used(u), NEW x \in Parts, <<u.index[j].pool, x>> \notin u.dirty
        PROVE  u.pages[u.index[j].pool][x] = u.file[u.index[j].table][x]
    <3>1. j \in Used(st) /\ <<st.index[j].pool, x>> \notin st.dirty
          /\ <<st.index[j].pool, x>> \notin E
      BY <1>2, <1>4, <2>2
    <3>2. st.pages[st.index[j].pool][x] = st.file[st.index[j].table][x]
      BY <3>1 DEF Good, Agree
    <3>3. CASE j = i
      BY <1>2, <1>6, <3>1, <3>2, <3>3, SMTT(40)
    <3>4. CASE j # i
      BY <1>2, <1>5, <3>1, <3>2, <3>4
    <3> QED BY <3>3, <3>4
  <2> QED BY <2>1, <2>2 DEF Agree
<1>9. Good(u, d)
  BY <1>2, <1>3, <1>4, <1>7, <1>8 DEF Good, Ordered
<1>10. Meta(u) = [Meta(st) EXCEPT ![t] = q]
  <2>1. Meta(u)[t] = q
    <3>1. i \in Used(u)
      BY <1>4
    <3>2. Meta(u)[u.index[i].table] = u.pages[u.index[i].pool]
      BY <1>9, <3>1, MetaOfCached
    <3> QED BY <1>2, <1>6, <3>2
  <2>2. ASSUME NEW s \in Tables, s # t
        PROVE  Meta(u)[s] = Meta(st)[s]
    <3>1. CASE \E j \in Used(st) : st.index[j].table = s
      <4>1. PICK j \in Used(st) : st.index[j].table = s
        BY <3>1
      <4>2. Meta(st)[s] = st.pages[st.index[j].pool]
        BY <4>1, CachedOnce
      <4>3. j \in Used(u)
        BY <1>4
      <4>4. Meta(u)[u.index[j].table] = u.pages[u.index[j].pool]
        BY <1>9, <4>3, MetaOfCached
      <4> QED BY <1>2, <1>5, <2>2, <4>1, <4>2, <4>4
    <3>2. CASE \A j \in Used(st) : st.index[j].table # s
      <4>1. Meta(st)[s] = st.file[s]
        BY <3>2, NotCached
      <4>2. \A j \in Used(u) : u.index[j].table # s
        BY <1>2, <1>4, <3>2
      <4>3. Meta(u)[s] = u.file[s]
        BY <4>2, NotCached
      <4> QED BY <1>2, <4>1, <4>3
    <3> QED BY <3>1, <3>2
  <2>3. Meta(u) = [s \in Tables |-> Meta(u)[s]] /\ Meta(st) = [s \in Tables |-> Meta(st)[s]]
    BY DEF Meta
  <2> QED BY <1>1, <2>1, <2>2, <2>3
<1> QED BY <1>2, <1>9, <1>10 DEF u

\* the catalog with pages P of a table taken from its file
Back(st, t, P) == [Meta(st) EXCEPT ![t] = [p \in Parts |-> IF p \in P THEN st.file[t][p] ELSE @[p]]]

\* Loading a table that is not cached goes unnoticed; loading it again may take
\* some of its pages back to what the file holds, and the files stay as they are.
LEMMA LoadStep ==
    ASSUME NEW st, NEW d, Good(st, d), NEW t \in Tables, t[1] = d, NEW r \in Load(st, t)
    PROVE  /\ Good(r.st, d)
           /\ r.ok => FindSlot(r.st, t[2]) # {}
           /\ FindSlot(st, t[2]) = {} => Quiet(st, r.st)
           /\ FindSlot(st, t[2]) # {} =>
                 /\ Meta(st)[t] \in TablePages /\ Meta(st)[t].body # None
                 /\ r.st.file = st.file
                 /\ \E P \in SUBSET Parts : Meta(r.st) = Back(st, t, P)
<1>1. PICK a \in FindOrAllocate(st, t[2]) :
         r \in IF ~a.ok THEN {a}
               ELSE LET i == SlotFor(a.st, t[2])
                    IN  {Done(h, FALSE) : h \in HalfLoaded(a.st, t, i)}
                        \cup IF ~(CanOpen(a.st, t) /\ HasBothPages(a.st, t)) THEN {}
                             ELSE {Done(Loaded(a.st, t, i, PoolFor(a.st, i)), TRUE)}
  BY DEF Load
<1> DEFINE s == a.st
           i == SlotFor(s, t[2])
<1>2. /\ Good(s, d) /\ Quiet(st, s)
      /\ FindSlot(st, t[2]) # {} => a.ok /\ s = st
      /\ FindSlot(st, t[2]) = {} => FindSlot(s, t[2]) = {}
      /\ a.ok => /\ i \in Slots
                 /\ FindSlot(st, t[2]) # {} => i \in Used(s) /\ s.index[i].table = t
                 /\ FindSlot(st, t[2]) = {} => s.index[i] = None
  BY AllocateStep
<1>3. FindSlot(st, t[2]) # {} =>
         /\ Meta(s)[t] = s.pages[s.index[i].pool]
         /\ Meta(s)[t] \in TablePages /\ Meta(s)[t].body # None
  <2> SUFFICES ASSUME FindSlot(st, t[2]) # {}
               PROVE  /\ Meta(s)[t] = s.pages[s.index[i].pool]
                      /\ Meta(s)[t] \in TablePages /\ Meta(s)[t].body # None
    OBVIOUS
  <2>1. i \in Used(s) /\ s.index[i].table = t
    BY <1>2
  <2> HIDE DEF s, i
  <2>2. Meta(s)[s.index[i].table] = s.pages[s.index[i].pool]
    BY <1>2, <2>1, CachedOnce
  <2> QED BY <1>2, <2>1, <2>2 DEF Good, Slotted
<1>4. \A q \in TablePages : q = [p \in Parts |-> q[p]]
  BY DEF TablePages, Parts
<1>5. CASE ~a.ok
  <2>1. r = a
    BY <1>1, <1>5
  <2> QED BY <1>2, <1>5, <2>1
<1>6. CASE a.ok /\ r \in {Done(h, FALSE) : h \in HalfLoaded(s, t, i)}
  <2>1. PICK h \in HalfLoaded(s, t, i) : r = Done(h, FALSE)
    BY <1>6
  <2>2. r.st = h /\ r.ok = FALSE
    BY <2>1 DEF Done
  <2>3. CASE h = s
    <3>1. FindSlot(st, t[2]) # {} => Meta(st) = Back(st, t, {})
      <4> SUFFICES ASSUME FindSlot(st, t[2]) # {}
                   PROVE  Meta(st) = Back(st, t, {})
        OBVIOUS
      <4> DEFINE m == Meta(st)
      <4>1. m[t] = [p \in Parts |-> m[t][p]]
        BY <1>2, <1>3, <1>4
      <4>2. m = [u \in Tables |-> m[u]]
        BY DEF Meta
      <4> HIDE DEF m
      <4>3. m = [m EXCEPT ![t] = [p \in Parts |-> m[t][p]]]
        BY <4>1, <4>2
      <4>4. [p \in Parts |-> m[t][p]] = [p \in Parts |-> IF p \in {} THEN st.file[t][p] ELSE m[t][p]]
        OBVIOUS
      <4>5. m = [m EXCEPT ![t] = [p \in Parts |-> IF p \in {} THEN st.file[t][p] ELSE @[p]]]
        BY <4>3, <4>4
      <4> QED BY <4>5 DEF m, Back
    <3> QED BY <1>2, <1>3, <2>2, <2>3, <3>1
  <2>4. CASE h # s
    <3>1. /\ s.index[i] # None /\ s.file[t] # None
          /\ h = [s EXCEPT !.pages[s.index[i].pool].head = s.file[t].head]
      BY <2>1, <2>4, ZenonT(60) DEF HalfLoaded, CanOpen
    <3>2. FindSlot(st, t[2]) # {} /\ s = st /\ i \in Used(s) /\ s.index[i].table = t
      BY <1>2, <1>6, <3>1
    <3> DEFINE p == s.index[i].pool
               q == [s.pages[p] EXCEPT !.head = s.file[t].head]
    <3>3. s.pages[p] \in TablePages /\ s.pages[p].body # None /\ p \in Slots
      BY <1>2, <3>2, OwnedPool, SMTT(40) DEF Good, Slotted
    <3>4. s.file[t] \in TablePages /\ s \in States
      BY <1>2, <3>1, ZenonT(60) DEF Good, States
    <3>5. q \in TablePages /\ q.body = s.pages[p].body /\ q.head = s.file[t].head
      BY <3>3, <3>4, ZenonT(60) DEF TablePages
    <3>6. h = Changed(s, p, q, {})
      BY <3>1, <3>3, <3>4, ZenonT(60) DEF States, Changed
    <3>7. \A x \in Parts : q[x] = s.file[s.index[i].table][x] \/ q[x] = s.pages[p][x]
      BY <3>2, <3>5 DEF Parts
    <3> HIDE DEF q, i, s
    <3>8. /\ Good(h, d) /\ h.file = s.file
          /\ Meta(h) = [Meta(s) EXCEPT ![s.index[i].table] = q]
      <4>1. i \in Used(s) /\ q.body # None
        BY <3>2, <3>3, <3>5
      <4>2. Good(s, d)
        BY <1>2
      <4> HIDE DEF p
      <4>3. /\ {} \subseteq {s.index[i].pool} \X Parts
            /\ h = Changed(s, s.index[i].pool, q, {})
            /\ \A x \in Parts : \/ <<s.index[i].pool, x>> \in {}
                                 \/ q[x] = s.file[s.index[i].table][x]
                                 \/ q[x] = s.pages[s.index[i].pool][x]
        BY <3>6, <3>7 DEF p
      <4> QED BY <3>5, <4>1, <4>2, <4>3, ChangedStep
    <3>9. q = [x \in Parts |-> IF x \in {"head"} THEN s.file[t][x] ELSE s.pages[p][x]]
      <4>1. q = [x \in Parts |-> q[x]]
        BY <1>4, <3>5, SMTT(40)
      <4> QED BY <3>5, <4>1 DEF Parts
    <3>10. Meta(h) = Back(s, t, {"head"})
      BY <1>3, <3>2, <3>8, <3>9 DEF Back, i, s
    <3>11. {"head"} \in SUBSET Parts
      BY DEF Parts
    <3> QED BY <1>3, <2>2, <3>2, <3>8, <3>10, <3>11, SMTT(40)
  <2> QED BY <2>3, <2>4
<1>7. CASE /\ a.ok /\ CanOpen(s, t) /\ HasBothPages(s, t)
           /\ r = Done(Loaded(s, t, i, PoolFor(s, i)), TRUE)
  <2> DEFINE u == Loaded(s, t, i, PoolFor(s, i))
  <2>1. r.st = u /\ r.ok = TRUE
    BY <1>7 DEF Done
  <2>2. \/ i \in Used(s) /\ s.index[i].table = t
        \/ s.index[i] = None /\ FindSlot(s, t[2]) = {}
    BY <1>2, <1>7
  <2>3. i \in Slots
    BY <1>2, <1>7
  <2> HIDE DEF i, s
  <2>4. /\ Good(u, d) /\ u.file = s.file /\ FindSlot(u, t[2]) # {}
        /\ Meta(u) = [Meta(s) EXCEPT ![t] = s.file[t]]
    BY <1>2, <1>7, <2>2, <2>3, LoadedStep
  <2> HIDE DEF u
  <2>5. CASE FindSlot(st, t[2]) = {}
    <3>1. \A j \in Used(s) : s.index[j].table # t
      BY <1>2, <2>5, FoundSlot DEF s
    <3>2. Meta(s)[t] = s.file[t]
      BY <3>1, NotCached, SMTT(40)
    <3>3. Meta(u) = Meta(s)
      BY <2>4, <3>2 DEF Meta
    <3>4. Quiet(s, u)
      BY <2>4, <3>3 DEF Quiet, FileTakes
    <3>5. Quiet(st, u)
      BY <1>2, <3>4, QuietTwice DEF s
    <3> QED BY <2>1, <2>4, <2>5, <3>5
  <2>6. CASE FindSlot(st, t[2]) # {}
    <3>1. s = st
      BY <1>2, <2>6 DEF s
    <3>2. s.file[t] \in TablePages
      BY <1>2, <1>7 DEF Good, States, CanOpen, s
    <3>3. s.file[t] = [p \in Parts |-> s.file[t][p]]
      BY <1>4, <3>2
    <3> DEFINE m == Meta(s)
               f == s.file[t]
    <3> HIDE DEF m, f
    <3>4. f = [p \in Parts |-> IF p \in Parts THEN f[p] ELSE m[t][p]]
      BY <3>3 DEF f
    <3>5. [m EXCEPT ![t] = f] = [m EXCEPT ![t] = [p \in Parts |-> IF p \in Parts THEN f[p] ELSE @[p]]]
      BY <3>4
    <3>6. Meta(u) = Back(s, t, Parts)
      BY <2>4, <3>5 DEF m, f, Back
    <3> QED BY <1>3, <2>1, <2>4, <2>6, <3>1, <3>6 DEF s
  <2> QED BY <2>5, <2>6
<1> QED BY <1>1, <1>5, <1>6, <1>7

-----------------------------------------------------------------------------
(* The operations                                                          *)

LEMMA BecomeNow ==
    ASSUME NEW s, s \in States, Become(s)
    PROVE  Now' = s
  BY DEF Become, Now, States

\* A step no caller notices is a Fail of the catalog without a cache.
LEMMA FailStep ==
    ASSUME NEW s, Good(s, cur), Quiet(Now, s), Become(s), answer' = Error, cur' = cur
    PROVE  Good(Now, cur)' /\ Store!Fail
<1>1. Now' = s /\ s.file = file' /\ Now.file = file
  BY BecomeNow DEF Good, Become, Now
<1>2. Good(Now, cur)'
  BY <1>1
<1>3. Meta(Now)' = Meta(Now)
  BY <1>1 DEF Quiet
<1>4. FileTakes(file, file', Meta(Now))
  BY <1>1 DEF Quiet
<1> QED BY <1>2, <1>3, <1>4
    DEF Store!Fail, Store!Saving, Store!KeptOrSaved, FileTakes, Error, Store!Error,
        Tables, Store!Tables, Parts, Store!Parts

\* What FailStep and the steps below need of the state a function leaves.
LEMMA NowGood == ASSUME IInv PROVE Good(Now, cur) /\ Now.file = file
  BY DEF IInv, Now

LEMMA TableOfCur ==
    ASSUME IInv, cur # None, NEW n \in Names
    PROVE  <<cur, n>> \in Tables /\ <<cur, n>>[1] = cur /\ <<cur, n>>[2] = n
  BY DEF IInv, Tables

LEMMA LoadTableMetaStep ==
    ASSUME IInv, NEW t \in Tables, t[1] = cur, LoadTableMeta(t), cur' = cur
    PROVE  Good(Now, cur)' /\ Store!Next
<1>1. PICK r \in Load(Now, t) : Become(r.st) /\ answer' = Error
  BY DEF LoadTableMeta
<1>2. /\ Good(r.st, cur)
      /\ FindSlot(Now, t[2]) = {} => Quiet(Now, r.st)
      /\ FindSlot(Now, t[2]) # {} =>
            /\ Meta(Now)[t] \in TablePages /\ Meta(Now)[t].body # None
            /\ r.st.file = file
            /\ \E P \in SUBSET Parts : Meta(r.st) = Back(Now, t, P)
  BY <1>1, NowGood, LoadStep, SMTT(40)
<1>3. CASE FindSlot(Now, t[2]) = {}
  BY <1>1, <1>2, <1>3, FailStep DEF Store!Next
<1>4. CASE FindSlot(Now, t[2]) # {}
  <2>1. Now' = r.st /\ file' = file
    BY <1>1, <1>2, <1>4, BecomeNow DEF Good, Become
  <2>2. Good(Now, cur)'
    BY <1>2, <2>1
  <2>3. PICK P \in SUBSET Parts : Meta(Now)' = Back(Now, t, P)
    BY <1>2, <1>4, <2>1
  <2>4. Meta(Now)[t] # None
    BY <1>2, <1>4, PagesOfTable
  <2>5. Store!Reload(t)
    BY <1>1, <1>2, <1>4, <2>1, <2>3, <2>4, NowGood
       DEF Store!Reload, Store!Readable, Back, Parts, Store!Parts, Error, Store!Error
  <2>6. Store!Next
    BY <2>5 DEF Store!Next, Tables, Store!Tables
  <2> QED BY <2>2, <2>6
<1> QED BY <1>3, <1>4

\* get_table_meta leaves the table in the cache, and is noticed by nobody.
LEMMA GetStep ==
    ASSUME NEW st, NEW d, Good(st, d), NEW t \in Tables, t[1] = d, NEW r \in Get(st, t)
    PROVE  /\ Good(r.st, d) /\ Quiet(st, r.st)
           /\ r.ok => LET i == First(FindSlot(r.st, t[2]))
                      IN  /\ i \in Used(r.st) /\ r.st.index[i].table = t
                          /\ PoolOf(r.st, t) = r.st.index[i].pool
                          /\ Meta(st)[t] = r.st.pages[PoolOf(r.st, t)]
                          /\ Meta(st)[t] \in TablePages /\ Meta(st)[t].body # None
<1>1. Good(r.st, d) /\ Quiet(st, r.st) /\ (r.ok => FindSlot(r.st, t[2]) # {})
  <2>1. CASE FindSlot(st, t[2]) = {}
    BY <2>1, LoadStep DEF Get
  <2>2. CASE FindSlot(st, t[2]) # {}
    <3> DEFINE i == First(FindSlot(st, t[2]))
    <3>1. i \in Used(st)
      BY <2>2, FoundSlot
    <3>2. r.st = Touch(st, i)
      BY <2>2 DEF Get, Done
    <3> HIDE DEF i
    <3>3. Good(r.st, d) /\ Quiet(st, r.st) /\ r.st.index = st.index
      BY <3>1, <3>2, TouchStep
    <3>4. FindSlot(r.st, t[2]) = FindSlot(st, t[2])
      BY <3>3, SMTT(40) DEF FindSlot
    <3> QED BY <2>2, <3>3, <3>4
  <2> QED BY <2>1, <2>2
<1>2. ASSUME r.ok
      PROVE  LET i == First(FindSlot(r.st, t[2]))
             IN  /\ i \in Used(r.st) /\ r.st.index[i].table = t
                 /\ PoolOf(r.st, t) = r.st.index[i].pool
                 /\ Meta(st)[t] = r.st.pages[PoolOf(r.st, t)]
                 /\ Meta(st)[t] \in TablePages /\ Meta(st)[t].body # None
  <2> DEFINE i == First(FindSlot(r.st, t[2]))
             s == r.st
  <2>1. i \in Used(s) /\ s.index[i].table = t /\ PoolOf(s, t) = s.index[i].pool
    BY <1>1, <1>2, FoundSlot DEF PoolOf
  <2>2. Good(s, d) /\ Meta(st) = Meta(s)
    BY <1>1 DEF Quiet
  <2> HIDE DEF i, s
  <2>3. Meta(s)[t] = s.pages[PoolOf(s, t)]
    BY <2>1, <2>2, MetaOfCached
  <2>4. s.pages[s.index[i].pool] \in TablePages /\ s.pages[s.index[i].pool].body # None
    BY <2>1, <2>2 DEF Good, Slotted
  <2> QED BY <2>1, <2>2, <2>3, <2>4 DEF i, s
<1> QED BY <1>1, <1>2

LEMMA ReadSchemaStep ==
    ASSUME IInv, NEW t \in Tables, t[1] = cur, ReadSchema(t), cur' = cur
    PROVE  Good(Now, cur)' /\ Store!Next
<1>1. PICK r \in Get(Now, t) :
         /\ Become(r.st)
         /\ answer' = IF r.ok THEN Answer(t, r.st.pages[PoolOf(r.st, t)].body) ELSE Error
  BY DEF ReadSchema
<1>2. /\ Good(r.st, cur) /\ Quiet(Now, r.st)
      /\ r.ok => /\ Meta(Now)[t] = r.st.pages[PoolOf(r.st, t)]
                 /\ Meta(Now)[t] \in TablePages /\ Meta(Now)[t].body # None
  BY <1>1, NowGood, GetStep
<1>3. CASE ~r.ok
  BY <1>1, <1>2, <1>3, FailStep DEF Store!Next
<1>4. CASE r.ok
  <2>1. Now' = r.st /\ r.st.file = file'
    BY <1>1, <1>2, BecomeNow DEF Good, Become
  <2>2. Good(Now, cur)' /\ Meta(Now)' = Meta(Now) /\ FileTakes(file, file', Meta(Now))
    BY <1>2, <2>1, NowGood DEF Quiet
  <2>3. Meta(Now)[t] # None
    BY <1>2, <1>4, PagesOfTable
  <2>4. Store!Read(t)
    BY <1>1, <1>2, <1>4, <2>2, <2>3
       DEF Store!Read, Store!Readable, Store!Saving, Store!KeptOrSaved, FileTakes, Answer,
           Store!Answer, Tables, Store!Tables, Parts, Store!Parts
  <2>5. Store!Next
    BY <2>4, SMTT(40) DEF Store!Next, Tables, Store!Tables
  <2> QED BY <2>2, <2>5
<1> QED BY <1>3, <1>4

\* A page of a table is read through the cache and overwritten there.
LEMMA ModifyStep ==
    ASSUME IInv, NEW t \in Tables, t[1] = cur, NEW r \in Get(Now, t), r.ok,
           NEW q \in TablePages, q.body # None, NEW part \in Parts,
           \A x \in Parts : x # part => q[x] = r.st.pages[PoolOf(r.st, t)][x],
           Become(Changed(r.st, PoolOf(r.st, t), q, {<<PoolOf(r.st, t), part>>})), cur' = cur
    PROVE  /\ Good(Now, cur)'
           /\ Meta(Now)[t] = r.st.pages[PoolOf(r.st, t)]
           /\ Store!Readable(t) /\ Store!Saving
           /\ Meta(Now)' = [Meta(Now) EXCEPT ![t] = q]
<1> DEFINE s == r.st
           i == First(FindSlot(s, t[2]))
           p == PoolOf(s, t)
           u == Changed(s, p, q, {<<p, part>>})
<1>1. /\ Good(s, cur) /\ Quiet(Now, s)
      /\ i \in Used(s) /\ s.index[i].table = t /\ p = s.index[i].pool
      /\ Meta(Now)[t] = s.pages[p]
      /\ Meta(Now)[t] \in TablePages /\ Meta(Now)[t].body # None
  BY NowGood, GetStep
<1>a. \A x \in Parts : x # part => q[x] = s.pages[p][x]
  OBVIOUS
<1> HIDE DEF i, s
<1>2. Good(u, cur) /\ u.file = s.file /\ Meta(u) = [Meta(s) EXCEPT ![t] = q]
  <2> DEFINE pp == s.index[i].pool
             E == {<<pp, part>>}
             v == Changed(s, pp, q, E)
  <2>0. pp = p /\ s.index[i].table = t
    BY <1>1
  <2>1. u = v
    BY <2>0
  <2> HIDE DEF p, pp
  <2>2. E \subseteq {pp} \X Parts
    OBVIOUS
  <2>3. ASSUME NEW x \in Parts PROVE <<pp, x>> \in E \/ q[x] = s.pages[pp][x]
    <3>1. CASE x = part
      BY <3>1
    <3>2. CASE x # part
      BY <1>a, <2>0, <3>2
    <3> QED BY <3>1, <3>2
  <2>4. \A x \in Parts : <<pp, x>> \in E \/ q[x] = s.file[s.index[i].table][x] \/ q[x] = s.pages[pp][x]
    BY <2>3
  <2>5. Good(s, cur) /\ i \in Used(s)
    BY <1>1
  <2> HIDE DEF E
  <2>6. /\ Good(v, cur) /\ v.file = s.file
        /\ Meta(v) = [Meta(s) EXCEPT ![s.index[i].table] = q]
    BY ONLY <2>2, <2>4, <2>5, q \in TablePages, q.body # None, ChangedStep, SMTT(40) DEF pp
  <2> QED BY <2>0, <2>1, <2>6
<1>3. Become(u)
  BY DEF s
<1> HIDE DEF u
<1>4. Now' = u /\ u.file = file'
  BY <1>2, <1>3, BecomeNow DEF Good, Become
<1>5. Meta(Now)' = [Meta(Now) EXCEPT ![t] = q] /\ FileTakes(file, file', Meta(Now))
  BY <1>1, <1>2, <1>4, NowGood DEF Quiet
<1>6. Meta(Now)[t] # None
  BY <1>1, PagesOfTable
<1>7. Store!Readable(t) /\ Store!Saving
  BY <1>1, <1>5, <1>6
     DEF Store!Readable, Store!Saving, Store!KeptOrSaved, FileTakes, Tables, Store!Tables,
         Parts, Store!Parts
<1> QED BY <1>1, <1>2, <1>4, <1>5, <1>7 DEF s

LEMMA WriteSchemaStep ==
    ASSUME IInv, NEW t \in Tables, t[1] = cur, NEW s \in Schemas \cup {Huge}, WriteSchema(t, s),
           cur' = cur
    PROVE  Good(Now, cur)' /\ Store!Next
<1>1. PICK r \in Get(Now, t) :
         IF ~r.ok \/ s = Huge
         THEN Become(r.st) /\ answer' = Error
         ELSE LET p == PoolOf(r.st, t)
              IN  /\ Become(MarkDirty([r.st EXCEPT !.pages[p].body = s], p, "body"))
                  /\ answer' = Answer(t, s)
  BY DEF WriteSchema
<1>2. /\ Good(r.st, cur) /\ Quiet(Now, r.st)
      /\ r.ok => /\ PoolOf(r.st, t) \in Slots
                 /\ r.st.pages[PoolOf(r.st, t)] \in TablePages
                 /\ r.st.pages[PoolOf(r.st, t)].body # None
  <2>1. /\ Good(r.st, cur) /\ Quiet(Now, r.st)
        /\ r.ok => LET i == First(FindSlot(r.st, t[2]))
                   IN  /\ i \in Used(r.st) /\ PoolOf(r.st, t) = r.st.index[i].pool
                       /\ Meta(Now)[t] = r.st.pages[PoolOf(r.st, t)]
                       /\ Meta(Now)[t] \in TablePages /\ Meta(Now)[t].body # None
    BY <1>1, NowGood, GetStep
  <2> QED BY <2>1, OwnedPool
<1>3. CASE ~r.ok \/ s = Huge
  BY <1>1, <1>2, <1>3, FailStep DEF Store!Next
<1>4. CASE r.ok /\ s # Huge
  <2> DEFINE p == PoolOf(r.st, t)
             q == [r.st.pages[p] EXCEPT !.body = s]
  <2>1. s \in Schemas /\ s # None
    BY <1>4, NoneAssumption
  <2>2. q \in TablePages /\ q.body = s /\ q.head = r.st.pages[p].head
    BY <1>2, <1>4, <2>1 DEF TablePages
  <2>3. MarkDirty([r.st EXCEPT !.pages[p].body = s], p, "body") = Changed(r.st, p, q, {<<p, "body">>})
    BY <1>2, <1>4 DEF MarkDirty, Changed, Good, States
  <2>4. "body" \in Parts /\ \A x \in Parts : x # "body" => q[x] = r.st.pages[p][x]
    BY <2>2 DEF Parts
  <2>5. Become(Changed(r.st, p, q, {<<p, "body">>})) /\ answer' = Answer(t, s)
    BY <1>1, <1>4, <2>3
  <2> HIDE DEF q
  <2>6. /\ Good(Now, cur)' /\ Meta(Now)[t] = r.st.pages[p]
        /\ Store!Readable(t) /\ Store!Saving /\ Meta(Now)' = [Meta(Now) EXCEPT ![t] = q]
    BY <1>4, <2>1, <2>2, <2>4, <2>5, ModifyStep
  <2>7. Meta(Now)' = [Meta(Now) EXCEPT ![t].body = s]
    BY <2>6 DEF q
  <2>8. Store!Alter(t, s)
    BY <2>5, <2>6, <2>7 DEF Store!Alter, Answer, Store!Answer
  <2> QED BY <2>1, <2>6, <2>8 DEF Store!Next, Tables, Store!Tables
<1> QED BY <1>3, <1>4

LEMMA TakeIdStep ==
    ASSUME IInv, NEW t \in Tables, t[1] = cur, NEW c \in Counters, TakeId(t, c), cur' = cur
    PROVE  Good(Now, cur)' /\ Store!Next
<1>1. PICK r \in Get(Now, t) :
         IF ~r.ok
         THEN Become(r.st) /\ answer' = Error
         ELSE LET p == PoolOf(r.st, t)
                  v == r.st.pages[p].head[c]
              IN  /\ Become(MarkDirty([r.st EXCEPT !.pages[p].head[c] = v + 1], p, "head"))
                  /\ answer' = Answer(t, v)
  BY DEF TakeId
<1>2. /\ Good(r.st, cur) /\ Quiet(Now, r.st)
      /\ r.ok => /\ PoolOf(r.st, t) \in Slots
                 /\ r.st.pages[PoolOf(r.st, t)] \in TablePages
                 /\ r.st.pages[PoolOf(r.st, t)].body # None
  <2>1. /\ Good(r.st, cur) /\ Quiet(Now, r.st)
        /\ r.ok => LET i == First(FindSlot(r.st, t[2]))
                   IN  /\ i \in Used(r.st) /\ PoolOf(r.st, t) = r.st.index[i].pool
                       /\ Meta(Now)[t] = r.st.pages[PoolOf(r.st, t)]
                       /\ Meta(Now)[t] \in TablePages /\ Meta(Now)[t].body # None
    BY <1>1, NowGood, GetStep
  <2> QED BY <2>1, OwnedPool
<1>3. CASE ~r.ok
  BY <1>1, <1>2, <1>3, FailStep DEF Store!Next
<1>4. CASE r.ok
  <2> DEFINE p == PoolOf(r.st, t)
             v == r.st.pages[p].head[c]
             q == [r.st.pages[p] EXCEPT !.head[c] = v + 1]
  <2>1. r.st.pages[p].head \in [Counters -> Nat]
    BY <1>2, <1>4, PagesOfTable
  <2>2. q \in TablePages /\ q.body # None
    BY <1>2, <1>4, <2>1 DEF TablePages
  <2>3. MarkDirty([r.st EXCEPT !.pages[p].head[c] = v + 1], p, "head") = Changed(r.st, p, q, {<<p, "head">>})
    BY <1>2, <1>4 DEF MarkDirty, Changed, Good, States
  <2>4. "head" \in Parts /\ \A x \in Parts : x # "head" => q[x] = r.st.pages[p][x]
    BY <1>2, <1>4, SMTT(40) DEF Parts, TablePages
  <2>5. Become(Changed(r.st, p, q, {<<p, "head">>})) /\ answer' = Answer(t, v)
    BY <1>1, <1>4, <2>3
  <2> HIDE DEF q, v
  <2>6. /\ Good(Now, cur)' /\ Meta(Now)[t] = r.st.pages[p]
        /\ Store!Readable(t) /\ Store!Saving /\ Meta(Now)' = [Meta(Now) EXCEPT ![t] = q]
    <3>1. Become(Changed(r.st, PoolOf(r.st, t), q, {<<PoolOf(r.st, t), "head">>}))
      BY <2>5
    <3>2. \A x \in Parts : x # "head" => q[x] = r.st.pages[PoolOf(r.st, t)][x]
      BY <2>4
    <3>3. "head" \in Parts /\ q \in TablePages /\ q.body # None
      BY <2>2, <2>4
    <3> QED BY <1>4, <3>1, <3>2, <3>3, ModifyStep, SMTT(40)
  <2>7. /\ Meta(Now)' = [Meta(Now) EXCEPT ![t].head[c] = @ + 1]
        /\ v = Meta(Now)[t].head[c]
    BY <2>6 DEF q, v
  <2>8. Store!Take(t, c)
    BY <2>5, <2>6, <2>7 DEF Store!Take, Answer, Store!Answer
  <2> QED BY <2>6, <2>8 DEF Store!Next, Tables, Store!Tables
<1> QED BY <1>3, <1>4

\* A table whose file does not exist is not cached.
LEMMA AbsentNotCached ==
    ASSUME IInv, NEW t \in Tables, file[t] = None
    PROVE  \A i \in Used(Now) : Now.index[i].table # t
  BY DEF IInv, Good, Slotted, Now

\* The file of a new table, before the table is loaded.
LEMMA MadeStep ==
    ASSUME IInv, NEW t \in Tables, t[1] = cur, file[t] = None, NEW f \in TablePages
    PROVE  LET u == [Now EXCEPT !.file[t] = f]
           IN  /\ Good(u, cur) /\ u.file = [file EXCEPT ![t] = f]
               /\ Meta(u) = [Meta(Now) EXCEPT ![t] = f]
               /\ FindSlot(u, t[2]) = {}
<1> DEFINE u == [Now EXCEPT !.file[t] = f]
<1>1. Good(Now, cur) /\ Now \in States
  BY DEF IInv, Good
<1>2. /\ u.index = index /\ u.pages = pages /\ u.order = order /\ u.dirty = dirty
      /\ u.file = [file EXCEPT ![t] = f] /\ u \in States
  BY <1>1 DEF Now, States
<1>3. \A i \in Used(Now) : Now.index[i].table # t /\ Now.index[i].table \in Tables
  BY <1>1, AbsentNotCached, CachedOnce DEF Entries
<1>4. file \in [Tables -> TablePages \cup {None}]
  BY <1>1 DEF Now, States
<1> HIDE DEF u
<1>5. Used(u) = Used(Now) /\ Now.index = index /\ Now.pages = pages /\ Now.file = file
      /\ Now.order = order /\ Now.dirty = dirty
  BY <1>2 DEF Used, Now
<1>6. \A i \in Used(u) : u.file[u.index[i].table] = file[u.index[i].table]
  BY <1>2, <1>3, <1>4, <1>5
<1>7. Slotted(u, cur) /\ Ordered(u) /\ Agree(u)
  <2>1. Slotted(u, cur)
    BY <1>1, <1>2, <1>5, <1>6 DEF Good, Slotted
  <2>2. Ordered(u)
    BY <1>1, <1>2, <1>5 DEF Good, Ordered
  <2>3. Agree(u)
    BY <1>1, <1>2, <1>5, <1>6 DEF Good, Agree, InUse
  <2> QED BY <2>1, <2>2, <2>3
<1>8. Good(u, cur)
  BY <1>2, <1>7 DEF Good
<1>9. Meta(u) = [Meta(Now) EXCEPT ![t] = f]
  <2>1. \A s : CachedIn(u, s) = CachedIn(Now, s)
    BY <1>2, <1>5 DEF CachedIn
  <2>2. CachedIn(Now, t) = {}
    BY <1>3 DEF CachedIn, Used
  <2>3. Meta(u)[t] = f
    BY <1>2, <1>4, <2>1, <2>2 DEF Meta
  <2>4. \A s \in Tables : s # t => Meta(u)[s] = Meta(Now)[s]
    BY <1>2, <1>4, <1>5, <2>1 DEF Meta
  <2>5. Meta(u) = [s \in Tables |-> Meta(u)[s]] /\ Meta(Now) = [s \in Tables |-> Meta(Now)[s]]
    BY DEF Meta
  <2> QED BY <2>3, <2>4, <2>5
<1>10. FindSlot(u, t[2]) = {}
  <2>1. \A i \in FindSlot(u, t[2]) : i \in Used(u) /\ u.index[i].table = t
    BY <1>8, FoundSlot
  <2> QED BY <1>2, <1>3, <1>5, <2>1
<1> QED BY <1>2, <1>8, <1>9, <1>10 DEF u

LEMMA CreateTableMetaStep ==
    ASSUME IInv, NEW t \in Tables, t[1] = cur, NEW s \in Schemas \cup {Huge},
           CreateTableMeta(t, s), cur' = cur
    PROVE  Good(Now, cur)' /\ Store!Next
<1>1. CASE file[t] # None
  <2>1. answer' = Error /\ Become(Now)
    BY <1>1 DEF CreateTableMeta, Become, Now, cache
  <2>2. Quiet(Now, Now)
    BY QuietSame
  <2> QED BY <2>1, <2>2, NowGood, FailStep DEF Store!Next
<1>2. CASE file[t] = None
  <2>1. PICK f \in NewFiles(s) :
           LET made == [Now EXCEPT !.file[t] = f]
           IN  IF s = Huge
               THEN Become(made) /\ answer' = Error
               ELSE \E r \in Load(made, t) :
                      /\ Become(r.st)
                      /\ answer' = IF r.ok THEN Answer(t, s) ELSE Error
    BY <1>2 DEF CreateTableMeta
  <2>2. PICK b \in {s, None} \ {Huge} : f = [head |-> FirstIds, body |-> b]
    BY <2>1 DEF NewFiles
  <2>3. f \in TablePages /\ f # None
    <3>1. FirstIds \in [Counters -> Nat]
      BY DEF FirstIds
    <3>2. f \in TablePages
      BY <2>2, <3>1 DEF TablePages
    <3> QED BY <3>2, PagesOfTable
  <2> DEFINE u == [Now EXCEPT !.file[t] = f]
  <2>4. /\ Good(u, cur) /\ u.file = [file EXCEPT ![t] = f]
        /\ Meta(u) = [Meta(Now) EXCEPT ![t] = f] /\ FindSlot(u, t[2]) = {}
    BY <1>2, <2>3, MadeStep
  <2>5. file \in [Tables -> TablePages \cup {None}]
    BY DEF IInv, Good, States, Now
  <2> HIDE DEF u
  <2>6. PICK v : /\ Become(v) /\ Good(v, cur) /\ Quiet(u, v)
                 /\ \/ answer' = Error
                    \/ answer' = Answer(t, s) /\ s # Huge /\ Meta(v)[t].body # None
    <3>1. CASE s = Huge
      BY <2>1, <2>4, <3>1, QuietSame DEF u
    <3>2. CASE s # Huge
      <4>1. PICK r \in Load(u, t) :
               Become(r.st) /\ answer' = IF r.ok THEN Answer(t, s) ELSE Error
        BY <2>1, <3>2 DEF u
      <4>2. /\ Good(r.st, cur) /\ Quiet(u, r.st)
            /\ r.ok => FindSlot(r.st, t[2]) # {}
        BY <2>4, <4>1, LoadStep, SMTT(40)
      <4>3. ASSUME r.ok PROVE Meta(r.st)[t].body # None
        <5> DEFINE i == First(FindSlot(r.st, t[2]))
        <5>1. i \in Used(r.st) /\ r.st.index[i].table = t
          BY <4>2, <4>3, FoundSlot
        <5> HIDE DEF i
        <5>2. Meta(r.st)[t] = r.st.pages[r.st.index[i].pool]
          BY <4>2, <5>1, MetaOfCached
        <5> QED BY <4>2, <5>1, <5>2 DEF Good, Slotted
      <4> QED BY <3>2, <4>1, <4>2, <4>3
    <3> QED BY <3>1, <3>2
  <2>7. Now' = v /\ v.file = file'
    BY <2>6, BecomeNow DEF Good, Become
  <2>8. Good(Now, cur)' /\ Meta(Now)' = [Meta(Now) EXCEPT ![t] = f]
    BY <2>4, <2>6, <2>7 DEF Quiet
  <2>9. FileTakes([file EXCEPT ![t] = f], file', [Meta(Now) EXCEPT ![t] = f])
    BY <2>4, <2>6, <2>7 DEF Quiet
  <2>10. file'[t] = f
    <3>1. file' \in [Tables -> TablePages \cup {None}]
      BY <2>8 DEF Good, States, Now
    <3>2. [file EXCEPT ![t] = f][t] = f /\ [Meta(Now) EXCEPT ![t] = f][t] = f
      BY <2>5 DEF Meta
    <3>3. \/ file'[t] = f
          \/ file'[t] # None /\ \A p \in Parts : file'[t][p] \in {f[p], f[p]}
      BY <2>9, <3>2 DEF FileTakes
    <3> QED BY <2>3, <3>1, <3>3, PagesOfTable
  <2>11. \A w \in Tables \ {t} :
            \/ file'[w] = file[w]
            \/ /\ file[w] # None /\ file'[w] # None
               /\ \A p \in Parts : file'[w][p] \in {file[w][p], Meta(Now)[w][p]}
    <3>1. \A w \in Tables \ {t} : [file EXCEPT ![t] = f][w] = file[w]
                                  /\ [Meta(Now) EXCEPT ![t] = f][w] = Meta(Now)[w]
      BY <2>5 DEF Meta
    <3> QED BY <2>9, <3>1 DEF FileTakes
  <2>12. f = Store!New(b)
    BY <2>2 DEF Store!New, FirstIds, Store!FirstIds
  <2>13. Store!Make(t, b)
    BY <1>2, <2>8, <2>10, <2>11, <2>12
       DEF Store!Make, Store!KeptOrSaved, Parts, Store!Parts, Tables, Store!Tables
  <2>14. CASE answer' = Error
    <3>1. b = None \/ b \in Schemas
      BY <2>2
    <3>2. Store!CreateTorn(t) \/ (b \in Schemas /\ Store!Create(t, b))
      BY <2>13, <2>14, <3>1 DEF Store!CreateTorn, Store!Create, Error, Store!Error
    <3> QED BY <2>8, <3>2 DEF Store!Next, Tables, Store!Tables
  <2>15. CASE answer' = Answer(t, s) /\ s # Huge /\ Meta(v)[t].body # None
    <3>1. Meta(v)[t] = f
      BY <2>4, <2>6 DEF Quiet, Meta
    <3>2. b = s /\ s \in Schemas
      BY <2>2, <2>15, <3>1
    <3>3. Store!Create(t, s)
      BY <2>13, <2>15, <3>2 DEF Store!Create, Answer, Store!Answer
    <3> QED BY <2>8, <3>2, <3>3, SMTT(40) DEF Store!Next, Tables, Store!Tables
  <2> QED BY <2>6, <2>14, <2>15
<1> QED BY <1>1, <1>2

\* With nothing dirty, the cache holds what the files hold.
LEMMA CleanMeta ==
    ASSUME NEW st, NEW d, Good(st, d), st.dirty = {}
    PROVE  Meta(st) = st.file
<1>1. st.file = [t \in Tables |-> st.file[t]] /\ st \in States
  BY DEF Good, States
<1>2. ASSUME NEW t \in Tables
      PROVE  Meta(st)[t] = st.file[t]
  <2>1. CASE \E i \in Used(st) : st.index[i].table = t
    <3>1. PICK i \in Used(st) : st.index[i].table = t
      BY <2>1
    <3>2. Meta(st)[t] = st.pages[st.index[i].pool]
      BY <3>1, MetaOfCached
    <3>3. st.pages[st.index[i].pool] \in TablePages /\ st.file[t] \in TablePages
      BY <1>1, <3>1 DEF Good, Slotted, States
    <3>4. \A p \in Parts : st.pages[st.index[i].pool][p] = st.file[t][p]
      BY <3>1 DEF Good, Agree
    <3> QED BY <3>2, <3>3, <3>4, PagesOfTable
  <2>2. CASE \A i \in Used(st) : st.index[i].table # t
    BY <2>2, NotCached
  <2> QED BY <2>1, <2>2
<1>3. Meta(st) = [t \in Tables |-> Meta(st)[t]]
  BY DEF Meta
<1> QED BY <1>1, <1>2, <1>3

\* An empty cache answers what the files hold.
LEMMA EmptiedStep ==
    ASSUME NEW st \in States, NEW d
    PROVE  /\ Good(Emptied(st), d) /\ Emptied(st).file = st.file
           /\ Meta(Emptied(st)) = st.file
<1> DEFINE u == Emptied(st)
<1>1. /\ u.index = [i \in Slots |-> None] /\ u.pages = [i \in Slots |-> Blank]
      /\ u.dirty = {} /\ u.order = <<>> /\ u.file = st.file /\ u \in States
  <2>1. /\ [i \in Slots |-> None] \in [Slots -> Entries \cup {None}]
        /\ [i \in Slots |-> Blank] \in [Slots -> TablePages \cup {Blank}]
        /\ {} \in SUBSET (Slots \X Parts)
    OBVIOUS
  <2>2. <<>> \in Seq(Slots)
    OBVIOUS
  <2> DEFINE I == [i \in Slots |-> None]
             B == [i \in Slots |-> Blank]
  <2>3. u = [st EXCEPT !.index = I, !.pages = B, !.dirty = {}, !.order = <<>>]
    BY DEF Emptied
  <2> HIDE DEF I, B, u
  <2>4. u.index = I /\ u.pages = B /\ u.dirty = {} /\ u.order = <<>> /\ u.file = st.file /\ u \in States
    BY <2>1, <2>2, <2>3 DEF States, I, B
  <2> QED BY <2>4 DEF I, B
<1>2. st.file = [t \in Tables |-> st.file[t]]
  BY DEF States
<1> HIDE DEF u
<1>3. Used(u) = {}
  BY <1>1 DEF Used
<1>4. Slotted(u, d) /\ Agree(u)
  BY <1>1, <1>3 DEF Slotted, Agree
<1>5. Ordered(u)
  <2>1. DOMAIN u.order = {}
    BY <1>1
  <2> QED BY <1>3, <2>1 DEF Ordered, Members, Distinct
<1>6. Good(u, d)
  BY <1>1, <1>4, <1>5 DEF Good
<1>7. Meta(u) = u.file
  BY <1>1, <1>6, CleanMeta
<1> QED BY <1>1, <1>6, <1>7 DEF u

LEMMA FlushStep ==
    ASSUME IInv, NEW w \in FlushAll(Now)
    PROVE  /\ Good(w.st, cur) /\ Quiet(Now, w.st)
           /\ w.ok => w.st.dirty = {}
<1> DEFINE D == {x \in Now.dirty : InUse(Now, x[1])}
<1>1. w \in Write(Now, D) /\ D \subseteq Now.dirty
  BY DEF FlushAll
<1>2. D = Now.dirty
  BY NowGood DEF Good, Agree
<1> HIDE DEF D
<1> QED BY <1>1, <1>2, NowGood, WriteStep

LEMMA ClearStep ==
    ASSUME IInv, Clear, cur' = cur
    PROVE  Good(Now, cur)' /\ Store!Next
<1>1. PICK w \in FlushAll(Now) : Become(IF w.ok THEN Emptied(w.st) ELSE w.st) /\ answer' = Error
  BY DEF Clear
<1>2. Good(w.st, cur) /\ Quiet(Now, w.st) /\ (w.ok => w.st.dirty = {})
  BY <1>1, FlushStep
<1>3. CASE w.ok
  <2>1. /\ Good(Emptied(w.st), cur) /\ Emptied(w.st).file = w.st.file
        /\ Meta(Emptied(w.st)) = w.st.file
    BY <1>2, EmptiedStep DEF Good
  <2>2. Meta(w.st) = w.st.file
    BY <1>2, <1>3, CleanMeta
  <2>3. Quiet(w.st, Emptied(w.st))
    BY <2>1, <2>2 DEF Quiet, FileTakes
  <2>4. Quiet(Now, Emptied(w.st))
    BY <1>2, <2>3, QuietTwice
  <2>5. Become(Emptied(w.st))
    BY <1>1, <1>3
  <2> QED BY <1>1, <2>1, <2>4, <2>5, FailStep DEF Store!Next
<1>4. CASE ~w.ok
  BY <1>1, <1>2, <1>4, FailStep DEF Store!Next
<1> QED BY <1>3, <1>4

LEMMA EvictTableStep ==
    ASSUME IInv, cur # None, NEW n \in Names, EvictTable(n), cur' = cur
    PROVE  Good(Now, cur)' /\ Store!Next
<1>1. PICK w \in EvictSlot(Now, First(FindSlot(Now, n))) : Become(w.st) /\ answer' = Error
  BY DEF EvictTable
<1>2. First(FindSlot(Now, n)) \in Used(Now)
  <2>1. FindSlot(Now, n) # {} /\ FindSlot(Now, n) \subseteq Used(Now) /\ Used(Now) \subseteq Slots
    BY DEF EvictTable, FindSlot, Used
  <2> QED BY <2>1, FirstIn
<1>3. Good(w.st, cur) /\ Quiet(Now, w.st)
  BY <1>1, <1>2, NowGood, EvictStep
<1> QED BY <1>1, <1>3, FailStep DEF Store!Next

\* Every operation on a table of the current database.
LEMMA TableOpStep ==
    ASSUME IInv, TableOp
    PROVE  IInv' /\ Store!Next
<1>1. cur # None /\ dirs' = dirs /\ cur' = cur
  BY DEF TableOp
<1>2. Good(Now, cur)' /\ Store!Next
  <2>1. ASSUME NEW n \in Names, LoadTableMeta(<<cur, n>>)
        PROVE  Good(Now, cur)' /\ Store!Next
    BY <1>1, <2>1, TableOfCur, LoadTableMetaStep
  <2>2. ASSUME NEW n \in Names, ReadSchema(<<cur, n>>)
        PROVE  Good(Now, cur)' /\ Store!Next
    BY <1>1, <2>2, TableOfCur, ReadSchemaStep
  <2>3. ASSUME NEW n \in Names, NEW s \in Schemas \cup {Huge}, CreateTableMeta(<<cur, n>>, s)
        PROVE  Good(Now, cur)' /\ Store!Next
    BY <1>1, <2>3, TableOfCur, CreateTableMetaStep
  <2>4. ASSUME NEW n \in Names, NEW s \in Schemas \cup {Huge}, WriteSchema(<<cur, n>>, s)
        PROVE  Good(Now, cur)' /\ Store!Next
    BY <1>1, <2>4, TableOfCur, WriteSchemaStep
  <2>5. ASSUME NEW n \in Names, NEW c \in Counters, TakeId(<<cur, n>>, c)
        PROVE  Good(Now, cur)' /\ Store!Next
    BY <1>1, <2>5, TableOfCur, TakeIdStep
  <2>6. ASSUME NEW n \in Names, EvictTable(n)
        PROVE  Good(Now, cur)' /\ Store!Next
    BY <1>1, <2>6, EvictTableStep
  <2>7. CASE Flush
    <3>1. PICK w \in FlushAll(Now) : Become(w.st) /\ answer' = Error
      BY <2>7 DEF Flush
    <3>2. Good(w.st, cur) /\ Quiet(Now, w.st)
      BY <3>1, FlushStep
    <3> QED BY <1>1, <3>1, <3>2, FailStep DEF Store!Next
  <2>8. CASE Clear
    BY <1>1, <2>8, ClearStep
  <2> QED BY <2>1, <2>2, <2>3, <2>4, <2>5, <2>6, <2>7, <2>8 DEF TableOp
<1> QED BY <1>1, <1>2 DEF IInv

-----------------------------------------------------------------------------
(* Databases                                                               *)

\* A new Storage starts with an empty cache: what was not written is lost, and
\* nothing is if no page was dirty.
LEMMA NewStorageStep ==
    ASSUME IInv, NEW d \in Dbs \cup {None}, NewStorage(d)
    PROVE  /\ IInv'
           /\ answer' = None => Store!Stop
           /\ answer' = Error /\ dirty = {} => Store!Fail
<1> DEFINE u == Emptied(Now)
<1>1. cur' = d /\ Become(u) /\ dirs' = dirs
  BY DEF NewStorage
<1>2. Good(u, d) /\ u.file = file /\ Meta(u) = file
  BY NowGood, EmptiedStep DEF Good
<1> HIDE DEF u
<1>3. Now' = u /\ file' = u.file
  BY <1>1, <1>2, BecomeNow DEF Good, Become
<1>4. Good(Now, cur)' /\ Meta(Now)' = file /\ file' = file
  BY <1>1, <1>2, <1>3
<1>5. ASSUME answer' = None PROVE Store!Stop
  BY <1>4, <1>5 DEF Store!Stop
<1>6. ASSUME answer' = Error, dirty = {} PROVE Store!Fail
  <2>1. Now.dirty = {} /\ Now.file = file
    BY <1>6, NowGood DEF Now
  <2>2. Meta(Now) = file
    BY <2>1, NowGood, CleanMeta
  <2>3. Meta(Now)' = Meta(Now)
    BY <1>4, <2>2
  <2>4. Store!Saving
    BY <1>4 DEF Store!Saving, Store!KeptOrSaved
  <2> QED BY <1>6, <2>3, <2>4 DEF Store!Fail, Error, Store!Error
<1> QED BY <1>1, <1>4, <1>5, <1>6 DEF IInv

LEMMA CreateDbStep ==
    ASSUME IInv, NEW d \in Dbs, CreateDb(d)
    PROVE  IInv' /\ Store!Next
<1>1. Become(Now) /\ answer' = Error /\ cur' = cur /\ dirs' = dirs \cup {d}
  BY DEF CreateDb, Become, Now, cache
<1>2. Quiet(Now, Now)
  BY QuietSame
<1>3. Good(Now, cur)' /\ Store!Fail
  BY <1>1, <1>2, NowGood, FailStep
<1> QED BY <1>1, <1>3 DEF IInv, Store!Next

LEMMA DropDbStep ==
    ASSUME IInv, NEW d \in Dbs, DropDb(d)
    PROVE  IInv' /\ Store!Next
<1> DEFINE g == [t \in Tables |-> IF t[1] = d THEN None ELSE file[t]]
           u == [Now EXCEPT !.file = g]
<1>1. Good(Now, cur) /\ Now \in States /\ file \in [Tables -> TablePages \cup {None}]
  BY NowGood DEF Good, States
<1>2. dirs' = dirs \ {d} /\ file' = g /\ answer' = Error
  BY DEF DropDb
<1>3. g \in [Tables -> TablePages \cup {None}]
  BY <1>1
<1>4. /\ u \in States /\ u.file = g /\ u.index = index /\ u.pages = pages
      /\ u.dirty = dirty /\ u.order = order
  BY <1>1, <1>3 DEF States, Now
<1>5. \A i \in Used(Now) : Now.index[i].table \in Tables /\ Now.index[i].table[1] = cur
  BY <1>1, CachedOnce DEF Entries, Good, Slotted
<1>6. /\ Good(Now, cur)' /\ cur' \in {cur, None}
      /\ \A t \in Tables : Meta(Now)'[t] = IF t[1] = d THEN None ELSE Meta(Now)[t]
  <2>1. CASE cur = d
    <3> DEFINE e == Emptied(u)
    <3>1. /\ cur' = None /\ index' = Emptied(Now).index /\ pages' = Emptied(Now).pages
          /\ dirty' = Emptied(Now).dirty /\ order' = Emptied(Now).order
      BY <2>1 DEF DropDb
    <3>2. Now' = e
      <4>1. /\ Emptied(Now).index = e.index /\ Emptied(Now).pages = e.pages
            /\ Emptied(Now).dirty = e.dirty /\ Emptied(Now).order = e.order
            /\ e.file = g /\ e \in States
        <5>1. /\ Emptied(Now) \in States /\ Emptied(u) \in States /\ Emptied(u).file = g
          BY <1>1, <1>4, EmptiedStep DEF Good
        <5>2. \A s \in States : /\ Emptied(s).index = [i \in Slots |-> None]
                                /\ Emptied(s).pages = [i \in Slots |-> Blank]
                                /\ Emptied(s).dirty = {} /\ Emptied(s).order = <<>>
          BY DEF Emptied, States
        <5> QED BY <1>1, <1>4, <5>1, <5>2
      <4> HIDE DEF e, g
      <4>2. Become(e)
        BY <1>2, <3>1, <4>1 DEF Become
      <4> QED BY <4>1, <4>2, BecomeNow
    <3>3. Good(e, None) /\ Meta(e) = g
      BY <1>4, EmptiedStep
    <3> HIDE DEF e, g
    <3>4. Good(Now, cur)' /\ Meta(Now)' = g
      BY <3>1, <3>2, <3>3
    <3>5. \A t \in Tables : t[1] # d => Meta(Now)[t] = file[t]
      <4>1. \A t \in Tables : t[1] # d => \A i \in Used(Now) : Now.index[i].table # t
        BY <1>5, <2>1
      <4> QED BY <4>1, NotCached, NowGood
    <3>6. \A t \in Tables : g[t] = IF t[1] = d THEN None ELSE file[t]
      BY DEF g
    <3> QED BY <3>1, <3>4, <3>5, <3>6
  <2>2. CASE cur # d
    <3>1. cur' = cur /\ index' = index /\ pages' = pages /\ dirty' = dirty /\ order' = order
      BY <2>2 DEF DropDb, cache
    <3>2. Become(u)
      BY <1>2, <1>4, <3>1 DEF Become
    <3>3. Now' = u
      BY <1>4, <3>2, BecomeNow
    <3>4. \A i \in Used(Now) : g[Now.index[i].table] = file[Now.index[i].table]
      BY <1>5, <2>2
    <3>5. \A t \in Tables : g[t] = IF t[1] = d THEN None ELSE file[t]
      OBVIOUS
    <3>6. /\ Now.index = index /\ Now.pages = pages /\ Now.file = file
          /\ Now.dirty = dirty /\ Now.order = order
      BY DEF Now
    <3> HIDE DEF u, g
    <3>7. Used(u) = Used(Now)
      BY <1>4, <3>6 DEF Used
    <3>8. Good(u, cur)
      <4>1. Slotted(u, cur)
        BY <1>1, <1>4, <3>4, <3>6, <3>7 DEF Good, Slotted
      <4>2. Ordered(u)
        BY <1>1, <1>4, <3>6, <3>7 DEF Good, Ordered
      <4>3. Agree(u)
        BY <1>1, <1>4, <3>4, <3>6, <3>7 DEF Good, Agree, InUse
      <4> QED BY <1>4, <4>1, <4>2, <4>3 DEF Good
    <3>9. ASSUME NEW t \in Tables
          PROVE  Meta(u)[t] = IF t[1] = d THEN None ELSE Meta(Now)[t]
      <4>1. CASE \E i \in Used(Now) : Now.index[i].table = t
        <5>1. PICK i \in Used(Now) : Now.index[i].table = t
          BY <4>1
        <5>2. Meta(Now)[Now.index[i].table] = Now.pages[Now.index[i].pool]
          BY <1>1, <5>1, MetaOfCached
        <5>3. i \in Used(u)
          BY <3>7
        <5>4. Meta(u)[u.index[i].table] = u.pages[u.index[i].pool]
          BY <3>8, <5>3, MetaOfCached
        <5>5. t[1] # d
          BY <1>5, <2>2, <5>1
        <5> QED BY <1>4, <3>6, <5>1, <5>2, <5>4, <5>5
      <4>2. CASE \A i \in Used(Now) : Now.index[i].table # t
        <5>1. Meta(Now)[t] = file[t]
          BY <3>6, <4>2, NotCached
        <5>2. \A i \in Used(u) : u.index[i].table # t
          BY <1>4, <3>6, <3>7, <4>2
        <5>3. Meta(u)[t] = g[t]
          BY <1>4, <5>2, NotCached
        <5> QED BY <3>5, <5>1, <5>3
      <4> QED BY <4>1, <4>2
    <3> QED BY <3>1, <3>3, <3>8, <3>9
  <2> QED BY <2>1, <2>2
<1>7. Meta(Now)' = [t \in Tables |-> IF t[1] = d THEN None ELSE Meta(Now)[t]]
  <2>1. Meta(Now)' = [t \in Tables |-> Meta(Now)'[t]]
    BY DEF Meta
  <2> QED BY <1>6, <2>1
<1>8. Store!Drop(d)
  BY <1>2, <1>7 DEF Store!Drop, Error, Store!Error, Tables, Store!Tables
<1> QED BY <1>2, <1>6, <1>8 DEF IInv, Store!Next

LEMMA NextStep ==
    ASSUME IInv, Next
    PROVE  IInv' /\ (FlushFirst => Store!Next)
<1>1. CASE TableOp
  BY <1>1, TableOpStep
<1>2. ASSUME NEW d \in Dbs, CreateDb(d)
      PROVE  IInv' /\ Store!Next
  BY <1>2, CreateDbStep
<1>3. ASSUME NEW d \in Dbs, UseDb(d)
      PROVE  IInv' /\ (FlushFirst => Store!Next)
  <2>1. IInv' /\ (dirty = {} => Store!Fail)
    BY <1>3, NewStorageStep DEF UseDb
  <2> QED BY <1>3, <2>1 DEF UseDb, MayReplace, Store!Next
<1>4. ASSUME NEW d \in Dbs, DropDb(d)
      PROVE  IInv' /\ Store!Next
  BY <1>4, DropDbStep
<1>5. CASE ClearCurrentDb
  <2>1. IInv' /\ (dirty = {} => Store!Fail)
    BY <1>5, NewStorageStep DEF ClearCurrentDb
  <2> QED BY <1>5, <2>1 DEF ClearCurrentDb, MayReplace, Store!Next
<1>6. CASE Crash
  <2>1. IInv' /\ Store!Stop
    BY <1>6, NewStorageStep DEF Crash
  <2> QED BY <2>1 DEF Store!Next
<1> QED BY <1>1, <1>2, <1>3, <1>4, <1>5, <1>6 DEF Next, DbOp

-----------------------------------------------------------------------------
(* The theorems                                                            *)

LEMMA InitInvariant ==
    ASSUME Init
    PROVE  IInv /\ Store!Init
<1>1. Emptied(Now) = Now /\ Now \in States /\ Now.file = file
  <2> DEFINE I == [i \in Slots |-> None]
             B == [i \in Slots |-> Blank]
             F == [t \in Tables |-> None]
  <2>1. Now = [file |-> F, index |-> I, pages |-> B, dirty |-> {}, order |-> <<>>]
    BY DEF Init, Now
  <2>2. I \in [Slots -> Entries \cup {None}] /\ B \in [Slots -> TablePages \cup {Blank}]
    OBVIOUS
  <2>3. F \in [Tables -> TablePages \cup {None}] /\ <<>> \in Seq(Slots) /\ file = F
    BY DEF Init
  <2>4. Emptied(Now) = [Now EXCEPT !.index = I, !.pages = B, !.dirty = {}, !.order = <<>>]
    BY DEF Emptied
  <2> HIDE DEF I, B, F
  <2>5. Emptied(Now) = Now /\ Now.file = file
    BY <2>1, <2>3, <2>4
  <2>6. Now \in States
    BY <2>1, <2>2, <2>3 DEF States
  <2> QED BY <2>5, <2>6
<1>2. Good(Now, cur) /\ Meta(Now) = file
  BY <1>1, EmptiedStep
<1> QED BY <1>2 DEF Init, IInv, Store!Init, Error, Store!Error, Tables, Store!Tables

LEMMA Inductive == Spec => []IInv
<1>1. Init => IInv
  BY InitInvariant
<1>2. ASSUME IInv, [Next]_vars
      PROVE  IInv'
  <2>1. CASE Next
    BY <1>2, <2>1, NextStep
  <2>2. CASE UNCHANGED vars
    BY <1>2, <2>2 DEF vars, IInv, Good, States, Slotted, Ordered, Agree, Now, Used, InUse
  <2> QED BY <1>2, <2>1, <2>2
<1> QED BY <1>1, <1>2, PTL DEF Spec

\* In every state, each slot of the catalog cache in use holds another table of
\* the current database, in a pool slot of its own, and the order of use lists
\* it once: no table is answered with another's pages.
THEOREM SlotsNeverMixTables == Spec => []IndexConsistent
<1>1. IInv => IndexConsistent
  <2> SUFFICES ASSUME IInv PROVE IndexConsistent
    OBVIOUS
  <2>1. /\ Now.index = index /\ Now.order = order /\ Good(Now, cur)
    BY NowGood DEF Now
  <2>2. Used(Now) = {i \in Slots : index[i] # None}
    BY <2>1 DEF Used
  <2> QED BY <2>1, <2>2 DEF IndexConsistent, Good, Slotted, Ordered, Members, Distinct
<1> QED BY <1>1, Inductive, PTL

\* In every state, a dirty page belongs to a slot in use and a cached page that
\* is not dirty is what the table file holds: discarding it loses nothing.
THEOREM CleanPagesOnDisk == Spec => []PagesAgree
<1>1. IInv => PagesAgree
  <2> SUFFICES ASSUME IInv PROVE PagesAgree
    OBVIOUS
  <2>1. /\ Now.index = index /\ Now.pages = pages /\ Now.dirty = dirty /\ Now.file = file
        /\ Good(Now, cur)
    BY NowGood DEF Now
  <2>2. \A i \in Slots : index[i] # None => i \in Used(Now)
    BY <2>1 DEF Used
  <2> QED BY <2>1, <2>2 DEF PagesAgree, Good, Slotted, Agree
<1> QED BY <1>1, Inductive, PTL

\* Every behaviour of the cache, with its misses, evictions, torn creations and
\* failed writes, is one of a catalog without a cache, provided that the callers
\* change database with no dirty page.
THEOREM CatalogIsStore == ASSUME FlushFirst PROVE Spec => StoreKept
<1>1. Init => Store!Init
  BY InitInvariant
<1>2. IInv /\ [Next]_vars => [Store!Next]_(Store!vars)
  <2> SUFFICES ASSUME IInv, [Next]_vars PROVE [Store!Next]_(Store!vars)
    OBVIOUS
  <2>1. CASE Next
    BY <2>1, NextStep
  <2>2. CASE UNCHANGED vars
    <3>1. Now' = Now /\ file' = file /\ answer' = answer
      BY <2>2 DEF vars, Now
    <3>2. Meta(Now)' = Meta(Now)
      BY <3>1
    <3> QED BY <3>1, <3>2 DEF Store!vars
  <2> QED BY <2>1, <2>2
<1> QED BY <1>1, <1>2, Inductive, PTL DEF Spec, StoreKept, Store!Spec
=============================================================================
