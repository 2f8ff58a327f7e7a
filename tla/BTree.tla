------------------------------- MODULE BTree -------------------------------
(***************************************************************************)
(* src/storage/btree: insert, search, delete and range scan over pages.    *)
(* Records have one size, so a page's room is a number of cells: LeafCap   *)
(* and InternalCap count the cells ever written since init_page, because   *)
(* removing a slot does not give its bytes back.  The buffer pool is used  *)
(* by its promise (PageStore): a page reads as it was last written.        *)
(* An operator with an underscore in its name is a faulty variant of the   *)
(* one that follows it; the specification uses none of them.               *)
(***************************************************************************)
EXTENDS Naturals, FiniteSets, Sequences

CONSTANTS Keys,             \* record keys, ordered
          Values, NoValue,
          LastPage,         \* bound: pages of the file
          LeafCap,          \* records a leaf page has room for
          MergeCap,         \* records can_merge_pages lets one page hold
          InternalCap,      \* separators an internal page has room for
          InternalSplits,   \* bound: explore inserts that fill an internal page?
          Holes,            \* bound: explore splits of a full page with one live record?
          Emptied           \* bound: explore inserts below a root without children?

ASSUME BTAssumption == /\ Keys \subseteq Nat /\ IsFiniteSet(Keys)
                       /\ LastPage \in Nat /\ LastPage >= 2
                       /\ LeafCap \in Nat /\ LeafCap >= 2
                       /\ MergeCap \in Nat /\ MergeCap >= LeafCap
                       /\ InternalCap \in Nat \ {0}
                       /\ {InternalSplits, Holes, Emptied} \subseteq BOOLEAN
                       /\ NoValue \notin Values

VARIABLES tree,      \* [node, alloc, root]: the pages, the bitmap, th.root_page
          aborted,   \* an assert of the code failed
          answer     \* the last call and whether it returned true

vars == <<tree, aborted, answer>>

Pages  == 2..LastPage      \* 0 and 1 hold the meta page and the bitmap
NoPage == 0
Descend(Step(_), p) == Step(Step(Step(p)))   \* bound: 3 levels of internal pages (100 in the code)

\* a leaf's cells map keys to values, an internal page's separators to children
Leaf(parent) == [level |-> "leaf", cells |-> <<>>, used |-> 0, parent |-> parent,
                 prev |-> NoPage, next |-> NoPage, leftmost |-> NoPage]
Internal(parent, leftmost) == [Leaf(parent) EXCEPT !.level = "internal", !.leftmost = leftmost]
Unused == [Leaf(NoPage) EXCEPT !.level = "unused"]

Size(n)  == Cardinality(DOMAIN n.cells)
Least(S) == CHOOSE x \in S : \A y \in S : x <= y
Greatest(S) == CHOOSE x \in S : \A y \in S : y <= x
Only(f, S) == [k \in S |-> f[k]]
Without(f, k) == Only(f, DOMAIN f \ {k})
With(f, k, x) == [j \in DOMAIN f \union {k} |-> IF j = k THEN x ELSE f[j]]
Joined(f, g)  == [k \in DOMAIN f \union DOMAIN g |-> IF k \in DOMAIN f THEN f[k] ELSE g[k]]
\* the n smallest of a set of keys
Smallest(S, n) == {k \in S : Cardinality({j \in S : j < k}) < n}

Init == /\ tree = [node |-> [p \in Pages |-> IF p = 2 THEN Leaf(NoPage) ELSE Unused],
                   alloc |-> {2}, root |-> 2]
        /\ aborted = FALSE
        /\ answer = [op |-> "none", ok |-> TRUE]

\* allocate_page: the lowest clear bit, pages 0 to 2 never
Unallocated(t) == {p \in Pages : p >= 3 /\ p \notin t.alloc}
NewPid(t) == Least(Unallocated(t))
Freed(t, p) == [t EXCEPT !.alloc = @ \ {p}, !.node[p] = Unused]

-----------------------------------------------------------------------------
(* find_leaf_page, btree_search and btree_range_scan                       *)

\* internal_find_child: the child of the last separator not above the key
ChildSeparators_Strict(n, k) == {s \in DOMAIN n.cells : s < k}
ChildSeparators(n, k) == {s \in DOMAIN n.cells : s <= k}
Child(n, k) ==
    IF ChildSeparators(n, k) # {} THEN n.cells[Greatest(ChildSeparators(n, k))]
    ELSE IF n.leftmost # NoPage THEN n.leftmost
    ELSE IF DOMAIN n.cells # {} THEN n.cells[Least(DOMAIN n.cells)]
    ELSE NoPage

\* the leaf for a key, or NoPage where the code returns UINT32_MAX
FindLeaf(t, k) ==
    LET Below(p) == IF p # NoPage /\ t.node[p].level = "internal" THEN Child(t.node[p], k) ELSE p
        p == Descend(Below, t.root)
    IN  IF p # NoPage /\ t.node[p].level = "leaf" THEN p ELSE NoPage

Search(t, k) ==
    LET p == FindLeaf(t, k) IN
    IF p # NoPage /\ k \in DOMAIN t.node[p].cells THEN t.node[p].cells[k] ELSE NoValue

\* the pages a scan from the leftmost leaf reads, following next_page_id
Leftmost(t) ==
    LET Below(p) == IF p # NoPage /\ t.node[p].level = "internal" THEN t.node[p].leftmost ELSE p
    IN  Descend(Below, t.root)
Chain(t) ==
    LET at[i \in 1..LastPage] ==
            IF i = 1 THEN Leftmost(t)
            ELSE IF at[i - 1] = NoPage THEN NoPage ELSE t.node[at[i - 1]].next
        n == Cardinality({i \in 1..LastPage : at[i] # NoPage})
    IN  [i \in 1..n |-> at[i]]

-----------------------------------------------------------------------------
(* insert_into_parent, with the root it may create                         *)

\* create_new_root
NewRoot(t, l, sep, r) ==
    LET g == NewPid(t)
        n == [Internal(NoPage, l) EXCEPT !.cells = With(@, sep, r), !.used = 1]
    IN  [t EXCEPT !.root = g,
                  !.alloc = @ \union {g},
                  !.node[g] = n,
                  !.node[l].parent = g,
                  !.node[r].parent = g]

\* a missing parent, or a separator it already has, makes a new root
NeedsRoot(t, l, sep) ==
    LET g == t.node[l].parent IN
    \/ g = NoPage
    \/ t.node[g].level # "internal"
    \/ sep \in DOMAIN t.node[g].cells

InternalFull(t, p) == t.node[p].used >= InternalCap
ParentFull(t, l, sep) == ~NeedsRoot(t, l, sep) /\ InternalFull(t, t.node[l].parent)

\* a separator below all others makes the left page the leftmost child
LeftmostSet(t, l, sep) ==
    LET g == t.node[l].parent IN
    IF ChildSeparators(t.node[g], sep) = {} THEN [t EXCEPT !.node[g].leftmost = l] ELSE t

\* insert_internal_no_split
Linked(t, l, sep, r) ==
    LET g == t.node[l].parent IN
    [LeftmostSet(t, l, sep) EXCEPT !.node[g].cells = With(@, sep, r), !.node[g].used = @ + 1]

\* split_internal_page: the middle separator goes up; the child behind it
\* becomes the new page's leftmost and keeps its old parent_page_id
SplitInternal(t, p) ==
    LET n == t.node[p]
        r == NewPid(t)
        low == Smallest(DOMAIN n.cells, Size(n) \div 2)
        sep == Least(DOMAIN n.cells \ low)
        high == DOMAIN n.cells \ (low \union {sep})
        moved == {n.cells[s] : s \in high}
        right == [Internal(n.parent, n.cells[sep]) EXCEPT
                     !.cells = Only(n.cells, high), !.used = Cardinality(high)]
    IN  [sep |-> sep, right |-> r,
         tree |-> [t EXCEPT
            !.alloc = @ \union {r},
            !.node = [q \in Pages |->
                CASE q = p -> [n EXCEPT !.cells = Only(@, low)]
                  [] q = r -> right
                  [] q \in moved -> [t.node[q] EXCEPT !.parent = r]
                  [] OTHER -> t.node[q]]]]

\* insert_into_parent: after a split of the parent, what was to be inserted
\* is not inserted; only the parent's own separator goes up
AddToParent(t, l, sep, r) ==
    IF NeedsRoot(t, l, sep) THEN NewRoot(t, l, sep, r)
    ELSE IF ~InternalFull(t, t.node[l].parent) THEN Linked(t, l, sep, r)
    ELSE LET g == t.node[l].parent
             s == SplitInternal(LeftmostSet(t, l, sep), g)
         IN  IF NeedsRoot(s.tree, g, s.sep) THEN NewRoot(s.tree, g, s.sep, s.right)
             ELSE Linked(s.tree, g, s.sep, s.right)

-----------------------------------------------------------------------------
(* btree_insert                                                            *)

Put(t, p, k, v) == [t EXCEPT !.node[p].cells = With(@, k, v), !.node[p].used = @ + 1]

\* root_page == 0: a new leaf becomes the root
FirstInsert(t, k, v) ==
    LET p == NewPid(t) IN
    Put([t EXCEPT !.root = p, !.alloc = @ \union {p}, !.node[p] = Leaf(NoPage)], p, k, v)

SplitIndex(n) == IF Size(n) \div 2 = 0 THEN 1 ELSE Size(n) \div 2

\* split_leaf_page (the left page's prev_page_id is reset by init_page)
NextOfRight(n) == n.next
SplitLeaf(t, l) ==
    LET n == t.node[l]
        r == NewPid(t)
        low == Smallest(DOMAIN n.cells, SplitIndex(n))
        high == DOMAIN n.cells \ low
    IN  [sep |-> Least(high), right |-> r,
         tree |-> [t EXCEPT
            !.alloc = @ \union {r},
            !.node = [q \in Pages |->
                CASE q = l -> [Leaf(n.parent) EXCEPT
                        !.cells = Only(n.cells, low), !.used = Cardinality(low), !.next = r]
                  [] q = r -> [Leaf(n.parent) EXCEPT
                        !.cells = Only(n.cells, high), !.used = Cardinality(high),
                        !.prev = l, !.next = NextOfRight(n)]
                  [] q = n.next -> [t.node[q] EXCEPT !.prev = r]
                  [] OTHER -> t.node[q]]]]

SplitInsert(t, l, k, v) ==
    LET s == SplitLeaf(t, l) IN
    AddToParent(Put(s.tree, IF k < s.sep THEN l ELSE s.right, k, v), l, s.sep, s.right)

\* the separator split_leaf_page will return
NextSep(n) == Least(DOMAIN n.cells \ Smallest(DOMAIN n.cells, SplitIndex(n)))

Answer(op, ok) == answer' = [op |-> op, ok |-> ok]
Refuse(op) == Answer(op, FALSE) /\ UNCHANGED <<tree, aborted>>
Abort == aborted' = TRUE /\ UNCHANGED <<tree, answer>>

\* bound: three pages left; a page full of holes only where wanted, and so a full
\* internal page, below a page with room
Explored(t, l) ==
    LET n == t.node[l]
        g == n.parent
    IN  /\ Cardinality(Unallocated(t)) >= 3
        /\ n.used >= LeafCap /\ Size(n) < 2 => Holes
        /\ n.used >= LeafCap /\ Size(n) > 1 /\ ParentFull(t, l, NextSep(n)) =>
              /\ InternalSplits
              /\ t.node[g].parent = NoPage \/ ~InternalFull(t, t.node[g].parent)

\* where the descent ends in no leaf, the code searches an uninitialised page and
\* then fetches page UINT32_MAX, which cannot be read: false either way
Insert(k, v) ==
    LET l == FindLeaf(tree, k)
        n == tree.node[l]
    IN  /\ ~aborted
        /\ \/ /\ tree.root = NoPage
              /\ Unallocated(tree) # {}
              /\ tree' = FirstInsert(tree, k, v)
              /\ Answer("insert", TRUE)
              /\ UNCHANGED aborted
           \/ /\ tree.root # NoPage
              /\ IF l = NoPage THEN Emptied ELSE k \in DOMAIN n.cells
              /\ Refuse("insert")
           \/ /\ l # NoPage
              /\ k \notin DOMAIN n.cells
              /\ n.used < LeafCap
              /\ tree' = Put(tree, l, k, v)
              /\ Answer("insert", TRUE)
              /\ UNCHANGED aborted
           \/ /\ l # NoPage
              /\ k \notin DOMAIN n.cells
              /\ n.used >= LeafCap
              /\ Explored(tree, l)
              \* assert(false && "Page is empty after split"), or "Cannot split
              \* internal page with less than 2 elements"
              /\ IF \/ Size(n) < 2
                    \/ /\ ParentFull(tree, l, NextSep(n))
                       /\ Size(tree.node[n.parent]) < 2
                 THEN Abort
                 ELSE /\ tree' = SplitInsert(tree, l, k, v)
                      /\ Answer("insert", TRUE)
                      /\ UNCHANGED aborted

-----------------------------------------------------------------------------
(* btree_delete                                                            *)

\* find_leaf_siblings: the separator behind which a page hangs, if not leftmost
SeparatorsOf_SkipsFirst(t, p) ==
    LET g == t.node[t.node[p].parent]
    IN  {s \in DOMAIN g.cells : g.cells[s] = p /\ \E j \in DOMAIN g.cells : j < s}
SeparatorsOf(t, p) == {s \in DOMAIN t.node[t.node[p].parent].cells :
                          t.node[t.node[p].parent].cells[s] = p}
IsLeftmost(t, p) == t.node[t.node[p].parent].leftmost = p
LeftSibling(t, p) ==
    LET g == t.node[t.node[p].parent]
        below == {s \in DOMAIN g.cells : s < Least(SeparatorsOf(t, p))}
    IN  IF IsLeftmost(t, p) THEN NoPage
        ELSE IF below = {} THEN g.leftmost ELSE g.cells[Greatest(below)]
\* the separator of the right sibling, as a set with at most that element
RightSeparator(t, p) ==
    LET g == t.node[t.node[p].parent]
        above == IF IsLeftmost(t, p) THEN DOMAIN g.cells
                 ELSE {s \in DOMAIN g.cells : s > Least(SeparatorsOf(t, p))}
    IN  IF above = {} THEN {} ELSE {Least(above)}

Underutilized(n) == 100 * Size(n) < 50 * LeafCap
CanMerge_Blind(t, l, r) == TRUE
CanMerge(t, l, r) == Size(t.node[l]) + Size(t.node[r]) <= MergeCap

\* merge_leaf_pages into the left page, then remove_from_internal of the right
NextAfterMerge_Kept(l, r) == l.next
NextAfterMerge(l, r) == r.next
Removed_Kept(t, p, sep) == t
Removed(t, p, sep) == [t EXCEPT !.node[p].cells = Without(@, sep)]
Merge(t, l, r, sep) ==
    LET a == t.node[l]
        b == t.node[r]
        merged == [a EXCEPT !.cells = Joined(a.cells, b.cells),
                            !.used = Size(a) + Size(b),
                            !.next = NextAfterMerge(a, b)]
        linked == [q \in Pages |->
                     CASE q = l -> merged
                       [] q = b.next -> [t.node[q] EXCEPT !.prev = l]
                       [] OTHER -> t.node[q]]
    IN  Freed(Removed([t EXCEPT !.node = linked], a.parent, sep), r)

\* update_leaf_links_on_free
Unlinked(t, p) ==
    LET n == t.node[p] IN
    [t EXCEPT !.node = [q \in Pages |->
        CASE q = n.prev -> [t.node[q] EXCEPT !.next = n.next]
          [] q = n.next -> [t.node[q] EXCEPT !.prev = n.prev]
          [] OTHER -> t.node[q]]]

\* the root leaf became empty: the tree has no page
EmptyRoot(t, p) == Freed(Unlinked([t EXCEPT !.root = NoPage], p), p)

\* the last child became empty: the internal page keeps no child
LastChild(t, p) == Freed(Unlinked([t EXCEPT !.node[t.node[p].parent].leftmost = NoPage], p), p)

\* the rest of btree_delete; a page that is empty can always be merged with a
\* sibling, so the code after a refused merge only meets a last child
Rebalance(t, p) ==
    LET l == LeftSibling(t, p)
        rs == RightSeparator(t, p)
        r == t.node[t.node[p].parent].cells[Least(rs)]
    IN  IF ~Underutilized(t.node[p]) THEN t
        ELSE IF l # NoPage /\ CanMerge(t, l, p) THEN Merge(t, l, p, Least(SeparatorsOf(t, p)))
        ELSE IF rs # {} /\ CanMerge(t, p, r) THEN Merge(t, p, r, Least(rs))
        ELSE IF Size(t.node[p]) = 0 THEN LastChild(t, p)
        ELSE t

Delete(k) ==
    LET p == FindLeaf(tree, k)
        t == [tree EXCEPT !.node[p].cells = Without(@, k)]
    IN  /\ ~aborted
        /\ \/ /\ Search(tree, k) = NoValue
              /\ Refuse("delete")
           \/ /\ Search(tree, k) # NoValue
              /\ t.node[p].parent = NoPage
              /\ tree' = IF Size(t.node[p]) = 0 THEN EmptyRoot(t, p) ELSE t
              /\ Answer("delete", TRUE)
              /\ UNCHANGED aborted
           \/ /\ Search(tree, k) # NoValue
              /\ t.node[p].parent # NoPage
              \* assert(false && "Leaf page not found in parent")
              /\ IF Underutilized(t.node[p]) /\ ~IsLeftmost(t, p) /\ SeparatorsOf(t, p) = {}
                 THEN Abort
                 ELSE /\ tree' = Rebalance(t, p)
                      /\ Answer("delete", TRUE)
                      /\ UNCHANGED aborted

Next == \E k \in Keys : Delete(k) \/ \E v \in Values : Insert(k, v)

Spec == Init /\ [][Next]_vars
-----------------------------------------------------------------------------
(* Properties                                                              *)

\* The tree has its shape of state: pages of the three kinds, cells of the kind
\* the level calls for, and no more cells than were ever written.
TypeOK ==
    /\ tree.root \in Pages \union {NoPage}
    /\ tree.alloc \subseteq Pages
    /\ aborted \in BOOLEAN
    /\ answer \in [op : {"none", "insert", "delete"}, ok : BOOLEAN]
    /\ \A p \in Pages :
          LET n == tree.node[p] IN
          /\ n.level \in {"leaf", "internal", "unused"}
          /\ DOMAIN n.cells \subseteq Keys
          /\ \A k \in DOMAIN n.cells :
                n.cells[k] \in IF n.level = "leaf" THEN Values ELSE Pages
          /\ Size(n) <= n.used
          /\ n.used <= IF n.level = "internal" THEN InternalCap ELSE MergeCap
          /\ {n.parent, n.prev, n.next, n.leftmost} \subseteq Pages \union {NoPage}

\* What btree_search answers for every key.
Found == [k \in Keys |-> Search(tree, k)]

\* The tree implements the map: a successful insert or delete changes what is
\* found for its key and for no other, through every split and merge.
Map == INSTANCE KVMap WITH map <- Found
MapKept == Map!Spec

\* No assert of the code fails: a delete finds its leaf in the parent
\* (find_leaf_siblings), a split leaves records on both sides (split_leaf_page:
\* "Page is empty after split").
AssertsHold == ~aborted

\* A scan of the leaf chain and the searches agree: every key a search finds is
\* in the chain once, in order, and the chain holds nothing else (links of
\* split_leaf_page and merge_leaf_pages against separators).
ScanAgrees ==
    LET chain == Chain(tree)
        KeysAt(i) == DOMAIN tree.node[chain[i]].cells
    IN  /\ {k \in Keys : Found[k] # NoValue} = UNION {KeysAt(i) : i \in DOMAIN chain}
        /\ \A i, j \in DOMAIN chain :
              i < j => \A a \in KeysAt(i), b \in KeysAt(j) : a < b

\* Every page whose bit is set is the root or a child of the page its
\* parent_page_id names, and every child is allocated: splits, merges and freed
\* pages neither leak a page nor leave a pointer to a free one.
Children(n) ==
    IF n.level # "internal" THEN {}
    ELSE ({n.leftmost} \ {NoPage}) \union {n.cells[s] : s \in DOMAIN n.cells}
PagesAccounted ==
    /\ tree.root # NoPage => tree.root \in tree.alloc /\ tree.node[tree.root].parent = NoPage
    /\ \A p \in tree.alloc \ {tree.root} :
          /\ tree.node[p].parent \in tree.alloc
          /\ p \in Children(tree.node[tree.node[p].parent])
    /\ \A p \in tree.alloc : Children(tree.node[p]) \subseteq tree.alloc

\* An insert of another key never changes what is found for a key, whatever it
\* splits (the tests search for every inserted key again after the splits).
InsertKeepsOthers ==
    [][\A k \in Keys, v \in Values : Insert(k, v) =>
          \A j \in Keys \ {k} : Found'[j] = Found[j]]_vars
=============================================================================
