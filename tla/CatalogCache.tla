--------------------------- MODULE CatalogCache ---------------------------
(* The catalog of the SQL server: DatabaseManager selects a database and   *)
(* owns its Storage, whose CatalogManager caches pages 0 and 1 of a few    *)
(* table files in slots that point to pool slots, with per-page dirty      *)
(* flags and LRU eviction; StorageManager creates, reads and writes the    *)
(* table files.  One thread runs all of it.  Reads and writes of a file    *)
(* may fail, and the process may stop between two operations.              *)
(*                                                                         *)
(* Data kept: page 0 as its counters, page 1 as its schema.  last_access_  *)
(* time only orders the slots: order lists them, least recent first.  A    *)
(* pool slot nobody owns is shown as Blank, since it is read only after a  *)
(* load overwrites it.                                                     *)
EXTENDS Naturals, Sequences, FiniteSets

CONSTANTS Dbs, Names, Columns,   \* databases, table names, AUTO_INCREMENT columns
          Schemas, Huge,         \* schemas that fit in page 1, and one that does not
          None, NSlots,          \* NSlots: 3 in the code
          FlushFirst,            \* TRUE: callers change database with no dirty page
          MaxFiles, MaxIds       \* bounds of the model: table files, ids taken of a table

ASSUME SlotAssumption == NSlots \in Nat \ {0}
ASSUME CallerAssumption == FlushFirst \in BOOLEAN

VARIABLES dirs,     \* database directories
          file,     \* table files
          cur,      \* current_db, None if there is no Storage
          index,    \* hash_index: the table a slot caches and its pool slot
          pages,    \* catalog_pool
          dirty,    \* dirty_flags, as the set of flagged <<pool slot, part>>
          order,    \* slots in use, least recently used first
          answer    \* what the last operation returned or threw, None after a stop

disk  == <<dirs, file>>
cache == <<index, pages, dirty, order>>
vars  == <<dirs, file, cur, index, pages, dirty, order, answer>>

Tables   == Dbs \X Names
Counters == {"row"} \cup Columns
Slots    == 1..NSlots
Parts    == {"head", "body"}
Blank    == [head |-> None, body |-> None]
Error    == [table |-> None, value |-> None]
Answer(t, v) == [table |-> t, value |-> v]
TablePages == [head : [Counters -> Nat], body : Schemas \cup {None}]
Entries    == [table : Tables, pool : Slots]
FirstIds == [c \in Counters |-> IF c = "row" THEN 1 ELSE 0]
First(S) == CHOOSE i \in S : \A j \in S : i <= j

(* None is none of the values whose absence it stands for.                 *)
ASSUME NoneAssumption == None \notin Dbs \cup Schemas \cup Entries \cup TablePages

Init == /\ dirs = {} /\ file = [t \in Tables |-> None] /\ cur = None
        /\ index = [i \in Slots |-> None] /\ pages = [i \in Slots |-> Blank]
        /\ dirty = {} /\ order = <<>> /\ answer = Error

(***************************************************************************)
(* The CatalogManager's private functions, from a state to the set of      *)
(* states they may leave, with ok = FALSE when they throw.                 *)
(***************************************************************************)
Now == [file |-> file, index |-> index, pages |-> pages, dirty |-> dirty, order |-> order]
Become(st) == /\ file' = st.file /\ index' = st.index /\ pages' = st.pages
              /\ dirty' = st.dirty /\ order' = st.order
Done(st, ok) == [st |-> st, ok |-> ok]

FindSlot(st, name) == {i \in Slots : st.index[i] # None /\ st.index[i].table[2] = name}
InUse(st, p) == \E i \in Slots : st.index[i] # None /\ st.index[i].pool = p
OwnerOf(st, p) == st.index[CHOOSE i \in Slots : st.index[i] # None /\ st.index[i].pool = p].table
Place(s, i) == CHOOSE k \in DOMAIN s : s[k] = i
Without(s, i) ==
    IF \A k \in DOMAIN s : s[k] # i THEN s
    ELSE [k \in 1..(Len(s) - 1) |-> IF k < Place(s, i) THEN s[k] ELSE s[k + 1]]
Touch(st, i) == [st EXCEPT !.order = Append(Without(@, i), i)]

(* Dirty pages are written pool slot by pool slot, page 0 first; a flag is *)
(* cleared once its page is written, and a failed write stops the rest.    *)
Rank(x) == 2 * x[1] + (IF x[2] = "body" THEN 1 ELSE 0)
PoolsOf(st, t) == {p \in Slots : InUse(st, p) /\ OwnerOf(st, p) = t}
Written(st, W) ==
    [st EXCEPT !.dirty = @ \ W,
               !.file  = [t \in Tables |->
                  IF PoolsOf(st, t) = {} THEN @[t]
                  ELSE [part \in Parts |-> IF <<First(PoolsOf(st, t)), part>> \in W
                                            THEN st.pages[First(PoolsOf(st, t))][part]
                                            ELSE @[t][part]]]]
Write(st, D) == {LET W == {x \in D : Rank(x) <= k}
                 IN  IF W = {} THEN Done(st, D = {}) ELSE Done(Written(st, W), W = D) :
                    k \in {0} \cup {Rank(x) : x \in D}}
DirtyOf(st, p) == {x \in st.dirty : x[1] = p}

Invalidate(st, i) ==
    [st EXCEPT !.index[i] = None, !.pages[st.index[i].pool] = Blank,
               !.order = Without(@, i)]
X_EvictSlot(st, i) == {Done(Invalidate([st EXCEPT !.dirty = @ \ DirtyOf(st, st.index[i].pool)], i), TRUE)}
EvictSlot(st, i) == {Done(IF w.ok THEN Invalidate(w.st, i) ELSE w.st, w.ok) :
                        w \in Write(st, DirtyOf(st, st.index[i].pool))}

FindOrAllocate(st, name) ==
    IF FindSlot(st, name) # {} \/ \E i \in Slots : st.index[i] = None
    THEN {Done(st, TRUE)}
    ELSE EvictSlot(st, Head(st.order))
SlotFor(st, name) == IF FindSlot(st, name) # {} THEN First(FindSlot(st, name))
                     ELSE First({i \in Slots : st.index[i] = None})
PoolFor(st, i) == IF st.index[i] # None THEN st.index[i].pool
                  ELSE First({p \in Slots : ~InUse(st, p)})

CanOpen(st, t) == st.file[t] # None
HasBothPages(st, t) == st.file[t].body # None   \* reading past the end fails

Loaded(st, t, i, p) ==
    Touch([st EXCEPT !.index[i] = [table |-> t, pool |-> p], !.pages[p] = st.file[t],
                     !.dirty = @ \ ({p} \X Parts)], i)
(* A failed load of a slot in use may have reread page 0 into it.          *)
HalfLoaded(st, t, i) ==
    {st} \cup IF st.index[i] = None \/ ~CanOpen(st, t) THEN {}
              ELSE {[st EXCEPT !.pages[st.index[i].pool].head = st.file[t].head]}
Load(st, t) == UNION {
    IF ~r.ok THEN {r}
    ELSE LET i == SlotFor(r.st, t[2])
         IN  {Done(h, FALSE) : h \in HalfLoaded(r.st, t, i)}
             \cup IF ~(CanOpen(r.st, t) /\ HasBothPages(r.st, t)) THEN {}
                  ELSE {Done(Loaded(r.st, t, i, PoolFor(r.st, i)), TRUE)} :
    r \in FindOrAllocate(st, t[2])}

Get(st, t) == IF FindSlot(st, t[2]) # {}
              THEN {Done(Touch(st, First(FindSlot(st, t[2]))), TRUE)}
              ELSE Load(st, t)
PoolOf(st, t) == st.index[First(FindSlot(st, t[2]))].pool
X_MarkDirty(st, p, part) == IF part = "head" THEN [st EXCEPT !.dirty = @ \cup {<<p, part>>}] ELSE st
MarkDirty(st, p, part) == [st EXCEPT !.dirty = @ \cup {<<p, part>>}]

(***************************************************************************)
(* The public operations on a table of the current database                *)
(***************************************************************************)
LoadTableMeta(t) == \E r \in Load(Now, t) : Become(r.st) /\ answer' = Error

(* create writes page 0 and only then finds that the schema does not fit;  *)
(* its writes are not checked, so a failed one shows up in the load.       *)
NewFiles(s) == {[head |-> FirstIds, body |-> b] : b \in {s, None} \ {Huge}}
CreateTableMeta(t, s) ==
    IF file[t] # None
    THEN answer' = Error /\ UNCHANGED <<file, cache>>
    ELSE /\ Cardinality({u \in Tables : file[u] # None}) < MaxFiles
         /\ \E f \in NewFiles(s) :
              LET made == [Now EXCEPT !.file[t] = f]
              IN  IF s = Huge
                  THEN Become(made) /\ answer' = Error
                  ELSE \E r \in Load(made, t) :
                         /\ Become(r.st)
                         /\ answer' = IF r.ok THEN Answer(t, s) ELSE Error

ReadSchema(t) ==
    \E r \in Get(Now, t) :
       /\ Become(r.st)
       /\ answer' = IF r.ok THEN Answer(t, r.st.pages[PoolOf(r.st, t)].body) ELSE Error

WriteSchema(t, s) ==
    \E r \in Get(Now, t) :
       IF ~r.ok \/ s = Huge
       THEN Become(r.st) /\ answer' = Error
       ELSE LET p == PoolOf(r.st, t)
            IN  /\ Become(MarkDirty([r.st EXCEPT !.pages[p].body = s], p, "body"))
                /\ answer' = Answer(t, s)

IdsTaken(head) == {x \in Counters \X (0..MaxIds) : FirstIds[x[1]] + x[2] < head[x[1]]}
TakeId(t, c) ==
    \E r \in Get(Now, t) :
       IF ~r.ok
       THEN Become(r.st) /\ answer' = Error
       ELSE LET p == PoolOf(r.st, t)
                v == r.st.pages[p].head[c]
            IN  /\ Cardinality(IdsTaken(r.st.pages[p].head)) < MaxIds
                /\ Become(MarkDirty([r.st EXCEPT !.pages[p].head[c] = v + 1], p, "head"))
                /\ answer' = Answer(t, v)

FlushAll(st) == Write(st, {x \in st.dirty : InUse(st, x[1])})
Flush == \E w \in FlushAll(Now) : Become(w.st) /\ answer' = Error

Emptied(st) == [st EXCEPT !.index = [i \in Slots |-> None], !.pages = [i \in Slots |-> Blank],
                          !.dirty = {}, !.order = <<>>]
Clear == \E w \in FlushAll(Now) : /\ Become(IF w.ok THEN Emptied(w.st) ELSE w.st)
                                  /\ answer' = Error

EvictTable(n) == /\ FindSlot(Now, n) # {}
                 /\ \E w \in EvictSlot(Now, First(FindSlot(Now, n))) :
                       Become(w.st) /\ answer' = Error

(***************************************************************************)
(* DatabaseManager                                                         *)
(***************************************************************************)
NewStorage(d) == cur' = d /\ Become(Emptied(Now)) /\ UNCHANGED dirs

(* Nothing here flushes the cache that is replaced: that is left to the    *)
(* callers, and FlushFirst says whether they see to it.                    *)
MayReplace == FlushFirst => dirty = {}

CreateDb(d) == /\ d \notin dirs /\ dirs' = dirs \cup {d}
               /\ answer' = Error /\ UNCHANGED <<file, cur, cache>>

X_UseDb(d) == /\ d \in dirs /\ answer' = Error
              /\ IF cur = None THEN NewStorage(d) ELSE cur' = d /\ UNCHANGED <<disk, cache>>
UseDb(d) == d \in dirs /\ MayReplace /\ NewStorage(d) /\ answer' = Error

ClearCurrentDb == cur # None /\ MayReplace /\ NewStorage(None) /\ answer' = Error

DropDb(d) ==
    /\ d \in dirs /\ dirs' = dirs \ {d}
    /\ file' = [t \in Tables |-> IF t[1] = d THEN None ELSE file[t]]
    /\ answer' = Error
    /\ IF cur = d
       THEN /\ cur' = None
            /\ LET e == Emptied(Now) IN /\ index' = e.index /\ pages' = e.pages
                                        /\ dirty' = e.dirty /\ order' = e.order
       ELSE UNCHANGED <<cur, cache>>

(* The process stops, and nothing is answered; the next one selects a      *)
(* database anew.                                                          *)
Crash == cur # None /\ NewStorage(None) /\ answer' = None

TableOp == /\ cur # None
           /\ \/ \E n \in Names : \/ LoadTableMeta(<<cur, n>>) \/ ReadSchema(<<cur, n>>)
                                  \/ \E s \in Schemas \cup {Huge} :
                                        CreateTableMeta(<<cur, n>>, s) \/ WriteSchema(<<cur, n>>, s)
                                  \/ \E c \in Counters : TakeId(<<cur, n>>, c)
                                  \/ EvictTable(n)
              \/ Flush \/ Clear
           /\ UNCHANGED <<dirs, cur>>

DbOp == \E d \in Dbs : CreateDb(d) \/ UseDb(d) \/ DropDb(d)

Next == TableOp \/ DbOp \/ ClearCurrentDb \/ Crash

Spec == Init /\ [][Next]_vars

(***************************************************************************)
(* Properties                                                              *)
(***************************************************************************)
(* Every slot in use caches another table, in a pool slot of its own, of   *)
(* the current database (slots are searched by table name alone), and is   *)
(* listed once in the order of use.                                        *)
IndexConsistent ==
    LET used == {i \in Slots : index[i] # None}
    IN  /\ \A i \in used : index[i].table[1] = cur
        /\ \A i, j \in used : i # j => /\ index[i].pool # index[j].pool
                                       /\ index[i].table # index[j].table
        /\ {order[k] : k \in DOMAIN order} = used
        /\ \A k, l \in DOMAIN order : order[k] = order[l] => k = l

(* A dirty page belongs to a slot in use, and a cached page that is not    *)
(* dirty holds what its file holds: discarding it loses nothing.           *)
PagesAgree ==
    /\ \A x \in dirty : InUse(Now, x[1])
    /\ \A i \in Slots, p \in Parts :
          (index[i] # None /\ <<index[i].pool, p>> \notin dirty) =>
             /\ file[index[i].table] # None
             /\ pages[index[i].pool][p] = file[index[i].table][p]

(* Hits, misses, evictions, flushes and failed writes cannot be told from  *)
(* a catalog without a cache: every answer is the newest value, and newer  *)
(* values are lost only by a reload or a stop.  A change of database keeps *)
(* them only if the callers flush first (FlushFirst).                      *)
CachedIn(st, t) == {i \in Slots : st.index[i] # None /\ st.index[i].table = t}
Meta(st) == [t \in Tables |-> IF CachedIn(st, t) = {} THEN st.file[t]
                              ELSE st.pages[st.index[First(CachedIn(st, t))].pool]]
Store == INSTANCE CatalogStore WITH saved <- file, meta <- Meta(Now)
StoreKept == Store!Spec
=============================================================================
