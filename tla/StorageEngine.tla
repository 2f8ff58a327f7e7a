--------------------------- MODULE StorageEngine ---------------------------
(* StorageEngine: named tables in files, open handles with a buffer pool   *)
(* each, and the in-memory catalog of schemas behind the relational calls. *)
(* One thread runs it; reads and writes of a file may fail and the process *)
(* may be killed between two calls.                                        *)
(*                                                                         *)
(* A file is its meta page 0 (the root pointer), its bitmap page 1 (the    *)
(* pages in use from 2 on) and its leaf pages.  The model keeps to tables  *)
(* of one leaf: splits are BTree's, the bytes of a page SlottedPage's, and *)
(* evictions BufferPool's, whose pool is larger than such a table.         *)
EXTENDS RowCodec, FiniteSets

CONSTANTS Names, Schemas, Rows,      \* table names, schemas, rows to insert
          Keys, Values,              \* byte strings: the keys and values of records
          RawValues,                 \* the values inserted past the catalog
          NoValue, NoTable, Broken, Blank, Unknown,
          MaxPage, MaxFaults         \* bounds: bits of the bitmap page, faults

Maps     == [Keys -> Values \cup {NoValue}]
PageIds  == 0..MaxPage
Contents(p) == CASE p = 0 -> {0} \cup (2..MaxPage)     \* the root page, 0 for none
                 [] p = 1 -> SUBSET (2..MaxPage)
                 [] OTHER -> Maps \cup {Blank}
Pages    == UNION {Contents(p) : p \in PageIds}
Files    == {f \in [PageIds -> Pages] : \A p \in PageIds : f[p] \in Contents(p)}
Handles  == [root : Contents(0), buf : UNION {[D -> Pages] : D \in SUBSET PageIds}, dirty : SUBSET PageIds]

(* The marks are none of the values whose absence they stand for.          *)
ASSUME MarkAssumption ==
    /\ NoValue \notin Values
    /\ NoTable \notin Files \cup Handles \cup Maps \cup Schemas \cup {Broken}
    /\ Broken \notin Maps /\ Blank \notin Maps
ASSUME BoundAssumption == MaxPage \in Nat /\ MaxPage >= 3 /\ MaxFaults \in Nat

VARIABLES file,      \* the pages of each table's file, NoTable if there is none
          handle,    \* open_tables_: root_page, the pages in the pool, the dirty ones
          schema,    \* the catalog
          given,     \* the row a scan should show for each key
          faults, answer

vars == <<file, handle, schema, given, faults, answer>>

Fits(bytes) == bytes # <<>> /\ Len(bytes) < Width
Encodable == {x \in Schemas \X Rows : /\ ~Throws(x[1], x[2])
                                      /\ Fits(EncodeKey(x[1], x[2])) /\ Fits(EncodeValue(x[1], x[2]))}
ASSUME BytesAssumption ==
    /\ \A x \in Encodable : EncodeKey(x[1], x[2]) \in Keys /\ EncodeValue(x[1], x[2]) \in Values
    /\ \A k \in Keys : Fits(k)
    /\ RawValues \subseteq Values /\ \A v \in Values : Fits(v)

Cells == {c \in [type : ColumnTypes \ {"DATETIME"}, data : Seq(Nat)] :
             c.type # "STRING" => Len(c.data) = Units(c.type)}
ASSUME RowAssumption == /\ Rows \subseteq Seq(Cells)
                        /\ \A s \in Schemas : s.columns \in Seq(ColumnTypes)

Leaf   == [k \in Keys |-> NoValue]
NoRows == Leaf
First(S) == CHOOSE i \in S : \A j \in S : i <= j

Answer(op, t, k, result) == [op |-> op, table |-> t, key |-> k, result |-> result]
None == Answer("none", NoTable, NoValue, FALSE)

Init == /\ file = [t \in Names |-> NoTable] /\ handle = file /\ schema = file
        /\ given = [t \in Names |-> NoRows] /\ faults = 0 /\ answer = None

(***************************************************************************)
(* Calls on one table, from st (its file and its handle) to the set of     *)
(* outcomes: the new st, what is returned, and whether a read or a write   *)
(* of the file failed.                                                     *)
(***************************************************************************)
Now(t) == [file |-> file[t], h |-> handle[t]]
Done(st, ok, bad) == [st |-> st, ok |-> ok, bad |-> bad]
Then(outcomes, Op(_)) ==     \* Op follows where the call before it returned true
    UNION {IF ~r.ok THEN {r}
           ELSE {Done(q.st, q.ok, r.bad \/ q.bad) : q \in Op(r.st)} : r \in outcomes}

With(buf, p, content) == [q \in DOMAIN buf \cup {p} |-> IF q = p THEN content ELSE buf[q]]
Page(st, p) == IF st.h # NoTable /\ p \in DOMAIN st.h.buf THEN st.h.buf[p] ELSE st.file[p]
Fetch(st, p) ==
    IF p \in DOMAIN st.h.buf THEN {Done(st, TRUE, FALSE)}
    ELSE {Done([st EXCEPT !.h.buf = With(@, p, st.file[p])], TRUE, FALSE), Done(st, FALSE, TRUE)}
SetPage(st, p, content) == [st EXCEPT !.h.buf = With(@, p, content), !.h.dirty = @ \cup {p}]
Written(st, W) == [st EXCEPT !.file = [p \in DOMAIN @ |-> IF p \in W THEN st.h.buf[p] ELSE @[p]],
                             !.h.dirty = @ \ W]
Flush(st) == {Done(Written(st, W), TRUE, W # st.h.dirty) : W \in SUBSET st.h.dirty}
FlushPage(st, p) == {Done(Written(st, {p}), TRUE, FALSE), Done(st, TRUE, TRUE)}
Closed(st) == {Done([r.st EXCEPT !.h = NoTable], TRUE, r.bad) : r \in Flush(st)}

NewFile(root, used, leaf) == [p \in 0..MaxPage |-> CASE p = 0 -> root [] p = 1 -> used
                                                    [] p = 2 -> leaf [] OTHER -> Blank]
(* The handle's DiskManager creates a file that is not there, all zeros.   *)
Open(st) ==
    IF st.h # NoTable THEN {Done(st, TRUE, FALSE)}
    ELSE LET f == IF st.file = NoTable THEN NewFile(0, {}, Blank) ELSE st.file
         IN  {Done([file |-> f, h |-> [root |-> f[0], buf |-> [p \in {0} |-> f[0]], dirty |-> {}]], TRUE, FALSE),
              Done([file |-> f, h |-> NoTable], FALSE, TRUE)}

(* A creation that fails leaves the pages written before: 0, 1, then 2.    *)
Made(st) ==
    IF st.h # NoTable \/ st.file # NoTable THEN {Done(st, FALSE, FALSE)}
    ELSE {Done([st EXCEPT !.file = NewFile(2, {2}, Leaf)], TRUE, FALSE)}
         \cup {Done([st EXCEPT !.file = f], FALSE, TRUE) :
                 f \in {NoTable, NewFile(0, {}, Blank), NewFile(2, {}, Blank),
                        NewFile(2, {2}, Blank), NewFile(2, {2}, Leaf)}}

FreePages(st) == 3..MaxPage \ Page(st, 1)
X_AllocatePage(st) ==
    Then(Fetch(st, 1), LAMBDA s : {Done(s, FreePages(s) # {}, FALSE)})
AllocatePage(st) ==      \* the page is the first of FreePages(st)
    Then(Fetch(st, 1), LAMBDA s :
         IF FreePages(s) = {} THEN {Done(s, FALSE, FALSE)}
         ELSE FlushPage(SetPage(s, 1, Page(s, 1) \cup {First(FreePages(s))}), 1))

Forgotten(st, p) == [st EXCEPT !.h.buf = [q \in DOMAIN @ \ {p} |-> @[q]], !.h.dirty = @ \ {p}]
FreePage(st, p) ==       \* returns nothing; delete_page drops the page unwritten
    {Done(r.st, TRUE, r.bad) :
       r \in Then(Then(Fetch(st, 1), LAMBDA s : FlushPage(SetPage(s, 1, Page(s, 1) \ {p}), 1)),
                  LAMBDA s : {Done(Forgotten(s, p), TRUE, FALSE)})}

X_SetRoot(st, root) == [st EXCEPT !.h.root = root]
SetRoot(st, root) == SetPage([st EXCEPT !.h.root = root], 0, root)
NewRoot(st, p, k, v) == SetPage(SetRoot(st, p), p, [Leaf EXCEPT ![k] = v])

(* A root page that was never written is no leaf: nothing is found there.  *)
Find(st, k) == LET root == Page(st, st.h.root)
               IN  IF st.h.root = 0 \/ root = Blank THEN NoValue ELSE root[k]
Reach(st) == IF st.h.root = 0 THEN {Done(st, TRUE, FALSE)} ELSE Fetch(st, st.h.root)

Insert(st, k, v) ==
    IF st.h.root = 0
    THEN LET alloc(s) == {Done(NewRoot(s, First(FreePages(st)), k, v), TRUE, FALSE)}
         IN  Then(AllocatePage(st), alloc)
    ELSE Then(Reach(st), LAMBDA s :
              IF Page(s, s.h.root) = Blank \/ Find(s, k) # NoValue THEN {Done(s, FALSE, FALSE)}
              ELSE {Done(SetPage(s, s.h.root, [Page(s, s.h.root) EXCEPT ![k] = v]), TRUE, FALSE)})

Delete(st, k) ==
    Then(Reach(st), LAMBDA s :
         IF Find(s, k) = NoValue THEN {Done(s, FALSE, FALSE)}
         ELSE LET root == s.h.root
                  left == SetPage(s, root, [Page(s, root) EXCEPT ![k] = NoValue])
              IN  IF Page(left, root) # Leaf THEN {Done(left, TRUE, FALSE)}
                  ELSE FreePage(SetRoot(left, 0), root))

Update(st, k, v) == Then(Delete(st, k), LAMBDA s : Insert(s, k, v))

(***************************************************************************)
(* The interface                                                           *)
(***************************************************************************)
Become(t, r) == /\ file' = [file EXCEPT ![t] = r.st.file]
                /\ handle' = [handle EXCEPT ![t] = r.st.h]
                /\ faults' = faults + (IF r.bad THEN 1 ELSE 0)
                /\ faults' <= MaxFaults
IsOpen(t) == handle[t] # NoTable
Lost(r, rows) == IF r.bad /\ rows # Unknown THEN Unknown ELSE rows

CreateTable(t, s) ==     \* s = NoTable: the call without a schema
    \E r \in Made(Now(t)) :
       /\ Become(t, r)
       /\ LET taken == r.ok /\ s # NoTable /\ schema[t] # NoTable
          IN  answer' = Answer("create", t, NoValue, r.ok /\ ~taken)
       /\ IF r.ok /\ s # NoTable /\ schema[t] = NoTable
          THEN schema' = [schema EXCEPT ![t] = s] /\ given' = [given EXCEPT ![t] = NoRows]
          ELSE UNCHANGED <<schema, given>>

(* The file of an open table is written before it is removed, and stays    *)
(* without a schema where the removal fails.                               *)
DropTable(t) ==
    /\ \E r \in IF IsOpen(t) THEN Closed(Now(t)) ELSE {Done(Now(t), TRUE, FALSE)} :
       \E kept \in BOOLEAN :
          /\ kept => r.st.file # NoTable
          /\ r.bad => kept       \* what was not written of a removed file is no loss
          /\ Become(t, Done([r.st EXCEPT !.file = IF kept THEN @ ELSE NoTable], TRUE, kept))
          /\ answer' = Answer("drop", t, NoValue, r.st.file # NoTable /\ ~kept)
    /\ schema' = [schema EXCEPT ![t] = NoTable]
    /\ given' = [given EXCEPT ![t] = NoRows]

OpenTable(t) == /\ \E r \in Open(Now(t)) : Become(t, r)
                /\ answer' = None /\ UNCHANGED <<schema, given>>

CloseTable(t) == /\ IsOpen(t)
                 /\ \E r \in Closed(Now(t)) :
                      /\ Become(t, r) /\ given' = [given EXCEPT ![t] = Lost(r, @)]
                 /\ answer' = None /\ UNCHANGED schema

Give(t, k, row) == given' = IF given[t] = Unknown THEN given ELSE [given EXCEPT ![t][k] = row]
Shows(t, v) == IF schema[t] = NoTable \/ v = NoValue \/ Decode(schema[t], v) = <<>> THEN NoValue
               ELSE Decode(schema[t], v)

InsertRecord(t, k, v) ==
    /\ IsOpen(t)
    /\ \E r \in Insert(Now(t), k, v) :
         /\ Become(t, r) /\ answer' = Answer("insert", t, k, r.ok)
         /\ IF r.ok THEN Give(t, k, Shows(t, v)) ELSE UNCHANGED given
    /\ UNCHANGED schema

GetRecord(t, k) ==
    /\ IsOpen(t)
    /\ \E r \in Reach(Now(t)) :
         /\ Become(t, r)
         /\ answer' = Answer("get", t, k, IF r.ok THEN Find(r.st, k) ELSE NoValue)
    /\ UNCHANGED <<schema, given>>

DeleteRecord(t, k) ==
    /\ IsOpen(t)
    /\ \E r \in Delete(Now(t), k) :
         /\ Become(t, r) /\ answer' = Answer("delete", t, k, r.ok)
         /\ IF r.ok THEN Give(t, k, NoValue) ELSE UNCHANGED given
    /\ UNCHANGED schema

UpdateRecord(t, k, v) ==
    /\ IsOpen(t)
    /\ \E r \in Update(Now(t), k, v) :
         /\ Become(t, r) /\ answer' = Answer("update", t, k, r.ok)
         /\ IF r.ok \/ Find(r.st, k) = NoValue
            THEN Give(t, k, IF r.ok THEN Shows(t, v) ELSE NoValue) ELSE UNCHANGED given
    /\ UNCHANGED schema

(* The relational calls need a schema and open the table themselves.       *)
InsertRow(t, row) ==
    /\ schema[t] # NoTable /\ UNCHANGED schema
    /\ \E r \in Open(Now(t)) :
         IF r.ok /\ <<schema[t], row>> \in Encodable
         THEN LET k == EncodeKey(schema[t], row)
              IN  \E q \in Insert(r.st, k, EncodeValue(schema[t], row)) :
                     /\ Become(t, q) /\ answer' = Answer("insert", t, k, q.ok)
                     /\ IF q.ok THEN Give(t, k, Stored(schema[t], row)) ELSE UNCHANGED given
         ELSE Become(t, r) /\ answer' = None /\ UNCHANGED given

Scan(t) ==
    /\ schema[t] # NoTable \/ IsOpen(t)
    /\ \E r \in Then(Open(Now(t)), Reach) : Become(t, r)
    /\ answer' = None /\ UNCHANGED <<schema, given>>

(* Everything in the pools, or some of it, reaches the files.              *)
Unsaved == {x \in Names \X (0..MaxPage) : IsOpen(x[1]) /\ x[2] \in handle[x[1]].dirty}
Part(t, X) == {x[2] : x \in {y \in X : y[1] = t}}
After(X) == [t \in Names |-> IF IsOpen(t) THEN Written(Now(t), Part(t, X)) ELSE Now(t)]

FlushAll ==
    \E X \in SUBSET Unsaved :
       /\ faults' = faults + (IF X = Unsaved THEN 0 ELSE 1) /\ faults' <= MaxFaults
       /\ file' = [t \in Names |-> After(X)[t].file]
       /\ handle' = [t \in Names |-> After(X)[t].h]
       /\ answer' = None /\ UNCHANGED <<schema, given>>

(* The engine goes away with its catalog: its destructor flushes, a killed *)
(* process does not get to the end of it.                                  *)
Stop ==
    \E X \in SUBSET Unsaved, killed \in BOOLEAN :
       /\ X # Unsaved => killed
       /\ faults' = faults + (IF killed THEN 1 ELSE 0) /\ faults' <= MaxFaults
       /\ file' = [t \in Names |-> After(X)[t].file]
       /\ handle' = [t \in Names |-> NoTable] /\ schema' = handle'
       /\ given' = [t \in Names |-> NoRows] /\ answer' = None

Next ==
    \/ FlushAll \/ Stop
    \/ \E t \in Names :
         \/ \E s \in Schemas \cup {NoTable} : CreateTable(t, s)
         \/ DropTable(t) \/ OpenTable(t) \/ CloseTable(t) \/ Scan(t)
         \/ \E k \in Keys :
              \/ GetRecord(t, k) \/ DeleteRecord(t, k)
              \/ \E v \in RawValues : InsertRecord(t, k, v) \/ UpdateRecord(t, k, v)
         \/ \E row \in Rows : InsertRow(t, row)

Spec == Init /\ [][Next]_vars

(***************************************************************************)
(* Properties                                                              *)
(***************************************************************************)
(* What a reader finds through the open handle, or through the file        *)
Through(st) ==
    IF st.file = NoTable THEN NoTable
    ELSE LET root == IF st.h = NoTable THEN st.file[0] ELSE st.h.root
         IN  IF root = 0 THEN Leaf ELSE IF Page(st, root) = Blank THEN Broken ELSE Page(st, root)
Table(t) == Through(Now(t))
Saved(t) == Through([file |-> file[t], h |-> NoTable])

(* The tables behave as maps that closing, reopening and a normal stop do  *)
(* not change, and no fault changes but as TableSpace allows.              *)
Abstract == INSTANCE TableSpace WITH table <- [t \in Names |-> Table(t)],
                                     saved <- [t \in Names |-> Saved(t)]
TablesKept == Abstract!Spec

(* While a table is in the catalog and no write has failed, it has a file, *)
(* and a scan shows the rows the catalog's inserts were accepted for, as   *)
(* the codec stores them, those records inserted past the catalog that     *)
(* decode to a row, and nothing else.                                      *)
ScanShowsRows ==
    \A t \in Names :
       schema[t] # NoTable =>
          /\ file[t] # NoTable
          /\ given[t] # Unknown => /\ Table(t) # Broken
                                   /\ {Shows(t, Table(t)[k]) : k \in Keys} = {given[t][k] : k \in Keys}

(* As long as nothing failed, the page the root pointer names, in memory   *)
(* or in the file, is marked in the bitmap a reader would load, so that no *)
(* later allocation hands it out again.                                    *)
RootAllocated ==
    faults = 0 =>
       \A t \in Names :
          /\ IsOpen(t) /\ handle[t].root >= 3 => handle[t].root \in Page(Now(t), 1)
          /\ ~IsOpen(t) /\ file[t] # NoTable /\ file[t][0] >= 3 => file[t][0] \in file[t][1]
=============================================================================
