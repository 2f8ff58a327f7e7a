-------------------------- MODULE FrontEndProofs --------------------------
(***************************************************************************)
(* Theorems about the parts of FrontEnd that are machines of their own:    *)
(* QueryPlan, for any tables, any statement entered, any expressions and   *)
(* any evaluator of them, and SchemaBytes, for any schema, any size of     *)
(* page 1 and any bytes a damaged page holds.                              *)
(***************************************************************************)
EXTENDS QueryPlan, SchemaBytes, SequenceTheorems, FiniteSetTheorems, WellFoundedInduction, TLAPS

-----------------------------------------------------------------------------
(* The plans of the planner, node by node                                  *)

LEMMA Pair == ASSUME NEW a, NEW b PROVE <<a>> \o <<b>> = <<a, b>>
<1> DEFINE S == {a, b} T == <<a>> \o <<b>>
<1> <<a>> \in Seq(S) /\ <<b>> \in Seq(S) /\ <<a, b>> \in Seq(S)
  OBVIOUS
<1>1. T \in Seq(S) /\ Len(T) = 2 /\ T[1] = a /\ T[2] = b
  OBVIOUS
<1> HIDE DEF T
<1>2. T = <<a, b>>
  BY <1>1, SeqEqual
<1> QED BY <1>2 DEF T
LEMMA Triple == ASSUME NEW a, NEW b, NEW c PROVE <<a>> \o <<b, c>> = <<a, b, c>>
<1> DEFINE S == {a, b, c} T == <<a>> \o <<b, c>>
<1> <<a>> \in Seq(S) /\ <<b, c>> \in Seq(S) /\ <<a, b, c>> \in Seq(S)
  OBVIOUS
<1>1. T \in Seq(S) /\ Len(T) = 3 /\ T[1] = a /\ T[2] = b /\ T[3] = c
  OBVIOUS
<1> HIDE DEF T
<1>2. T = <<a, b, c>>
  BY <1>1, SeqEqual
<1> QED BY <1>2 DEF T
LEMMA Four == ASSUME NEW a, NEW b, NEW c, NEW d PROVE <<a>> \o <<b, c, d>> = <<a, b, c, d>>
<1> DEFINE S == {a, b, c, d} T == <<a>> \o <<b, c, d>>
<1> <<a>> \in Seq(S) /\ <<b, c, d>> \in Seq(S) /\ <<a, b, c, d>> \in Seq(S)
  OBVIOUS
<1>1. T \in Seq(S) /\ Len(T) = 4 /\ T[1] = a /\ T[2] = b /\ T[3] = c /\ T[4] = d
  OBVIOUS
<1> HIDE DEF T
<1>2. T = <<a, b, c, d>>
  BY <1>1, SeqEqual
<1> QED BY <1>2 DEF T
LEMMA Five == ASSUME NEW a, NEW b, NEW c, NEW d, NEW e PROVE <<a>> \o <<b, c, d, e>> = <<a, b, c, d, e>>
<1> DEFINE S == {a, b, c, d, e} T == <<a>> \o <<b, c, d, e>>
<1> <<a>> \in Seq(S) /\ <<b, c, d, e>> \in Seq(S) /\ <<a, b, c, d, e>> \in Seq(S)
  OBVIOUS
<1>1. T \in Seq(S) /\ Len(T) = 5 /\ T[1] = a /\ T[2] = b /\ T[3] = c /\ T[4] = d /\ T[5] = e
  OBVIOUS
<1> HIDE DEF T
<1>2. T = <<a, b, c, d, e>>
  BY <1>1, SeqEqual
<1> QED BY <1>2 DEF T

(* The source of a statement's rows: the scan of its table, filtered if    *)
(* the statement has a WHERE                                               *)
Scan(t)  == [type |-> "SeqScan", table |-> t]
Where(w) == [type |-> "Filter", predicate |-> w]
LEMMA Sources ==
    ASSUME NEW w, NEW t
    PROVE  \/ w.kind = "None" /\ Filtered(w, SeqScan(t)) = <<Scan(t)>>
           \/ w.kind # "None" /\ Filtered(w, SeqScan(t)) = <<Where(w), Scan(t)>>
BY Pair DEF Filtered, Filter, SeqScan, Scan, Where

(* What an update or a delete consumes starts with a barrier.              *)
LEMMA Barriers ==
    ASSUME NEW w, NEW t
    PROVE  \/ Collected(Filtered(w, SeqScan(t))) = <<[type |-> "Collect"], Scan(t)>>
           \/ Collected(Filtered(w, SeqScan(t))) = <<[type |-> "Collect"], Where(w), Scan(t)>>
<1> DEFINE p == Filtered(w, SeqScan(t))
<1>1. CASE p = <<Scan(t)>>
  <2>1. p[1].type = "SeqScan" /\ DOMAIN p = 1..1
    BY <1>1 DEF Scan
  <2>2. NeedsCollection(p)
    BY <2>1 DEF NeedsCollection, Streams
  <2> QED BY <1>1, <2>2, Pair DEF Collected, Collect
<1>2. CASE p = <<Where(w), Scan(t)>>
  <2>1. p[1].type = "Filter" /\ p[2].type = "SeqScan" /\ DOMAIN p = 1..2
    BY <1>2 DEF Scan, Where
  <2>2. NeedsCollection(p)
    BY <2>1 DEF NeedsCollection, Streams
  <2> QED BY <1>2, <2>2, Triple DEF Collected, Collect
<1> QED BY <1>1, <1>2, Sources

(* The plans of the planner                                                *)
Projected(s) == [type |-> "Project", projections |-> s.columns]
Sorted(s)    == [type |-> "Sort", order_by |-> s.order_by]
Barrier      == [type |-> "Collect"]
Inserted(s)  == [type |-> "Insert", table |-> s.table, columns |-> s.columns]
Updated(s)   == [type |-> "Update", table |-> s.table, assignments |-> s.assignments]
Deleted(s)   == [type |-> "Delete", table |-> s.table]

LEMMA StreamPlans ==
    ASSUME NEW s, s.type = "Select", s.order_by = <<>>
    PROVE  \/ s.where.kind = "None" /\ BuildPlan(s) = <<Projected(s), Scan(s.table)>>
           \/ s.where.kind # "None" /\ BuildPlan(s) = <<Projected(s), Where(s.where), Scan(s.table)>>
<1>1. BuildPlan(s) = <<Projected(s)>> \o Filtered(s.where, SeqScan(s.table))
  BY DEF BuildPlan, SelectPlan, Project, Projected
<1> QED BY <1>1, Sources, Pair, Triple

LEMMA SortPlans ==
    ASSUME NEW s, s.type = "Select", s.order_by # <<>>
    PROVE  \/ BuildPlan(s) = <<Projected(s), Sorted(s), Barrier, Scan(s.table)>>
           \/ BuildPlan(s) = <<Projected(s), Sorted(s), Barrier, Where(s.where), Scan(s.table)>>
<1> DEFINE source == Filtered(s.where, SeqScan(s.table))
<1>1. BuildPlan(s) = <<Projected(s)>> \o (<<Sorted(s)>> \o (<<Barrier>> \o source))
  BY DEF BuildPlan, SelectPlan, Project, Sort, Collect, Projected, Sorted, Barrier
<1>2. CASE source = <<Scan(s.table)>>
  <2>1. <<Barrier>> \o source = <<Barrier, Scan(s.table)>>
    BY <1>2, Pair
  <2>2. <<Sorted(s)>> \o (<<Barrier>> \o source) = <<Sorted(s), Barrier, Scan(s.table)>>
    BY <2>1, Triple
  <2> QED BY <1>1, <2>2, Four
<1>3. CASE source = <<Where(s.where), Scan(s.table)>>
  <2>1. <<Barrier>> \o source = <<Barrier, Where(s.where), Scan(s.table)>>
    BY <1>3, Triple
  <2>2. <<Sorted(s)>> \o (<<Barrier>> \o source) = <<Sorted(s), Barrier, Where(s.where), Scan(s.table)>>
    BY <2>1, Four
  <2> QED BY <1>1, <2>2, Five
<1> QED BY <1>2, <1>3, Sources

LEMMA InsertPlans ==
    ASSUME NEW s, s.type = "Insert"
    PROVE  BuildPlan(s) = <<Inserted(s), [type |-> "Values", values |-> s.values]>>
BY Pair DEF BuildPlan, InsertPlan, InsertInto, Values, Inserted

LEMMA ChangePlans ==
    ASSUME NEW s, s.type \in {"Update", "Delete"}
    PROVE  \E top \in {Updated(s), Deleted(s)} :
              \/ BuildPlan(s) = <<top, Barrier, Scan(s.table)>>
              \/ BuildPlan(s) = <<top, Barrier, Where(s.where), Scan(s.table)>>
<1> DEFINE source == Collected(Filtered(s.where, SeqScan(s.table)))
<1>1. PICK top \in {Updated(s), Deleted(s)} : BuildPlan(s) = <<top>> \o source
  BY DEF BuildPlan, UpdatePlan, UpdateOf, Updated, DeletePlan, DeleteFrom, Deleted
<1>2. CASE source = <<Barrier, Scan(s.table)>>
  BY <1>1, <1>2, Triple
<1>3. CASE source = <<Barrier, Where(s.where), Scan(s.table)>>
  BY <1>1, <1>3, Four
<1> QED BY <1>2, <1>3, Barriers DEF Barrier

LEMMA OtherPlans ==
    ASSUME NEW s, s.type \notin {"Select", "Insert", "Update", "Delete"}
    PROVE  BuildPlan(s) = <<[type |-> "Error"]>>
BY DEF BuildPlan, NoPlan

(* The executors refuse every plan but those of selections without a sort. *)
LEMMA OnlyStreams ==
    ASSUME NEW s, CanBuild(BuildPlan(s))
    PROVE  s.type = "Select" /\ s.order_by = <<>>
<1> USE DEF Scan, Where, Projected, Sorted, Barrier, Inserted, Updated, Deleted, CanBuild, Streams
<1>1. CASE s.type = "Select" /\ s.order_by # <<>>
  <2>1. CASE BuildPlan(s) = <<Projected(s), Sorted(s), Barrier, Scan(s.table)>>
    BY <2>1
  <2>2. CASE BuildPlan(s) = <<Projected(s), Sorted(s), Barrier, Where(s.where), Scan(s.table)>>
    BY <2>2
  <2> QED BY <1>1, <2>1, <2>2, SortPlans
<1>2. CASE s.type = "Insert"
  BY <1>2, InsertPlans
<1>3. CASE s.type \in {"Update", "Delete"}
  BY <1>3, ChangePlans
<1>4. CASE s.type \notin {"Select", "Insert", "Update", "Delete"}
  BY <1>4, OtherPlans
<1> QED BY <1>1, <1>2, <1>3, <1>4

(* A plan is the planner's answer for the statement.                       *)
Planned == plan = <<>> \/ (stmt # NoStmt /\ plan = BuildPlan(stmt))

-----------------------------------------------------------------------------
(* What a call of next() of an executor returns                            *)

LEMMA LeastElement ==
    ASSUME NEW T, T \subseteq Nat, T # {}
    PROVE  \E x \in T : \A y \in T : x <= y
<1>1. \E x \in T : \A y \in T : ~(<<y, x>> \in OpToRel(<, Nat))
  BY NatLessThanWellFounded, WFMin
<1>2. \A x, y \in T : y < x => <<y, x>> \in OpToRel(<, Nat)
  BY DEF OpToRel
<1>3. \A x, y \in T : ~(y < x) => x <= y
  OBVIOUS
<1> QED BY <1>1, <1>2, <1>3

\* the rows behind the cursor at which a filter stops, and the first of them
Value(s, row)      == Evaluate(s.where, row, Columns(s.table))
Stopping(s, row)   == s.where.kind = "None" \/ Value(s, row) = Throw \/ IsTrue(Value(s, row))
Stops(s, rows, c)  == {k \in (c + 1)..Len(rows) : Stopping(s, rows[k])}
First(s, rows, c)  == CHOOSE k \in Stops(s, rows, c) : \A j \in Stops(s, rows, c) : k <= j

LEMMA FirstStop ==
    ASSUME NEW s, NEW rows, Len(rows) \in Nat, NEW c \in 0..Len(rows)
    PROVE  /\ c = Len(rows) => Stops(s, rows, c) = {}
           /\ Stops(s, rows, c) # {} =>
                 /\ First(s, rows, c) \in (c + 1)..Len(rows)
                 /\ Stopping(s, rows[First(s, rows, c)])
                 /\ \A j \in (c + 1)..(First(s, rows, c) - 1) : ~Stopping(s, rows[j])
           /\ c < Len(rows) /\ Stopping(s, rows[c + 1]) =>
                 Stops(s, rows, c) # {} /\ First(s, rows, c) = c + 1
           /\ c < Len(rows) /\ ~Stopping(s, rows[c + 1]) =>
                 Stops(s, rows, c) = Stops(s, rows, c + 1)
<1> DEFINE n == Len(rows) K == Stops(s, rows, c)
<1>1. K \subseteq Nat /\ K \subseteq (c + 1)..n
  BY DEF Stops
<1>2. K # {} => First(s, rows, c) \in K /\ \A j \in K : First(s, rows, c) <= j
  <2>1. K # {} => \E k \in K : \A j \in K : k <= j
    <3> HIDE DEF K
    <3> QED BY <1>1, LeastElement
  <2> HIDE DEF K
  <2> QED BY <2>1 DEF First, K
<1>3. \A j : j \in K <=> j \in (c + 1)..n /\ Stopping(s, rows[j])
  BY DEF Stops
<1>4. c = n => K = {}
  BY <1>3
<1>5. ASSUME K # {} PROVE /\ First(s, rows, c) \in (c + 1)..n
                          /\ Stopping(s, rows[First(s, rows, c)])
                          /\ \A j \in (c + 1)..(First(s, rows, c) - 1) : ~Stopping(s, rows[j])
  <2> DEFINE f == First(s, rows, c)
  <2> HIDE DEF K, f
  <2>1. f \in (c + 1)..n /\ Stopping(s, rows[f]) /\ \A j \in K : f <= j
    BY <1>2, <1>3, <1>5 DEF f
  <2>2. ASSUME NEW j \in (c + 1)..(f - 1) PROVE ~Stopping(s, rows[j])
    <3>1. j \in (c + 1)..n /\ ~(f <= j)
      BY <2>1
    <3> QED BY <3>1, <2>1, <1>3
  <2> QED BY <2>1, <2>2 DEF f
<1>6. ASSUME c < n, Stopping(s, rows[c + 1]) PROVE K # {} /\ First(s, rows, c) = c + 1
  <2> DEFINE f == First(s, rows, c)
  <2> HIDE DEF K, f
  <2>1. c + 1 \in K
    BY <1>3, <1>6
  <2>2. f \in (c + 1)..n /\ f <= c + 1
    BY <1>2, <1>1, <2>1 DEF f
  <2> QED BY <2>1, <2>2 DEF f
<1>7. ASSUME c < n, ~Stopping(s, rows[c + 1]) PROVE K = Stops(s, rows, c + 1)
  <2>1. \A j : j \in (c + 1)..n <=> j = c + 1 \/ j \in (c + 1 + 1)..n
    BY <1>7
  <2> QED BY <2>1, <1>7 DEF Stops
<1> QED BY <1>4, <1>5, <1>6, <1>7

\* what next() of the scan, of the filter and of the projection gives
Scans(rows, c) == IF c >= Len(rows) THEN Yield("end", <<>>, c) ELSE Yield("row", rows[c + 1], c + 1)
Filters(s, rows, c) ==
    LET k == First(s, rows, c)
    IN  IF Stops(s, rows, c) = {} THEN Yield("end", <<>>, Len(rows))
        ELSE IF s.where.kind # "None" /\ Value(s, rows[k]) = Throw THEN Yield("throw", <<>>, k)
        ELSE Yield("row", rows[k], k)
Projects(s, rows, c) ==
    LET k == First(s, rows, c)
    IN  IF Stops(s, rows, c) = {} THEN Yield("end", <<>>, Len(rows))
        ELSE IF Undefined(s, rows[k]) THEN Yield("throw", <<>>, k)
        ELSE Yield("row", Shown(s, rows[k]), k)

LEMMA ScanStep ==
    ASSUME NEW p, NEW rows, NEW f, NEW i, NEW c, p[i].type = "SeqScan"
    PROVE  Step(p, rows, f, i, c) = Scans(rows, c)
BY DEF Step, Scans

LEMMA FilterStep ==
    ASSUME NEW p, NEW s, NEW rows, NEW f, NEW i, NEW c, p[i] = Where(s.where), s.where.kind # "None",
           BaseColumns(p) = Columns(s.table), Len(rows) \in Nat, c \in 0..Len(rows),
           f[<<i + 1, c>>] = Scans(rows, c),
           c < Len(rows) => f[<<i, c + 1>>] = Filters(s, rows, c + 1)
    PROVE  Step(p, rows, f, i, c) = Filters(s, rows, c)
<1> DEFINE r == f[<<i + 1, c>>] v == Evaluate(s.where, r.row, Columns(s.table))
<1>1. Step(p, rows, f, i, c) = IF r.out # "row" THEN r
               ELSE IF v = Throw THEN Yield("throw", <<>>, r.cursor)
               ELSE IF IsTrue(v) THEN r ELSE f[<<i, r.cursor>>]
  BY DEF Step, Where
<1>2. CASE c = Len(rows)
  <2>1. r = Yield("end", <<>>, c) /\ r.out = "end"
    BY <1>2 DEF Scans, Yield
  <2>2. Filters(s, rows, c) = Yield("end", <<>>, c)
    BY <1>2, FirstStop DEF Filters
  <2> QED BY <1>1, <2>1, <2>2
<1>3. CASE c < Len(rows)
  <2>1. /\ r = Yield("row", rows[c + 1], c + 1)
        /\ r.out = "row" /\ r.row = rows[c + 1] /\ r.cursor = c + 1
    BY <1>3 DEF Scans, Yield
  <2>2. v = Value(s, rows[c + 1])
    BY <2>1 DEF Value
  <2> HIDE DEF r, v
  <2>3. CASE Stopping(s, rows[c + 1])
    <3>1. Stops(s, rows, c) # {} /\ First(s, rows, c) = c + 1
      BY <1>3, <2>3, FirstStop
    <3>2. Filters(s, rows, c) = IF v = Throw THEN Yield("throw", <<>>, c + 1) ELSE r
      BY <2>1, <2>2, <3>1 DEF Filters
    <3>3. v = Throw \/ IsTrue(v)
      BY <2>2, <2>3 DEF Stopping
    <3> QED BY <1>1, <2>1, <3>2, <3>3
  <2>4. CASE ~Stopping(s, rows[c + 1])
    <3>1. v # Throw /\ ~IsTrue(v)
      BY <2>2, <2>4 DEF Stopping
    <3>2. Step(p, rows, f, i, c) = Filters(s, rows, c + 1)
      BY <1>1, <1>3, <2>1, <3>1
    <3>3. Stops(s, rows, c) = Stops(s, rows, c + 1)
      BY <1>3, <2>4, FirstStop
    <3> QED BY <3>2, <3>3 DEF Filters, First
  <2> QED BY <2>3, <2>4
<1> QED BY <1>2, <1>3

LEMMA ProjectStep ==
    ASSUME NEW p, NEW s, NEW rows, NEW f, NEW i, NEW c, p[i] = Projected(s),
           BaseColumns(p) = Columns(s.table), Len(rows) \in Nat, c \in 0..Len(rows),
           f[<<i + 1, c>>] = Filters(s, rows, c)
    PROVE  Step(p, rows, f, i, c) = Projects(s, rows, c)
<1> DEFINE r == f[<<i + 1, c>>]
           vs == [k \in 1..Len(s.columns) |-> Evaluate(s.columns[k], r.row, Columns(s.table))]
           k == First(s, rows, c)
<1>1. Step(p, rows, f, i, c) = IF r.out # "row" THEN r
               ELSE IF \E j \in DOMAIN vs : vs[j] = Throw THEN Yield("throw", <<>>, r.cursor)
               ELSE Yield("row", vs, r.cursor)
  BY DEF Step, Projected
<1>2. CASE Stops(s, rows, c) = {}
  <2>1. r = Yield("end", <<>>, Len(rows)) /\ r.out = "end"
    BY <1>2 DEF Filters, Yield
  <2> QED BY <1>1, <1>2, <2>1 DEF Projects
<1>3. CASE Stops(s, rows, c) # {} /\ s.where.kind # "None" /\ Value(s, rows[k]) = Throw
  <2>1. r = Yield("throw", <<>>, k) /\ r.out = "throw"
    BY <1>3 DEF Filters, Yield
  <2>2. Undefined(s, rows[k])
    BY <1>3 DEF Undefined, Value
  <2> QED BY <1>1, <1>3, <2>1, <2>2 DEF Projects
<1>4. CASE Stops(s, rows, c) # {} /\ (s.where.kind = "None" \/ Value(s, rows[k]) # Throw)
  <2>1. r = Yield("row", rows[k], k) /\ r.out = "row" /\ r.row = rows[k] /\ r.cursor = k
    BY <1>4 DEF Filters, Yield
  <2>2. Holds(s, rows[k])
    BY <1>4, FirstStop DEF Holds, Stopping, Value
  <2>3. vs = Shown(s, rows[k]) /\ DOMAIN vs = 1..Len(s.columns)
    BY <2>1 DEF Shown
  <2>4. Undefined(s, rows[k]) <=> \E j \in DOMAIN vs : vs[j] = Throw
    BY <1>4, <2>2, <2>3 DEF Undefined, Value
  <2> HIDE DEF vs, r
  <2> QED BY <1>1, <1>4, <2>1, <2>3, <2>4 DEF Projects
<1> QED BY <1>2, <1>3, <1>4

\* without a filter every row stops
LEMMA NoFilter ==
    ASSUME NEW s, NEW rows, s.where.kind = "None", Len(rows) \in Nat, NEW c \in 0..Len(rows)
    PROVE  Filters(s, rows, c) = Scans(rows, c)
<1>1. \A row : Stopping(s, row)
  BY DEF Stopping
<1>2. CASE c = Len(rows)
  <2>1. Stops(s, rows, c) = {}
    BY <1>2, FirstStop
  <2> QED BY <1>2, <2>1 DEF Filters, Scans
<1>3. CASE c < Len(rows)
  <2>1. Stops(s, rows, c) # {} /\ First(s, rows, c) = c + 1
    BY <1>1, <1>3, FirstStop
  <2> QED BY <1>3, <2>1 DEF Filters, Scans
<1> QED BY <1>2, <1>3

\* f answers next() of every node of p at every cursor
Calls(p, rows)     == (1..Len(p)) \X (0..Len(rows))
Solves(p, rows, f) == f = [x \in Calls(p, rows) |-> Step(p, rows, f, x[1], x[2])]

LEMMA Solution ==
    ASSUME NEW p, NEW rows, NEW c, \E f : Solves(p, rows, f)
    PROVE  \E f : Solves(p, rows, f) /\ NextRow(p, rows, c) = f[<<1, c>>]
<1> DEFINE f == CHOOSE g : Solves(p, rows, g)
<1>1. Solves(p, rows, f)
  OBVIOUS
<1>2. NextRow(p, rows, c) = f[<<1, c>>]
  BY DEF NextRow, Solves, Calls
<1> QED BY <1>1, <1>2

LEMMA TwoNodes ==
    ASSUME NEW s, s.where.kind = "None", NEW rows, Len(rows) \in Nat, NEW c \in 0..Len(rows)
    PROVE  NextRow(<<Projected(s), Scan(s.table)>>, rows, c) = Projects(s, rows, c)
<1> DEFINE p == <<Projected(s), Scan(s.table)>>
           n == Len(rows)
           G == [x \in (1..2) \X (0..n) |-> IF x[1] = 2 THEN Scans(rows, x[2]) ELSE Projects(s, rows, x[2])]
<1>1. /\ p[1] = Projected(s) /\ p[2].type = "SeqScan" /\ BaseColumns(p) = Columns(s.table)
      /\ Calls(p, rows) = (1..2) \X (0..n)
  BY DEF Scan, BaseColumns, Scanned, Columns, Calls
<1> HIDE DEF p
<1>2. \E g : Solves(p, rows, g)
  <2>0. PICK g : g = G
    OBVIOUS
  <2>1. \A d \in 0..n : g[<<2, d>>] = Scans(rows, d) /\ g[<<1, d>>] = Projects(s, rows, d)
    BY <2>0
  <2> HIDE DEF G
  <2>2. ASSUME NEW d \in 0..n PROVE Step(p, rows, g, 2, d) = g[<<2, d>>] /\ Step(p, rows, g, 1, d) = g[<<1, d>>]
    <3>1. g[<<2, d>>] = Scans(rows, d) /\ g[<<1, d>>] = Projects(s, rows, d)
      BY <2>1
    <3>2. Scans(rows, d) = Filters(s, rows, d)
      BY NoFilter
    <3>3. g[<<1 + 1, d>>] = Filters(s, rows, d)
      BY <3>1, <3>2
    <3>4. Step(p, rows, g, 2, d) = Scans(rows, d)
      BY <1>1, ScanStep
    <3>5. Step(p, rows, g, 1, d) = Projects(s, rows, d)
      BY <1>1, <3>3, ProjectStep
    <3> QED BY <3>1, <3>4, <3>5
  <2>3. ASSUME NEW x \in Calls(p, rows) PROVE Step(p, rows, g, x[1], x[2]) = g[x]
    <3>1. PICK i \in 1..2, d \in 0..n : x = <<i, d>>
      BY <1>1
    <3>2. x[1] = i /\ x[2] = d /\ (i = 1 \/ i = 2)
      BY <3>1
    <3> QED BY <2>2, <3>1, <3>2
  <2>4. g = [x \in Calls(p, rows) |-> g[x]]
    BY <1>1, <2>0 DEF G
  <2>5. g = [x \in Calls(p, rows) |-> Step(p, rows, g, x[1], x[2])]
    BY <2>3, <2>4
  <2> QED BY <2>5 DEF Solves
<1>3. PICK f : Solves(p, rows, f) /\ NextRow(p, rows, c) = f[<<1, c>>]
  <2> HIDE DEF G
  <2> QED BY <1>2, Solution
<1>4. \A i \in 1..2, d \in 0..n : f[<<i, d>>] = Step(p, rows, f, i, d)
  BY <1>1, <1>3 DEF Solves
<1>5. f[<<1 + 1, c>>] = Filters(s, rows, c)
  BY <1>1, <1>4, ScanStep, NoFilter
<1>6. Step(p, rows, f, 1, c) = Projects(s, rows, c)
  BY <1>1, <1>5, ProjectStep
<1> QED BY <1>3, <1>4, <1>6 DEF p

LEMMA ThreeNodes ==
    ASSUME NEW s, s.where.kind # "None", NEW rows, Len(rows) \in Nat, NEW c \in 0..Len(rows)
    PROVE  NextRow(<<Projected(s), Where(s.where), Scan(s.table)>>, rows, c) = Projects(s, rows, c)
<1> DEFINE p == <<Projected(s), Where(s.where), Scan(s.table)>>
           n == Len(rows)
           G == [x \in (1..3) \X (0..n) |-> IF x[1] = 3 THEN Scans(rows, x[2])
                    ELSE IF x[1] = 2 THEN Filters(s, rows, x[2]) ELSE Projects(s, rows, x[2])]
<1>1. /\ p[1] = Projected(s) /\ p[2] = Where(s.where) /\ p[3].type = "SeqScan"
      /\ BaseColumns(p) = Columns(s.table) /\ Calls(p, rows) = (1..3) \X (0..n)
  BY DEF Scan, BaseColumns, Scanned, Columns, Calls
<1> HIDE DEF p
<1>2. \E g : Solves(p, rows, g)
  <2>0. PICK g : g = G
    OBVIOUS
  <2>1. \A d \in 0..n : /\ g[<<3, d>>] = Scans(rows, d) /\ g[<<2, d>>] = Filters(s, rows, d)
                        /\ g[<<1, d>>] = Projects(s, rows, d)
    BY <2>0
  <2> HIDE DEF G
  <2>2. ASSUME NEW d \in 0..n
        PROVE  /\ Step(p, rows, g, 3, d) = g[<<3, d>>] /\ Step(p, rows, g, 2, d) = g[<<2, d>>]
               /\ Step(p, rows, g, 1, d) = g[<<1, d>>]
    <3>1. /\ g[<<3, d>>] = Scans(rows, d) /\ g[<<2, d>>] = Filters(s, rows, d)
          /\ g[<<1, d>>] = Projects(s, rows, d)
      BY <2>1
    <3>2. ASSUME d < n PROVE g[<<2, d + 1>>] = Filters(s, rows, d + 1)
      <4>1. d + 1 \in 0..n
        BY <3>2
      <4> QED BY <4>1, <2>1
    <3>3. Step(p, rows, g, 3, d) = Scans(rows, d)
      BY <1>1, ScanStep
    <3>4. g[<<2 + 1, d>>] = Scans(rows, d)
      BY <3>1
    <3>5. Step(p, rows, g, 2, d) = Filters(s, rows, d)
      BY <1>1, <3>2, <3>4, FilterStep
    <3>6. g[<<1 + 1, d>>] = Filters(s, rows, d)
      BY <3>1
    <3>7. Step(p, rows, g, 1, d) = Projects(s, rows, d)
      BY <1>1, <3>6, ProjectStep
    <3> QED BY <3>1, <3>3, <3>5, <3>7
  <2>3. ASSUME NEW x \in Calls(p, rows) PROVE Step(p, rows, g, x[1], x[2]) = g[x]
    <3>1. PICK i \in 1..3, d \in 0..n : x = <<i, d>>
      BY <1>1
    <3>2. x[1] = i /\ x[2] = d /\ (i = 1 \/ i = 2 \/ i = 3)
      BY <3>1
    <3> QED BY <2>2, <3>1, <3>2
  <2>4. g = [x \in Calls(p, rows) |-> g[x]]
    BY <1>1, <2>0 DEF G
  <2>5. g = [x \in Calls(p, rows) |-> Step(p, rows, g, x[1], x[2])]
    BY <2>3, <2>4
  <2> QED BY <2>5 DEF Solves
<1>3. PICK f : Solves(p, rows, f) /\ NextRow(p, rows, c) = f[<<1, c>>]
  <2> HIDE DEF G
  <2> QED BY <1>2, Solution
<1>4. \A i \in 1..3, d \in 0..n : f[<<i, d>>] = Step(p, rows, f, i, d)
  BY <1>1, <1>3 DEF Solves
<1> DEFINE wrong(e) == f[<<2, n - e>>] # Filters(s, rows, n - e)
           T == {e \in 0..n : wrong(e)}
<1>5. T = {}
  <2> SUFFICES ASSUME T # {} PROVE FALSE
    OBVIOUS
  <2>1. PICK e \in T : \A g \in T : e <= g
    <3>1. T \subseteq Nat
      OBVIOUS
    <3> HIDE DEF T
    <3> QED BY <3>1, LeastElement
  <2> DEFINE d == n - e
  <2>2. d \in 0..n /\ (d < n => f[<<2, d + 1>>] = Filters(s, rows, d + 1))
    <3>1. d \in 0..n
      OBVIOUS
    <3>2. ASSUME d < n PROVE f[<<2, d + 1>>] = Filters(s, rows, d + 1)
      <4>1. e - 1 \in 0..n /\ ~(e <= e - 1) /\ n - (e - 1) = d + 1
        BY <3>2
      <4>2. ~wrong(e - 1)
        BY <2>1, <4>1
      <4> QED BY <4>1, <4>2
    <3> QED BY <3>1, <3>2
  <2>3. f[<<2 + 1, d>>] = Scans(rows, d)
    BY <1>1, <1>4, <2>2, ScanStep
  <2>4. Step(p, rows, f, 2, d) = Filters(s, rows, d)
    <3> HIDE DEF d
    <3>1. d \in 0..Len(rows) /\ (d < Len(rows) => f[<<2, d + 1>>] = Filters(s, rows, d + 1))
      BY <2>2
    <3> HIDE DEF n, T, G, wrong
    <3> QED BY <1>1, <3>1, <2>3, FilterStep
  <2>5. f[<<2, d>>] = Filters(s, rows, d)
    BY <1>4, <2>2, <2>4
  <2> QED BY <2>5
<1>6. f[<<1 + 1, c>>] = Filters(s, rows, c)
  <2>1. n - c \in 0..n /\ n - (n - c) = c
    OBVIOUS
  <2>2. ~wrong(n - c)
    BY <1>5, <2>1
  <2> QED BY <2>1, <2>2
<1>7. Step(p, rows, f, 1, c) = Projects(s, rows, c)
  BY <1>1, <1>6, ProjectStep
<1> QED BY <1>3, <1>4, <1>7 DEF p

\* next() of the plan of a selection goes to the first row it has not seen
\* that WHERE does not skip
LEMMA NextOfSelection ==
    ASSUME NEW s, s.type = "Select", s.order_by = <<>>,
           NEW rows, Len(rows) \in Nat, NEW c \in 0..Len(rows)
    PROVE  NextRow(BuildPlan(s), rows, c) = Projects(s, rows, c)
BY StreamPlans, TwoNodes, ThreeNodes

-----------------------------------------------------------------------------
(* The rows a selection has returned so far                                *)

Running == run.state \in {"open", "end", "throw"}
StoredRows == \A t \in DOMAIN tables : Len(tables[t]) \in Nat
RunStates == /\ run.state \in {"none", "refused", "open", "end", "throw"}
             /\ run.state = "none" => run = NotRun
Selection ==
    Running => /\ stmt.type = "Select" /\ stmt.order_by = <<>>
               /\ plan = BuildPlan(stmt) /\ stmt # NoStmt
               /\ stmt.table \in DOMAIN tables
               /\ run.cursor \in 0..Len(tables[stmt.table])
               /\ run.results \in Seq({Shown(stmt, tables[stmt.table][i]) : i \in 1..Len(tables[stmt.table])})

\* the rows behind cursor c of a statement's table, and what has been shown of them
Behind(s, rows, c) == {i \in 1..c : Holds(s, rows[i])}
Answered(s, rows, c, results) ==
    /\ \A i \in 1..c : ~Undefined(s, rows[i])
    /\ Len(results) = Cardinality(Behind(s, rows, c))
    /\ \A i \in Behind(s, rows, c) :
          results[Cardinality({j \in Behind(s, rows, c) : j <= i})] = Shown(s, rows[i])

LEMMA Passed ==
    ASSUME NEW s, NEW rows, NEW c \in Nat, NEW d \in Nat, c <= d, NEW results,
           Answered(s, rows, c, results),
           \A j \in (c + 1)..d : ~Stopping(s, rows[j])
    PROVE  Answered(s, rows, d, results)
<1>1. \A j \in (c + 1)..d : ~Holds(s, rows[j]) /\ ~Undefined(s, rows[j])
  BY DEF Stopping, Holds, Undefined, Value
<1>2. \A j \in 1..d : j \in 1..c \/ j \in (c + 1)..d
  OBVIOUS
<1>3. \A j \in 1..c : j \in 1..d
  OBVIOUS
<1>4. Behind(s, rows, d) = Behind(s, rows, c)
  BY <1>1, <1>2, <1>3 DEF Behind
<1>5. \A j \in 1..d : ~Undefined(s, rows[j])
  BY <1>1, <1>2 DEF Answered
<1> QED BY <1>4, <1>5 DEF Answered

LEMMA Added ==
    ASSUME NEW s, NEW rows, NEW c \in Nat, NEW A, NEW results \in Seq(A), Shown(s, rows[c + 1]) \in A,
           Answered(s, rows, c, results), Holds(s, rows[c + 1]), ~Undefined(s, rows[c + 1])
    PROVE  Answered(s, rows, c + 1, Append(results, Shown(s, rows[c + 1])))
<1> DEFINE K == Behind(s, rows, c)
           L == Behind(s, rows, c + 1)
           e == Append(results, Shown(s, rows[c + 1]))
<1>1. \A j \in 1..(c + 1) : j \in 1..c \/ j = c + 1
  OBVIOUS
<1>2. \A j \in 1..c : j \in 1..(c + 1) /\ j <= c /\ j # c + 1
  OBVIOUS
<1>3. c + 1 \in 1..(c + 1)
  OBVIOUS
<1>4. L = K \cup {c + 1} /\ c + 1 \notin K
  BY <1>1, <1>2, <1>3 DEF Behind
<1>5. K \subseteq 1..c /\ IsFiniteSet(1..c)
  BY FS_Interval DEF Behind
<1>6. IsFiniteSet(K) /\ Cardinality(K) \in Nat /\ Cardinality(L) = Cardinality(K) + 1
  BY <1>4, <1>5, FS_Subset, FS_AddElement, FS_CardinalityType
<1>7. Len(results) = Cardinality(K)
  BY DEF Answered
<1>8. /\ Len(e) = Len(results) + 1 /\ e[Len(results) + 1] = Shown(s, rows[c + 1])
      /\ \A i \in 1..Len(results) : e[i] = results[i]
  OBVIOUS
<1>9. \A j \in 1..(c + 1) : ~Undefined(s, rows[j])
  BY <1>1 DEF Answered
<1>10. ASSUME NEW i \in L PROVE e[Cardinality({j \in L : j <= i})] = Shown(s, rows[i])
  <2>1. CASE i = c + 1
    <3>1. {j \in L : j <= i} = L
      BY <2>1, <1>4, <1>5
    <3> QED BY <2>1, <3>1, <1>6, <1>7, <1>8
  <2>2. CASE i \in K
    <3> DEFINE M == {j \in K : j <= i}
    <3>1. {j \in L : j <= i} = M
      BY <2>2, <1>4, <1>5
    <3>2. M \in SUBSET K /\ i \in M
      BY <2>2, <1>5
    <3>3. IsFiniteSet(M) /\ Cardinality(M) \in Nat /\ Cardinality(M) <= Cardinality(K)
      BY <3>2, <1>6, FS_Subset, FS_CardinalityType
    <3>4. Cardinality(M) # 0
      BY <3>2, <3>3, FS_EmptySet
    <3>5. Cardinality(M) \in 1..Len(results)
      BY <3>3, <3>4, <1>6, <1>7
    <3>6. results[Cardinality(M)] = Shown(s, rows[i])
      BY <2>2 DEF Answered
    <3> QED BY <3>1, <3>5, <3>6, <1>8
  <2> QED BY <2>1, <2>2, <1>4
<1> HIDE DEF e
<1>11. Len(e) = Cardinality(L)
  BY <1>6, <1>7, <1>8
<1> QED BY <1>9, <1>10, <1>11 DEF Answered, e

Selected(s, rows, r) ==
    LET done == IF r.state = "throw" THEN r.cursor - 1 ELSE r.cursor
    IN  r.state \in {"open", "end", "throw"} =>
           /\ Answered(s, rows, done, r.results)
           /\ r.state = "throw" => Undefined(s, rows[r.cursor])
           /\ r.state = "end" => done = Len(rows)

LEMMA RowsSelectedIs == /\ RowsSelected = Selected(stmt, tables[stmt.table], run)
                        /\ RowsSelected' = Selected(stmt', tables'[stmt'.table], run')
<1>1. RowsSelected = Selected(stmt, tables[stmt.table], run)
  BY DEF RowsSelected, Selected, Answered, Behind
<1>2. RowsSelected' = Selected(stmt', tables'[stmt'.table], run')
  BY DEF RowsSelected, Selected, Answered, Behind, Holds, Undefined, Shown, Columns
<1> QED BY <1>1, <1>2

SelectInv == Planned /\ StoredRows /\ RunStates /\ Selection /\ RowsSelected

LEMMA SelectInit == QueryInit => SelectInv
BY ContentsAssumption DEF QueryInit, SelectInv, Planned, StoredRows, RunStates, Selection, Running,
   RowsSelected, NotRun

LEMMA SelectBuild == SelectInv /\ Build => SelectInv'
<1> SUFFICES ASSUME SelectInv, Build PROVE SelectInv'
  OBVIOUS
<1>1. plan # <<>> /\ stmt # NoStmt /\ plan = BuildPlan(stmt) /\ run = NotRun
  BY DEF Build, SelectInv, Planned
<1>2. UNCHANGED <<stmt, plan>>
  BY DEF Build
<1>3. CASE ~CanBuild(plan)
  <2>1. run' = [NotRun EXCEPT !.state = "refused"] /\ tables' = tables
    BY <1>1, <1>3 DEF Build
  <2>2. run'.state = "refused"
    BY <2>1 DEF NotRun
  <2> QED BY <1>2, <2>1, <2>2
          DEF SelectInv, Planned, StoredRows, RunStates, Selection, Running, RowsSelected
<1>4. CASE CanBuild(plan)
  <2>1. stmt.type = "Select" /\ stmt.order_by = <<>>
    BY <1>1, <1>4, OnlyStreams
  <2>2. Scanned(plan) = stmt.table
    BY <1>1, <2>1, StreamPlans DEF Scanned, Scan
  <2>3. /\ run' = [NotRun EXCEPT !.state = "open"]
        /\ tables' = [t \in DOMAIN tables \cup {stmt.table} |-> IF t \in DOMAIN tables THEN tables[t] ELSE <<>>]
    BY <1>1, <1>4, <2>2 DEF Build
  <2>4. run'.state = "open" /\ run'.cursor = 0 /\ run'.results = <<>>
    BY <2>3 DEF NotRun
  <2>5. StoredRows' /\ stmt.table \in DOMAIN tables'
    BY <2>3 DEF SelectInv, StoredRows
  <2> DEFINE rows == tables'[stmt.table]
             A == {Shown(stmt, rows[i]) : i \in 1..Len(rows)}
  <2>6. Len(rows) \in Nat
    BY <2>5 DEF StoredRows
  <2> HIDE DEF rows
  <2>7. 0 \in 0..Len(rows) /\ <<>> \in Seq(A)
    BY <2>6
  <2>8. Answered(stmt, rows, 0, <<>>)
    <3>1. Behind(stmt, rows, 0) = {}
      BY DEF Behind
    <3> QED BY <3>1, FS_EmptySet DEF Answered
  <2>9. Planned'
    BY <1>2 DEF SelectInv, Planned
  <2>10. RunStates'
    BY <2>4 DEF RunStates
  <2>11. Selection'
    BY <1>1, <1>2, <2>1, <2>4, <2>5, <2>7 DEF Selection, rows, Shown, Columns
  <2>12. RowsSelected'
    BY <1>2, <2>4, <2>8 DEF RowsSelected, Answered, Behind, Holds, Undefined, Shown, Columns, rows
  <2> QED BY <2>5, <2>9, <2>10, <2>11, <2>12 DEF SelectInv
<1> QED BY <1>3, <1>4

LEMMA SelectPull == SelectInv /\ Pull => SelectInv'
<1> SUFFICES ASSUME SelectInv, Pull PROVE SelectInv'
  OBVIOUS
<1> DEFINE t == stmt.table
           rows == tables[t]
           n == Len(rows)
           c == run.cursor
           A == {Shown(stmt, rows[i]) : i \in 1..n}
           k == First(stmt, rows, c)
           r == NextRow(plan, tables[Scanned(plan)], c)
<1>1. run.state = "open" /\ Running
  BY DEF Pull, Running
<1>2. /\ stmt.type = "Select" /\ stmt.order_by = <<>> /\ plan = BuildPlan(stmt) /\ stmt # NoStmt
      /\ t \in DOMAIN tables /\ c \in 0..n /\ n \in Nat /\ run.results \in Seq(A)
  BY <1>1 DEF SelectInv, Selection, StoredRows
<1>3. UNCHANGED <<stmt, plan, tables>>
  BY DEF Pull
<1>4. Answered(stmt, rows, c, run.results)
  BY <1>1 DEF SelectInv, RowsSelected, Answered, Behind
<1>5. Scanned(plan) = t
  <2>1. plan = <<Projected(stmt), Scan(t)>> \/ plan = <<Projected(stmt), Where(stmt.where), Scan(t)>>
    BY <1>2, StreamPlans
  <2> HIDE DEF t
  <2>2. CASE plan = <<Projected(stmt), Scan(t)>>
    <3>1. Len(plan) = 2 /\ plan[2] = Scan(t)
      BY <2>2
    <3> QED BY <3>1 DEF Scanned, Scan
  <2>3. CASE plan = <<Projected(stmt), Where(stmt.where), Scan(t)>>
    <3>1. Len(plan) = 3 /\ plan[3] = Scan(t)
      BY <2>3
    <3> QED BY <3>1 DEF Scanned, Scan
  <2> QED BY <2>1, <2>2, <2>3
<1>6. r = Projects(stmt, rows, c)
  BY <1>2, <1>5, NextOfSelection
<1>7. run' = [state |-> IF r.out = "row" THEN "open" ELSE r.out, cursor |-> r.cursor,
              results |-> IF r.out = "row" THEN Append(run.results, r.row) ELSE run.results]
  BY DEF Pull
<1>8. Planned' /\ StoredRows'
  BY <1>3 DEF SelectInv, Planned, StoredRows
<1> DEFINE done == IF run'.state = "throw" THEN run'.cursor - 1 ELSE run'.cursor
<1>0. Answered(stmt, rows, done, run'.results)
      /\ (run'.state = "throw" => Undefined(stmt, rows[run'.cursor]))
      /\ (run'.state = "end" => done = n)
      => RowsSelected'
  BY <1>3, RowsSelectedIs DEF Selected
<1> HIDE DEF r, A, n, rows, t, k, c
<1>9. CASE Stops(stmt, rows, c) = {}
  <2>1. r = Yield("end", <<>>, n)
    BY <1>6, <1>9 DEF Projects, n
  <2>2. run'.state = "end" /\ run'.cursor = n /\ run'.results = run.results
    BY <1>7, <2>1 DEF Yield
  <2>3. \A j \in (c + 1)..n : ~Stopping(stmt, rows[j])
    BY <1>9 DEF Stops, n
  <2>4. Answered(stmt, rows, n, run.results)
    <3>1. c \in Nat /\ c <= n
      BY <1>2
    <3> QED BY <1>2, <1>4, <2>3, <3>1, Passed
  <2>5. RunStates'
    BY <2>2 DEF RunStates
  <2>6. Selection'
    BY <1>2, <1>3, <2>2 DEF Selection, Running, A, rows, n, t, Shown, Columns
  <2>7. RowsSelected'
    BY <1>0, <2>2, <2>4
  <2> QED BY <1>8, <2>5, <2>6, <2>7 DEF SelectInv
<1>10. CASE Stops(stmt, rows, c) # {}
  <2>1. /\ k \in (c + 1)..n /\ Stopping(stmt, rows[k])
        /\ \A j \in (c + 1)..(k - 1) : ~Stopping(stmt, rows[j])
    BY <1>2, <1>10, FirstStop DEF n, k
  <2>2. k - 1 \in Nat /\ c \in Nat /\ c <= k - 1 /\ k - 1 + 1 = k /\ k \in 1..n /\ k \in 0..n
    BY <1>2, <2>1
  <2>3. Answered(stmt, rows, k - 1, run.results)
    BY <1>4, <2>1, <2>2, Passed
  <2>4. CASE Undefined(stmt, rows[k])
    <3>1. r = Yield("throw", <<>>, k)
      BY <1>6, <1>10, <2>4 DEF Projects, k
    <3>2. run'.state = "throw" /\ run'.cursor = k /\ run'.results = run.results
      BY <1>7, <3>1 DEF Yield
    <3>3. RunStates'
      BY <3>2 DEF RunStates
    <3>4. Selection'
      BY <1>2, <1>3, <2>2, <3>2 DEF Selection, Running, A, rows, n, t, Shown, Columns
    <3>5. RowsSelected'
      BY <1>0, <2>3, <2>4, <3>2
    <3> QED BY <1>8, <3>3, <3>4, <3>5 DEF SelectInv
  <2>5. CASE ~Undefined(stmt, rows[k])
    <3>1. r = Yield("row", Shown(stmt, rows[k]), k)
      BY <1>6, <1>10, <2>5 DEF Projects, k
    <3>2. run'.state = "open" /\ run'.cursor = k /\ run'.results = Append(run.results, Shown(stmt, rows[k]))
      BY <1>7, <3>1 DEF Yield
    <3>3. RunStates'
      BY <3>2 DEF RunStates
    <3>4. Shown(stmt, rows[k]) \in A
      BY <2>2 DEF A
    <3>5. run'.results \in Seq(A)
      BY <1>2, <3>2, <3>4
    <3>6. Selection'
      BY <1>2, <1>3, <2>2, <3>2, <3>5 DEF Selection, Running, A, rows, n, t, Shown, Columns
    <3>7. Holds(stmt, rows[k])
      BY <2>1, <2>5 DEF Stopping, Holds, Undefined, Value
    <3>8. Answered(stmt, rows, k, run'.results)
      <4> DEFINE b == k - 1
      <4>1. b + 1 = k /\ b \in Nat
        BY <2>2
      <4> HIDE DEF b
      <4>2. Answered(stmt, rows, b, run.results)
        BY <2>3 DEF b
      <4>3. Answered(stmt, rows, b + 1, Append(run.results, Shown(stmt, rows[b + 1])))
        BY <1>2, <2>5, <3>4, <3>7, <4>1, <4>2, Added
      <4> QED BY <3>2, <4>1, <4>3
    <3>9. RowsSelected'
      BY <1>0, <3>2, <3>8
    <3> QED BY <1>8, <3>3, <3>6, <3>9 DEF SelectInv
  <2> QED BY <2>4, <2>5
<1> QED BY <1>9, <1>10

LEMMA SelectRest == SelectInv /\ ((\E s : Enter(s)) \/ Plan \/ UNCHANGED queryVars) => SelectInv'
<1> SUFFICES ASSUME SelectInv, (\E s : Enter(s)) \/ Plan \/ UNCHANGED queryVars PROVE SelectInv'
  OBVIOUS
<1>1. UNCHANGED <<tables, run>>
  BY DEF Enter, Plan, queryVars
<1>2. Planned'
  BY DEF SelectInv, Planned, Enter, Plan, queryVars
<1>3. Running => UNCHANGED <<stmt, plan>>
  <2>1. ASSUME Running, Plan PROVE FALSE
    <3>1. \/ BuildPlan(stmt) = <<Projected(stmt), Scan(stmt.table)>>
          \/ BuildPlan(stmt) = <<Projected(stmt), Where(stmt.where), Scan(stmt.table)>>
      BY <2>1, StreamPlans DEF SelectInv, Selection
    <3> QED BY <2>1, <3>1 DEF SelectInv, Selection, Plan
  <2>2. ASSUME Running, \E s : Enter(s) PROVE FALSE
    BY <2>2 DEF SelectInv, Selection, Enter
  <2> QED BY <2>1, <2>2 DEF queryVars
<1>4. StoredRows' /\ RunStates'
  BY <1>1 DEF SelectInv, StoredRows, RunStates
<1>5. Running' = Running
  BY <1>1 DEF Running
<1>6. CASE ~Running
  BY <1>2, <1>4, <1>5, <1>6 DEF SelectInv, Selection, RowsSelected, Running
<1>7. CASE Running
  <2>1. UNCHANGED <<stmt, plan, tables, run>>
    BY <1>1, <1>3, <1>7
  <2>2. Selection' /\ RowsSelected'
    <3>1. Selection /\ RowsSelected
      BY DEF SelectInv
    <3>2. Selection' = Selection
      BY <2>1 DEF Selection, Running, Shown, Columns
    <3>3. RowsSelected' = RowsSelected
      BY <2>1 DEF RowsSelected, Holds, Undefined, Shown, Columns
    <3> QED BY <3>1, <3>2, <3>3
  <2> QED BY <1>2, <1>4, <2>2 DEF SelectInv
<1> QED BY <1>6, <1>7

(* RowsSelected: whatever the tables, the statement and the meaning of its *)
(* expressions, execute_plan returns the rows that WHERE keeps, in order.  *)
THEOREM SelectionsAnswer == QuerySpec => []RowsSelected
<1>1. SelectInv /\ [QueryNext]_queryVars => SelectInv'
  BY SelectBuild, SelectPull, SelectRest DEF QueryNext
<1>2. SelectInv => RowsSelected
  BY DEF SelectInv
<1> QED BY SelectInit, <1>1, <1>2, PTL DEF QuerySpec

-----------------------------------------------------------------------------
(* A length in two bytes                                                   *)

LEMMA Divided ==
    ASSUME NEW n \in Nat, NEW d \in Nat, d > 0
    PROVE  n = d * (n \div d) + (n % d) /\ n % d \in 0..(d - 1) /\ n \div d \in Nat
OBVIOUS

LEMMA Grows ==
    ASSUME NEW d \in Nat, NEW p \in Int, NEW q \in Int, p <= q
    PROVE  d * p <= d * q
<1>1. q - p \in Nat
  OBVIOUS
<1>2. \A x \in Nat : d * x >= 0
  OBVIOUS
<1>3. d * (q - p) >= 0
  BY <1>1, <1>2
<1>4. d * (q - p) = d * q - d * p
  OBVIOUS
<1>5. d * q \in Int /\ d * p \in Int
  OBVIOUS
<1> QED BY <1>3, <1>4, <1>5

LEMMA OneQuotient ==
    ASSUME NEW d \in Nat, NEW p \in Nat, NEW q \in Nat, NEW r \in 0..(d - 1), NEW t \in 0..(d - 1),
           d * p + r = d * q + t
    PROVE  p = q /\ r = t
<1>1. ASSUME NEW x \in Nat, NEW y \in Nat, NEW u \in 0..(d - 1), NEW v \in 0..(d - 1),
             x < y, d * x + u = d * y + v
      PROVE  FALSE
  <2>1. d * (x + 1) <= d * y
    BY <1>1, Grows
  <2>2. d * (x + 1) = d * x + d
    OBVIOUS
  <2>3. d * x \in Int /\ d * y \in Int
    OBVIOUS
  <2> QED BY <1>1, <2>1, <2>2, <2>3
<1>2. ~(p < q) /\ ~(q < p)
  BY <1>1
<1>3. p = q
  BY <1>2
<1>4. d * p \in Int
  OBVIOUS
<1> QED BY <1>3, <1>4

LEMMA Quotients ==
    ASSUME NEW d \in Nat, NEW q \in Nat, NEW r \in 0..(d - 1), NEW n, n = d * q + r
    PROVE  n \in Nat /\ n \div d = q /\ n % d = r
<1>1. d * q >= 0 /\ d * q \in Int
  OBVIOUS
<1>2. n \in Nat /\ d > 0
  BY <1>1
<1>3. n = d * (n \div d) + (n % d) /\ n % d \in 0..(d - 1) /\ n \div d \in Nat
  BY <1>2, Divided
<1> QED BY <1>2, <1>3, OneQuotient

(* Two bytes of a length, and the length of two bytes                      *)
LEMMA LengthBytes ==
    ASSUME NEW n \in Nat
    PROVE  U16(n) \in Seq(Byte) /\ Len(U16(n)) = 2
<1> USE BaseAssumption
<1>1. n % Base \in Byte /\ n \div Base \in Nat
  BY Divided DEF Byte
<1>2. (n \div Base) % Base \in Byte
  BY <1>1, Divided DEF Byte
<1> QED BY <1>1, <1>2 DEF U16

LEMMA Lengths ==
    ASSUME NEW n \in Nat, n < Base * Base
    PROVE  /\ U16(n) \in Seq(Byte) /\ Len(U16(n)) = 2
           /\ U16(n)[1] + Base * U16(n)[2] = n
<1> USE BaseAssumption
<1>1. n = Base * (n \div Base) + (n % Base) /\ n % Base \in Byte /\ n \div Base \in Nat
  BY Divided DEF Byte
<1>2. n \div Base < Base
  <2> SUFFICES ASSUME Base <= n \div Base PROVE FALSE
    BY <1>1
  <2>1. Base * Base <= Base * (n \div Base)
    BY <1>1, Grows
  <2>2. Base * Base \in Int /\ Base * (n \div Base) \in Int
    BY <1>1
  <2> QED BY <1>1, <2>1, <2>2 DEF Byte
<1>3. (n \div Base) % Base = n \div Base
  <2>1. n \div Base = Base * 0 + (n \div Base) /\ n \div Base \in 0..(Base - 1)
    BY <1>1, <1>2
  <2> DEFINE q == n \div Base
  <2> HIDE DEF q
  <2>2. q = Base * 0 + q /\ q \in 0..(Base - 1) /\ 0 \in Nat
    BY <2>1 DEF q
  <2>3. q % Base = q
    BY <2>2, Quotients
  <2> QED BY <2>3 DEF q
<1> QED BY <1>1, <1>2, <1>3 DEF U16, Byte

LEMMA LengthsOf ==
    ASSUME NEW x \in Byte, NEW y \in Byte
    PROVE  x + Base * y \in Nat /\ x + Base * y < Base * Base /\ U16(x + Base * y) = <<x, y>>
<1> USE BaseAssumption DEF Byte
<1>1. x + Base * y = Base * y + x /\ Base * y \in Int
  OBVIOUS
<1>2. x + Base * y \in Nat /\ (x + Base * y) \div Base = y /\ (x + Base * y) % Base = x
  BY <1>1, Quotients
<1>3. y % Base = y
  <2>1. y = Base * 0 + y
    OBVIOUS
  <2> QED BY <2>1, Quotients
<1>4. x + Base * y < Base * Base
  <2>1. Base * (y + 1) <= Base * Base
    BY Grows
  <2>2. Base * (y + 1) = Base * y + Base /\ Base * Base \in Int
    OBVIOUS
  <2> QED BY <1>1, <2>1, <2>2
<1> QED BY <1>2, <1>3, <1>4 DEF U16

-----------------------------------------------------------------------------
(* A text at its place among the bytes                                     *)

\* w is what b holds from index i on
Sits(b, i, w) == /\ i + Len(w) - 1 <= Len(b)
                 /\ \A j \in 1..Len(w) : b[i + j - 1] = w[j]

Places == Nat \ {0}

LEMMA SitsConcat ==
    ASSUME NEW b \in Seq(Byte), NEW i \in Places, NEW u \in Seq(Byte), NEW w \in Seq(Byte)
    PROVE  /\ u \o w \in Seq(Byte) /\ Len(u \o w) = Len(u) + Len(w)
           /\ Sits(b, i, u \o w) <=> Sits(b, i, u) /\ Sits(b, i + Len(u), w)
<1> DEFINE m == Len(u) n == Len(w) v == u \o w
<1>1. v \in Seq(Byte) /\ Len(v) = m + n /\ m \in Nat /\ n \in Nat /\ Len(b) \in Nat
  BY ConcatProperties, LenProperties
<1>2. \A j \in 1..(m + n) : v[j] = IF j <= m THEN u[j] ELSE w[j - m]
  BY ConcatProperties
<1> HIDE DEF m, n, v
<1>3. ASSUME Sits(b, i, v) PROVE Sits(b, i, u) /\ Sits(b, i + m, w)
  <2>1. \A j \in 1..m : b[i + j - 1] = u[j]
    BY <1>1, <1>2, <1>3 DEF Sits
  <2>2. ASSUME NEW j \in 1..n PROVE b[(i + m) + j - 1] = w[j]
    <3>1. m + j \in 1..(m + n) /\ ~(m + j <= m) /\ (m + j) - m = j
      BY <1>1
    <3>2. b[i + (m + j) - 1] = w[j]
      BY <1>1, <1>2, <1>3, <3>1 DEF Sits
    <3>3. i + (m + j) - 1 = (i + m) + j - 1
      BY <1>1 DEF Places
    <3> QED BY <3>2, <3>3
  <2>3. i + m - 1 <= Len(b) /\ (i + m) + n - 1 <= Len(b)
    BY <1>1, <1>3 DEF Sits, Places
  <2> QED BY <2>1, <2>2, <2>3 DEF Sits, m, n
<1>4. ASSUME Sits(b, i, u), Sits(b, i + m, w) PROVE Sits(b, i, v)
  <2>1. i + (m + n) - 1 <= Len(b)
    BY <1>1, <1>4 DEF Sits, Places, n
  <2>2. ASSUME NEW j \in 1..(m + n) PROVE b[i + j - 1] = v[j]
    <3>1. CASE j <= m
      <4>1. j \in 1..m
        BY <1>1, <3>1
      <4> QED BY <1>2, <1>4, <3>1, <4>1 DEF Sits, m
    <3>2. CASE ~(j <= m)
      <4>1. j - m \in 1..n /\ (i + m) + (j - m) - 1 = i + j - 1
        BY <1>1, <3>2 DEF Places
      <4>2. b[(i + m) + (j - m) - 1] = w[j - m]
        BY <1>4, <4>1 DEF Sits, n
      <4> QED BY <1>2, <3>2, <4>1, <4>2
    <3> QED BY <3>1, <3>2
  <2> QED BY <1>1, <2>1, <2>2 DEF Sits
<1> QED BY <1>1, <1>3, <1>4 DEF m, n, v

LEMMA SitsPart ==
    ASSUME NEW b \in Seq(Byte), NEW i \in Places, NEW n \in Nat
    PROVE  /\ \A w \in Seq(Byte) : Len(w) = n /\ Sits(b, i, w) => SubSeq(b, i, i + n - 1) = w
           /\ i + n - 1 <= Len(b) => /\ SubSeq(b, i, i + n - 1) \in Seq(Byte)
                                     /\ Len(SubSeq(b, i, i + n - 1)) = n
                                     /\ Sits(b, i, SubSeq(b, i, i + n - 1))
<1> DEFINE e == i + n - 1 u == SubSeq(b, i, e)
<1>1. ASSUME e <= Len(b)
      PROVE  u \in Seq(Byte) /\ Len(u) = n /\ \A j \in 1..n : u[j] = b[i + j - 1]
  <2>1. \A j \in i..e : b[j] \in Byte
    BY <1>1 DEF Places
  <2>2. i \in Int /\ e \in Int /\ e - i + 1 = n /\ (i <= e \/ n = 0)
    BY DEF Places
  <2> HIDE DEF e
  <2>3. /\ u \in Seq(Byte) /\ Len(u) = IF i <= e THEN e - i + 1 ELSE 0
        /\ \A j \in 1..(e - i + 1) : u[j] = b[i + j - 1]
    BY <2>1, <2>2, SubSeqProperties
  <2>4. Len(u) = n
    BY <2>2, <2>3 DEF e, Places
  <2> HIDE DEF u
  <2> QED BY <2>2, <2>3, <2>4
<1>2. ASSUME NEW w \in Seq(Byte), Len(w) = n, Sits(b, i, w) PROVE u = w
  <2>1. e <= Len(b) /\ \A j \in 1..n : b[i + j - 1] = w[j]
    BY <1>2 DEF Sits
  <2>2. u \in Seq(Byte) /\ Len(u) = n /\ \A j \in 1..n : u[j] = w[j]
    BY <1>1, <2>1
  <2> HIDE DEF u
  <2> QED BY <1>2, <2>2, SeqEqual
<1>3. e <= Len(b) => Sits(b, i, u)
  <2> HIDE DEF u
  <2> QED BY <1>1 DEF Sits
<1> QED BY <1>1, <1>2, <1>3

LEMMA TextBytes ==
    ASSUME NEW w \in Seq(Byte)
    PROVE  Text(w) \in Seq(Byte) /\ Len(Text(w)) = 2 + Len(w)
<1> DEFINE u == U16(Len(w))
<1>1. u \in Seq(Byte) /\ Len(u) = 2
  BY LengthBytes
<1> HIDE DEF u
<1>2. u \o w \in Seq(Byte) /\ Len(u \o w) = Len(u) + Len(w)
  BY <1>1, ConcatProperties
<1> QED BY <1>1, <1>2 DEF Text, u

(* A text that was written is read, and what is read was written.          *)
LEMMA WrittenText ==
    ASSUME NEW b \in Seq(Byte), NEW i \in Places, NEW w \in Seq(Byte), Len(w) < Base * Base
    PROVE  Sits(b, i, Text(w)) => ReadText(b, i) = Read(w, i + 2 + Len(w))
<1> DEFINE n == Len(w) u == U16(n)
<1>1. n \in Nat /\ u \in Seq(Byte) /\ Len(u) = 2 /\ u[1] + Base * u[2] = n
  BY Lengths
<1>2. Text(w) = u \o w
  BY DEF Text
<1> HIDE DEF n, u
<1>4. ASSUME Sits(b, i, Text(w)) PROVE ReadText(b, i) = Read(w, i + 2 + n)
  <2>1. Sits(b, i, u) /\ Sits(b, i + 2, w)
    <3>1. Sits(b, i, u \o w) <=> Sits(b, i, u) /\ Sits(b, i + Len(u), w)
      BY <1>1, SitsConcat
    <3> QED BY <1>1, <1>2, <1>4, <3>1
  <2>2. b[i] = u[1] /\ b[i + 1] = u[2] /\ i + 1 <= Len(b)
    <3>1. i + 1 - 1 = i /\ i + 2 - 1 = i + 1 /\ 1 \in 1..2 /\ 2 \in 1..2
      BY DEF Places
    <3> QED BY <1>1, <2>1, <3>1 DEF Sits
  <2>3. U16Of(b, i) = n
    BY <1>1, <2>2 DEF U16Of
  <2>4. Within(b, i, 2) /\ Within(b, i + 2, n)
    BY <1>1, <2>1, <2>2 DEF Within, Sits, n, Places
  <2>5. i + 2 \in Places /\ (i + 2) + n - 1 = i + 1 + n
    BY <1>1 DEF Places
  <2>6. SubSeq(b, i + 2, i + 1 + n) = w
    BY <1>1, <2>1, <2>5, SitsPart DEF n
  <2> QED BY <2>3, <2>4, <2>6 DEF ReadText
<1> QED BY <1>4 DEF n

LEMMA TextRead ==
    ASSUME NEW b \in Seq(Byte), Len(b) <= MaxSchema, NEW i \in Places, ReadText(b, i).ok
    PROVE  LET r == ReadText(b, i)
           IN  /\ r.val \in Seq(Byte) /\ Len(r.val) < Base * Base
               /\ r.at = i + Len(Text(r.val)) /\ Sits(b, i, Text(r.val))
<1> DEFINE n == U16Of(b, i) w == SubSeq(b, i + 2, i + 1 + n)
<1>1. Within(b, i, 2)
  BY DEF ReadText, Bad
<1>2. Within(b, i + 2, n)
  BY <1>1 DEF ReadText, Bad
<1>3. ReadText(b, i) = Read(w, i + 2 + n)
  BY <1>1, <1>2 DEF ReadText
<1>4. b[i] \in Byte /\ b[i + 1] \in Byte
  BY <1>1 DEF Within, Places
<1>5. n \in Nat /\ n < Base * Base /\ U16(n) = <<b[i], b[i + 1]>>
  BY <1>4, LengthsOf DEF U16Of
<1> HIDE DEF n
<1>6. i + 2 \in Places /\ (i + 2) + n - 1 = i + 1 + n
  BY <1>5 DEF Places
<1>7. w \in Seq(Byte) /\ Len(w) = n /\ Sits(b, i + 2, w)
  BY <1>2, <1>5, <1>6, SitsPart DEF Within
<1>8. Sits(b, i, U16(n))
  <2>1. Len(U16(n)) = 2 /\ U16(n)[1] = b[i] /\ U16(n)[2] = b[i + 1]
    BY <1>5
  <2>2. \A j \in 1..2 : j = 1 \/ j = 2
    OBVIOUS
  <2>3. i + 1 - 1 = i /\ i + 2 - 1 = i + 1
    BY DEF Places
  <2> QED BY <1>1, <2>1, <2>2, <2>3 DEF Sits, Within
<1> HIDE DEF w
<1>9. U16(n) \in Seq(Byte) /\ Len(U16(n)) = 2
  BY <1>5, Lengths
<1>10. Sits(b, i, Text(w)) /\ Len(Text(w)) = 2 + n
  <2> DEFINE u == U16(n)
  <2> HIDE DEF u
  <2>1. Sits(b, i, u \o w) <=> Sits(b, i, u) /\ Sits(b, i + Len(u), w)
    BY <1>7, <1>9, SitsConcat DEF u
  <2>2. Len(u \o w) = Len(u) + Len(w)
    BY <1>7, <1>9, SitsConcat, ZenonT(60) DEF u
  <2>3. Sits(b, i, u \o w) /\ Len(u \o w) = 2 + n
    BY <1>7, <1>8, <1>9, <2>1, <2>2 DEF u
  <2> QED BY <1>7, <2>3 DEF Text, u
<1>11. i + 2 + n = i + Len(Text(w))
  BY <1>5, <1>10 DEF Places
<1> QED BY <1>3, <1>5, <1>7, <1>10, <1>11 DEF Read

-----------------------------------------------------------------------------
(* A column at its place among the bytes                                   *)

(* The flags of a column in one byte                                       *)
LEMMA WrittenFlags ==
    ASSUME NEW x \in BOOLEAN, NEW y \in BOOLEAN, NEW z \in BOOLEAN
    PROVE  LET f == Flag(x, 1) + Flag(y, 2) + Flag(z, 4)
           IN  f \in 0..7 /\ Bit(f, 1) = x /\ Bit(f, 2) = y /\ Bit(f, 4) = z
BY DEF Flag, Bit

LEMMA FlagsRead ==
    ASSUME NEW f \in Byte
    PROVE  Flag(Bit(f, 1), 1) + Flag(Bit(f, 2), 2) + Flag(Bit(f, 4), 4) = f % 8
<1>1. PICK q \in Nat, r \in 0..7 : f = 8 * q + r /\ f % 8 = r
  <2>1. f \in Nat
    BY BaseAssumption DEF Byte
  <2> QED BY <2>1
<1>2. (f \div 1) % 2 = r % 2 /\ (f \div 2) % 2 = (r \div 2) % 2 /\ (f \div 4) % 2 = (r \div 4) % 2
  BY <1>1
<1>3. r \in {0, 1, 2, 3, 4, 5, 6, 7}
  OBVIOUS
<1> QED BY <1>1, <1>2, <1>3 DEF Flag, Bit

Cols == [name : Seq(Byte), type : Seq(Byte), primary : BOOLEAN, unique : BOOLEAN,
         not_null : BOOLEAN, auto_inc : BOOLEAN]
Short(s) == Len(s) < Base * Base
Unnumbered(col) == [col EXCEPT !.auto_inc = FALSE]

LEMMA UnnumberedIs ==
    ASSUME NEW col \in Cols
    PROVE  Unnumbered(col) = [name |-> col.name, type |-> col.type, primary |-> col.primary,
                              unique |-> col.unique, not_null |-> col.not_null, auto_inc |-> FALSE]
<1> DEFINE D == {"name", "type", "primary", "unique", "not_null", "auto_inc"}
           Q == [name |-> col.name, type |-> col.type, primary |-> col.primary,
                 unique |-> col.unique, not_null |-> col.not_null, auto_inc |-> FALSE]
<1>1. col = [k \in D |-> col[k]]
  BY DEF Cols
<1>2. Q = [k \in D |-> Q[k]]
  OBVIOUS
<1>3. ASSUME NEW k \in D PROVE Q[k] = IF k = "auto_inc" THEN FALSE ELSE col[k]
  <2>1. CASE k = "name"
    BY <2>1
  <2>2. CASE k = "type"
    BY <2>2
  <2>3. CASE k = "primary"
    BY <2>3
  <2>4. CASE k = "unique"
    BY <2>4
  <2>5. CASE k = "not_null"
    BY <2>5
  <2>6. CASE k = "auto_inc"
    BY <2>6
  <2> QED BY <2>1, <2>2, <2>3, <2>4, <2>5, <2>6
<1> HIDE DEF Q, D
<1>4. Unnumbered(col) = [k \in D |-> IF k = "auto_inc" THEN FALSE ELSE col[k]]
  <2>1. "auto_inc" \in D
    BY DEF D
  <2> QED BY <1>1, <2>1 DEF Unnumbered
<1>5. Unnumbered(col) = Q
  BY <1>2, <1>3, <1>4
<1> QED BY <1>5 DEF Q

LEMMA ColumnBytes ==
    ASSUME NEW col \in Cols
    PROVE  /\ Text(col.name) \in Seq(Byte) /\ Text(col.type) \in Seq(Byte)
           /\ Text(col.name) \o Text(col.type) \in Seq(Byte)
           /\ Len(Text(col.name) \o Text(col.type)) = Len(Text(col.name)) + Len(Text(col.type))
           /\ Flags(col) \in Byte /\ <<Flags(col)>> \in Seq(Byte) /\ Len(<<Flags(col)>>) = 1
           /\ Column(col) \in Seq(Byte)
           /\ Len(Column(col)) = Len(Text(col.name)) + Len(Text(col.type)) + 1
           /\ Len(Text(col.name)) = 2 + Len(col.name) /\ Len(Text(col.type)) = 2 + Len(col.type)
<1>1. col.name \in Seq(Byte) /\ col.type \in Seq(Byte)
  BY DEF Cols
<1>2. /\ Text(col.name) \in Seq(Byte) /\ Text(col.type) \in Seq(Byte)
      /\ Len(Text(col.name)) = 2 + Len(col.name) /\ Len(Text(col.type)) = 2 + Len(col.type)
  BY <1>1, TextBytes
<1>3. Flags(col) \in Byte
  <2>1. Flags(col) \in 0..7
    <3>1. col.primary \in BOOLEAN /\ col.unique \in BOOLEAN /\ col.not_null \in BOOLEAN
      BY DEF Cols
    <3> QED BY <3>1, WrittenFlags DEF Flags
  <2> QED BY <2>1, BaseAssumption DEF Byte
<1>4. <<Flags(col)>> \in Seq(Byte) /\ Len(<<Flags(col)>>) = 1
  BY <1>3
<1> DEFINE t == Text(col.name) u == Text(col.type) f == <<Flags(col)>>
<1> HIDE DEF t, u, f
<1>5. t \o u \in Seq(Byte) /\ Len(t \o u) = Len(t) + Len(u)
  BY <1>2, ConcatProperties DEF t, u
<1>6. (t \o u) \o f \in Seq(Byte) /\ Len((t \o u) \o f) = Len(t \o u) + Len(f)
  BY <1>4, <1>5, ConcatProperties DEF f
<1>7. Column(col) = (t \o u) \o f
  BY DEF Column, t, u, f
<1> QED BY <1>2, <1>3, <1>4, <1>5, <1>6, <1>7 DEF t, u, f

LEMMA WrittenColumn ==
    ASSUME NEW b \in Seq(Byte), NEW i \in Places, NEW col \in Cols, Short(col.name), Short(col.type),
           Sits(b, i, Column(col))
    PROVE  ReadColumn(b, i) = Read(Unnumbered(col), i + Len(Column(col)))
<1> DEFINE t == Text(col.name) u == Text(col.type) f == <<Flags(col)>>
           m == Len(t) n == Len(u) p == i + m + n
<1>1. /\ t \in Seq(Byte) /\ u \in Seq(Byte) /\ t \o u \in Seq(Byte) /\ f \in Seq(Byte)
      /\ Len(f) = 1
  BY ColumnBytes
<1>2. Column(col) = (t \o u) \o f /\ f[1] = Flags(col)
  BY DEF Column
<1>3. Len(t \o u) = m + n
  BY ColumnBytes
<1>a. Len(Column(col)) = m + n + 1
  BY ColumnBytes
<1>b. m = 2 + Len(col.name)
  BY ColumnBytes
<1>c. n = 2 + Len(col.type)
  BY ColumnBytes
<1>4. col.name \in Seq(Byte) /\ col.type \in Seq(Byte) /\ m \in Nat /\ n \in Nat
  BY <1>1, LenProperties DEF Cols
<1> HIDE DEF t, u, f, m, n
<1>5. i + m \in Places /\ i + m + n \in Places /\ i + (m + n) = i + m + n
  BY <1>4 DEF Places
<1>6. Sits(b, i, t \o u) /\ Sits(b, p, f)
  <2>1. Sits(b, i, (t \o u) \o f) <=> Sits(b, i, t \o u) /\ Sits(b, i + Len(t \o u), f)
    BY <1>1, SitsConcat
  <2> QED BY <1>2, <1>3, <1>5, <2>1
<1>7. Sits(b, i, t) /\ Sits(b, i + m, u)
  <2>1. Sits(b, i, t \o u) <=> Sits(b, i, t) /\ Sits(b, i + Len(t), u)
    BY <1>1, SitsConcat
  <2> QED BY <1>6, <2>1 DEF m
<1>8. ReadText(b, i) = Read(col.name, i + m)
  <2>1. ReadText(b, i) = Read(col.name, i + 2 + Len(col.name))
    BY <1>4, <1>7, WrittenText DEF t, Short
  <2>2. Len(col.name) \in Nat
    BY <1>4, LenProperties
  <2>3. i + 2 + Len(col.name) = i + m
    <3> DEFINE name == col.name
    <3>1. m = 2 + Len(name) /\ Len(name) \in Nat
      BY <1>b, <2>2
    <3> HIDE DEF name
    <3>2. i + 2 + Len(name) = i + m
      BY <1>4, <3>1 DEF Places
    <3> QED BY <3>2 DEF name
  <2> QED BY <2>1, <2>3
<1>9. ReadText(b, i + m) = Read(col.type, p)
  <2>1. ReadText(b, i + m) = Read(col.type, i + m + 2 + Len(col.type))
    BY <1>4, <1>5, <1>7, WrittenText DEF u, Short
  <2>2. Len(col.type) \in Nat
    BY <1>4, LenProperties
  <2>3. (i + m) + 2 + Len(col.type) = (i + m) + n
    <3> DEFINE type == col.type
    <3>1. n = 2 + Len(type) /\ Len(type) \in Nat
      BY <1>c, <2>2
    <3> HIDE DEF type
    <3>2. (i + m) + 2 + Len(type) = (i + m) + n
      BY <1>4, <3>1 DEF Places
    <3> QED BY <3>2 DEF type
  <2> QED BY <2>1, <2>3
<1>10. Within(b, p, 1) /\ b[p] = Flags(col)
  <2> HIDE DEF p
  <2>1. p + 1 - 1 = p /\ 1 \in 1..1
    BY <1>5 DEF Places, p
  <2>2. p + 1 - 1 <= Len(b) /\ b[p + 1 - 1] = f[1]
    BY <1>1, <1>6, <2>1 DEF Sits
  <2> QED BY <1>2, <2>1, <2>2 DEF Within
<1>11. /\ Bit(Flags(col), 1) = col.primary /\ Bit(Flags(col), 2) = col.unique
       /\ Bit(Flags(col), 4) = col.not_null
  <2>1. col.primary \in BOOLEAN /\ col.unique \in BOOLEAN /\ col.not_null \in BOOLEAN
    BY DEF Cols
  <2> QED BY <2>1, WrittenFlags DEF Flags
<1> HIDE DEF p
<1>12. ReadColumn(b, i) =
         Read([name |-> col.name, type |-> col.type, primary |-> col.primary, unique |-> col.unique,
               not_null |-> col.not_null, auto_inc |-> FALSE], p + 1)
  <2>1. /\ ReadText(b, i).ok /\ ReadText(b, i).val = col.name /\ ReadText(b, i).at = i + m
        /\ ReadText(b, i + m).ok /\ ReadText(b, i + m).val = col.type
        /\ ReadText(b, i + m).at = p
    BY <1>8, <1>9 DEF Read
  <2> QED BY <2>1, <1>10, <1>11 DEF ReadColumn
<1>13. Unnumbered(col) = [name |-> col.name, type |-> col.type, primary |-> col.primary,
          unique |-> col.unique, not_null |-> col.not_null, auto_inc |-> FALSE]
  BY UnnumberedIs
<1>14. p + 1 = i + Len(Column(col))
  BY <1>a, <1>4 DEF Places, p
<1> QED BY <1>12, <1>13, <1>14

LEMMA ColumnRead ==
    ASSUME NEW b \in Seq(Byte), Len(b) <= MaxSchema, NEW i \in Places, ReadColumn(b, i).ok
    PROVE  LET r == ReadColumn(b, i)
               c == Column(r.val)
           IN  /\ r.val \in Cols /\ Short(r.val.name) /\ Short(r.val.type)
               /\ r.at = i + Len(c) /\ r.at - 1 <= Len(b)
               /\ \A j \in 1..Len(c) :
                     c[j] = IF j = Len(c) THEN b[i + j - 1] % 8 ELSE b[i + j - 1]
<1> DEFINE name == ReadText(b, i) type == ReadText(b, name.at) f == b[type.at]
           col == [name |-> name.val, type |-> type.val, primary |-> Bit(f, 1),
                   unique |-> Bit(f, 2), not_null |-> Bit(f, 4), auto_inc |-> FALSE]
<1>1. name.ok
  BY DEF ReadColumn, Bad
<1>2. type.ok /\ Within(b, type.at, 1)
  BY <1>1 DEF ReadColumn, Bad
<1>3. ReadColumn(b, i) = Read(col, type.at + 1)
  BY <1>1, <1>2 DEF ReadColumn
<1> DEFINE t == Text(name.val) u == Text(type.val)
<1>4. /\ name.val \in Seq(Byte) /\ Short(name.val) /\ name.at = i + Len(t) /\ Sits(b, i, t)
  BY <1>1, TextRead DEF Short
<1>5. t \in Seq(Byte) /\ Len(t) \in Nat /\ name.at \in Places
  BY <1>4, TextBytes, LenProperties, SMTT(40) DEF Places
<1>6. /\ type.val \in Seq(Byte) /\ Short(type.val) /\ type.at = name.at + Len(u) /\ Sits(b, name.at, u)
  BY <1>2, <1>5, TextRead DEF Short
<1>7. u \in Seq(Byte) /\ Len(u) \in Nat /\ type.at \in Places
  <2>1. u \in Seq(Byte) /\ Len(u) \in Nat
    BY <1>6, TextBytes, LenProperties
  <2> DEFINE x == name.at y == type.at z == Len(u)
  <2>2. x \in Places /\ z \in Nat /\ y = x + z
    BY <1>5, <1>6, <2>1
  <2> HIDE DEF x, y, z
  <2>3. y \in Places
    BY <2>2 DEF Places
  <2> QED BY <2>1, <2>3 DEF y
<1>8. f \in Byte
  BY <1>2, <1>7 DEF Within, Places
<1>9. col \in Cols
  BY <1>4, <1>6 DEF Cols, Bit
<1>10. Flags(col) = f % 8
  BY <1>8, FlagsRead DEF Flags
<1>11. col.name = name.val /\ col.type = type.val
  OBVIOUS
<1> HIDE DEF col
<1>12. /\ t \o u \in Seq(Byte) /\ Len(t \o u) = Len(t) + Len(u)
       /\ Len(Column(col)) = Len(t) + Len(u) + 1
  BY <1>4, <1>6, <1>9, <1>11, ColumnBytes
<1>13. Sits(b, i, t \o u)
  BY <1>4, <1>5, <1>6, <1>7, SitsConcat
<1> DEFINE c == Column(col) m == Len(t) + Len(u)
<1>14. c = (t \o u) \o <<Flags(col)>>
  BY <1>11 DEF Column
<1> HIDE DEF t, u, f, name, type
<1>15. /\ \A j \in 1..m : c[j] = (t \o u)[j]
       /\ c[m + 1] = Flags(col)
  <2> DEFINE v == t \o u
  <2> HIDE DEF v
  <2>1. v \in Seq(Byte) /\ Len(v) = m /\ m \in Nat /\ <<Flags(col)>> \in Seq({Flags(col)})
    BY <1>5, <1>7, <1>12 DEF v
  <2>2. c = v \o <<Flags(col)>>
    BY <1>14 DEF v
  <2> HIDE DEF m, c
  <2> QED BY <2>1, <2>2 DEF v
<1>16. \A j \in 1..m : (t \o u)[j] = b[i + j - 1]
  BY <1>12, <1>13 DEF Sits
<1>17. type.at = i + m /\ m \in Nat /\ Len(c) = m + 1 /\ i + (m + 1) - 1 = i + m
  BY <1>4, <1>5, <1>6, <1>7, <1>12 DEF Places
<1> HIDE DEF m, c
<1>18. ASSUME NEW j \in 1..Len(c) PROVE c[j] = IF j = Len(c) THEN b[i + j - 1] % 8 ELSE b[i + j - 1]
  <2>1. CASE j = m + 1
    <3>1. b[i + j - 1] = f
      BY <1>17, <2>1 DEF f
    <3> QED BY <1>10, <1>15, <1>17, <2>1, <3>1
  <2>2. CASE j # m + 1
    <3>1. j \in 1..m
      BY <1>17, <2>2
    <3> QED BY <1>15, <1>16, <1>17, <2>2, <3>1
  <2> QED BY <2>1, <2>2
<1>19. type.at + 1 = i + Len(c) /\ type.at + 1 - 1 <= Len(b)
  BY <1>2, <1>17 DEF Within, Places
<1>20. ReadColumn(b, i).val = col /\ ReadColumn(b, i).at = type.at + 1
  BY <1>3 DEF Read
<1> DEFINE r == ReadColumn(b, i)
<1>21. r.val = col /\ r.at = type.at + 1
  BY <1>20
<1> HIDE DEF r
<1>22. /\ r.val \in Cols /\ Short(r.val.name) /\ Short(r.val.type)
       /\ r.at = i + Len(Column(r.val)) /\ r.at - 1 <= Len(b)
       /\ \A j \in 1..Len(Column(r.val)) : Column(r.val)[j] =
             IF j = Len(Column(r.val)) THEN b[i + j - 1] % 8 ELSE b[i + j - 1]
  <2>1. col \in Cols /\ Short(col.name) /\ Short(col.type)
    BY <1>4, <1>6, <1>9, <1>11
  <2>2. r.at = i + Len(c) /\ r.at - 1 <= Len(b)
    <3> DEFINE x == type.at y == r.at
    <3>1. y = x + 1 /\ x + 1 = i + Len(c) /\ x + 1 - 1 <= Len(b)
      BY <1>19, <1>21, Zenon
    <3>2. x = i + m
      BY <1>17
    <3> HIDE DEF c, x, y
    <3>3. x \in Nat
      BY <1>17, <3>2 DEF Places
    <3>4. y = i + Len(c) /\ y - 1 <= Len(b)
      BY <3>1, <3>3
    <3> QED BY <3>4 DEF y
  <2>3. c = Column(r.val)
    BY <1>21 DEF c
  <2> HIDE DEF c
  <2> QED BY <2>1, <2>2, <2>3, <1>18, <1>21, Zenon
<1> QED BY <1>22 DEF r

-----------------------------------------------------------------------------
(* Sequences put together, and columns read one behind the other           *)

\* f[i] is the concatenation of the first i of the sequences s, all of them
\* s put together
Joined(f, s, A) == /\ f \in [0..Len(s) -> Seq(A)] /\ f[0] = <<>> /\ f[Len(s)] = FlattenSeq(s)
                   /\ \A i \in 1..Len(s) : f[i] = f[i - 1] \o s[i]

LEMMA FlattenDefined ==
    ASSUME NEW s, Len(s) \in Nat \ {0}
    PROVE  \E f : /\ f[Len(s)] = FlattenSeq(s)
                  /\ \A i \in 1..Len(s) : f[i] = IF i = 1 THEN s[i] ELSE f[i - 1] \o s[i]
<1> DEFINE n == Len(s)
           Chain(f, i) == IF i = 1 THEN s[i] ELSE f[i - 1] \o s[i]
           solves(f, d) == \A i \in 1..n : i <= d => f[i] = Chain(f, i)
           T == {d \in Nat : ~ \E f : solves(f, d)}
<1>1. T = {}
  <2> SUFFICES ASSUME T # {} PROVE FALSE
    OBVIOUS
  <2>1. PICK d \in T : \A e \in T : d <= e
    <3>1. T \subseteq Nat
      OBVIOUS
    <3> HIDE DEF T
    <3> QED BY <3>1, LeastElement
  <2>2. PICK g : d # 0 => solves(g, d - 1)
    <3>1. CASE d # 0
      <4>1. d - 1 \in Nat /\ ~(d <= d - 1)
        BY <3>1
      <4>2. d - 1 \notin T
        BY <2>1, <4>1
      <4> QED BY <4>1, <4>2
    <3> QED BY <3>1
  <2> DEFINE f == [i \in 1..n |-> IF i < d THEN g[i] ELSE Chain(g, i)]
  <2>3. ASSUME NEW i \in 1..n, i <= d PROVE f[i] = Chain(f, i)
    <3>1. f[i] = Chain(g, i)
      <4>1. CASE i < d
        <5>1. d # 0 /\ i <= d - 1
          BY <4>1
        <5>2. g[i] = Chain(g, i)
          BY <5>1, <2>2
        <5> QED BY <4>1, <5>2
      <4>2. CASE ~(i < d)
        BY <4>2
      <4> QED BY <4>1, <4>2
    <3>2. CASE i = 1
      BY <3>1, <3>2
    <3>3. CASE i # 1
      <4>1. i - 1 \in 1..n /\ i - 1 < d
        BY <2>3, <3>3
      <4>2. f[i - 1] = g[i - 1]
        BY <4>1
      <4> HIDE DEF f
      <4> QED BY <3>1, <3>3, <4>2
    <3> QED BY <3>2, <3>3
  <2>4. solves(f, d)
    BY <2>3
  <2> HIDE DEF f, solves
  <2> QED BY <2>1, <2>4
<1>2. PICK g : solves(g, n)
  <2>1. n \notin T
    BY <1>1
  <2> QED BY <2>1
<1> DEFINE f == [i \in 1..n |-> g[i]]
<1>3. \A i \in 1..n : f[i] = Chain(f, i)
  <2> SUFFICES ASSUME NEW i \in 1..n PROVE f[i] = Chain(f, i)
    OBVIOUS
  <2>1. f[i] = Chain(g, i)
    BY <1>2
  <2>2. i # 1 => f[i - 1] = g[i - 1]
    OBVIOUS
  <2> HIDE DEF f
  <2> QED BY <2>1, <2>2
<1>4. f = [i \in 1..n |-> f[i]]
  OBVIOUS
<1> HIDE DEF f
<1> DEFINE S == CHOOSE h : h = [i \in 1..n |-> IF i = 1 THEN s[i] ELSE h[i - 1] \o s[i]]
<1>5. f = [i \in 1..n |-> IF i = 1 THEN s[i] ELSE f[i - 1] \o s[i]]
  BY <1>3, <1>4
<1>6. S = [i \in 1..n |-> IF i = 1 THEN s[i] ELSE S[i - 1] \o s[i]]
  BY <1>5
<1>7. FlattenSeq(s) = S[n]
  BY DEF FlattenSeq
<1> HIDE DEF S
<1>8. \A i \in 1..n : S[i] = IF i = 1 THEN s[i] ELSE S[i - 1] \o s[i]
  BY <1>6
<1> QED BY <1>7, <1>8

LEMMA Flattened ==
    ASSUME NEW A, NEW s \in Seq(Seq(A)), s # <<>>
    PROVE  \E f : Joined(f, s, A)
<1> DEFINE n == Len(s)
<1>1. n \in Nat \ {0} /\ \A i \in 1..n : s[i] \in Seq(A)
  OBVIOUS
<1>2. PICK g : /\ g[n] = FlattenSeq(s)
               /\ \A i \in 1..n : g[i] = IF i = 1 THEN s[i] ELSE g[i - 1] \o s[i]
  BY <1>1, FlattenDefined
<1> DEFINE f == [i \in 0..n |-> IF i = 0 THEN <<>> ELSE g[i]]
<1> HIDE DEF n
<1> DEFINE T == {i \in 1..n : g[i] \notin Seq(A)}
<1>3. T = {}
  <2> SUFFICES ASSUME T # {} PROVE FALSE
    OBVIOUS
  <2>1. PICK i \in T : \A j \in T : i <= j
    <3>1. T \subseteq Nat
      BY <1>1
    <3> HIDE DEF T
    <3> QED BY <3>1, LeastElement
  <2>2. i # 1
    BY <1>1, <1>2
  <2>3. i - 1 \in 1..n /\ ~(i <= i - 1)
    BY <1>1, <2>2
  <2>4. g[i - 1] \in Seq(A)
    BY <2>1, <2>3
  <2>5. g[i - 1] \o s[i] \in Seq(A)
    BY <1>1, <2>4, ConcatProperties
  <2> QED BY <1>2, <2>2, <2>5
<1>4. \A i \in 1..n : g[i] \in Seq(A)
  BY <1>3
<1>5. f \in [0..n -> Seq(A)] /\ f[0] = <<>> /\ f[n] = FlattenSeq(s)
  BY <1>1, <1>2, <1>4
<1>6. ASSUME NEW i \in 1..n PROVE f[i] = f[i - 1] \o s[i]
  <2>1. CASE i = 1
    <3>1. <<>> \o s[i] = s[i]
      BY <1>1, ConcatEmptySeq
    <3> QED BY <1>1, <1>2, <2>1, <3>1
  <2>2. CASE i # 1
    <3>1. i - 1 \in 0..n /\ i - 1 # 0 /\ i \in 0..n /\ i # 0
      BY <1>1, <2>2
    <3>2. f[i] = g[i] /\ f[i - 1] = g[i - 1]
      BY <3>1
    <3> HIDE DEF f
    <3> QED BY <1>2, <2>2, <3>2
  <2> QED BY <2>1, <2>2
<1> QED BY <1>5, <1>6 DEF Joined, n

LEMMA SumOf ==
    ASSUME NEW a \in Nat, NEW b \in Nat, NEW c, c = a + b
    PROVE  /\ c \in Nat /\ a <= c
           /\ \A x \in 1..a : x \in 1..c
           /\ \A x \in 1..b : a + x \in 1..c
OBVIOUS

\* the i-th of the sequences stands in the whole behind those before it
Stands(f, s, i) ==
    /\ Len(f[i]) = Len(f[i - 1]) + Len(s[i]) /\ Len(f[i]) <= Len(FlattenSeq(s))
    /\ \A j \in 1..Len(s[i]) : FlattenSeq(s)[Len(f[i - 1]) + j] = s[i][j]

LEMMA JoinedPart ==
    ASSUME NEW A, NEW s \in Seq(Seq(A)), NEW f, Joined(f, s, A), NEW i \in 1..Len(s)
    PROVE  Stands(f, s, i)
<1> DEFINE n == Len(s)
           begins(j) == /\ Len(f[j]) <= Len(f[n])
                        /\ \A x \in 1..Len(f[j]) : f[n][x] = f[j][x]
           T == {d \in Nat : d <= n /\ ~begins(n - d)}
<1>1. n \in Nat /\ \A j \in 1..n : s[j] \in Seq(A)
  OBVIOUS
<1>2. \A j \in 0..n : f[j] \in Seq(A)
  BY DEF Joined
<1>3. ASSUME NEW j \in 1..n
      PROVE  /\ Len(f[j]) = Len(f[j - 1]) + Len(s[j])
             /\ \A x \in 1..Len(f[j - 1]) : f[j][x] = f[j - 1][x]
             /\ \A x \in 1..Len(s[j]) : f[j][Len(f[j - 1]) + x] = s[j][x]
  <2>1. f[j] = f[j - 1] \o s[j]
    BY DEF Joined
  <2>2. f[j - 1] \in Seq(A) /\ s[j] \in Seq(A)
    BY <1>1, <1>2
  <2> DEFINE u == f[j - 1]
             v == s[j]
  <2> HIDE DEF u, v
  <2>3. /\ Len(u \o v) = Len(u) + Len(v)
        /\ \A x \in 1..Len(u) + Len(v) : (u \o v)[x] = IF x <= Len(u) THEN u[x] ELSE v[x - Len(u)]
        /\ Len(u) \in Nat /\ Len(v) \in Nat
    BY <2>2, ConcatProperties, LenProperties DEF u, v
  <2>4. \A x \in 1..Len(u) : (u \o v)[x] = u[x]
    BY <2>3
  <2>5. ASSUME NEW x \in 1..Len(v) PROVE (u \o v)[Len(u) + x] = v[x]
    <3>1. Len(u) + x \in 1..Len(u) + Len(v) /\ ~(Len(u) + x <= Len(u)) /\ Len(u) + x - Len(u) = x
      BY <2>3
    <3> QED BY <2>3, <3>1
  <2> QED BY <2>1, <2>3, <2>4, <2>5 DEF u, v
<1>4. T = {}
  <2> SUFFICES ASSUME T # {} PROVE FALSE
    OBVIOUS
  <2>1. PICK d \in T : \A e \in T : d <= e
    <3>1. T \subseteq Nat
      OBVIOUS
    <3> HIDE DEF T
    <3> QED BY <3>1, LeastElement
  <2>2. d \in Nat /\ d <= n /\ ~begins(n - d)
    OBVIOUS
  <2>3. d # 0
    <3>1. f[n] \in Seq(A) /\ n - 0 = n
      BY <1>1, <1>2
    <3>2. Len(f[n]) <= Len(f[n])
      BY <3>1, LenProperties
    <3> QED BY <2>2, <3>1, <3>2
  <2>4. d - 1 \in Nat /\ d - 1 <= n /\ ~(d <= d - 1) /\ n - (d - 1) = n - d + 1
    BY <1>1, <2>2, <2>3
  <2>5. begins(n - d + 1)
    <3>1. d - 1 \notin T
      BY <2>1, <2>4
    <3>2. begins(n - (d - 1))
      BY <2>4, <3>1
    <3> QED BY <2>4, <3>2
  <2> DEFINE j == n - d + 1
  <2>6. j \in 1..n /\ j - 1 = n - d
    BY <1>1, <2>2, <2>3
  <2> HIDE DEF j
  <2>7. /\ Len(f[j]) = Len(f[j - 1]) + Len(s[j])
        /\ \A x \in 1..Len(f[j - 1]) : f[j][x] = f[j - 1][x]
    BY <1>3, <2>6
  <2>8. Len(f[j]) \in Nat /\ Len(f[j - 1]) \in Nat /\ Len(s[j]) \in Nat /\ Len(f[n]) \in Nat
    <3>1. j \in 0..n /\ j - 1 \in 0..n /\ n \in 0..n
      BY <1>1, <2>6
    <3> QED BY <1>1, <1>2, <2>6, <3>1, LenProperties
  <2>11. Len(f[j]) <= Len(f[n]) /\ \A x \in 1..Len(f[j]) : f[n][x] = f[j][x]
    BY <2>5 DEF j
  <2>12. /\ Len(f[j - 1]) <= Len(f[j])
         /\ \A x \in 1..Len(f[j - 1]) : x \in 1..Len(f[j])
    BY ONLY <2>7, <2>8, SumOf
  <2>9. Len(f[j - 1]) <= Len(f[n])
    BY <2>8, <2>11, <2>12, SMTT(40)
  <2>10. ASSUME NEW x \in 1..Len(f[j - 1]) PROVE f[n][x] = f[j - 1][x]
    <3>1. x \in 1..Len(f[j])
      BY <2>12
    <3> QED BY <2>7, <2>11, <3>1
  <2> QED BY <2>2, <2>6, <2>9, <2>10
<1> HIDE DEF T
<1>5. begins(i)
  <2>1. n - i \in Nat /\ n - i <= n /\ n - (n - i) = i
    BY <1>1
  <2> QED BY <1>4, <2>1, ZenonT(60) DEF T
<1>6. f[n] = FlattenSeq(s)
  BY DEF Joined
<1>7. Len(f[i]) \in Nat /\ Len(f[i - 1]) \in Nat /\ Len(s[i]) \in Nat
  BY <1>1, <1>2, LenProperties
<1>8. Len(f[i]) = Len(f[i - 1]) + Len(s[i]) /\ Len(f[i]) <= Len(FlattenSeq(s))
  BY <1>3, <1>5, <1>6
<1>9. ASSUME NEW j \in 1..Len(s[i]) PROVE FlattenSeq(s)[Len(f[i - 1]) + j] = s[i][j]
  <2>2. \A x \in 1..Len(s[i]) : Len(f[i - 1]) + x \in 1..Len(f[i])
    BY ONLY <1>7, <1>8, SumOf
  <2>1. Len(f[i - 1]) + j \in 1..Len(f[i])
    BY <2>2
  <2> QED BY <1>3, <1>5, <1>6, <2>1
<1> QED BY <1>8, <1>9 DEF Stands

LEMMA FlattenedAny ==
    ASSUME NEW A, NEW s \in Seq(Seq(A))
    PROVE  \E f : Joined(f, s, A)
<1>1. CASE s = <<>>
  <2> DEFINE f == [i \in 0..0 |-> <<>>]
  <2>1. Len(s) = 0 /\ FlattenSeq(s) = <<>>
    BY <1>1 DEF FlattenSeq
  <2>2. f \in [0..0 -> Seq(A)] /\ f[0] = <<>>
    OBVIOUS
  <2>3. Joined(f, s, A)
    BY <2>1, <2>2 DEF Joined
  <2> QED BY <2>3
<1> QED BY <1>1, Flattened

\* the first of the sequences, put together
LEMMA JoinedPrefix ==
    ASSUME NEW A, NEW s \in Seq(Seq(A)), NEW f, Joined(f, s, A),
           NEW t \in Seq(Seq(A)), Len(t) <= Len(s), \A k \in 1..Len(t) : t[k] = s[k]
    PROVE  FlattenSeq(t) = f[Len(t)]
<1>1. PICK g : Joined(g, t, A)
  BY FlattenedAny
<1> DEFINE m == Len(t)
           T == {k \in 0..m : g[k] # f[k]}
<1>2. m \in Nat /\ Len(s) \in Nat
  BY LenProperties
<1>3. T = {}
  <2> SUFFICES ASSUME T # {} PROVE FALSE
    OBVIOUS
  <2>1. PICK k \in T : \A j \in T : k <= j
    <3>1. T \subseteq Nat
      BY <1>2
    <3> HIDE DEF T
    <3> QED BY <3>1, LeastElement
  <2>2. k # 0
    BY <1>1 DEF Joined
  <2>3. k \in 1..m /\ k \in 1..Len(s) /\ k - 1 \in 0..m /\ ~(k <= k - 1)
    BY <1>2, <2>2
  <2>4. g[k - 1] = f[k - 1]
    BY <2>1, <2>3
  <2>5. g[k] = g[k - 1] \o t[k] /\ f[k] = f[k - 1] \o s[k]
    BY <1>1, <2>3 DEF Joined
  <2>6. g[k] = f[k]
    BY <2>3, <2>4, <2>5
  <2> QED BY <2>6
<1>4. m \in 0..m
  BY <1>2
<1>5. g[m] = f[m]
  BY <1>3, <1>4
<1> QED BY <1>1, <1>5 DEF Joined

LEMMA Climbs ==
    ASSUME NEW n \in Nat, NEW g \in [0..n -> Nat], \A i \in 1..n : g[i - 1] < g[i]
    PROVE  \A i \in 0..n : i <= g[i] /\ \A k \in 0..n : i <= k => g[i] <= g[k]
<1>1. ASSUME NEW i \in 0..n PROVE i <= g[i]
  <2> DEFINE T == {k \in 0..n : ~(k <= g[k])}
  <2>1. SUFFICES ASSUME T # {} PROVE FALSE
    OBVIOUS
  <2>2. PICK k \in T : \A j \in T : k <= j
    <3>1. T \subseteq Nat
      OBVIOUS
    <3> HIDE DEF T
    <3> QED BY <2>1, <3>1, LeastElement
  <2>3. k # 0
    OBVIOUS
  <2>4. k \in 1..n /\ k - 1 \in 0..n /\ ~(k <= k - 1)
    BY <2>3
  <2>5. k - 1 <= g[k - 1] /\ g[k - 1] < g[k]
    BY <2>2, <2>4
  <2> QED BY <2>4, <2>5
<1>2. ASSUME NEW i \in 0..n, NEW m \in 0..n, i <= m PROVE g[i] <= g[m]
  <2> DEFINE T == {k \in 0..n : i <= k /\ ~(g[i] <= g[k])}
  <2>1. SUFFICES ASSUME T # {} PROVE FALSE
    BY <1>2
  <2>2. PICK k \in T : \A j \in T : k <= j
    <3>1. T \subseteq Nat
      OBVIOUS
    <3> HIDE DEF T
    <3> QED BY <2>1, <3>1, LeastElement
  <2>3. k # i
    OBVIOUS
  <2>4. k \in 1..n /\ k - 1 \in 0..n /\ ~(k <= k - 1) /\ i <= k - 1
    BY <2>3
  <2>5. g[i] <= g[k - 1] /\ g[k - 1] < g[k]
    BY <2>2, <2>4
  <2> QED BY <2>4, <2>5
<1> QED BY <1>1, <1>2

\* the columns of a page are read one after the other
Reading(r, b, start, n) ==
    \A i \in 0..n : r[i] = IF i = 0 THEN start ELSE Following(b, r[i - 1])

LEMMA ReadDefined ==
    ASSUME NEW b, NEW start, NEW n \in Nat
    PROVE  \E r : Reading(r, b, start, n)
<1> DEFINE Chain(f, i) == IF i = 0 THEN start ELSE Following(b, f[i - 1])
           solves(f, d) == \A i \in 0..n : i <= d => f[i] = Chain(f, i)
           T == {d \in Nat : ~ \E f : solves(f, d)}
<1>1. T = {}
  <2> SUFFICES ASSUME T # {} PROVE FALSE
    OBVIOUS
  <2>1. PICK d \in T : \A e \in T : d <= e
    <3>1. T \subseteq Nat
      OBVIOUS
    <3> HIDE DEF T
    <3> QED BY <3>1, LeastElement
  <2>2. PICK g : d # 0 => solves(g, d - 1)
    <3>1. CASE d # 0
      <4>1. d - 1 \in Nat /\ ~(d <= d - 1)
        BY <3>1
      <4>2. d - 1 \notin T
        BY <2>1, <4>1
      <4> QED BY <4>1, <4>2
    <3> QED BY <3>1
  <2> DEFINE f == [i \in 0..n |-> IF i < d THEN g[i] ELSE Chain(g, i)]
  <2>3. ASSUME NEW i \in 0..n, i <= d PROVE f[i] = Chain(f, i)
    <3>1. f[i] = Chain(g, i)
      <4>1. CASE i < d
        <5>1. d # 0 /\ i <= d - 1
          BY <4>1
        <5>2. g[i] = Chain(g, i)
          BY <5>1, <2>2
        <5> QED BY <4>1, <5>2
      <4>2. CASE ~(i < d)
        BY <4>2
      <4> QED BY <4>1, <4>2
    <3>2. CASE i = 0
      BY <3>1, <3>2
    <3>3. CASE i # 0
      <4>1. i - 1 \in 0..n /\ i - 1 < d
        BY <2>3, <3>3
      <4>2. f[i - 1] = g[i - 1]
        BY <4>1
      <4> HIDE DEF f
      <4> QED BY <3>1, <3>3, <4>2
    <3> QED BY <3>2, <3>3
  <2>4. solves(f, d)
    BY <2>3
  <2> HIDE DEF f, solves
  <2> QED BY <2>1, <2>4
<1>2. PICK g : solves(g, n)
  <2>1. n \notin T
    BY <1>1
  <2> QED BY <2>1
<1> QED BY <1>2 DEF Reading

LEMMA Deserialized ==
    ASSUME NEW b, ~(Len(b) < 4), NEW n \in Nat, n = U16Of(b, 1)
    PROVE  \E r : /\ Reading(r, b, ReadText(b, 3), n)
                  /\ Deserialize(b) =
                        IF ~r[n].ok THEN Bad
                        ELSE IF ~Complete(b, r[n].at) THEN Bad
                        ELSE Read([name |-> ReadText(b, 3).val, columns |-> [i \in 1..n |-> r[i].val]],
                                  r[n].at)
<1> DEFINE name == ReadText(b, 3)
           F(h) == [i \in 0..n |-> IF i = 0 THEN name ELSE Following(b, h[i - 1])]
           S == CHOOSE h : h = F(h)
<1>1. \E h : h = F(h)
  <2>1. PICK r : Reading(r, b, name, n)
    BY ReadDefined
  <2> DEFINE h == [i \in 0..n |-> r[i]]
  <2>2. ASSUME NEW i \in 0..n PROVE h[i] = IF i = 0 THEN name ELSE Following(b, h[i - 1])
    <3>1. h[i] = IF i = 0 THEN name ELSE Following(b, r[i - 1])
      BY <2>1 DEF Reading
    <3>2. i # 0 => h[i - 1] = r[i - 1]
      OBVIOUS
    <3> HIDE DEF h
    <3> QED BY <3>1, <3>2
  <2>3. h = [i \in 0..n |-> h[i]]
    OBVIOUS
  <2> HIDE DEF h
  <2>4. h = [i \in 0..n |-> IF i = 0 THEN name ELSE Following(b, h[i - 1])]
    BY <2>2, <2>3
  <2> QED BY <2>4
<1>2. S = F(S)
  BY <1>1
<1>3. Deserialize(b) = IF ~S[n].ok THEN Bad
                       ELSE IF ~Complete(b, S[n].at) THEN Bad
                       ELSE Read([name |-> name.val, columns |-> [i \in 1..n |-> S[i].val]], S[n].at)
  BY DEF Deserialize
<1> HIDE DEF S
<1>4. Reading(S, b, name, n)
  BY <1>2 DEF Reading
<1> QED BY <1>3, <1>4

-----------------------------------------------------------------------------
(* A schema in bytes: its start, then its columns one behind the other     *)
Start(s) == U16(Len(s.columns)) \o Text(s.name)
Parts(s) == [i \in 1..Len(s.columns) |-> Column(s.columns[i])]

LEMMA StartBytes ==
    ASSUME NEW s \in TableSchemas
    PROVE  /\ s.name \in Seq(Byte) /\ s.columns \in Seq(Cols) /\ Len(s.columns) \in Nat
           /\ s = [name |-> s.name, columns |-> s.columns]
           /\ Start(s) \in Seq(Byte) /\ Len(Start(s)) = 4 + Len(s.name)
           /\ Len(Start(s)) \in Nat /\ Len(Start(s)) >= 4
<1>1. s.name \in Seq(Byte) /\ s.columns \in Seq(Cols) /\ s = [name |-> s.name, columns |-> s.columns]
  BY DEF TableSchemas, Cols
<1> DEFINE m == Len(s.name) n == Len(s.columns) u == U16(n) t == Text(s.name)
<1>2. m \in Nat /\ n \in Nat
  BY <1>1, LenProperties
<1> HIDE DEF m, n
<1>3. u \in Seq(Byte) /\ Len(u) = 2
  BY <1>2, LengthBytes
<1>4. t \in Seq(Byte) /\ Len(t) = 2 + m
  BY <1>1, TextBytes DEF m
<1> HIDE DEF u, t
<1>5. u \o t \in Seq(Byte) /\ Len(u \o t) = Len(u) + Len(t)
  BY <1>3, <1>4, ConcatProperties
<1>6. Start(s) = u \o t
  BY DEF Start, u, t, n
<1>7. Len(u \o t) = 4 + m
  BY <1>2, <1>3, <1>4, <1>5
<1> QED BY <1>1, <1>2, <1>5, <1>6, <1>7 DEF m, n

LEMMA PartBytes ==
    ASSUME NEW s \in TableSchemas
    PROVE  /\ Parts(s) \in Seq(Seq(Byte)) /\ Len(Parts(s)) = Len(s.columns)
           /\ \A i \in 1..Len(s.columns) :
                 /\ s.columns[i] \in Cols /\ Parts(s)[i] = Column(s.columns[i])
                 /\ Column(s.columns[i]) \in Seq(Byte) /\ Len(Column(s.columns[i])) \in Nat \ {0}
           /\ Serialize(s) = Start(s) \o FlattenSeq(Parts(s))
<1> DEFINE n == Len(s.columns)
<1>1. s.columns \in Seq(Cols) /\ n \in Nat
  BY StartBytes
<1>2. ASSUME NEW i \in 1..n
      PROVE  /\ s.columns[i] \in Cols
             /\ Column(s.columns[i]) \in Seq(Byte) /\ Len(Column(s.columns[i])) \in Nat \ {0}
  <2>1. s.columns[i] \in Cols
    BY <1>1
  <2> DEFINE col == s.columns[i] k == Len(col.name) l == Len(col.type) c == Column(col)
  <2> HIDE DEF col
  <2>2. c \in Seq(Byte) /\ Len(c) = Len(Text(col.name)) + Len(Text(col.type)) + 1
    BY <2>1, ColumnBytes DEF col
  <2>3. Len(Text(col.name)) = 2 + k /\ Len(Text(col.type)) = 2 + l
    BY <2>1, ColumnBytes DEF col
  <2>4. k \in Nat /\ l \in Nat
    <3>1. col.name \in Seq(Byte) /\ col.type \in Seq(Byte)
      BY <2>1 DEF Cols, col
    <3> QED BY <3>1, LenProperties
  <2>5. Len(c) = (2 + k) + (2 + l) + 1
    BY <2>2, <2>3, Zenon
  <2> HIDE DEF c, k, l
  <2>6. Len(c) \in Nat \ {0}
    BY <2>4, <2>5
  <2> QED BY <2>1, <2>2, <2>6 DEF c, col
<1> HIDE DEF n
<1>3. Parts(s) \in Seq(Seq(Byte)) /\ Len(Parts(s)) = n /\ \A i \in 1..n : Parts(s)[i] = Column(s.columns[i])
  <2>1. Parts(s) = [i \in 1..n |-> Column(s.columns[i])]
    BY DEF Parts, n
  <2> QED BY <1>1, <1>2, <2>1
<1>4. Serialize(s) = Start(s) \o FlattenSeq(Parts(s))
  BY DEF Serialize, Start, Parts
<1> QED BY <1>2, <1>3, <1>4 DEF n

\* The i-th column ends at g[i] behind the start.
Laid(g, s) ==
    LET n == Len(s.columns)
        h == Len(Start(s))
        b == Serialize(s)
    IN  /\ g \in [0..n -> Nat] /\ g[0] = 0
        /\ \A i \in 1..n : g[i] = g[i - 1] + Len(Column(s.columns[i]))
        /\ \A i \in 0..n : i <= g[i] /\ \A k \in 0..n : i <= k => g[i] <= g[k]
        /\ b \in Seq(Byte) /\ Len(b) = h + g[n]
        /\ \A j \in 1..h : b[j] = Start(s)[j]
        /\ \A i \in 1..n : \A j \in 1..Len(Column(s.columns[i])) :
              b[h + g[i - 1] + j] = Column(s.columns[i])[j]
        /\ \A i \in 1..n : FlagAt(s, i) = h + g[i]

LEMMA ColumnsChanged ==
    ASSUME NEW s \in TableSchemas, NEW c
    PROVE  [s EXCEPT !.columns = c] = [name |-> s.name, columns |-> c]
<1> DEFINE D == {"name", "columns"} q == [name |-> s.name, columns |-> c]
<1>1. s = [k \in D |-> s[k]]
  BY DEF TableSchemas
<1>2. q = [k \in D |-> q[k]] /\ q["name"] = s["name"] /\ q["columns"] = c
  OBVIOUS
<1>3. "columns" \in D /\ \A k \in D : k = "name" \/ k = "columns"
  OBVIOUS
<1> HIDE DEF D, q
<1>4. [s EXCEPT !.columns = c] = [k \in D |-> IF k = "columns" THEN c ELSE s[k]]
  BY <1>1, <1>3
<1>5. \A k \in D : q[k] = IF k = "columns" THEN c ELSE s[k]
  BY <1>2, <1>3
<1>6. [s EXCEPT !.columns = c] = q
  BY <1>2, <1>4, <1>5
<1> QED BY <1>6 DEF q

LEMMA FlagPlace ==
    ASSUME NEW s \in TableSchemas, NEW f, Joined(f, Parts(s), Byte), NEW i \in 1..Len(s.columns)
    PROVE  FlagAt(s, i) = Len(Start(s)) + Len(f[i])
<1> DEFINE cols == SubSeq(s.columns, 1, i) t == [name |-> s.name, columns |-> cols]
<1>1. /\ s.name \in Seq(Byte) /\ s.columns \in Seq(Cols) /\ Len(s.columns) \in Nat
      /\ s = [name |-> s.name, columns |-> s.columns]
  BY StartBytes
<1>2. [s EXCEPT !.columns = SubSeq(@, 1, i)] = t
  BY ColumnsChanged
<1>3. cols \in Seq(Cols) /\ Len(cols) = i /\ \A k \in 1..i : cols[k] = s.columns[k]
  <2>1. \A k \in 1..i : s.columns[k] \in Cols
    BY <1>1
  <2>2. /\ cols \in Seq(Cols) /\ Len(cols) = IF 1 <= i THEN i - 1 + 1 ELSE 0
        /\ \A k \in 1..(i - 1 + 1) : cols[k] = s.columns[1 + k - 1]
    BY <2>1, SubSeqProperties
  <2> HIDE DEF cols
  <2> QED BY <2>2
<1> HIDE DEF cols
<1>4. t \in TableSchemas /\ t.columns = cols /\ t.name = s.name
  BY <1>1, <1>3 DEF TableSchemas, Cols
<1> HIDE DEF t
<1>5. Len(Start(t)) = 4 + Len(s.name) /\ Len(Start(s)) = 4 + Len(s.name)
  BY <1>4, StartBytes
<1>6. /\ Parts(t) \in Seq(Seq(Byte)) /\ Len(Parts(t)) = i
      /\ \A k \in 1..i : Parts(t)[k] = Column(s.columns[k])
      /\ Serialize(t) = Start(t) \o FlattenSeq(Parts(t)) /\ Start(t) \in Seq(Byte)
  BY <1>3, <1>4, PartBytes, StartBytes, ZenonT(60)
<1>7. /\ Parts(s) \in Seq(Seq(Byte)) /\ Len(Parts(s)) = Len(s.columns)
      /\ \A k \in 1..i : Parts(s)[k] = Column(s.columns[k])
  BY PartBytes
<1>8. FlattenSeq(Parts(t)) = f[i]
  <2>1. Len(Parts(t)) <= Len(Parts(s)) /\ \A k \in 1..Len(Parts(t)) : Parts(t)[k] = Parts(s)[k]
    BY <1>6, <1>7
  <2> QED BY <1>6, <1>7, <2>1, JoinedPrefix
<1>9. f[i] \in Seq(Byte)
  BY <1>7 DEF Joined
<1>10. Len(Serialize(t)) = Len(Start(t)) + Len(f[i])
  BY <1>6, <1>8, <1>9, ConcatProperties
<1> QED BY <1>2, <1>5, <1>10 DEF FlagAt

LEMMA Layout ==
    ASSUME NEW s \in TableSchemas
    PROVE  \E g : Laid(g, s)
<1> DEFINE n == Len(s.columns) h == Len(Start(s)) b == Serialize(s) p == Parts(s)
           c(i) == Column(s.columns[i])
<1>1. /\ p \in Seq(Seq(Byte)) /\ Len(p) = n /\ n \in Nat
      /\ \A i \in 1..n : p[i] = c(i) /\ c(i) \in Seq(Byte) /\ Len(c(i)) \in Nat \ {0}
      /\ b = Start(s) \o FlattenSeq(p)
  BY PartBytes, StartBytes
<1>2. Start(s) \in Seq(Byte) /\ h \in Nat
  BY StartBytes
<1>3. PICK f : Joined(f, p, Byte)
  BY <1>1, FlattenedAny
<1>4. \A i \in 1..n : FlagAt(s, i) = h + Len(f[i])
  BY <1>3, FlagPlace
<1> HIDE DEF n, p, h, b
<1>5. /\ \A i \in 0..n : f[i] \in Seq(Byte) /\ Len(f[i]) \in Nat
      /\ f[0] = <<>> /\ f[n] = FlattenSeq(p)
  BY <1>1, <1>3, LenProperties DEF Joined
<1>6. \A i \in 1..n : Stands(f, p, i)
  BY <1>1, <1>3, JoinedPart
<1> DEFINE g == [i \in 0..n |-> Len(f[i])]
<1>7. g \in [0..n -> Nat] /\ g[0] = 0 /\ \A i \in 0..n : g[i] = Len(f[i])
  BY <1>1, <1>5
<1> HIDE DEF g
<1>8. \A i \in 1..n : g[i] = g[i - 1] + Len(c(i))
  <2> SUFFICES ASSUME NEW i \in 1..n PROVE g[i] = g[i - 1] + Len(c(i))
    OBVIOUS
  <2>1. i \in 0..n /\ i - 1 \in 0..n
    BY <1>1
  <2> QED BY <1>1, <1>6, <1>7, <2>1 DEF Stands
<1>9. \A i \in 0..n : i <= g[i] /\ \A k \in 0..n : i <= k => g[i] <= g[k]
  <2>1. \A i \in 1..n : g[i - 1] < g[i]
    <3> SUFFICES ASSUME NEW i \in 1..n PROVE g[i - 1] < g[i]
      OBVIOUS
    <3> DEFINE l == Len(c(i))
    <3>1. i \in 0..n /\ i - 1 \in 0..n /\ l \in Nat \ {0} /\ g[i] = g[i - 1] + l
      BY <1>1, <1>8
    <3> HIDE DEF l
    <3> QED BY <1>7, <3>1
  <2> QED BY <1>1, <1>7, <2>1, Climbs
<1>10. n \in 0..n /\ f[n] \in Seq(Byte)
  BY <1>1, <1>5
<1>11. /\ b \in Seq(Byte) /\ Len(b) = h + Len(f[n])
       /\ \A x \in 1..(h + Len(f[n])) : b[x] = IF x <= h THEN Start(s)[x] ELSE f[n][x - h]
  BY <1>1, <1>2, <1>5, <1>10, ConcatProperties DEF h
<1>12. Len(b) = h + g[n]
  BY <1>7, <1>10, <1>11
<1> DEFINE l == Len(f[n])
<1>13. l \in Nat /\ \A x \in 1..(h + l) : b[x] = IF x <= h THEN Start(s)[x] ELSE f[n][x - h]
  BY <1>5, <1>10, <1>11
<1>14. \A j \in 1..h : b[j] = Start(s)[j]
  <2> HIDE DEF l
  <2> QED BY <1>2, <1>13
<1>15. ASSUME NEW i \in 1..n, NEW j \in 1..Len(c(i)) PROVE b[h + g[i - 1] + j] = c(i)[j]
  <2> DEFINE a == g[i - 1] m == Len(c(i)) e == g[i]
  <2>1. i \in 0..n /\ i - 1 \in 0..n
    BY <1>1
  <2>2. a \in Nat /\ m \in Nat /\ e = a + m /\ a = Len(f[i - 1]) /\ e = Len(f[i])
    BY <1>1, <1>7, <1>8, <2>1
  <2>3. e <= l /\ f[n][a + j] = c(i)[j]
    BY <1>1, <1>5, <1>6, <2>2 DEF Stands
  <2>4. j \in 1..m
    OBVIOUS
  <2> HIDE DEF a, m, e, l
  <2>5. /\ h + a + j \in 1..(h + l) /\ ~(h + a + j <= h) /\ (h + a + j) - h = a + j
    BY <1>2, <1>13, <2>2, <2>3, <2>4, SMTT(40)
  <2>6. b[h + a + j] = f[n][a + j]
    BY <1>13, <2>5
  <2> QED BY <2>3, <2>6 DEF a
<1>16. \A i \in 1..n : FlagAt(s, i) = h + g[i]
  <2>1. \A i \in 1..n : i \in 0..n
    BY <1>1
  <2> QED BY <1>4, <1>7, <2>1
<1> QED BY <1>7, <1>8, <1>9, <1>11, <1>12, <1>14, <1>15, <1>16 DEF Laid, n, h, b

-----------------------------------------------------------------------------
(* Written schemas are read, and schemas that are read were written        *)

LEMMA NumberingAsideIs ==
    ASSUME NEW s \in TableSchemas
    PROVE  NumberingAside(s) = [name |-> s.name,
                           columns |-> [i \in 1..Len(s.columns) |-> Unnumbered(s.columns[i])]]
<1>1. s.columns \in Seq(Cols)
  BY StartBytes
<1>2. DOMAIN s.columns = 1..Len(s.columns)
  BY <1>1
<1>3. NumberingAside(s) = [s EXCEPT !.columns =
                        [i \in 1..Len(s.columns) |-> Unnumbered(s.columns[i])]]
  BY <1>2 DEF NumberingAside, Unnumbered
<1> QED BY <1>3, ColumnsChanged

\* what is read of a page is the schema that was stored on it
LEMMA StoredIsRead ==
    ASSUME NEW s \in TableSchemas, Len(Serialize(s)) <= MaxSchema
    PROVE  LET r == ReadSchema(Serialize(s)) IN r.ok /\ r.val = NumberingAside(s)
<1> DEFINE n == Len(s.columns) h == Len(Start(s)) b == Serialize(s) c(i) == Column(s.columns[i])
           l == Len(s.name) col(i) == s.columns[i]
<1>1. PICK g : Laid(g, s)
  BY Layout
<1>2. /\ s.name \in Seq(Byte) /\ s.columns \in Seq(Cols) /\ n \in Nat
      /\ Start(s) \in Seq(Byte) /\ h = 4 + l /\ h \in Nat /\ h >= 4 /\ l \in Nat
  BY StartBytes, LenProperties
<1>3. \A i \in 1..n : col(i) \in Cols /\ c(i) \in Seq(Byte) /\ Len(c(i)) \in Nat \ {0}
  BY PartBytes
<1>4. /\ g \in [0..n -> Nat] /\ g[0] = 0
      /\ \A i \in 1..n : g[i] = g[i - 1] + Len(c(i))
      /\ \A i \in 0..n : i <= g[i] /\ g[i] <= g[n]
      /\ b \in Seq(Byte) /\ Len(b) = h + g[n]
      /\ \A j \in 1..h : b[j] = Start(s)[j]
      /\ \A i \in 1..n : \A j \in 1..Len(c(i)) : b[h + g[i - 1] + j] = c(i)[j]
  <2>1. n \in 0..n
    <3> HIDE DEF n
    <3> QED BY <1>2
  <2>2. \A i \in 0..n : i <= g[i] /\ \A k \in 0..n : i <= k => g[i] <= g[k]
    BY <1>1 DEF Laid
  <2>3. \A i \in 0..n : i <= g[i] /\ g[i] <= g[n]
    <3> HIDE DEF n
    <3> QED BY <1>2, <2>1, <2>2
  <2> QED BY <1>1, <2>3 DEF Laid
<1>5. Len(b) <= MaxSchema /\ MaxSchema \in Nat /\ MaxSchema < Base * Base /\ Base * Base \in Nat
  BY BaseAssumption
<1>6. n \in 0..n /\ g[n] \in Nat /\ n <= g[n]
  <2> HIDE DEF n
  <2> QED BY <1>2, <1>4
<1>7. n < Base * Base /\ l < Base * Base
  <2> DEFINE q == g[n] t == Len(b) w == Base * Base
  <2> HIDE DEF n, l, h, q, t, w
  <2> QED BY <1>2, <1>4, <1>5, <1>6 DEF q, t, w
<1> HIDE DEF h
<1>8. Sits(b, 1, Start(s))
  <2>1. 1 + h - 1 <= Len(b) /\ \A j \in 1..h : 1 + j - 1 = j
    BY <1>2, <1>4, <1>6
  <2> QED BY <1>4, <2>1 DEF Sits, h
<1>9. U16Of(b, 1) = n /\ Sits(b, 3, Text(s.name))
  <2> DEFINE u == U16(n) t == Text(s.name)
  <2>1. u \in Seq(Byte) /\ Len(u) = 2 /\ u[1] + Base * u[2] = n
    BY <1>2, <1>7, Lengths
  <2>2. t \in Seq(Byte)
    BY <1>2, TextBytes
  <2>3. Start(s) = u \o t
    BY DEF Start
  <2> HIDE DEF u, t, n
  <2>4. 1 \in Places /\ 1 + Len(u) = 3
    BY <2>1 DEF Places
  <2>5. Sits(b, 1, u \o t) <=> Sits(b, 1, u) /\ Sits(b, 1 + Len(u), t)
    BY <1>4, <2>1, <2>2, <2>4, SitsConcat
  <2>6. Sits(b, 1, u) /\ Sits(b, 3, t)
    BY <1>8, <2>3, <2>4, <2>5
  <2>7. b[1] = u[1] /\ b[2] = u[2]
    <3>1. 1 + 1 - 1 = 1 /\ 1 + 2 - 1 = 2 /\ 1 \in 1..2 /\ 2 \in 1..2
      OBVIOUS
    <3> QED BY <2>1, <2>6, <3>1 DEF Sits
  <2> QED BY <2>1, <2>6, <2>7 DEF U16Of, t
<1>10. ReadText(b, 3) = Read(s.name, h + 1)
  <2>1. ReadText(b, 3) = Read(s.name, 3 + 2 + l)
    <3>1. 3 \in Places
      BY DEF Places
    <3> QED BY <1>2, <1>4, <1>7, <1>9, <3>1, WrittenText
  <2> HIDE DEF l
  <2>2. 3 + 2 + l = h + 1
    BY <1>2
  <2> QED BY <2>1, <2>2
<1>11. ASSUME NEW i \in 1..n
       PROVE  ReadColumn(b, h + g[i - 1] + 1) = Read(Unnumbered(col(i)), h + g[i] + 1)
  <2> DEFINE k == col(i) d == c(i) a == g[i - 1] m == Len(d) e == g[i] q == g[n]
  <2>1. k \in Cols /\ d \in Seq(Byte) /\ m \in Nat \ {0}
    BY <1>3
  <2>2. a \in Nat /\ e = a + m /\ e <= q /\ q \in Nat /\ Len(b) = h + q
    <3>1. i - 1 \in 0..n /\ i \in 0..n
      BY <1>2
    <3> QED BY <1>4, <1>6, <3>1
  <2>3. \A j \in 1..m : b[h + a + j] = d[j]
    BY <1>4
  <2>4. m = Len(Text(k.name)) + Len(Text(k.type)) + 1
    BY <2>1, ColumnBytes
  <2>5. Len(Text(k.name)) = 2 + Len(k.name) /\ Len(Text(k.type)) = 2 + Len(k.type)
    BY <2>1, ColumnBytes
  <2>6. k.name \in Seq(Byte) /\ k.type \in Seq(Byte)
    BY <2>1 DEF Cols
  <2> DEFINE x == Len(k.name) y == Len(k.type) w == Base * Base p == h + a + 1
  <2>7. x \in Nat /\ y \in Nat /\ m = (2 + x) + (2 + y) + 1
    BY <2>4, <2>5, <2>6, LenProperties
  <2>8. d = Column(k)
    OBVIOUS
  <2> HIDE DEF k, d, a, m, e, q, x, y, w, n
  <2>9. x < w /\ y < w
    <3>1. w \in Nat /\ MaxSchema \in Nat /\ MaxSchema < w /\ h + q <= MaxSchema
      BY <1>5, <2>2 DEF w
    <3>2. x <= m /\ y <= m /\ m <= q
      BY <2>1, <2>2, <2>7
    <3> QED BY <1>2, <2>1, <2>2, <2>7, <3>1, <3>2
  <2>10. p \in Places
    BY <1>2, <2>2 DEF Places
  <2>11. Sits(b, p, d)
    <3>1. p + m - 1 <= Len(b)
      BY <1>2, <2>1, <2>2
    <3>2. \A j \in 1..m : p + j - 1 = h + a + j
      BY <1>2, <2>1, <2>2
    <3> QED BY <2>3, <3>1, <3>2 DEF Sits, m
  <2>12. ReadColumn(b, p) = Read(Unnumbered(k), p + m)
    <3>1. Short(k.name) /\ Short(k.type)
      BY <2>9 DEF Short, x, y, w
    <3> QED BY <1>4, <2>1, <2>8, <2>10, <2>11, <3>1, WrittenColumn DEF m
  <2>13. p + m = h + e + 1
    <3>1. h \in Nat
      BY <1>2
    <3> HIDE DEF l
    <3> QED BY <2>1, <2>2, <3>1
  <2> HIDE DEF p
  <2>14. ReadColumn(b, p) = Read(Unnumbered(k), h + e + 1)
    BY <2>12, <2>13
  <2> QED BY <2>14 DEF p, k, a, e
<1>12. ~(Len(b) < 4) /\ b # <<>>
  <2> DEFINE q == g[n] t == Len(b)
  <2>1. ~(t < 4)
    <3> HIDE DEF q, t, n
    <3> QED BY <1>2, <1>4, <1>6 DEF q, t
  <2> HIDE DEF b
  <2>2. b # <<>>
    BY <2>1
  <2> QED BY <2>1, <2>2 DEF b
<1>13. PICK r : /\ Reading(r, b, ReadText(b, 3), n)
                /\ Deserialize(b) =
                     IF ~r[n].ok THEN Bad
                     ELSE IF ~Complete(b, r[n].at) THEN Bad
                     ELSE Read([name |-> ReadText(b, 3).val, columns |-> [i \in 1..n |-> r[i].val]],
                               r[n].at)
  BY <1>2, <1>9, <1>12, Deserialized
<1> DEFINE want(i) == Read(IF i = 0 THEN s.name ELSE Unnumbered(col(i)), h + g[i] + 1)
           T == {i \in 0..n : r[i] # want(i)}
<1> HIDE DEF n, b
<1>14. T = {}
  <2> SUFFICES ASSUME T # {} PROVE FALSE
    OBVIOUS
  <2>1. PICK i \in T : \A j \in T : i <= j
    <3>1. T \subseteq Nat
      BY <1>2
    <3> HIDE DEF T
    <3> QED BY <3>1, LeastElement
  <2>2. i # 0
    <3>1. r[0] = ReadText(b, 3)
      BY <1>2, <1>13 DEF Reading
    <3>2. h + g[0] + 1 = h + 1
      BY <1>2, <1>4
    <3> QED BY <1>10, <3>1, <3>2
  <2>3. i \in 1..n /\ i - 1 \in 0..n /\ ~(i <= i - 1) /\ i \in 0..n
    BY <1>2, <2>2
  <2>4. r[i - 1] = want(i - 1)
    BY <2>1, <2>3
  <2>5. r[i] = Following(b, r[i - 1])
    BY <1>13, <2>2, <2>3 DEF Reading
  <2>6. r[i - 1].ok /\ r[i - 1].at = h + g[i - 1] + 1
    BY <2>4 DEF Read
  <2>7. r[i] = want(i)
    BY <1>11, <2>2, <2>3, <2>5, <2>6 DEF Following
  <2> QED BY <2>7
<1>15. \A i \in 0..n : r[i] = want(i)
  BY <1>14
<1>16. r[n].ok /\ r[n].at = h + g[n] + 1
  <2>1. r[n] = want(n)
    BY <1>6, <1>15
  <2> QED BY <2>1 DEF Read
<1>17. Complete(b, r[n].at)
  <2>1. h + g[n] + 1 = Len(b) + 1
    BY <1>4
  <2> QED BY <1>16, <2>1 DEF Complete
<1>18. [i \in 1..n |-> r[i].val] = [i \in 1..n |-> Unnumbered(col(i))]
  <2>1. ASSUME NEW i \in 1..n PROVE r[i].val = Unnumbered(col(i))
    <3>1. i \in 0..n /\ i # 0
      BY <1>2
    <3>2. r[i] = Read(Unnumbered(col(i)), h + g[i] + 1)
      BY <1>15, <3>1
    <3> QED BY <3>2 DEF Read
  <2> QED BY <2>1
<1>19. ReadText(b, 3).val = s.name
  BY <1>10 DEF Read
<1>20. Deserialize(b).ok /\ Deserialize(b).val = [name |-> s.name, columns |-> [i \in 1..n |-> Unnumbered(col(i))]]
  <2>1. Deserialize(b) = Read([name |-> ReadText(b, 3).val, columns |-> [i \in 1..n |-> r[i].val]],
                              r[n].at)
    BY <1>13, <1>16, <1>17, Zenon
  <2>2. Deserialize(b).ok /\ Deserialize(b).val = [name |-> ReadText(b, 3).val,
                                                  columns |-> [i \in 1..n |-> r[i].val]]
    BY <2>1 DEF Read
  <2> QED BY <1>18, <1>19, <2>2, Zenon
<1>21. ReadSchema(b) = Deserialize(b)
  BY <1>2, <1>4, <1>5, <1>6, <1>12, SMTT(40) DEF ReadSchema, b
<1> QED BY <1>20, <1>21, NumberingAsideIs DEF n, b

\* a schema without AUTO_INCREMENT has no more to forget
LEMMA NumberingGone ==
    ASSUME NEW s \in TableSchemas
    PROVE  NumberingAside(NumberingAside(s)) = NumberingAside(s)
<1> DEFINE n == Len(s.columns) cs == [i \in 1..n |-> Unnumbered(s.columns[i])]
           u == [name |-> s.name, columns |-> cs]
<1>1. NumberingAside(s) = u
  BY NumberingAsideIs
<1>2. s.columns \in Seq(Cols) /\ s.name \in Seq(Byte)
  BY StartBytes
<1>3. n \in Nat /\ \A i \in 1..n : s.columns[i] \in Cols
  BY <1>2, LenProperties
<1>4. \A i \in 1..n : Unnumbered(s.columns[i]) \in Cols
                      /\ Unnumbered(Unnumbered(s.columns[i])) = Unnumbered(s.columns[i])
  BY <1>3 DEF Unnumbered, Cols
<1> HIDE DEF n
<1>5. cs \in Seq(Cols) /\ Len(cs) = n /\ \A i \in 1..n : cs[i] = Unnumbered(s.columns[i])
  BY <1>3, <1>4
<1> HIDE DEF cs
<1>6. u \in TableSchemas /\ u.name = s.name /\ u.columns = cs
  BY <1>2, <1>5 DEF TableSchemas, Cols
<1>7. NumberingAside(u) = [name |-> s.name, columns |-> [i \in 1..n |-> Unnumbered(cs[i])]]
  BY <1>5, <1>6, NumberingAsideIs
<1>8. [i \in 1..n |-> Unnumbered(cs[i])] = [i \in 1..n |-> cs[i]]
  BY <1>4, <1>5
<1>9. [i \in 1..n |-> cs[i]] = cs
  BY <1>5
<1> QED BY <1>1, <1>7, <1>8, <1>9

\* s is written as the bytes b, the flag bits from AUTO_INCREMENT on aside
Encodes(s, b) ==
    LET flags == {FlagAt(s, i) : i \in DOMAIN s.columns}
        again == Serialize(s)
    IN /\ Len(again) = Len(b)
       /\ \A i \in DOMAIN again :
             IF i \in flags THEN again[i] % 8 = b[i] % 8 ELSE again[i] = b[i]

\* what is read of any page is a schema these very bytes encode
LEMMA ReadIsEncoded ==
    ASSUME NEW b \in Seq(Byte), ReadSchema(b).ok
    PROVE  Encodes(ReadSchema(b).val, b)
<1> DEFINE n == U16Of(b, 1) first == ReadText(b, 3) nm == first.val
<1>1. b # <<>> /\ Len(b) <= MaxSchema /\ Len(b) \in Nat /\ ReadSchema(b) = Deserialize(b)
  <2>1. Len(b) \in Nat
    BY LenProperties
  <2>2. ~(b = <<>> \/ Len(b) > MaxSchema)
    <3>1. SUFFICES ASSUME b = <<>> \/ Len(b) > MaxSchema PROVE FALSE
      OBVIOUS
    <3>2. ReadSchema(b) = Bad
      BY <3>1, Zenon DEF ReadSchema
    <3> QED BY <3>2 DEF Bad
  <2>3. ReadSchema(b) = Deserialize(b)
    BY <2>2, Zenon DEF ReadSchema
  <2>4. Len(b) <= MaxSchema
    BY <2>1, <2>2, BaseAssumption
  <2> QED BY <2>1, <2>2, <2>3, <2>4
<1>2. ~(Len(b) < 4)
  <2> SUFFICES ASSUME Len(b) < 4 PROVE FALSE
    OBVIOUS
  <2>1. Deserialize(b) = Bad
    BY DEF Deserialize
  <2> QED BY <1>1, <2>1 DEF Bad
<1>3. b[1] \in Byte /\ b[2] \in Byte
  BY <1>1, <1>2
<1>4. n \in Nat /\ n < Base * Base /\ U16(n) = <<b[1], b[2]>>
  <2>1. n = b[1] + Base * b[2]
    BY DEF U16Of
  <2> QED BY <1>3, <2>1, LengthsOf
<1>5. PICK r : /\ Reading(r, b, first, n)
               /\ Deserialize(b) =
                     IF ~r[n].ok THEN Bad
                     ELSE IF ~Complete(b, r[n].at) THEN Bad
                     ELSE Read([name |-> nm, columns |-> [i \in 1..n |-> r[i].val]], r[n].at)
  BY <1>2, <1>4, Deserialized
<1>6. r[n].ok /\ Complete(b, r[n].at)
  BY <1>1, <1>5 DEF Bad
<1> DEFINE cols == [i \in 1..n |-> r[i].val] s == [name |-> nm, columns |-> cols]
<1>7. ReadSchema(b).val = s
  <2>1. Deserialize(b) = Read(s, r[n].at)
    BY <1>5, <1>6, Zenon
  <2> HIDE DEF s
  <2> QED BY <1>1, <2>1 DEF Read
<1> HIDE DEF n, s, cols
<1>8. /\ r[0] = first
      /\ \A i \in 1..n : r[i] = Following(b, r[i - 1])
  <2>1. 0 \in 0..n /\ \A i \in 1..n : i \in 0..n /\ i # 0
    BY <1>4
  <2> QED BY <1>5, <2>1 DEF Reading
<1>9. \A i \in 0..n : r[i].ok
  <2> DEFINE T == {d \in 0..n : ~r[n - d].ok}
  <2>1. T = {}
    <3> SUFFICES ASSUME T # {} PROVE FALSE
      OBVIOUS
    <3>1. PICK d \in T : \A e \in T : d <= e
      <4>1. T \subseteq Nat
        BY <1>4
      <4> HIDE DEF T
      <4> QED BY <4>1, LeastElement
    <3>2. d # 0
      <4>1. n - 0 = n
        BY <1>4
      <4> QED BY <1>6, <4>1
    <3>3. d - 1 \in 0..n /\ ~(d <= d - 1) /\ n - (d - 1) \in 1..n /\ (n - (d - 1)) - 1 = n - d
      BY <1>4, <3>2
    <3>4. r[n - (d - 1)].ok
      BY <3>1, <3>3
    <3>5. r[n - (d - 1)] = Following(b, r[n - d])
      BY <1>8, <3>3
    <3>6. r[n - d].ok
      BY <3>4, <3>5 DEF Following, Bad
    <3> QED BY <3>6
  <2>2. ASSUME NEW i \in 0..n PROVE r[i].ok
    <3>1. n - i \in 0..n /\ n - (n - i) = i
      BY <1>4
    <3> QED BY <2>1, <3>1
  <2> QED BY <2>2
<1>10. \A i \in 1..n : i - 1 \in 0..n /\ i \in 0..n /\ r[i] = ReadColumn(b, r[i - 1].at)
  <2> SUFFICES ASSUME NEW i \in 1..n PROVE i - 1 \in 0..n /\ i \in 0..n /\ r[i] = ReadColumn(b, r[i - 1].at)
    OBVIOUS
  <2>1. i - 1 \in 0..n /\ i \in 0..n
    BY <1>4
  <2> QED BY <1>8, <1>9, <2>1 DEF Following
<1> DEFINE t == Text(nm)
<1>11. nm \in Seq(Byte) /\ r[0].at = 3 + Len(t) /\ Sits(b, 3, t)
  <2>1. first.ok /\ 0 \in 0..n
    BY <1>4, <1>8, <1>9
  <2>2. 3 \in Places
    BY DEF Places
  <2> QED BY <1>1, <1>8, <2>1, <2>2, TextRead
<1>12. t \in Seq(Byte) /\ Len(t) \in Nat
  BY <1>11, TextBytes, LenProperties
<1> HIDE DEF t
<1> DEFINE col(i) == r[i].val c(i) == Column(col(i)) at(i) == r[i].at
<1>13. ASSUME NEW i \in 1..n, at(i - 1) \in Places
       PROVE  /\ col(i) \in Cols /\ at(i) = at(i - 1) + Len(c(i))
              /\ \A j \in 1..Len(c(i)) :
                    c(i)[j] = IF j = Len(c(i)) THEN b[at(i - 1) + j - 1] % 8 ELSE b[at(i - 1) + j - 1]
  <2>1. r[i] = ReadColumn(b, at(i - 1)) /\ r[i].ok
    BY <1>9, <1>10
  <2> DEFINE k == at(i - 1)
  <2> HIDE DEF k
  <2>2. k \in Places /\ r[i] = ReadColumn(b, k) /\ ReadColumn(b, k).ok
    BY <1>13, <2>1 DEF k
  <2>3. LET x == ReadColumn(b, k)
            y == Column(x.val)
        IN  /\ x.val \in Cols
            /\ x.at = k + Len(y)
            /\ \A j \in 1..Len(y) : y[j] = IF j = Len(y) THEN b[k + j - 1] % 8 ELSE b[k + j - 1]
    BY <1>1, <2>2, ColumnRead
  <2>4. /\ r[i].val \in Cols
        /\ r[i].at = k + Len(Column(r[i].val))
        /\ \A j \in 1..Len(Column(r[i].val)) :
              Column(r[i].val)[j] = IF j = Len(Column(r[i].val)) THEN b[k + j - 1] % 8 ELSE b[k + j - 1]
    BY <2>2, <2>3, Zenon
  <2> QED BY <2>4 DEF k
<1>14. ASSUME NEW i \in 1..n, col(i) \in Cols PROVE Len(c(i)) \in Nat
  <2>1. c(i) \in Seq(Byte)
    BY <1>14, ColumnBytes
  <2> HIDE DEF c
  <2> QED BY <2>1, LenProperties
<1>15. \A i \in 0..n : at(i) \in Places
  <2> DEFINE T == {i \in 0..n : at(i) \notin Places}
  <2>1. T = {}
    <3> SUFFICES ASSUME T # {} PROVE FALSE
      OBVIOUS
    <3>1. PICK i \in T : \A j \in T : i <= j
      <4>1. T \subseteq Nat
        BY <1>4
      <4> HIDE DEF T
      <4> QED BY <4>1, LeastElement
    <3>2. i # 0
      <4>1. at(0) = 3 + Len(t)
        BY <1>11
      <4> DEFINE k == at(0)
      <4> HIDE DEF k
      <4>2. k \in Places
        BY <1>12, <4>1 DEF Places, k
      <4> QED BY <4>2 DEF k
    <3>3. i \in 1..n /\ i - 1 \in 0..n /\ ~(i <= i - 1)
      BY <1>4, <3>2
    <3>4. at(i - 1) \in Places
      BY <3>1, <3>3
    <3> DEFINE x == at(i - 1) y == at(i) z == Len(c(i))
    <3>5. x \in Places /\ z \in Nat /\ y = x + z
      BY <1>13, <1>14, <3>3, <3>4
    <3> HIDE DEF x, y, z
    <3>6. y \in Places
      BY <3>5 DEF Places
    <3> QED BY <3>6 DEF y
  <2> QED BY <2>1
<1>16. \A i \in 1..n : cols[i] = col(i) /\ col(i) \in Cols
  <2>1. \A i \in 1..n : col(i) \in Cols
    BY <1>10, <1>13, <1>15
  <2> QED BY <2>1 DEF cols
<1>17. cols \in Seq(Cols) /\ Len(cols) = n /\ DOMAIN cols = 1..n
  <2>1. cols \in [1..n -> Cols] /\ DOMAIN cols = 1..n
    <3>1. cols = [i \in 1..n |-> col(i)]
      BY DEF cols
    <3> QED BY <1>16, <3>1
  <2> HIDE DEF col
  <2> QED BY <1>4, <2>1
<1>18. s \in TableSchemas /\ s.name = nm /\ s.columns = cols
  BY <1>11, <1>17 DEF TableSchemas, Cols, s
<1>19. PICK g : Laid(g, s)
  BY <1>18, Layout
<1> DEFINE h == Len(Start(s)) again == Serialize(s)
<1>20. /\ g \in [0..n -> Nat] /\ g[0] = 0
       /\ \A i \in 1..n : g[i] = g[i - 1] + Len(c(i))
       /\ \A i, k \in 0..n : i <= k => g[i] <= g[k]
       /\ again \in Seq(Byte) /\ Len(again) = h + g[n]
       /\ \A j \in 1..h : again[j] = Start(s)[j]
       /\ \A i \in 1..n : \A j \in 1..Len(c(i)) : again[h + g[i - 1] + j] = c(i)[j]
       /\ \A i \in 1..n : FlagAt(s, i) = h + g[i]
  <2>1. s.columns = cols /\ Len(s.columns) = n
    BY <1>17, <1>18
  <2>2. \A i \in 1..n : Column(s.columns[i]) = c(i)
    BY <1>16, <2>1
  <2> HIDE DEF c
  <2> QED BY <1>19, <2>1, <2>2, SMTT(40) DEF Laid
<1>21. /\ Start(s) \in Seq(Byte) /\ h \in Nat /\ h >= 4
       /\ Start(s) = U16(n) \o t
  <2>1. Len(s.columns) = n
    BY <1>17, <1>18
  <2> QED BY <1>18, <2>1, StartBytes DEF Start, t
<1>22. h = 2 + Len(t) /\ Sits(b, 1, Start(s))
  <2> DEFINE u == U16(n)
  <2>1. u \in Seq(Byte) /\ Len(u) = 2
    BY <1>4, Lengths
  <2>2. u[1] = b[1] /\ u[2] = b[2]
    BY <1>4
  <2> HIDE DEF u
  <2>3. Sits(b, 1, u)
    <3>1. \A j \in 1..2 : j = 1 \/ j = 2
      OBVIOUS
    <3>2. 1 + 1 - 1 = 1 /\ 1 + 2 - 1 = 2
      OBVIOUS
    <3>3. 1 + 2 - 1 <= Len(b)
      BY <1>1, <1>2
    <3> QED BY <2>1, <2>2, <3>1, <3>2, <3>3 DEF Sits
  <2>4. 1 \in Places /\ 1 + Len(u) = 3
    BY <2>1 DEF Places
  <2>5. /\ Len(u \o t) = Len(u) + Len(t)
        /\ Sits(b, 1, u \o t) <=> Sits(b, 1, u) /\ Sits(b, 1 + Len(u), t)
    BY <1>12, <2>1, <2>4, SitsConcat, ZenonT(60)
  <2> QED BY <1>11, <1>21, <2>1, <2>3, <2>4, <2>5 DEF u
<1> HIDE DEF h, again
<1>23. \A i \in 0..n : at(i) = h + g[i] + 1
  <2> DEFINE T == {i \in 0..n : at(i) # h + g[i] + 1}
  <2>1. T = {}
    <3> SUFFICES ASSUME T # {} PROVE FALSE
      OBVIOUS
    <3>1. PICK i \in T : \A j \in T : i <= j
      <4>1. T \subseteq Nat
        BY <1>4
      <4> HIDE DEF T
      <4> QED BY <4>1, LeastElement
    <3>2. i # 0
      <4>1. at(0) = 3 + Len(t)
        BY <1>11
      <4>2. h + g[0] + 1 = 3 + Len(t)
        BY <1>12, <1>20, <1>22
      <4> QED BY <4>1, <4>2
    <3>3. i \in 1..n /\ i - 1 \in 0..n /\ ~(i <= i - 1) /\ i \in 0..n
      BY <1>4, <3>2
    <3>4. at(i - 1) = h + g[i - 1] + 1
      BY <3>1, <3>3
    <3> DEFINE x == at(i - 1) y == at(i) z == Len(c(i))
    <3>5. x = h + g[i - 1] + 1 /\ z \in Nat /\ y = x + z /\ g[i] = g[i - 1] + z
      <4>1. col(i) \in Cols /\ at(i - 1) \in Places
        BY <1>15, <1>16, <3>3
      <4> QED BY <1>13, <1>14, <1>20, <3>3, <3>4, <4>1
    <3>6. g[i - 1] \in Nat /\ g[i] \in Nat /\ h \in Nat
      BY <1>20, <1>21, <3>3
    <3> HIDE DEF x, y, z
    <3>7. y = h + g[i] + 1
      BY <3>5, <3>6, SMTT(40)
    <3> QED BY <3>7 DEF y
  <2> QED BY <2>1
<1>24. Len(again) = Len(b)
  <2>1. n \in 0..n
    BY <1>4
  <2>2. at(n) = Len(b) + 1 /\ at(n) = h + g[n] + 1
    BY <1>6, <1>23, <2>1 DEF Complete
  <2>3. g[n] \in Nat
    BY <1>20, <2>1
  <2> DEFINE x == at(n)
  <2>4. x = Len(b) + 1 /\ x = h + g[n] + 1
    BY <2>2
  <2> HIDE DEF x
  <2> QED BY <1>1, <1>20, <1>21, <2>3, <2>4
<1> DEFINE flags == {FlagAt(s, i) : i \in DOMAIN s.columns}
<1>25. flags = {h + g[i] : i \in 1..n}
  <2>1. DOMAIN s.columns = 1..n
    BY <1>17, <1>18
  <2>2. flags = {FlagAt(s, i) : i \in 1..n}
    BY <2>1
  <2>3. \A i \in 1..n : FlagAt(s, i) = h + g[i]
    BY <1>20
  <2> HIDE DEF flags
  <2> QED BY <2>2, <2>3
<1> HIDE DEF flags
<1>26. ASSUME NEW x \in DOMAIN again
       PROVE  again[x] = IF x \in flags THEN b[x] % 8 ELSE b[x]
  <2>1. x \in 1..(h + g[n])
    BY <1>20
  <2>2. CASE x <= h
    <3>1. x \in 1..h
      BY <1>21, <2>1, <2>2
    <3>2. again[x] = b[x]
      <4>1. 1 + x - 1 = x
        BY <3>1
      <4> QED BY <1>20, <1>22, <3>1, <4>1 DEF Sits, h
    <3>3. x \notin flags
      <4> SUFFICES ASSUME NEW i \in 1..n, x = h + g[i] PROVE FALSE
        BY <1>25
      <4> DEFINE l == Len(c(i)) a == g[i - 1] e == g[i]
      <4>1. i - 1 \in 0..n /\ i \in 0..n /\ 0 \in 0..n
        BY <1>4
      <4>2. a \in Nat /\ e = a + l /\ l \in Nat \ {0}
        <5>1. Len(c(i)) \in Nat \ {0}
          <6>1. Column(s.columns[i]) = c(i) /\ Len(s.columns) = n
            BY <1>16, <1>17, <1>18
          <6> HIDE DEF c
          <6> QED BY <1>18, <6>1, PartBytes
        <5> QED BY <1>20, <4>1, <5>1
      <4>3. x = h + e
        OBVIOUS
      <4> HIDE DEF l, a, e
      <4> QED BY <1>21, <2>2, <4>2, <4>3
    <3> QED BY <3>2, <3>3
  <2>3. CASE ~(x <= h)
    <3> DEFINE y == x - h
               U == {i \in 0..n : y <= g[i]}
    <3>1. y \in 1..g[n] /\ x = h + y /\ n \in 0..n /\ g[n] \in Nat
      <4>1. n \in 0..n /\ g[n] \in Nat
        BY <1>4, <1>20
      <4> QED BY <1>21, <2>1, <2>3, <4>1
    <3> HIDE DEF y
    <3>2. PICK i \in U : \A k \in U : i <= k
      <4>1. U \subseteq Nat /\ U # {}
        BY <1>4, <3>1
      <4> HIDE DEF U
      <4> QED BY <4>1, LeastElement
    <3>3. i # 0
      BY <1>20, <3>1
    <3>4. i \in 1..n /\ i - 1 \in 0..n /\ i \in 0..n /\ ~(i <= i - 1)
      BY <1>4, <3>3
    <3>5. y <= g[i] /\ ~(y <= g[i - 1])
      BY <3>2, <3>4
    <3> DEFINE a == g[i - 1] e == g[i] l == Len(c(i)) j == y - a
    <3>6. a \in Nat /\ e \in Nat /\ e = a + l /\ l \in Nat /\ y <= e /\ ~(y <= a) /\ y \in Nat
      <4>1. l \in Nat
        BY <1>14, <1>16, <3>4
      <4>2. e = a + l
        BY <1>20, <3>4
      <4>3. a \in Nat /\ e \in Nat
        BY <1>20, <3>4
      <4>4. y \in Nat
        BY <3>1
      <4> HIDE DEF l
      <4> QED BY <3>5, <4>1, <4>2, <4>3, <4>4
    <3>7. again[h + a + j] = c(i)[j]
          /\ c(i)[j] = IF j = l THEN b[at(i - 1) + j - 1] % 8 ELSE b[at(i - 1) + j - 1]
      <4>1. j \in 1..l
        <5> HIDE DEF a, e, l
        <5> QED BY <3>6
      <4>2. at(i - 1) \in Places
        BY <1>15, <3>4
      <4> QED BY <1>13, <1>20, <3>4, <4>1, <4>2
    <3>8. h + a + j = x /\ at(i - 1) + j - 1 = x
      <4>1. at(i - 1) = h + a + 1
        BY <1>23, <3>4
      <4> DEFINE p == at(i - 1)
      <4>2. p = h + a + 1
        BY <4>1
      <4> HIDE DEF p, a
      <4>3. h + a + j = x /\ p + j - 1 = x
        BY <1>21, <3>1, <3>6, <4>2
      <4> QED BY <4>3 DEF p
    <3>9. x \in flags <=> j = l
      <4>1. ASSUME j = l PROVE x \in flags
        <5>1. x = h + e
          <6> HIDE DEF a, e, l
          <6> QED BY <1>21, <3>1, <3>6, <4>1
        <5> QED BY <1>25, <3>4, <5>1
      <4>2. ASSUME NEW k \in 1..n, x = h + g[k] PROVE j = l
        <5>1. k \in 0..n /\ k - 1 \in 0..n /\ g[k] \in Nat
          <6>1. k \in 0..n /\ k - 1 \in 0..n
            BY <1>4
          <6>2. g \in [0..n -> Nat]
            BY <1>20
          <6> QED BY <6>1, <6>2
        <5>2. y = g[k]
          BY <1>21, <3>1, <3>6, <4>2, <5>1, SMTT(40)
        <5>3. CASE k <= i - 1
          <6>1. g[k] <= a
            BY <1>20, <3>4, <5>1, <5>3
          <6> HIDE DEF a
          <6> QED BY <3>6, <5>1, <5>2, <6>1
        <5>4. CASE ~(k <= i - 1)
          <6>1. i <= k
            BY <1>4, <3>4, <5>4
          <6>2. e <= g[k]
            BY <1>20, <3>4, <5>1, <6>1
          <6> HIDE DEF a, e, l
          <6> QED BY <3>6, <5>1, <5>2, <6>2
        <5> QED BY <5>3, <5>4
      <4> QED BY <1>25, <4>1, <4>2
    <3> HIDE DEF j, l, a
    <3> QED BY <3>7, <3>8, <3>9
  <2> QED BY <2>2, <2>3
<1>27. ASSUME NEW x \in DOMAIN again
       PROVE  IF x \in flags THEN again[x] % 8 = b[x] % 8 ELSE again[x] = b[x]
  <2>1. x \in 1..Len(b)
    <3>1. again \in Seq(Byte)
      BY <1>20
    <3> HIDE DEF again
    <3> QED BY <1>24, <3>1
  <2>2. b[x] \in Nat
    <3>1. b[x] \in Byte
      BY <2>1
    <3> QED BY <3>1, BaseAssumption DEF Byte
  <2> DEFINE y == b[x]
  <2>3. y \in Nat => (y % 8) % 8 = y % 8
    <3> HIDE DEF y
    <3> QED OBVIOUS
  <2>4. CASE x \in flags
    <3>1. again[x] = y % 8
      BY <1>26, <2>4
    <3> QED BY <2>2, <2>3, <2>4, <3>1
  <2>5. CASE x \notin flags
    BY <1>26, <2>5
  <2> QED BY <2>4, <2>5
<1>28. Encodes(s, b)
  BY <1>24, <1>27 DEF Encodes, flags, again
<1> QED BY <1>7, <1>28

-----------------------------------------------------------------------------
(* The page of a table                                                     *)

Stages == {"none", "refused", "stored", "damaged", "read", "read damaged"}

\* What is on the page is an encoded schema until it is damaged, then bytes.
PageInv ==
    /\ DOMAIN page = {"state", "schema", "bytes", "read"} /\ page.state \in Stages
    /\ page.state = "stored" =>
          /\ page.schema \in TableSchemas /\ page.bytes = Serialize(page.schema)
          /\ Len(page.bytes) <= MaxSchema
    /\ page.state = "damaged" => page.bytes \in Seq(Byte)
    /\ SchemaKept

LEMMA PageInitial == PageInit => PageInv
BY DEF PageInit, NoPage, PageInv, Stages, SchemaKept

LEMMA PageRefused == PageInv /\ Refuse => PageInv'
BY DEF Refuse, NoPage, PageInv, Stages, SchemaKept

LEMMA PageStored ==
    ASSUME PageInv, NEW s \in TableSchemas, Store(s)
    PROVE  PageInv'
<1> DEFINE w == WriteSchema(s) b == Serialize(s)
<1>1. CASE ~w.ok
  BY <1>1, PageRefused DEF Store
<1>2. CASE w.ok
  <2>1. page' = [state |-> "stored", schema |-> s, bytes |-> w.val, read |-> Bad]
    BY <1>2 DEF Store
  <2>2. ~(Len(b) > MaxSchema)
    <3> SUFFICES ASSUME Len(b) > MaxSchema PROVE FALSE
      OBVIOUS
    <3>1. w = Bad
      BY DEF WriteSchema
    <3> QED BY <1>2, <3>1 DEF Bad
  <2>3. w.val = b
    <3>1. w = Read(b, Len(b) + 1)
      BY <2>2 DEF WriteSchema
    <3> HIDE DEF w, b
    <3> QED BY <3>1 DEF Read
  <2>4. Len(b) <= MaxSchema
    <3>1. b \in Seq(Byte)
      BY Layout DEF Laid
    <3> HIDE DEF b
    <3>2. Len(b) \in Nat
      BY <3>1, LenProperties
    <3> QED BY <2>2, <3>2, BaseAssumption
  <2> HIDE DEF w
  <2>5. /\ page'.state = "stored" /\ page'.schema = s /\ page'.bytes = b
        /\ DOMAIN page' = {"state", "schema", "bytes", "read"}
    BY <2>1, <2>3
  <2>6. SchemaKept'
    BY <2>5 DEF SchemaKept
  <2> HIDE DEF b
  <2> QED BY <2>4, <2>5, <2>6 DEF PageInv, Stages, b
<1> QED BY <1>1, <1>2

LEMMA DamagedBytes ==
    ASSUME NEW a \in Seq(Byte), NEW b \in Damaged(a)
    PROVE  b \in Seq(Byte)
<1>1. CASE b \in {SubSeq(a, 1, n) : n \in 0..(Len(a) - 1)}
  <2>1. PICK n \in 0..(Len(a) - 1) : b = SubSeq(a, 1, n)
    BY <1>1
  <2>2. \A i \in 1..n : a[i] \in Byte
    <3>1. Len(a) \in Nat
      BY LenProperties
    <3> QED BY <3>1
  <2> QED BY <2>1, <2>2, SubSeqProperties
<1>2. CASE b \in {Append(a, x) : x \in Damages}
  BY <1>2, DamageAssumption, AppendProperties
<1>3. CASE b \in {[a EXCEPT ![i] = x] : i \in DOMAIN a, x \in Damages}
  <2>1. PICK i \in DOMAIN a, x \in Damages : b = [a EXCEPT ![i] = x]
    BY <1>3
  <2> QED BY <2>1, DamageAssumption, ExceptSeq
<1> QED BY <1>1, <1>2, <1>3 DEF Damaged

LEMMA PageDamaged == PageInv /\ Damage => PageInv'
<1> SUFFICES ASSUME PageInv, Damage PROVE PageInv'
  OBVIOUS
<1>1. page.bytes \in Seq(Byte)
  <2>1. page.schema \in TableSchemas /\ page.bytes = Serialize(page.schema)
    BY DEF PageInv, Damage
  <2>2. Serialize(page.schema) \in Seq(Byte)
    BY <2>1, Layout DEF Laid
  <2> QED BY <2>1, <2>2
<1> SUFFICES ASSUME NEW b \in Damaged(page.bytes),
                    page' = [page EXCEPT !.state = "damaged", !.bytes = b]
             PROVE  PageInv'
  BY DEF Damage
<1>2. b \in Seq(Byte)
  BY <1>1, DamagedBytes
<1>3. /\ page'.state = "damaged" /\ page'.bytes = b
      /\ DOMAIN page' = {"state", "schema", "bytes", "read"}
  BY DEF PageInv
<1>4. SchemaKept'
  BY <1>3 DEF SchemaKept
<1> QED BY <1>2, <1>3, <1>4 DEF PageInv, Stages

LEMMA PageLoaded == PageInv /\ Load => PageInv'
<1> SUFFICES ASSUME PageInv, Load PROVE PageInv'
  OBVIOUS
<1> DEFINE r == ReadSchema(page.bytes)
<1>1. /\ page' = [page EXCEPT !.state = IF page.state = "stored" THEN "read" ELSE "read damaged", !.read = r]
      /\ page.state = "stored" \/ page.state = "damaged"
  BY DEF Load
<1> HIDE DEF r
<1>2. /\ page'.state = IF page.state = "stored" THEN "read" ELSE "read damaged"
      /\ page'.read = r /\ page'.bytes = page.bytes /\ page'.schema = page.schema
      /\ DOMAIN page' = {"state", "schema", "bytes", "read"}
  BY <1>1 DEF PageInv
<1>3. CASE page.state = "stored"
  <2>1. r.ok /\ NumberingAside(r.val) = NumberingAside(page.schema)
    BY <1>3, StoredIsRead, NumberingGone DEF PageInv, r
  <2>2. SchemaKept'
    BY <1>2, <1>3, <2>1 DEF SchemaKept
  <2> QED BY <1>2, <1>3, <2>2 DEF PageInv, Stages
<1>4. CASE page.state = "damaged"
  <2>1. r.ok => Encodes(r.val, page.bytes)
    BY <1>4, ReadIsEncoded DEF PageInv, r
  <2>2. SchemaKept'
    <3>1. page'.state # "read" /\ (r.ok => Encodes(page'.read.val, page'.bytes))
      BY <1>2, <1>4, <2>1
    <3> QED BY <1>2, <3>1 DEF SchemaKept, Encodes
  <2> QED BY <1>2, <1>4, <2>2 DEF PageInv, Stages
<1> QED BY <1>1, <1>3, <1>4

(* SchemaKept: a stored schema is read back, and what is read of a damaged *)
(* page is a schema these very bytes encode, AUTO_INCREMENT aside: for any *)
(* schema that fits the page and any byte that is off (schema_serializer). *)
THEOREM SchemaIsKept == PageSpec => []SchemaKept
<1>1. PageInv /\ [PageNext]_page => PageInv'
  <2> SUFFICES ASSUME PageInv, [PageNext]_page PROVE PageInv'
    OBVIOUS
  <2>1. CASE \E s \in TableSchemas : Store(s)
    BY <2>1, PageStored
  <2>2. CASE Refuse
    BY <2>2, PageRefused
  <2>3. CASE Damage
    BY <2>3, PageDamaged
  <2>4. CASE Load
    BY <2>4, PageLoaded
  <2>5. CASE UNCHANGED page
    BY <2>5, ZenonT(60) DEF PageInv, SchemaKept, Stages
  <2> QED BY <2>1, <2>2, <2>3, <2>4, <2>5 DEF PageNext
<1>2. PageInv => SchemaKept
  BY DEF PageInv
<1> QED BY <1>1, <1>2, PageInitial, PTL DEF PageSpec
=============================================================================
