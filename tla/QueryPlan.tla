----------------------------- MODULE QueryPlan -----------------------------
(* The planner (statement to plan tree), the iterator executors (plan tree *)
(* and rows to result rows, one per call of next), and the run of one      *)
(* statement through both.  Every node of a plan has one source below it   *)
(* but the last: a plan is the sequence of its nodes from the root down.   *)
EXTENDS Integers, Sequences, FiniteSets

CONSTANTS Schema,             \* column names of each table
          Contents,           \* rows of each table the executors' storage starts with
          Evaluate(_, _, _),  \* evaluate_expr of an expression over a row and its columns
          Throw,              \* what it is where the code throws
          IsTrue(_)           \* which values satisfy a predicate

ASSUME ContentsAssumption == \A t \in DOMAIN Contents : Len(Contents[t]) \in Nat

(***************************************************************************)
(* Plans.                                                                  *)
(***************************************************************************)
SeqScan(t)      == <<[type |-> "SeqScan", table |-> t]>>
Filter(p, s)    == <<[type |-> "Filter", predicate |-> p]>> \o s
Project(es, s)  == <<[type |-> "Project", projections |-> es]>> \o s
Sort(es, s)     == <<[type |-> "Sort", order_by |-> es]>> \o s
Collect(s)      == <<[type |-> "Collect"]>> \o s
Values(es)      == <<[type |-> "Values", values |-> es]>>
InsertInto(t, cs, s) == <<[type |-> "Insert", table |-> t, columns |-> cs]>> \o s
UpdateOf(t, as, s)   == <<[type |-> "Update", table |-> t, assignments |-> as]>> \o s
DeleteFrom(t, s)     == <<[type |-> "Delete", table |-> t]>> \o s
NoPlan == <<[type |-> "Error"]>>

(* A plan that streams the rows of a leaf, filtered and projected          *)
Streams(p, leaves) ==
    \E i \in DOMAIN p : /\ p[i].type \in leaves
                        /\ \A j \in 1..(i - 1) : p[j].type \in {"Filter", "Project"}

NeedsCollection(p) == Streams(p, {"SeqScan", "IndexScan"})

Filtered(where, p) == IF where.kind = "None" THEN p ELSE Filter(where, p)
Collected(p)       == IF NeedsCollection(p) THEN Collect(p) ELSE p

(* The faulty variant projects below the filter and the sort.              *)
X_SelectPlan(s) ==
    LET scan   == Project(s.columns, SeqScan(s.table))
        source == Filtered(s.where, scan)
    IN IF s.order_by = <<>> THEN source ELSE Sort(s.order_by, Collect(source))
SelectPlan(s) ==
    LET source == Filtered(s.where, SeqScan(s.table))
    IN Project(s.columns, IF s.order_by = <<>> THEN source ELSE Sort(s.order_by, Collect(source)))
InsertPlan(s) == InsertInto(s.table, s.columns, Values(s.values))
UpdatePlan(s) == UpdateOf(s.table, s.assignments, Collected(Filtered(s.where, SeqScan(s.table))))
DeletePlan(s) == DeleteFrom(s.table, Collected(Filtered(s.where, SeqScan(s.table))))

(* CREATE and USE statements have no plan: build_plan throws.              *)
BuildPlan(s) == CASE s.type = "Select" -> SelectPlan(s)
                  [] s.type = "Insert" -> InsertPlan(s)
                  [] s.type = "Update" -> UpdatePlan(s)
                  [] s.type = "Delete" -> DeletePlan(s)
                  [] OTHER -> NoPlan

(***************************************************************************)
(* Executors.  build_executor knows scans, filters and projections, and    *)
(* gives a filter or a projection the columns of the table below it.       *)
(***************************************************************************)
CanBuild(p)    == Streams(p, {"SeqScan"})
Scanned(p)     == p[Len(p)].table
BaseColumns(p) == IF Scanned(p) \in DOMAIN Schema THEN Schema[Scanned(p)] ELSE <<>>

(* next() of the executor of the i-th node, the rows' cursor at c: the new *)
(* cursor and a row, the end, or an exception.  A filter goes on to the    *)
(* next row where its predicate fails.                                     *)
Yield(out, row, c) == [out |-> out, row |-> row, cursor |-> c]
Step(p, rows, next, i, c) ==
    LET r      == next[<<i + 1, c>>]
        v      == Evaluate(p[i].predicate, r.row, BaseColumns(p))
        vs     == [k \in 1..Len(p[i].projections) |->
                      Evaluate(p[i].projections[k], r.row, BaseColumns(p))]
    IN  CASE p[i].type = "SeqScan" -> IF c >= Len(rows) THEN Yield("end", <<>>, c)
                                      ELSE Yield("row", rows[c + 1], c + 1)
          [] p[i].type = "Filter" ->
               IF r.out # "row" THEN r
               ELSE IF v = Throw THEN Yield("throw", <<>>, r.cursor)
               ELSE IF IsTrue(v) THEN r ELSE next[<<i, r.cursor>>]
          [] p[i].type = "Project" ->
               IF r.out # "row" THEN r
               ELSE IF \E k \in DOMAIN vs : vs[k] = Throw THEN Yield("throw", <<>>, r.cursor)
               ELSE Yield("row", vs, r.cursor)
NextRow(p, rows, c) ==
    LET next[x \in (1..Len(p)) \X (0..Len(rows))] == Step(p, rows, next, x[1], x[2])
    IN  next[<<1, c>>]

(***************************************************************************)
(* One statement: it is planned, and a query's rows are pulled one at a    *)
(* time.                                                                   *)
(***************************************************************************)
VARIABLES stmt,     \* the statement
          plan,     \* build_plan's answer, <<>> before
          tables,   \* the storage of the executors
          run       \* execute_plan: the scan's cursor, the results, its state

queryVars == <<stmt, plan, tables, run>>

NoStmt == [type |-> "Error"]
NotRun == [state |-> "none", cursor |-> 0, results |-> <<>>]

QueryInit == stmt = NoStmt /\ plan = <<>> /\ run = NotRun /\ tables = Contents

Enter(s) == stmt = NoStmt /\ stmt' = s /\ UNCHANGED <<plan, tables, run>>

Plan == /\ stmt # NoStmt /\ plan = <<>>
        /\ plan' = BuildPlan(stmt)
        /\ UNCHANGED <<stmt, tables, run>>

(* Building the scan creates the table it does not find.  The children are *)
(* built first, so a plan that is refused creates nothing.                 *)
Build == /\ plan \notin {<<>>, NoPlan} /\ run = NotRun
         /\ IF ~CanBuild(plan) THEN run' = [run EXCEPT !.state = "refused"] /\ UNCHANGED tables
            ELSE /\ run' = [run EXCEPT !.state = "open"]
                 /\ tables' = [t \in DOMAIN tables \cup {Scanned(plan)} |->
                                  IF t \in DOMAIN tables THEN tables[t] ELSE <<>>]
         /\ UNCHANGED <<stmt, plan>>

Pull == /\ run.state = "open"
        /\ LET r == NextRow(plan, tables[Scanned(plan)], run.cursor)
           IN run' = [state |-> IF r.out = "row" THEN "open" ELSE r.out, cursor |-> r.cursor,
                      results |-> IF r.out = "row" THEN Append(run.results, r.row) ELSE run.results]
        /\ UNCHANGED <<stmt, plan, tables>>

(* On its own, of whatever statement is entered                            *)
QueryNext == (\E s : Enter(s)) \/ Plan \/ Build \/ Pull
QuerySpec == QueryInit /\ [][QueryNext]_queryVars

(* What the executors return for a SELECT is what it means: its columns,   *)
(* evaluated for the table's rows that satisfy WHERE, in the table's       *)
(* order; they throw only where an expression has no value.  Each next()   *)
(* goes on where the one before stopped, whatever the filter skipped.      *)
Columns(t) == IF t \in DOMAIN Schema THEN Schema[t] ELSE <<>>
Holds(s, row)  == s.where.kind = "None" \/ IsTrue(Evaluate(s.where, row, Columns(s.table)))
Shown(s, row)  == [i \in 1..Len(s.columns) |-> Evaluate(s.columns[i], row, Columns(s.table))]
Undefined(s, row) ==
    \/ s.where.kind # "None" /\ Evaluate(s.where, row, Columns(s.table)) = Throw
    \/ Holds(s, row) /\ \E i \in 1..Len(s.columns) : Shown(s, row)[i] = Throw
RowsSelected ==
    run.state \in {"open", "end", "throw"} =>
       LET rows == tables[stmt.table]
           done == IF run.state = "throw" THEN run.cursor - 1 ELSE run.cursor
           kept == {i \in 1..done : Holds(stmt, rows[i])}
       IN /\ \A i \in 1..done : ~Undefined(stmt, rows[i])
          /\ run.state = "throw" => Undefined(stmt, rows[run.cursor])
          /\ run.state = "end" => done = Len(rows)
          /\ Len(run.results) = Cardinality(kept)
          /\ \A i \in kept :
                run.results[Cardinality({j \in kept : j <= i})] = Shown(stmt, rows[i])
=============================================================================
