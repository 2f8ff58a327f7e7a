----------------------------- MODULE FrontEnd -----------------------------
(* A statement's way through the front end: the line is parsed, a query is *)
(* planned and its rows are pulled one at a time, a CREATE TABLE's schema  *)
(* is written to page 1 of the new table and read back.  The parser and    *)
(* the schema are what the server runs; the planner and the executors are  *)
(* linked by their own programs only, each with the step before it.        *)
EXTENDS SqlParser, QueryPlan, SchemaBytes, Bags

CONSTANTS Lines,      \* the lines that are entered
          Spelling    \* the characters of identifiers and numbers, as bytes

ASSUME SpellingAssumption == \A x \in DOMAIN Spelling : Spelling[x] \in Seq(Byte)

VARIABLES line      \* the lexemes entered

vars == <<line, stmt, plan, tables, run, page>>

Init == line = <<>> /\ QueryInit /\ PageInit

(* One line is followed: every line starts from the same contents.         *)
Submit == /\ line = <<>>
          /\ line' \in Lines /\ Enter(Parse(line'))
          /\ UNCHANGED page

Query == (Plan \/ Build \/ Pull) /\ UNCHANGED <<line, page>>

Bytes(lexemes) == FlattenSeq([i \in 1..Len(lexemes) |-> Spelling[lexemes[i]]])
SchemaOf(s) ==
    [name |-> Spelling[s.table],
     columns |-> [i \in 1..Len(s.columns) |->
        [name |-> Spelling[s.columns[i].name], type |-> Bytes(s.columns[i].data_type),
         primary |-> s.columns[i].primary, unique |-> s.columns[i].unique,
         not_null |-> s.columns[i].not_null, auto_inc |-> s.columns[i].auto_inc]]]

(* The analyser refuses two columns of one name and two primary keys.      *)
Analysed(s) ==
    LET primaries == {i \in DOMAIN s.columns : s.columns[i].primary}
        names     == {s.columns[i].name : i \in DOMAIN s.columns}
    IN Cardinality(names) = Len(s.columns) /\ Cardinality(primaries) <= 1

Create == /\ stmt.type = "CreateTable"
          /\ IF Analysed(stmt) THEN Store(SchemaOf(stmt)) ELSE Refuse
          /\ UNCHANGED <<line, stmt, plan, tables, run>>

ReadBack == (Damage \/ Load) /\ UNCHANGED <<line, stmt, plan, tables, run>>

Next == Submit \/ Query \/ Create \/ ReadBack

Spec == Init /\ [][Next]_vars

(***************************************************************************)
(* The grammar of expressions, as sets of derivations.                     *)
(***************************************************************************)
Levels == << {"Or"}, {"And"}, {"Eq", "Lt", "Gt", "LtEq", "GtEq"}, {"Plus", "Minus"}, {"Star", "Slash"} >>

RECURSIVE Derivations(_, _)
Primaries(T) ==
    IF Len(T) = 1 THEN
       CASE T[1].type = "Identifier" -> {Identifier(T[1].text)}
         [] T[1].type = "Number" /\ Numbers[T[1].text] # None -> {Number(Numbers[T[1].text])}
         [] T[1].type = "String" -> {String(Texts[T[1].text])}
         [] OTHER -> {}
    ELSE IF Len(T) > 2 /\ T[1].type = "LParen" /\ T[Len(T)].type = "RParen"
         THEN Derivations(SubSeq(T, 2, Len(T) - 1), 1) ELSE {}
Derivations(T, level) ==
    IF level > Len(Levels) THEN Primaries(T)
    ELSE Derivations(T, level + 1) \cup
         UNION { {Binary(T[k].text, l, r) : l \in Derivations(SubSeq(T, 1, k - 1), level),
                                            r \in Derivations(SubSeq(T, k + 1, Len(T)), level + 1)}
                 : k \in {k \in 2..(Len(T) - 1) : T[k].type \in Levels[level]} }

(* Of "SELECT expression FROM table ;" the parser accepts exactly the      *)
(* expressions of the grammar (OR below AND below comparisons below sums   *)
(* below products, each associating to the left), and builds their tree:   *)
(* the climbing loop neither swallows an operator nor stops early.  The    *)
(* lone * is left to StarSelects.                                          *)
ExprTokens(T) == \A i \in 2..(Len(T) - 3) :
    T[i].type \in UNION {Levels[n] : n \in DOMAIN Levels}
                  \cup {"Identifier", "Number", "String", "LParen", "RParen"}
IsExprLine(T) == /\ Len(T) > 4 /\ T[1].type = "Select" /\ T[Len(T) - 2].type = "From"
                 /\ T[Len(T) - 1].type = "Identifier" /\ T[Len(T)].type = "Semicolon"
                 /\ ExprTokens(T)
IsStarLine(T) == IsExprLine(T) /\ Len(T) = 5 /\ T[2].type = "Star"
ExprsNest ==
    LET T == Tokens(line) IN
    plan = <<>> /\ IsExprLine(T) /\ ~IsStarLine(T) =>
       LET trees == Derivations(SubSeq(T, 2, Len(T) - 3), 1)
       IN IF stmt = Failed THEN trees = {} ELSE trees = {stmt.columns[1]}

(* SELECT * FROM a table is a statement, as the planner's README has it.   *)
StarSelects == plan = <<>> /\ IsStarLine(Tokens(line)) => stmt # Failed

(***************************************************************************)
(* What a statement says, as the bag of the tokens that carry it.          *)
(***************************************************************************)
RECURSIVE ExprWords(_)
ExprWords(e) == CASE e.kind = "Identifier" -> <<<<"Identifier", e.name>>>>
                  [] e.kind = "Number" -> <<<<"Number", e.number>>>>
                  [] e.kind = "String" -> <<<<"String", e.string>>>>
                  [] e.kind = "Binary" -> ExprWords(e.left) \o <<<<"Operator", e.op>>>> \o ExprWords(e.right)
                  [] e.kind = "None" -> <<>>
Many(F(_), xs) == FlattenSeq([i \in 1..Len(xs) |-> F(xs[i])])
Name(x) == <<<<"Identifier", x>>>>
Word(b, w) == IF b THEN <<<<w>>>> ELSE <<>>
ColumnWords(c) ==
    Name(c.name) \o Name(c.data_type[1])
    \o Many(LAMBDA x : <<<<"Number", Numbers[x]>>>>, Tail(c.data_type))
    \o Word(c.primary, "Primary") \o Word(c.unique, "Unique") \o Word(c.not_null, "Not")
    \o Word(c.auto_inc, "Auto")
AssignmentWords(a) == Name(a.column) \o <<<<"Operator", "=">>>> \o ExprWords(a.value)
WhereWords(e) == Word(e.kind # "None", "Where") \o ExprWords(e)
StatementWords(s) ==
    <<<<s.type>>>> \o
    CASE s.type = "Select" -> Many(ExprWords, s.columns) \o Name(s.table) \o WhereWords(s.where)
                              \o Many(ExprWords, s.order_by) \o Many(ExprWords, s.group_by)
      [] s.type = "Insert" -> Name(s.table) \o Many(Name, s.columns) \o Many(ExprWords, s.values)
      [] s.type = "Update" -> Name(s.table) \o Many(AssignmentWords, s.assignments) \o WhereWords(s.where)
      [] s.type = "Delete" -> Name(s.table) \o WhereWords(s.where)
      [] s.type = "CreateTable" -> Name(s.table) \o Many(ColumnWords, s.columns)
      [] s.type \in {"Use", "CreateDatabase"} -> Name(s.database)

TokenWords(T, i) ==
    LET t == T[i].type IN
    CASE t = "Identifier" -> <<<<t, T[i].text>>>>
      [] t = "Number" -> <<<<t, Numbers[T[i].text]>>>>
      [] t = "String" -> <<<<t, Texts[T[i].text]>>>>
      [] t = "Create" -> IF T[i + 1].type = "Table" THEN <<<<"CreateTable">>>> ELSE <<<<"CreateDatabase">>>>
      [] t \in {"Select", "Insert", "Update", "Delete", "Use", "Where",
                "Primary", "Unique", "Not", "Auto"} -> <<<<t>>>>
      [] t \in UNION {Levels[n] : n \in DOMAIN Levels} -> <<<<"Operator", T[i].text>>>>
      [] OTHER -> <<>>
LineWords(T) == Many(LAMBDA i : TokenWords(T, i), [i \in 1..Len(T) |-> i])
BagOf(s) == [x \in {s[i] : i \in DOMAIN s} |-> Cardinality({i \in DOMAIN s : s[i] = x})]

=============================================================================
