----------------------------- MODULE SqlParser -----------------------------
(* The SQL front end's lexer and recursive-descent parser.  A line is a    *)
(* sequence of lexemes (what the lexer cuts out of the text), so spaces    *)
(* and characters are left out; a lexeme the lexer rejects is in Junk.     *)
(* The parser looks one token ahead: rejecting a lexeme happens when it    *)
(* becomes the current token, even behind the semicolon.                   *)
EXTENDS Naturals, Sequences, SequencesExt, TLC

CONSTANTS Identifiers,  \* identifier lexemes
          Numbers,      \* number lexemes and what stoi makes of them
          Texts,        \* string literals and their contents
          Junk,         \* unknown characters, unterminated literals
          None          \* also: what stoi throws on

(* Keywords match in any case; the words spelled in lower case here stand  *)
(* for all such spellings.  The token keeps the spelling.                  *)
Keywords ==
    ("SELECT" :> "Select") @@ ("FROM" :> "From") @@ ("WHERE" :> "Where") @@ ("AND" :> "And")
    @@ ("and" :> "And") @@ ("OR" :> "Or") @@ ("or" :> "Or") @@ ("ORDER" :> "OrderBy")
    @@ ("GROUP" :> "GroupBy") @@ ("BY" :> "By") @@ ("CREATE" :> "Create")
    @@ ("DATABASE" :> "Database") @@ ("TABLE" :> "Table") @@ ("IN" :> "In")
    @@ ("PRIMARY" :> "Primary") @@ ("KEY" :> "Key") @@ ("UNIQUE" :> "Unique") @@ ("NOT" :> "Not")
    @@ ("NULL" :> "Null") @@ ("AUTO" :> "Auto") @@ ("INCREMENT" :> "Increment")
    @@ ("INSERT" :> "Insert") @@ ("INTO" :> "Into") @@ ("VALUES" :> "Values")
    @@ ("UPDATE" :> "Update") @@ ("SET" :> "Set") @@ ("DELETE" :> "Delete") @@ ("USE" :> "Use")
    @@ ("EXIT" :> "Exit") @@ ("QUIT" :> "Exit")
Symbols ==
    ("+" :> "Plus") @@ ("-" :> "Minus") @@ ("*" :> "Star") @@ ("/" :> "Slash") @@ ("=" :> "Eq")
    @@ ("<" :> "Lt") @@ ("<=" :> "LtEq") @@ (">" :> "Gt") @@ (">=" :> "GtEq") @@ ("," :> "Comma")
    @@ (";" :> "Semicolon") @@ ("(" :> "LParen") @@ (")" :> "RParen")

Token(type, text) == [type |-> type, text |-> text]
TokensOf(x) ==
    IF x = "AUTO_INCREMENT" THEN <<Token("Auto", "AUTO"), Token("Increment", "INCREMENT")>>
    ELSE <<Token(CASE x \in DOMAIN Keywords -> Keywords[x]
                   [] x \in DOMAIN Symbols  -> Symbols[x]
                   [] x \in DOMAIN Numbers  -> "Number"
                   [] x \in DOMAIN Texts    -> "String"
                   [] x \in Identifiers     -> "Identifier"
                   [] x \in Junk            -> "Junk", x)>>
Tokens(line) == FlattenSeq([i \in 1..Len(line) |-> TokensOf(line[i])])

(***************************************************************************)
(* A parsing function takes the tokens T and the index i of the current    *)
(* one; it fails (the code throws) or leaves the index of the next current *)
(* token and a value.                                                      *)
(***************************************************************************)
Fail        == [ok |-> FALSE]
At(i, v)    == [ok |-> TRUE, at |-> i, val |-> v]
Bind(r, F(_, _)) == IF r.ok THEN F(r.at, r.val) ELSE Fail

Type(T, i) == IF i > Len(T) THEN "End" ELSE T[i].type
Eat(T, i, t) == IF Type(T, i) = t /\ Type(T, i + 1) # "Junk" THEN At(i + 1, T[i].text) ELSE Fail

RECURSIVE EatAll(_, _, _)
EatAll(T, i, types) ==
    IF types = <<>> THEN At(i, None)
    ELSE Bind(Eat(T, i, Head(types)), LAMBDA j, x : EatAll(T, j, Tail(types)))

Identifier(n)    == [kind |-> "Identifier", name |-> n]
Number(n)        == [kind |-> "Number", number |-> n]
String(s)        == [kind |-> "String", string |-> s]
Binary(op, l, r) == [kind |-> "Binary", op |-> op, left |-> l, right |-> r]
NoExpr           == [kind |-> "None"]

Precedence(t) == CASE t = "Or"  -> 5
                   [] t = "And" -> 10
                   [] t \in {"Eq", "Lt", "Gt", "LtEq", "GtEq"} -> 20
                   [] t \in {"Plus", "Minus"} -> 30
                   [] t \in {"Star", "Slash"} -> 40
                   [] OTHER -> 0

(* The faulty variant binds operators of one precedence to the right.      *)
X_Binds(p, min) == p >= min /\ p > 0
Binds(p, min)   == p > min

RECURSIVE ParseExpr(_, _, _), Climb(_, _, _, _)
ParsePrimary(T, i) ==
    LET t == Type(T, i) IN
    CASE t = "Identifier" -> Bind(Eat(T, i, t), LAMBDA j, x : At(j, Identifier(x)))
      [] t = "Number" -> IF Numbers[T[i].text] = None THEN Fail
                         ELSE Bind(Eat(T, i, t), LAMBDA j, x : At(j, Number(Numbers[x])))
      [] t = "String" -> Bind(Eat(T, i, t), LAMBDA j, x : At(j, String(Texts[x])))
      [] t = "LParen" -> Bind(Eat(T, i, t), LAMBDA j, x :
                         Bind(ParseExpr(T, j, 0), LAMBDA k, e :
                         Bind(Eat(T, k, "RParen"), LAMBDA n, y : At(n, e))))
      [] OTHER -> Fail
ParseExpr(T, i, min) == Bind(ParsePrimary(T, i), LAMBDA j, e : Climb(T, j, e, min))
Climb(T, i, left, min) ==
    LET t == Type(T, i) IN
    IF Binds(Precedence(t), min)
    THEN Bind(Eat(T, i, t), LAMBDA j, op :
         Bind(ParseExpr(T, j, Precedence(t)), LAMBDA k, right : Climb(T, k, Binary(op, left, right), min)))
    ELSE At(i, left)

(***************************************************************************)
(* Column definitions, assignments and comma-separated lists of them.      *)
(***************************************************************************)
RECURSIVE Constraints(_, _, _), ListOf(_, _, _)
Constraints(T, i, col) ==
    LET t == Type(T, i) IN
    CASE t = "Primary" -> Bind(EatAll(T, i, <<t, "Key">>),
                               LAMBDA j, x : Constraints(T, j, [col EXCEPT !.primary = TRUE]))
      [] t = "Unique"  -> Bind(Eat(T, i, t), LAMBDA j, x : Constraints(T, j, [col EXCEPT !.unique = TRUE]))
      [] t = "Not"     -> Bind(EatAll(T, i, <<t, "Null">>),
                               LAMBDA j, x : Constraints(T, j, [col EXCEPT !.not_null = TRUE]))
      [] t = "Auto"    -> Bind(EatAll(T, i, <<t, "Increment">>),
                               LAMBDA j, x : Constraints(T, j, [col EXCEPT !.auto_inc = TRUE]))
      [] OTHER -> At(i, col)

(* data_type keeps its parameters, as the lexemes it is spelled with.      *)
DataType(T, i) ==
    Bind(Eat(T, i, "Identifier"), LAMBDA j, name :
       IF Type(T, j) # "LParen" THEN At(j, <<name>>)
       ELSE Bind(Eat(T, j, "LParen"), LAMBDA k, x :
            Bind(ListOf(T, k, "Number"), LAMBDA n, params :
            Bind(Eat(T, n, "RParen"), LAMBDA q, y : At(q, <<name>> \o params)))))
ColumnDef(T, i) ==
    Bind(Eat(T, i, "Identifier"), LAMBDA j, name :
    Bind(DataType(T, j), LAMBDA k, type :
         Constraints(T, k, [name |-> name, data_type |-> type, primary |-> FALSE,
                            unique |-> FALSE, not_null |-> FALSE, auto_inc |-> FALSE])))
Assignment(T, i) ==
    Bind(EatAll(T, i, <<"Identifier", "Eq">>), LAMBDA j, x :
    Bind(ParseExpr(T, j, 0), LAMBDA k, e : At(k, [column |-> T[i].text, value |-> e])))

Item(T, i, what) == CASE what = "Expr" -> ParseExpr(T, i, 0)
                      [] what = "Column" -> ColumnDef(T, i)
                      [] what = "Assignment" -> Assignment(T, i)
                      [] what \in {"Identifier", "Number"} -> Eat(T, i, what)
ListOf(T, i, what) ==
    Bind(Item(T, i, what), LAMBDA j, x :
       IF Type(T, j) # "Comma" THEN At(j, <<x>>)
       ELSE Bind(Eat(T, j, "Comma"), LAMBDA k, c :
            Bind(ListOf(T, k, what), LAMBDA n, rest : At(n, <<x>> \o rest))))
Listed(T, i, what) ==
    Bind(Eat(T, i, "LParen"), LAMBDA j, x :
    Bind(ListOf(T, j, what), LAMBDA k, items :
    Bind(Eat(T, k, "RParen"), LAMBDA n, y : At(n, items))))

(***************************************************************************)
(* Statements.                                                             *)
(***************************************************************************)
Where(T, i) == IF Type(T, i) # "Where" THEN At(i, NoExpr)
               ELSE Bind(Eat(T, i, "Where"), LAMBDA j, x : ParseExpr(T, j, 0))
End(T, i, s) == Bind(Eat(T, i, "Semicolon"), LAMBDA j, x : At(j, s))

AddClause(s, t, list) == IF t = "OrderBy" THEN [s EXCEPT !.order_by = @ \o list]
                                          ELSE [s EXCEPT !.group_by = @ \o list]
RECURSIVE Clauses(_, _, _)
Clauses(T, i, s) ==
    LET t == Type(T, i) IN
    IF t \notin {"OrderBy", "GroupBy"} THEN At(i, s)
    ELSE Bind(EatAll(T, i, <<t, "By">>), LAMBDA j, x :
         Bind(ListOf(T, j, "Expr"), LAMBDA k, list : Clauses(T, k, AddClause(s, t, list))))

ParseSelect(T, i) ==
    Bind(Eat(T, i, "Select"), LAMBDA a, x :
    Bind(ListOf(T, a, "Expr"), LAMBDA b, columns :
    Bind(EatAll(T, b, <<"From", "Identifier">>), LAMBDA c, y :
    Bind(Where(T, c), LAMBDA d, where :
    Bind(Clauses(T, d, [type |-> "Select", columns |-> columns, table |-> T[b + 1].text,
                        where |-> where, order_by |-> <<>>, group_by |-> <<>>]),
         LAMBDA e, s : End(T, e, s))))))

ParseInsert(T, i) ==
    Bind(EatAll(T, i, <<"Insert", "Into", "Identifier">>), LAMBDA a, x :
    Bind(IF Type(T, a) = "LParen" THEN Listed(T, a, "Identifier") ELSE At(a, <<>>), LAMBDA b, columns :
    Bind(Eat(T, b, "Values"), LAMBDA c, y :
    Bind(Listed(T, c, "Expr"), LAMBDA d, values :
         End(T, d, [type |-> "Insert", table |-> T[i + 2].text, columns |-> columns, values |-> values])))))

ParseUpdate(T, i) ==
    Bind(EatAll(T, i, <<"Update", "Identifier", "Set">>), LAMBDA a, x :
    Bind(ListOf(T, a, "Assignment"), LAMBDA b, assignments :
    Bind(Where(T, b), LAMBDA c, where :
         End(T, c, [type |-> "Update", table |-> T[i + 1].text, assignments |-> assignments, where |-> where]))))

ParseDelete(T, i) ==
    Bind(EatAll(T, i, <<"Delete", "From", "Identifier">>), LAMBDA a, x :
    Bind(Where(T, a), LAMBDA b, where :
         End(T, b, [type |-> "Delete", table |-> T[i + 2].text, where |-> where])))

ParseUse(T, i) ==
    Bind(EatAll(T, i, <<"Use", "Identifier">>), LAMBDA a, x :
         End(T, a, [type |-> "Use", database |-> T[i + 1].text]))

ParseCreate(T, i) ==
    Bind(Eat(T, i, "Create"), LAMBDA a, x :
       CASE Type(T, a) = "Database" ->
              Bind(EatAll(T, a, <<"Database", "Identifier">>), LAMBDA b, y :
                   End(T, b, [type |-> "CreateDatabase", database |-> T[a + 1].text]))
         [] Type(T, a) = "Table" ->
              Bind(EatAll(T, a, <<"Table", "Identifier">>), LAMBDA b, y :
              Bind(Listed(T, b, "Column"), LAMBDA c, columns :
                   End(T, c, [type |-> "CreateTable", table |-> T[a + 1].text, columns |-> columns])))
         [] OTHER -> Fail)

Failed == [type |-> "Error"]
Parse(line) ==
    LET T == Tokens(line)
        t == Type(T, 1)
        r == CASE t = "Select" -> ParseSelect(T, 1)
               [] t = "Create" -> ParseCreate(T, 1)
               [] t = "Insert" -> ParseInsert(T, 1)
               [] t = "Update" -> ParseUpdate(T, 1)
               [] t = "Delete" -> ParseDelete(T, 1)
               [] t = "Use"    -> ParseUse(T, 1)
               [] OTHER -> Fail
    IN IF r.ok THEN r.val ELSE Failed
=============================================================================
