---------------------------- MODULE Expressions ----------------------------
(* The evaluator of the executors: an expression over a row.               *)
(* The characters of a string are numbers in their order.  Integers stay   *)
(* small: the width of int is not modelled.                                *)
EXTENDS Integers, Sequences

Integer(n) == [tag |-> "int", int |-> n]
Chars(s) == [tag |-> "str", str |-> s]
Thrown == [tag |-> "throw"]
Bool(b) == Integer(IF b THEN 1 ELSE 0)

RECURSIVE Less(_, _), Digits(_)
Less(a, b) == IF a = <<>> \/ b = <<>> THEN a = <<>> /\ b # <<>>
              ELSE \/ Head(a) < Head(b)
                   \/ Head(a) = Head(b) /\ Less(Tail(a), Tail(b))
Digits(n) == IF n < 0 THEN <<45>> \o Digits(-n)
             ELSE IF n < 10 THEN <<48 + n>> ELSE Append(Digits(n \div 10), 48 + (n % 10))
AsString(v) == IF v.tag = "int" THEN Digits(v.int) ELSE v.str

(* Division rounds towards zero.                                           *)
Abs(n) == IF n < 0 THEN -n ELSE n
Quotient(a, b) == (IF (a < 0) = (b < 0) THEN 1 ELSE -1) * (Abs(a) \div Abs(b))

(* Values of different types compare as false, whatever the operator.      *)
Compare(op, a, b) ==
    LET less(x, y) == IF x.tag = "int" THEN x.int < y.int ELSE Less(x.str, y.str)
    IN Bool(a.tag = b.tag /\ CASE op = "="  -> a = b
                               [] op = "<"  -> less(a, b)
                               [] op = ">"  -> less(b, a)
                               [] op = "<=" -> a = b \/ less(a, b)
                               [] op = ">=" -> a = b \/ less(b, a))

(* The operator is the token's spelling: a lower-case and/or is unknown.   *)
Apply(op, a, b) ==
    LET ints == a.tag = "int" /\ b.tag = "int" IN
    CASE op = "+" -> IF ints THEN Integer(a.int + b.int) ELSE Chars(AsString(a) \o AsString(b))
      [] op \in {"=", "<", ">", "<=", ">="} -> Compare(op, a, b)
      [] op \in {"-", "*", "/", "AND", "OR"} /\ ~ints -> Thrown
      [] op = "-" -> Integer(a.int - b.int)
      [] op = "*" -> Integer(a.int * b.int)
      [] op = "/" -> IF b.int = 0 THEN Thrown ELSE Integer(Quotient(a.int, b.int))
      [] op = "AND" -> Bool(a.int # 0 /\ b.int # 0)
      [] op = "OR"  -> Bool(a.int # 0 \/ b.int # 0)
      [] OTHER -> Thrown

RECURSIVE EvaluateExpr(_, _, _)
EvaluateExpr(e, row, columns) ==
    CASE e.kind = "Identifier" ->
           LET found == {i \in 1..Len(columns) : columns[i] = e.name}
               first == CHOOSE i \in found : \A j \in found : i <= j
           IN IF found = {} \/ first > Len(row) THEN Thrown ELSE row[first]
      [] e.kind = "Number" -> Integer(e.number)
      [] e.kind = "String" -> Chars(e.string)
      [] e.kind = "Binary" ->
           LET a == EvaluateExpr(e.left, row, columns)
               b == EvaluateExpr(e.right, row, columns)
           IN IF Thrown \in {a, b} THEN Thrown ELSE Apply(e.op, a, b)

(* A predicate holds for any string and for integers other than 0.         *)
Truth(v) == v.tag = "str" \/ (v.tag = "int" /\ v.int # 0)
=============================================================================
