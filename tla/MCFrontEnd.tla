----------------------------- MODULE MCFrontEnd -----------------------------
EXTENDS FrontEnd, Expressions

MCNumbers == ("0" :> 0) @@ ("1" :> 1) @@ ("2.5" :> 2) @@ ("99999999999" :> None)
MCTexts == ("'a'" :> <<97>>) @@ ("'b'" :> <<98>>)
(* Some names take more bytes than a byte can count; one fills the page.   *)
Fill(n) == [i \in 1..n |-> (i * 5) % Base]
MCSpelling == ("a" :> <<1>>) @@ ("b" :> <<2, 8>>) @@ ("t" :> <<3>>) @@ ("INT" :> <<4, 0>>)
              @@ ("VARCHAR" :> <<5>>) @@ ("u" :> Fill(Base + 1)) @@ ("huge" :> Fill(2 * MaxSchema))
              @@ ("(" :> <<6>>) @@ ("0" :> <<0>>) @@ ("1" :> <<1>>) @@ ("2.5" :> <<7, 8>>)
MCIdentifiers == {"a", "b", "t", "u", "z", "INT", "VARCHAR", "huge"}
MCSchema == "t" :> <<"a", "b">>
MCContents == "t" :> << <<Integer(0), Chars(<<97>>)>>, <<Integer(2), Chars(<<98>>)>>, <<Integer(1), Chars(<<97>>)>> >>

(* Every expression line of at most MaxTokens tokens of Alphabet, and       *)
(* every shape of three operators over two leaves, fully spelled out with  *)
(* and without parentheses.                                                *)
CONSTANTS MaxTokens
Alphabet == {"a", "(", ")", "OR", "=", "*"}
Select(e) == <<"SELECT">> \o e \o <<"FROM", "t", ";">>
Short == UNION {[1..n -> Alphabet] : n \in 1..MaxTokens}
Ops == {"OR", "and", "<=", "-", "/", "+"}
Long == UNION { {<<"a", p, "1", q, "b", r, "0">>, <<"(", "a", p, "1", ")", q, "b", r, "0">>,
                 <<"a", p, "(", "1", q, "b", ")", r, "0">>, <<"a", p, "(", "1", q, "b", r, "0", ")">>}
                : p \in Ops, q \in Ops, r \in Ops }

(* Statements of every kind, and every line one lexeme away from one.      *)
Whole == {
  <<"SELECT", "a", ",", "b", "+", "a", "FROM", "t", "WHERE", "a", ">", "0", "AND", "b", "=", "'a'", ";">>,
  <<"SELECT", "1", "/", "a", "FROM", "t", "WHERE", "b", ">=", "'b'", "OR", "a", "=", "0", ";">>,
  <<"SELECT", "a", "FROM", "t", "ORDER", "BY", "a", ",", "b", "GROUP", "BY", "b", "ORDER", "BY", "1", ";">>,
  <<"SELECT", "b", "FROM", "u", ";">>,
  <<"INSERT", "INTO", "t", "(", "a", ",", "b", ")", "VALUES", "(", "1", ",", "'b'", ")", ";">>,
  <<"INSERT", "INTO", "t", "VALUES", "(", "2.5", "-", "1", ")", ";">>,
  <<"UPDATE", "t", "SET", "a", "=", "a", "+", "1", ",", "b", "=", "'a'", "WHERE", "a", "<", "1", ";">>,
  <<"DELETE", "FROM", "t", "WHERE", "a", "<=", "99999999999", ";">>,
  <<"DELETE", "FROM", "t", "WHERE", "a", "=", "1", ";">>,
  <<"USE", "a", ";">>, <<"CREATE", "DATABASE", "b", ";">>, <<"QUIT", ";">>, <<"SELECT", "*", "FROM", "t", ";">>,
  <<"CREATE", "TABLE", "t", "(", "a", "INT", "PRIMARY", "KEY", "AUTO_INCREMENT", ",",
    "u", "VARCHAR", "(", "2.5", ",", "1", ")", "NOT", "NULL", "UNIQUE", ")", ";">>,
  <<"CREATE", "TABLE", "u", "(", "b", "INT", ")", ";">>,
  <<"CREATE", "TABLE", "huge", "(", "b", "INT", ")", ";">>,
  <<"USE", "a", ";", "@">>, <<"@">> }
Strays == {"a", "1", "'a'", ",", ";", "(", ")", "=", "WHERE", "UNIQUE", "@"}
Dropped(l)  == {RemoveAt(l, i) : i \in DOMAIN l}
Doubled(l)  == {InsertAt(l, i, l[i]) : i \in DOMAIN l}
Replaced(l) == {[l EXCEPT ![i] = x] : i \in DOMAIN l, x \in Strays}
Near == UNION {{l} \cup Dropped(l) \cup Doubled(l) \cup Replaced(l) : l \in Whole}

MCLines == {l \in {Select(e) : e \in Short \cup Long} \cup Near : l # <<>>}
=============================================================================
