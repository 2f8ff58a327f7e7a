------------------------ MODULE StorageEngineProofs ------------------------
(***************************************************************************)
(* Theorems about StorageEngine, for any tables, schemas, rows, keys and   *)
(* values, any size of the bitmap page and any number of faults.           *)
(***************************************************************************)
EXTENDS StorageEngine, SequenceTheorems, WellFoundedInduction, TLAPS

LEMMA LeastElement ==
    ASSUME NEW T, T \subseteq Nat, T # {}
    PROVE  \E x \in T : \A y \in T : x <= y
<1>1. \E x \in T : \A y \in T : ~(<<y, x>> \in OpToRel(<, Nat))
  BY NatLessThanWellFounded, WFMin
<1>2. \A x, y \in T : y < x => <<y, x>> \in OpToRel(<, Nat)
  BY DEF OpToRel
<1>3. \A x, y \in T : ~(y < x) => x <= y
  OBVIOUS
<1> QED BY <1>1, <1>2, <1>3

-----------------------------------------------------------------------------
(* The codec                                                               *)

\* f[i] is the concatenation of the first i of the sequences s, all of them
\* s put together
Joined(f, s, A) == /\ f \in [0..Len(s) -> Seq(A)] /\ f[0] = <<>> /\ f[Len(s)] = FlattenSeq(s)
                   /\ \A i \in 1..Len(s) : f[i] = f[i - 1] \o s[i]

LEMMA FlattenDefined ==
    ASSUME NEW s, Len(s) \in Nat \ {0}
    PROVE  \E f : /\ f[Len(s)] = FlattenSeq(s)
                  /\ \A i \in 1..Len(s) : f[i] = IF i = 1 THEN s[i] ELSE f[i - 1] \o s[i]
<1> DEFINE n == Len(s)
           Chain(f, i) == IF i = 1 THEN s[i] ELSE f[i - 1] \o s[i]
           solves(f, d) == \A i \in 1..n : i <= d => f[i] = Chain(f, i)
           T == {d \in Nat : ~ \E f : solves(f, d)}
<1>1. T = {}
  <2> SUFFICES ASSUME T # {} PROVE FALSE
    OBVIOUS
  <2>1. PICK d \in T : \A e \in T : d <= e
    <3>1. T \subseteq Nat
      OBVIOUS
    <3> HIDE DEF T
    <3> QED BY <3>1, LeastElement
  <2>2. PICK g : d # 0 => solves(g, d - 1)
    <3>1. CASE d # 0
      <4>1. d - 1 \in Nat /\ ~(d <= d - 1)
        BY <3>1
      <4>2. d - 1 \notin T
        BY <2>1, <4>1
      <4> QED BY <4>1, <4>2
    <3> QED BY <3>1
  <2> DEFINE f == [i \in 1..n |-> IF i < d THEN g[i] ELSE Chain(g, i)]
  <2>3. ASSUME NEW i \in 1..n, i <= d PROVE f[i] = Chain(f, i)
    <3>1. f[i] = Chain(g, i)
      <4>1. CASE i < d
        <5>1. d # 0 /\ i <= d - 1
          BY <4>1
        <5>2. g[i] = Chain(g, i)
          BY <5>1, <2>2
        <5> QED BY <4>1, <5>2
      <4>2. CASE ~(i < d)
        BY <4>2
      <4> QED BY <4>1, <4>2
    <3>2. CASE i = 1
      BY <3>1, <3>2
    <3>3. CASE i # 1
      <4>1. i - 1 \in 1..n /\ i - 1 < d
        BY <2>3, <3>3
      <4>2. f[i - 1] = g[i - 1]
        BY <4>1
      <4> HIDE DEF f
      <4> QED BY <3>1, <3>3, <4>2
    <3> QED BY <3>2, <3>3
  <2>4. solves(f, d)
    BY <2>3
  <2> HIDE DEF f, solves
  <2> QED BY <2>1, <2>4
<1>2. PICK g : solves(g, n)
  <2>1. n \notin T
    BY <1>1
  <2> QED BY <2>1
<1> DEFINE f == [i \in 1..n |-> g[i]]
<1>3. \A i \in 1..n : f[i] = Chain(f, i)
  <2> SUFFICES ASSUME NEW i \in 1..n PROVE f[i] = Chain(f, i)
    OBVIOUS
  <2>1. f[i] = Chain(g, i)
    BY <1>2
  <2>2. i # 1 => f[i - 1] = g[i - 1]
    OBVIOUS
  <2> HIDE DEF f
  <2> QED BY <2>1, <2>2
<1>4. f = [i \in 1..n |-> f[i]]
  OBVIOUS
<1> HIDE DEF f
<1> DEFINE S == CHOOSE h : h = [i \in 1..n |-> IF i = 1 THEN s[i] ELSE h[i - 1] \o s[i]]
<1>5. f = [i \in 1..n |-> IF i = 1 THEN s[i] ELSE f[i - 1] \o s[i]]
  BY <1>3, <1>4
<1>6. S = [i \in 1..n |-> IF i = 1 THEN s[i] ELSE S[i - 1] \o s[i]]
  BY <1>5
<1>7. FlattenSeq(s) = S[n]
  BY DEF FlattenSeq
<1> HIDE DEF S
<1>8. \A i \in 1..n : S[i] = IF i = 1 THEN s[i] ELSE S[i - 1] \o s[i]
  BY <1>6
<1> QED BY <1>7, <1>8

LEMMA Flattened ==
    ASSUME NEW A, NEW s \in Seq(Seq(A)), s # <<>>
    PROVE  \E f : Joined(f, s, A)
<1> DEFINE n == Len(s)
<1>1. n \in Nat \ {0} /\ \A i \in 1..n : s[i] \in Seq(A)
  OBVIOUS
<1>2. PICK g : /\ g[n] = FlattenSeq(s)
               /\ \A i \in 1..n : g[i] = IF i = 1 THEN s[i] ELSE g[i - 1] \o s[i]
  BY <1>1, FlattenDefined
<1> DEFINE f == [i \in 0..n |-> IF i = 0 THEN <<>> ELSE g[i]]
<1> HIDE DEF n
<1> DEFINE T == {i \in 1..n : g[i] \notin Seq(A)}
<1>3. T = {}
  <2> SUFFICES ASSUME T # {} PROVE FALSE
    OBVIOUS
  <2>1. PICK i \in T : \A j \in T : i <= j
    <3>1. T \subseteq Nat
      BY <1>1
    <3> HIDE DEF T
    <3> QED BY <3>1, LeastElement
  <2>2. i # 1
    BY <1>1, <1>2
  <2>3. i - 1 \in 1..n /\ ~(i <= i - 1)
    BY <1>1, <2>2
  <2>4. g[i - 1] \in Seq(A)
    BY <2>1, <2>3
  <2>5. g[i - 1] \o s[i] \in Seq(A)
    BY <1>1, <2>4, ConcatProperties
  <2> QED BY <1>2, <2>2, <2>5
<1>4. \A i \in 1..n : g[i] \in Seq(A)
  BY <1>3
<1>5. f \in [0..n -> Seq(A)] /\ f[0] = <<>> /\ f[n] = FlattenSeq(s)
  BY <1>1, <1>2, <1>4
<1>6. ASSUME NEW i \in 1..n PROVE f[i] = f[i - 1] \o s[i]
  <2>1. CASE i = 1
    <3>1. <<>> \o s[i] = s[i]
      BY <1>1, ConcatEmptySeq
    <3> QED BY <1>1, <1>2, <2>1, <3>1
  <2>2. CASE i # 1
    <3>1. i - 1 \in 0..n /\ i - 1 # 0 /\ i \in 0..n /\ i # 0
      BY <1>1, <2>2
    <3>2. f[i] = g[i] /\ f[i - 1] = g[i - 1]
      BY <3>1
    <3> HIDE DEF f
    <3> QED BY <1>2, <2>2, <3>2
  <2> QED BY <2>1, <2>2
<1> QED BY <1>5, <1>6 DEF Joined, n

LEMMA SumOf ==
    ASSUME NEW a \in Nat, NEW b \in Nat, NEW c, c = a + b
    PROVE  /\ c \in Nat /\ a <= c
           /\ \A x \in 1..a : x \in 1..c
           /\ \A x \in 1..b : a + x \in 1..c
OBVIOUS

\* the i-th of the sequences stands in the whole behind those before it
Stands(f, s, i) ==
    /\ Len(f[i]) = Len(f[i - 1]) + Len(s[i]) /\ Len(f[i]) <= Len(FlattenSeq(s))
    /\ \A j \in 1..Len(s[i]) : FlattenSeq(s)[Len(f[i - 1]) + j] = s[i][j]

LEMMA JoinedPart ==
    ASSUME NEW A, NEW s \in Seq(Seq(A)), NEW f, Joined(f, s, A), NEW i \in 1..Len(s)
    PROVE  Stands(f, s, i)
<1> DEFINE n == Len(s)
           begins(j) == /\ Len(f[j]) <= Len(f[n])
                        /\ \A x \in 1..Len(f[j]) : f[n][x] = f[j][x]
           T == {d \in Nat : d <= n /\ ~begins(n - d)}
<1>1. n \in Nat /\ \A j \in 1..n : s[j] \in Seq(A)
  OBVIOUS
<1>2. \A j \in 0..n : f[j] \in Seq(A)
  BY DEF Joined
<1>3. ASSUME NEW j \in 1..n
      PROVE  /\ Len(f[j]) = Len(f[j - 1]) + Len(s[j])
             /\ \A x \in 1..Len(f[j - 1]) : f[j][x] = f[j - 1][x]
             /\ \A x \in 1..Len(s[j]) : f[j][Len(f[j - 1]) + x] = s[j][x]
  <2>1. f[j] = f[j - 1] \o s[j]
    BY DEF Joined
  <2>2. f[j - 1] \in Seq(A) /\ s[j] \in Seq(A)
    BY <1>1, <1>2
  <2> DEFINE u == f[j - 1]
             v == s[j]
  <2> HIDE DEF u, v
  <2>3. /\ Len(u \o v) = Len(u) + Len(v)
        /\ \A x \in 1..Len(u) + Len(v) : (u \o v)[x] = IF x <= Len(u) THEN u[x] ELSE v[x - Len(u)]
        /\ Len(u) \in Nat /\ Len(v) \in Nat
    BY <2>2, ConcatProperties, LenProperties DEF u, v
  <2>4. \A x \in 1..Len(u) : (u \o v)[x] = u[x]
    BY <2>3
  <2>5. ASSUME NEW x \in 1..Len(v) PROVE (u \o v)[Len(u) + x] = v[x]
    <3>1. Len(u) + x \in 1..Len(u) + Len(v) /\ ~(Len(u) + x <= Len(u)) /\ Len(u) + x - Len(u) = x
      BY <2>3
    <3> QED BY <2>3, <3>1
  <2> QED BY <2>1, <2>3, <2>4, <2>5 DEF u, v
<1>4. T = {}
  <2> SUFFICES ASSUME T # {} PROVE FALSE
    OBVIOUS
  <2>1. PICK d \in T : \A e \in T : d <= e
    <3>1. T \subseteq Nat
      OBVIOUS
    <3> HIDE DEF T
    <3> QED BY <3>1, LeastElement
  <2>2. d \in Nat /\ d <= n /\ ~begins(n - d)
    OBVIOUS
  <2>3. d # 0
    <3>1. f[n] \in Seq(A) /\ n - 0 = n
      BY <1>1, <1>2
    <3>2. Len(f[n]) <= Len(f[n])
      BY <3>1, LenProperties
    <3> QED BY <2>2, <3>1, <3>2
  <2>4. d - 1 \in Nat /\ d - 1 <= n /\ ~(d <= d - 1) /\ n - (d - 1) = n - d + 1
    BY <1>1, <2>2, <2>3
  <2>5. begins(n - d + 1)
    <3>1. d - 1 \notin T
      BY <2>1, <2>4
    <3>2. begins(n - (d - 1))
      BY <2>4, <3>1
    <3> QED BY <2>4, <3>2
  <2> DEFINE j == n - d + 1
  <2>6. j \in 1..n /\ j - 1 = n - d
    BY <1>1, <2>2, <2>3
  <2> HIDE DEF j
  <2>7. /\ Len(f[j]) = Len(f[j - 1]) + Len(s[j])
        /\ \A x \in 1..Len(f[j - 1]) : f[j][x] = f[j - 1][x]
    BY <1>3, <2>6
  <2>8. Len(f[j]) \in Nat /\ Len(f[j - 1]) \in Nat /\ Len(s[j]) \in Nat /\ Len(f[n]) \in Nat
    <3>1. j \in 0..n /\ j - 1 \in 0..n /\ n \in 0..n
      BY <1>1, <2>6
    <3> QED BY <1>1, <1>2, <2>6, <3>1, LenProperties
  <2>11. Len(f[j]) <= Len(f[n]) /\ \A x \in 1..Len(f[j]) : f[n][x] = f[j][x]
    BY <2>5 DEF j
  <2>12. /\ Len(f[j - 1]) <= Len(f[j])
         /\ \A x \in 1..Len(f[j - 1]) : x \in 1..Len(f[j])
    BY ONLY <2>7, <2>8, SumOf
  <2>9. Len(f[j - 1]) <= Len(f[n])
    BY <2>8, <2>11, <2>12, SMTT(40)
  <2>10. ASSUME NEW x \in 1..Len(f[j - 1]) PROVE f[n][x] = f[j - 1][x]
    <3>1. x \in 1..Len(f[j])
      BY <2>12
    <3> QED BY <2>7, <2>11, <3>1
  <2> QED BY <2>2, <2>6, <2>9, <2>10
<1> HIDE DEF T
<1>5. begins(i)
  <2>1. n - i \in Nat /\ n - i <= n /\ n - (n - i) = i
    BY <1>1
  <2> QED BY <1>4, <2>1 DEF T
<1>6. f[n] = FlattenSeq(s)
  BY DEF Joined
<1>7. Len(f[i]) \in Nat /\ Len(f[i - 1]) \in Nat /\ Len(s[i]) \in Nat
  BY <1>1, <1>2, LenProperties
<1>8. Len(f[i]) = Len(f[i - 1]) + Len(s[i]) /\ Len(f[i]) <= Len(FlattenSeq(s))
  BY <1>3, <1>5, <1>6
<1>9. ASSUME NEW j \in 1..Len(s[i]) PROVE FlattenSeq(s)[Len(f[i - 1]) + j] = s[i][j]
  <2>2. \A x \in 1..Len(s[i]) : Len(f[i - 1]) + x \in 1..Len(f[i])
    BY ONLY <1>7, <1>8, SumOf
  <2>1. Len(f[i - 1]) + j \in 1..Len(f[i])
    BY <2>2
  <2> QED BY <1>3, <1>5, <1>6, <2>1
<1> QED BY <1>8, <1>9 DEF Stands

Symbols == ColumnTypes \cup Nat

LEMMA Remainder ==
    ASSUME NEW n \in Nat
    PROVE  n % Width \in Nat /\ n % Width <= n
BY WidthAssumption

LEMMA CellFacts ==
    ASSUME NEW c \in Cells
    PROVE  /\ c = [type |-> c.type, data |-> c.data] /\ c.data \in Seq(Nat)
           /\ c.type \in ColumnTypes \ {"DATETIME"}
           /\ c.type # "STRING" => Len(c.data) = Units(c.type)
BY DEF Cells

\* an encoded column: its tag, a length where it is a STRING, the payload
LEMMA Column ==
    ASSUME NEW type \in ColumnTypes, NEW c \in Cells, Matches(type, c),
           NEW s, s = AppendColumn(type, c), NEW m, m = Len(c.data) % Width
    PROVE  /\ s \in Seq(Symbols) /\ s[1] = type /\ m \in 0..Len(c.data)
           /\ type = "STRING" => /\ Len(s) = 2 + m /\ s[2] = m
                                 /\ \A j \in 1..m : s[2 + j] = c.data[j]
           /\ type # "STRING" => Len(s) = 1 + Units(type)
           /\ type \notin {"STRING", "DATETIME"} =>
                 \A j \in 1..Units(type) : s[1 + j] = c.data[j]
<1> DEFINE d == c.data
<1>1. d \in Seq(Nat) /\ Len(d) \in Nat
  BY CellFacts
<1>2. m \in 0..Len(d) /\ m \in Nat
  BY <1>1, Remainder
<1>3. <<type>> \in Seq(Symbols) /\ Len(<<type>>) = 1 /\ <<type>>[1] = type
  BY DEF Symbols
<1> DEFINE w == Payload(type, c)
<1>4. s = <<type>> \o w
  BY DEF AppendColumn
<1>5. ASSUME w \in Seq(Symbols)
      PROVE  /\ s \in Seq(Symbols) /\ s[1] = type /\ Len(s) = 1 + Len(w) /\ Len(w) \in Nat
             /\ \A j \in 1..Len(w) : s[1 + j] = w[j]
  <2> HIDE DEF w
  <2>1. /\ s \in Seq(Symbols) /\ Len(s) = 1 + Len(w) /\ Len(w) \in Nat
        /\ \A i \in 1..1 + Len(w) : s[i] = IF i <= 1 THEN <<type>>[i] ELSE w[i - 1]
    BY <1>3, <1>4, <1>5, ConcatProperties, LenProperties
  <2>2. s[1] = type
    BY <1>3, <2>1
  <2>3. ASSUME NEW j \in 1..Len(w) PROVE s[1 + j] = w[j]
    <3>1. 1 + j \in 1..1 + Len(w) /\ ~(1 + j <= 1) /\ 1 + j - 1 = j
      BY <2>1
    <3> QED BY <2>1, <3>1
  <2> QED BY <2>1, <2>2, <2>3
<1>6. CASE type = "STRING"
  <2> DEFINE u == SubSeq(d, 1, m)
  <2>1. w = <<m>> \o u
    BY <1>6 DEF Payload, Length
  <2>2. u \in Seq(Nat) /\ Len(u) = m /\ \A j \in 1..m : u[j] = d[j]
    <3>1. \A i \in 1..m : d[i] \in Nat
      BY <1>1, <1>2
    <3>2. u \in Seq(Nat) /\ Len(u) = (IF 1 <= m THEN m - 1 + 1 ELSE 0)
          /\ \A j \in 1..m - 1 + 1 : u[j] = d[1 + j - 1]
      BY <1>2, <3>1, SubSeqProperties
    <3> HIDE DEF u, d
    <3> QED BY <1>2, <3>2
  <2>3. <<m>> \in Seq(Nat) /\ Len(<<m>>) = 1 /\ <<m>>[1] = m
    BY <1>2
  <2> HIDE DEF u, w, d
  <2>4. /\ w \in Seq(Nat) /\ Len(w) = 1 + m
        /\ \A i \in 1..1 + m : w[i] = IF i <= 1 THEN <<m>>[i] ELSE u[i - 1]
    BY <2>1, <2>2, <2>3, ConcatProperties
  <2>5. w \in Seq(Symbols)
    BY <2>4, SeqMonotonic DEF Symbols
  <2>6. s[2] = m
    <3>1. w[1] = m /\ 1 \in 1..Len(w)
      BY <1>2, <2>3, <2>4
    <3> QED BY <1>5, <2>5, <3>1
  <2>7. ASSUME NEW j \in 1..m PROVE s[2 + j] = d[j]
    <3>1. 1 + j \in 1..1 + m /\ ~(1 + j <= 1) /\ 1 + j - 1 = j /\ 1 + (1 + j) = 2 + j
      BY <1>2
    <3>2. w[1 + j] = u[j]
      BY <2>4, <3>1
    <3>3. s[1 + (1 + j)] = w[1 + j]
      BY <1>5, <2>4, <2>5, <3>1
    <3> QED BY <2>2, <3>1, <3>2, <3>3
  <2>8. s \in Seq(Symbols) /\ s[1] = type /\ Len(s) = 2 + m
    BY <1>2, <1>5, <2>4, <2>5
  <2> QED BY <1>2, <1>6, <2>6, <2>7, <2>8 DEF d
<1>7. CASE type = "DATETIME"
  <2>1. w = <<0, 0>>
    BY <1>7 DEF Payload
  <2>2. w \in Seq(Symbols) /\ Len(w) = 2
    BY <2>1 DEF Symbols
  <2>3. Units(type) = 2 /\ type # "STRING"
    BY <1>7 DEF Units
  <2> QED BY <1>2, <1>5, <1>7, <2>2, <2>3
<1>8. CASE type \notin {"STRING", "DATETIME"}
  <2>1. w = d
    BY <1>8 DEF Payload
  <2>2. c.type = type /\ type # "STRING"
    BY <1>8 DEF Matches
  <2>3. Len(w) = Units(type)
    BY <2>1, <2>2, CellFacts
  <2>4. w \in Seq(Symbols)
    BY <1>1, <2>1, SeqMonotonic DEF Symbols
  <2> QED BY <1>2, <1>5, <1>8, <2>1, <2>2, <2>3, <2>4
<1> QED BY <1>6, <1>7, <1>8

\* what decode makes of the cell c of a column of this type
StoredCell(type, c) ==
    CASE type = "DATETIME" -> Zero
      [] type = "STRING" -> [type |-> "STRING", data |-> SubSeq(c.data, 1, Len(c.data) % Width)]
      [] OTHER -> c

\* a column that stands in the bytes behind the first b of them
LEMMA ReadColumn ==
    ASSUME NEW type \in ColumnTypes, NEW c \in Cells, Matches(type, c),
           NEW s, s = AppendColumn(type, c), NEW data, Len(data) \in Nat, NEW b \in Nat,
           b + Len(s) <= Len(data), \A j \in 1..Len(s) : data[b + j] = s[j]
    PROVE  /\ Behind(type, data, b + 1) = b + Len(s) + 1
           /\ Cell(type, data, b + 1 + 1) = StoredCell(type, c)
<1> DEFINE m == Len(c.data) % Width
           p == b + 1
<1>1. /\ s \in Seq(Symbols) /\ s[1] = type /\ m \in 0..Len(c.data) /\ Len(c.data) \in Nat
      /\ type = "STRING" => /\ Len(s) = 2 + m /\ s[2] = m
                            /\ \A j \in 1..m : s[2 + j] = c.data[j]
      /\ type # "STRING" => Len(s) = 1 + Units(type)
      /\ type \notin {"STRING", "DATETIME"} => \A j \in 1..Units(type) : s[1 + j] = c.data[j]
  <2>1. c.data \in Seq(Nat)
    BY CellFacts
  <2>2. Len(c.data) \in Nat
    BY <2>1, LenProperties
  <2> QED BY <2>2, Column
<1>2. Units(type) \in 1..2 /\ Len(s) \in Nat /\ Len(s) >= 2 /\ m \in Nat
  <2> HIDE DEF m
  <2>1. Units(type) \in 1..2
    BY DEF Units
  <2>2. Len(s) \in Nat /\ m \in Nat
    BY <1>1, LenProperties
  <2> QED BY <1>1, <2>1, <2>2
<1> HIDE DEF m
<1>3. p \in 1..Len(data) /\ p + 1 \in 1..Len(data) /\ data[p] = type /\ data[p + 1] = s[2]
  <2>1. 1 \in 1..Len(s) /\ 2 \in 1..Len(s) /\ p = b + 1 /\ p + 1 = b + 2
    BY <1>2
  <2> QED BY <1>1, <1>2, <2>1
<1>4. Extent(type, data, p + 1) = Len(s) - 1
  <2>1. CASE type = "STRING"
    BY <1>1, <1>2, <1>3, <2>1 DEF Extent
  <2>2. CASE type # "STRING"
    BY <1>1, <1>2, <2>2 DEF Extent
  <2> QED BY <2>1, <2>2
<1>5. Behind(type, data, p) = b + Len(s) + 1
  <2>1. p + 1 + Extent(type, data, p + 1) = b + Len(s) + 1
    BY <1>2, <1>4
  <2>2. ~(b + Len(s) + 1 > Len(data) + 1)
    BY <1>2
  <2>3. ~(p = 0 \/ p > Len(data))
    BY <1>3
  <2> QED BY <1>3, <2>1, <2>2, <2>3 DEF Behind
<1> DEFINE q == p + 1
<1>6. CASE type = "STRING"
  <2>1. Cell(type, data, q) = [type |-> type, data |-> SubSeq(data, q + 1, q + m)]
    BY <1>1, <1>3, <1>6 DEF Cell
  <2>2. SubSeq(data, q + 1, q + m) = SubSeq(c.data, 1, m)
    <3>1. ASSUME NEW j \in 1..m PROVE data[q + 1 + j - 1] = c.data[j]
      <4>1. 2 + j \in 1..Len(s) /\ b + (2 + j) = q + 1 + j - 1
        BY <1>1, <1>2, <1>6, SMTT(40)
      <4>2. data[b + (2 + j)] = s[2 + j]
        BY <4>1
      <4> QED BY <1>1, <1>6, <4>1, <4>2
    <3>2. c.data \in Seq(Nat)
      BY CellFacts
    <3> DEFINE u == SubSeq(data, q + 1, q + m)
               v == SubSeq(c.data, 1, m)
    <3>3. v \in Seq(Nat) /\ Len(v) = m /\ \A j \in 1..m : v[j] = c.data[j]
      <4>1. \A i \in 1..m : c.data[i] \in Nat
        <5>1. \A i \in 1..Len(c.data) : c.data[i] \in Nat
          BY <3>2, ElementOfSeq
        <5>2. \A i \in 1..m : i \in 1..Len(c.data)
          BY <1>1
        <5> QED BY <5>1, <5>2
      <4>2. v \in Seq(Nat) /\ Len(v) = (IF 1 <= m THEN m - 1 + 1 ELSE 0)
            /\ \A j \in 1..m - 1 + 1 : v[j] = c.data[1 + j - 1]
        BY <1>2, <4>1, SubSeqProperties
      <4> HIDE DEF v
      <4> QED BY <1>2, <4>2
    <3>4. u \in Seq(Nat) /\ Len(u) = m /\ \A j \in 1..m : u[j] = c.data[j]
      <4>1. ASSUME NEW i \in q + 1..q + m PROVE data[i] \in Nat
        <5>1. i - q \in 1..m /\ q + 1 + (i - q) - 1 = i
          BY <1>2
        <5>2. data[i] = c.data[i - q]
          BY <3>1, <5>1
        <5>3. i - q \in 1..Len(c.data)
          BY <1>1, <5>1
        <5>4. c.data[i - q] \in Nat
          BY <3>2, <5>3, ElementOfSeq
        <5> QED BY <5>2, <5>4
      <4>2. u \in Seq(Nat) /\ Len(u) = m /\ \A j \in 1..m : u[j] = data[q + 1 + j - 1]
        <5> DEFINE x == q + 1 y == q + m
        <5>1. x \in Int /\ y \in Int /\ y - x + 1 = m /\ m \in Nat
          BY <1>2
        <5>2. \A i \in x..y : data[i] \in Nat
          BY <4>1
        <5>3. u = SubSeq(data, x, y)
          OBVIOUS
        <5> HIDE DEF x, y, u, m
        <5>4. /\ u \in Seq(Nat) /\ Len(u) = (IF x <= y THEN y - x + 1 ELSE 0)
              /\ \A j \in 1..y - x + 1 : u[j] = data[x + j - 1]
          BY <5>1, <5>2, <5>3, SubSeqProperties
        <5>5. u \in Seq(Nat) /\ Len(u) = m /\ \A j \in 1..m : u[j] = data[x + j - 1]
          BY <5>1, <5>4
        <5> QED BY <5>5 DEF x
      <4> HIDE DEF u
      <4> QED BY <1>2, <3>1, <4>2
    <3> HIDE DEF u, v
    <3>5. u = v
      BY <3>3, <3>4, SeqEqual
    <3> QED BY <3>5 DEF u, v
  <2> QED BY <1>5, <1>6, <2>1, <2>2 DEF StoredCell, m
<1>7. CASE type = "DATETIME"
  BY <1>5, <1>7 DEF Cell, StoredCell
<1>8. CASE type \notin {"STRING", "DATETIME"}
  <2>1. Cell(type, data, q) = [type |-> type, data |-> SubSeq(data, q, q + Units(type) - 1)]
    BY <1>8 DEF Cell
  <2>2. c.type = type /\ c = [type |-> c.type, data |-> c.data] /\ c.data \in Seq(Nat)
        /\ Len(c.data) = Units(type)
    BY <1>8, CellFacts DEF Matches
  <2> DEFINE n == Units(type)
             u == SubSeq(data, q, q + n - 1)
  <2> HIDE DEF n
  <2>3. ASSUME NEW j \in 1..n PROVE data[q + j - 1] = c.data[j]
    <3>1. 1 + j \in 1..Len(s) /\ b + (1 + j) = q + j - 1
      BY <1>1, <1>2, <1>8 DEF n
    <3>2. data[b + (1 + j)] = s[1 + j]
      BY <3>1
    <3> QED BY <1>1, <1>8, <3>1, <3>2 DEF n
  <2>4. u = c.data
    <3>1. ASSUME NEW i \in q..q + n - 1 PROVE data[i] \in Nat
      <4>1. n \in 1..2 /\ q \in Nat
        BY <1>2 DEF n
      <4> HIDE DEF q
      <4>2. i - q + 1 \in 1..n /\ q + (i - q + 1) - 1 = i
        BY <4>1
      <4>3. data[i] = c.data[i - q + 1]
        BY <2>3, <4>2 DEF q
      <4>4. Len(c.data) = n
        BY <2>2 DEF n
      <4> HIDE DEF n
      <4> QED BY <2>2, <4>2, <4>3, <4>4, SMTT(40)
    <3>2. u \in Seq(Nat) /\ Len(u) = (IF q <= q + n - 1 THEN q + n - 1 - q + 1 ELSE 0)
          /\ \A j \in 1..q + n - 1 - q + 1 : u[j] = data[q + j - 1]
      BY <1>2, <3>1, SubSeqProperties DEF n
    <3> HIDE DEF u
    <3>3. q + n - 1 - q + 1 = n /\ n \in 1..2
      BY <1>2 DEF n
    <3>4. Len(u) = Len(c.data) /\ \A j \in 1..Len(u) : u[j] = c.data[j]
      BY <2>2, <2>3, <3>2, <3>3 DEF n
    <3> QED BY <2>2, <3>2, <3>4, SeqEqual
  <2>5. Cell(type, data, q) = c
    BY <2>1, <2>2, <2>4 DEF n
  <2> QED BY <1>5, <1>8, <2>5 DEF StoredCell
<1> QED BY <1>6, <1>7, <1>8

\* what can be encoded is decoded as it is stored
LEMMA RoundTrip ==
    ASSUME NEW h \in Schemas, NEW row \in Rows, <<h, row>> \in Encodable
    PROVE  /\ Decode(h, EncodeValue(h, row)) = Stored(h, row)
           /\ Decode(h, EncodeValue(h, row)) # <<>>
<1> DEFINE n == Len(h.columns)
           cols == h.columns
           s == [i \in DOMAIN row |-> AppendColumn(cols[i], row[i])]
           data == EncodeValue(h, row)
<1>1. ~Throws(h, row) /\ data # <<>>
  BY DEF Encodable, Fits
<1>2. row \in Seq(Cells) /\ cols \in Seq(ColumnTypes)
  BY RowAssumption
<1>3. Len(row) = n /\ data = FlattenSeq(s)
  BY <1>1 DEF EncodeValue
<1>4. n \in Nat /\ DOMAIN row = 1..n
  BY <1>2, <1>3, LenProperties
<1>5. \A i \in 1..n : row[i] \in Cells /\ cols[i] \in ColumnTypes /\ Matches(cols[i], row[i])
  <2>1. \A i \in 1..n : row[i] \in Cells /\ cols[i] \in ColumnTypes
    BY <1>2, <1>3, ElementOfSeq
  <2>2. \A i \in 1..n : Matches(cols[i], row[i])
    BY <1>1, <1>3, <1>4 DEF Throws
  <2> QED BY <2>1, <2>2
<1> HIDE DEF n, cols
<1>6. s \in Seq(Seq(Symbols)) /\ Len(s) = n /\ \A i \in 1..n : s[i] = AppendColumn(cols[i], row[i])
  <2>1. \A i \in 1..n : AppendColumn(cols[i], row[i]) \in Seq(Symbols)
    BY <1>5, Column
  <2>2. s \in [1..n -> Seq(Symbols)]
    BY <1>4, <2>1
  <2>3. s \in Seq(Seq(Symbols))
    BY <1>4, <2>2, IsASeq
  <2>4. Len(s) = n
    BY <1>4, <2>2, <2>3, LenProperties
  <2> QED BY <1>4, <2>3, <2>4
<1> HIDE DEF data, s
<1>7. n # 0
  <2> SUFFICES ASSUME n = 0 PROVE FALSE
    OBVIOUS
  <2>1. data = s
    BY <1>3, <1>6 DEF FlattenSeq
  <2>2. s = <<>>
    BY <1>6, EmptySeq
  <2> QED BY <1>1, <2>1, <2>2
<1>8. PICK f : Joined(f, s, Symbols)
  <2>1. s # <<>>
    BY <1>6, <1>7
  <2> QED BY <1>6, <2>1, Flattened
<1>9. /\ \A i \in 0..n : f[i] \in Seq(Symbols) /\ Len(f[i]) \in Nat
      /\ f[0] = <<>> /\ f[n] = data
  <2>1. \A i \in 0..n : f[i] \in Seq(Symbols)
    BY <1>6, <1>8 DEF Joined
  <2>2. \A i \in 0..n : Len(f[i]) \in Nat
    BY <2>1, LenProperties
  <2> QED BY <1>3, <1>6, <1>8, <2>1, <2>2 DEF Joined
<1>10. Len(data) \in Nat
  <2>1. n \in 0..n
    BY <1>4
  <2> QED BY <1>9, <2>1
<1>11. ASSUME NEW i \in 1..n
       PROVE  /\ Behind(cols[i], data, Len(f[i - 1]) + 1) = Len(f[i]) + 1
              /\ Cell(cols[i], data, Len(f[i - 1]) + 1 + 1) = StoredCell(cols[i], row[i])
  <2>1. /\ Len(f[i]) = Len(f[i - 1]) + Len(s[i]) /\ Len(f[i]) <= Len(data)
        /\ \A j \in 1..Len(s[i]) : data[Len(f[i - 1]) + j] = s[i][j]
    <3>1. i \in 1..Len(s) /\ s \in Seq(Seq(Symbols))
      BY <1>6
    <3>2. Stands(f, s, i)
      BY <1>8, <3>1, JoinedPart
    <3> QED BY <1>3, <3>2 DEF Stands
  <2>2. Len(f[i - 1]) \in Nat
    BY <1>4, <1>9
  <2> DEFINE b == Len(f[i - 1])
             c == s[i]
  <2>3. c = AppendColumn(cols[i], row[i])
    BY <1>6
  <2>4. b \in Nat /\ b + Len(c) <= Len(data) /\ \A j \in 1..Len(c) : data[b + j] = c[j]
    BY <2>1, <2>2
  <2> HIDE DEF b, c
  <2>5. /\ Behind(cols[i], data, b + 1) = b + Len(c) + 1
        /\ Cell(cols[i], data, b + 1 + 1) = StoredCell(cols[i], row[i])
    BY <1>5, <1>10, <2>3, <2>4, ReadColumn
  <2> QED BY <2>1, <2>5 DEF b, c
<1> DEFINE next(g, i) == IF i = 0 THEN 1 ELSE Behind(cols[i], data, g[i - 1])
           place == [i \in 0..n |-> Len(f[i]) + 1]
           start == CHOOSE g : g = [i \in 0..n |-> next(g, i)]
<1>12. start = [i \in 0..n |-> next(start, i)]
  <2>1. ASSUME NEW i \in 0..n PROVE place[i] = next(place, i)
    <3>1. CASE i = 0
      <4>1. Len(f[0]) = 0
        BY <1>9
      <4> QED BY <3>1, <4>1
    <3>2. CASE i # 0
      <4>1. i \in 1..n /\ i - 1 \in 0..n
        BY <1>4, <3>2
      <4>2. place[i - 1] = Len(f[i - 1]) + 1 /\ place[i] = Len(f[i]) + 1
        BY <4>1
      <4> HIDE DEF place
      <4> QED BY <1>11, <3>2, <4>1, <4>2
    <3> QED BY <3>1, <3>2
  <2>2. place = [i \in 0..n |-> place[i]]
    OBVIOUS
  <2> HIDE DEF place
  <2>3. place = [i \in 0..n |-> next(place, i)]
    BY <2>1, <2>2
  <2>4. \E g : g = [i \in 0..n |-> next(g, i)]
    BY <2>3
  <2> QED BY <2>4
<1>13. Decode(h, data) = IF start[n] = 0 THEN <<>>
                         ELSE [i \in 1..n |-> Cell(cols[i], data, start[i - 1] + 1)]
  BY DEF Decode, n, cols
<1> HIDE DEF start
<1>14. \A i \in 0..n : start[i] = next(start, i)
  BY <1>12
<1> DEFINE T == {i \in 0..n : start[i] # Len(f[i]) + 1}
<1>15. T = {}
  <2> SUFFICES ASSUME T # {} PROVE FALSE
    OBVIOUS
  <2>1. PICK i \in T : \A j \in T : i <= j
    <3>1. T \subseteq Nat
      BY <1>4
    <3> HIDE DEF T
    <3> QED BY <3>1, LeastElement
  <2>2. i # 0
    <3>1. Len(f[0]) = 0 /\ 0 \in 0..n
      BY <1>4, <1>9
    <3> QED BY <1>14, <3>1
  <2>3. i \in 1..n /\ i - 1 \in 0..n /\ ~(i <= i - 1)
    BY <1>4, <2>2
  <2>4. i - 1 \notin T
    BY <2>1, <2>3
  <2>5. start[i - 1] = Len(f[i - 1]) + 1
    BY <2>3, <2>4
  <2> QED BY <1>11, <1>14, <2>2, <2>3, <2>5
<1>16. \A i \in 0..n : start[i] = Len(f[i]) + 1
  BY <1>15
<1>17. start[n] # 0
  BY <1>4, <1>9, <1>16
<1>18. ASSUME NEW i \in 1..n PROVE Cell(cols[i], data, start[i - 1] + 1) = StoredCell(cols[i], row[i])
  <2>1. i - 1 \in 0..n
    BY <1>4
  <2> QED BY <1>11, <1>16, <2>1
<1>19. Decode(h, data) = [i \in 1..n |-> StoredCell(cols[i], row[i])]
  <2> HIDE DEF T
  <2> QED BY <1>13, <1>17, <1>18
<1>20. Stored(h, row) = [i \in 1..n |-> StoredCell(cols[i], row[i])]
  BY <1>4 DEF Stored, StoredCell, cols
<1>21. [i \in 1..n |-> StoredCell(cols[i], row[i])] # <<>>
  BY <1>4, <1>7
<1> QED BY <1>19, <1>20, <1>21 DEF data

-----------------------------------------------------------------------------
(* The state of one table                                                  *)

\* an open table: the pool starts with the meta page, holds pages of the kind
\* their number calls for, and a page that is not dirty is what the file holds
InPool(f, root, buf, dirty) ==
    /\ f \in Files /\ root \in Contents(0)
    /\ DOMAIN buf \subseteq PageIds /\ buf = [p \in DOMAIN buf |-> buf[p]]
    /\ 0 \in DOMAIN buf /\ buf[0] = root
    /\ dirty \subseteq DOMAIN buf
    /\ \A p \in DOMAIN buf : /\ buf[p] \in Contents(p)
                             /\ p \notin dirty => buf[p] = f[p]
Handle(root, buf, dirty) == [root |-> root, buf |-> buf, dirty |-> dirty]
State(f, h) == [file |-> f, h |-> h]

Opened(st) == \E f, root, buf, dirty :
    InPool(f, root, buf, dirty) /\ st = State(f, Handle(root, buf, dirty))
Shut(st) == \E f \in Files \cup {NoTable} : st = State(f, NoTable)
Sound(st) == Opened(st) \/ Shut(st)

LEMMA Kinds ==
    /\ MaxPage \in Nat /\ MaxPage >= 3 /\ PageIds = 0..MaxPage
    /\ Contents(0) = {0} \cup (2..MaxPage)
    /\ Contents(1) = SUBSET (2..MaxPage)
    /\ \A p \in 2..MaxPage : Contents(p) = Maps \cup {Blank}
    /\ \A p \in PageIds : Contents(p) \subseteq Pages
BY BoundAssumption DEF PageIds, Contents, Pages

LEMMA FileFacts ==
    ASSUME NEW f \in Files
    PROVE  /\ DOMAIN f = PageIds /\ f = [p \in PageIds |-> f[p]]
           /\ \A p \in PageIds : f[p] \in Contents(p)
           /\ f # NoTable
BY MarkAssumption DEF Files

LEMMA MakeFile ==
    ASSUME NEW f, f = [p \in PageIds |-> f[p]], \A p \in PageIds : f[p] \in Contents(p)
    PROVE  f \in Files
<1>1. \A p \in PageIds : f[p] \in Pages
  BY Kinds
<1>2. f \in [PageIds -> Pages]
  BY <1>1
<1> QED BY <1>2 DEF Files

LEMMA OpenedFacts ==
    ASSUME NEW st, Opened(st)
    PROVE  /\ InPool(st.file, st.h.root, st.h.buf, st.h.dirty)
           /\ st = State(st.file, Handle(st.h.root, st.h.buf, st.h.dirty))
           /\ st.h # NoTable /\ st.file # NoTable /\ st.file \in Files
           /\ st.h.root \in Contents(0)
<1>1. PICK f, root, buf, dirty :
        InPool(f, root, buf, dirty) /\ st = State(f, Handle(root, buf, dirty))
  BY DEF Opened
<1>2. st.file = f /\ st.h = Handle(root, buf, dirty)
  BY <1>1 DEF State
<1>3. st.h.root = root /\ st.h.buf = buf /\ st.h.dirty = dirty
  BY <1>2 DEF Handle
<1>4. Handle(root, buf, dirty) \in Handles
  <2>1. \A p \in DOMAIN buf : buf[p] \in Pages
    BY <1>1, Kinds DEF InPool
  <2>2. buf \in [DOMAIN buf -> Pages] /\ DOMAIN buf \in SUBSET PageIds
    BY <1>1, <2>1 DEF InPool
  <2>3. buf \in UNION {[D -> Pages] : D \in SUBSET PageIds}
    BY <2>2
  <2>4. root \in Contents(0) /\ dirty \in SUBSET PageIds
    BY <1>1 DEF InPool
  <2> QED BY <2>3, <2>4 DEF Handles, Handle
<1>5. st.h # NoTable /\ f # NoTable /\ f \in Files /\ root \in Contents(0)
  BY <1>1, <1>2, <1>4, MarkAssumption, FileFacts DEF InPool
<1> QED BY <1>1, <1>2, <1>3, <1>5

LEMMA MakeOpened ==
    ASSUME NEW f, NEW root, NEW buf, NEW dirty, InPool(f, root, buf, dirty)
    PROVE  /\ Opened(State(f, Handle(root, buf, dirty)))
           /\ State(f, Handle(root, buf, dirty)).file = f
           /\ State(f, Handle(root, buf, dirty)).h.root = root
           /\ State(f, Handle(root, buf, dirty)).h.buf = buf
           /\ State(f, Handle(root, buf, dirty)).h.dirty = dirty
BY DEF Opened, State, Handle

LEMMA ShutFacts ==
    ASSUME NEW st, Shut(st)
    PROVE  st.h = NoTable /\ st.file \in Files \cup {NoTable} /\ st = State(st.file, NoTable)
BY DEF Shut, State

LEMMA PageIs ==
    ASSUME NEW st, Opened(st), NEW p \in PageIds
    PROVE  /\ Page(st, p) = IF p \in DOMAIN st.h.buf THEN st.h.buf[p] ELSE st.file[p]
           /\ Page(st, p) \in Contents(p)
           /\ Page(st, 0) = st.h.root
           /\ p \notin st.h.dirty => Page(st, p) = st.file[p]
<1>1. Page(st, p) = IF p \in DOMAIN st.h.buf THEN st.h.buf[p] ELSE st.file[p]
  BY OpenedFacts DEF Page
<1>2. Page(st, 0) = st.h.root
  BY OpenedFacts DEF Page, InPool
<1>3. st.file[p] \in Contents(p)
  BY OpenedFacts, FileFacts
<1>4. p \in DOMAIN st.h.buf => st.h.buf[p] \in Contents(p) /\ (p \notin st.h.dirty => st.h.buf[p] = st.file[p])
  BY OpenedFacts DEF InPool
<1> QED BY <1>1, <1>2, <1>3, <1>4

\* s reads like st, apart from the pages in P
Reads(st, s, P) == \A p \in PageIds \ P : Page(s, p) = Page(st, p)
\* the file of s is that of st, apart from the pages in P
Stays(st, s, P) == \A p \in PageIds \ P : s.file[p] = st.file[p]

LEMMA Fetching ==
    ASSUME NEW st, Opened(st), NEW p \in PageIds, NEW r \in Fetch(st, p)
    PROVE  /\ Opened(r.st) /\ r.st.file = st.file /\ r.st.h.root = st.h.root
           /\ Reads(st, r.st, {})
           /\ r.ok = ~r.bad /\ r.bad \in BOOLEAN
<1> DEFINE f == st.file
           root == st.h.root
           buf == st.h.buf
           dirty == st.h.dirty
<1>1. InPool(f, root, buf, dirty) /\ st = State(f, Handle(root, buf, dirty)) /\ f \in Files
  BY OpenedFacts
<1>2. CASE r = Done(st, TRUE, FALSE)
  BY <1>2 DEF Done, Reads
<1>3. CASE r = Done(st, FALSE, TRUE)
  BY <1>3 DEF Done, Reads
<1>4. CASE p \notin DOMAIN buf /\ r = Done([st EXCEPT !.h.buf = With(@, p, st.file[p])], TRUE, FALSE)
  <2> DEFINE new == With(buf, p, f[p])
  <2>1. [st EXCEPT !.h.buf = With(@, p, st.file[p])] = State(f, Handle(root, new, dirty))
    <3> HIDE DEF new, f, root, buf, dirty
    <3>1. st = State(f, Handle(root, buf, dirty))
      BY <1>1
    <3>2. st.file = f /\ st.h = Handle(root, buf, dirty) /\ st.h.buf = buf
      BY <3>1 DEF State, Handle
    <3>3. [st EXCEPT !.h.buf = With(@, p, st.file[p])] = [st EXCEPT !.h.buf = new]
      BY <3>2 DEF new
    <3>4. [st EXCEPT !.h.buf = new] = State(f, Handle(root, new, dirty))
      BY <3>1 DEF State, Handle
    <3> QED BY <3>3, <3>4
  <2>2. /\ DOMAIN new = DOMAIN buf \cup {p} /\ new[p] = f[p]
        /\ new = [q \in DOMAIN new |-> new[q]]
        /\ \A q \in DOMAIN buf : q # p => new[q] = buf[q]
    BY DEF With
  <2>3. f[p] \in Contents(p)
    BY <1>1, FileFacts
  <2> HIDE DEF new, f, root, buf, dirty
  <2>4. InPool(f, root, new, dirty)
    BY <1>1, <1>4, <2>2, <2>3 DEF InPool
  <2>5. r.st = State(f, Handle(root, new, dirty)) /\ r.ok = TRUE /\ r.bad = FALSE
    BY <1>4, <2>1 DEF Done, buf
  <2>6. Opened(r.st) /\ r.st.file = f /\ r.st.h.root = root /\ r.st.h.buf = new
    BY <2>4, <2>5, MakeOpened
  <2>7. ASSUME NEW q \in PageIds PROVE Page(r.st, q) = Page(st, q)
    <3>1. Page(r.st, q) = IF q \in DOMAIN new THEN new[q] ELSE f[q]
      BY <2>6, PageIs
    <3>2. Page(st, q) = IF q \in DOMAIN buf THEN buf[q] ELSE f[q]
      BY PageIs DEF buf, f
    <3> QED BY <1>4, <2>2, <3>1, <3>2 DEF buf
  <2> QED BY <2>5, <2>6, <2>7 DEF Reads, f, root
<1> QED BY <1>2, <1>3, <1>4 DEF Fetch

LEMMA SettingPage ==
    ASSUME NEW st, Opened(st), NEW p \in PageIds \ {0}, NEW c \in Contents(p), NEW s,
           s = SetPage(st, p, c)
    PROVE  /\ Opened(s) /\ s.file = st.file /\ s.h.root = st.h.root
           /\ p \in DOMAIN s.h.buf
           /\ Page(s, p) = c /\ Reads(st, s, {p})
<1> DEFINE f == st.file
           root == st.h.root
           buf == st.h.buf
           dirty == st.h.dirty
           new == With(buf, p, c)
<1>1. InPool(f, root, buf, dirty) /\ st = State(f, Handle(root, buf, dirty)) /\ f \in Files
  BY OpenedFacts
<1>2. /\ DOMAIN new = DOMAIN buf \cup {p} /\ new[p] = c
      /\ new = [q \in DOMAIN new |-> new[q]]
      /\ \A q \in DOMAIN buf : q # p => new[q] = buf[q]
  BY DEF With
<1> HIDE DEF f, root, buf, dirty
<1>3. s = State(f, Handle(root, new, dirty \cup {p}))
  <2>1. s = [st EXCEPT !.h.buf = With(@, p, c), !.h.dirty = @ \cup {p}]
    BY DEF SetPage
  <2>2. st.h = Handle(root, buf, dirty) /\ st.h.buf = buf /\ st.h.dirty = dirty
    BY <1>1 DEF State, Handle
  <2>3. s = [st EXCEPT !.h.buf = new, !.h.dirty = dirty \cup {p}]
    BY <1>1, <2>1, <2>2 DEF State, Handle
  <2> HIDE DEF new
  <2> QED BY <1>1, <2>3 DEF State, Handle
<1> HIDE DEF new
<1>4. InPool(f, root, new, dirty \cup {p})
  BY <1>1, <1>2 DEF InPool
<1>5. Opened(s) /\ s.file = f /\ s.h.root = root /\ s.h.buf = new
  BY <1>3, <1>4, MakeOpened
<1>6. ASSUME NEW q \in PageIds PROVE Page(s, q) = IF q = p THEN c ELSE Page(st, q)
  <2>1. Page(s, q) = IF q \in DOMAIN new THEN new[q] ELSE f[q]
    BY <1>5, PageIs
  <2>2. Page(st, q) = IF q \in DOMAIN buf THEN buf[q] ELSE f[q]
    BY PageIs DEF buf, f
  <2> QED BY <1>2, <2>1, <2>2
<1> QED BY <1>2, <1>5, <1>6 DEF Reads, f, root

LEMMA SettingRoot ==
    ASSUME NEW st, Opened(st), NEW root \in Contents(0), NEW s, s = SetRoot(st, root)
    PROVE  Opened(s) /\ s.file = st.file /\ s.h.root = root /\ Reads(st, s, {0})
<1> DEFINE f == st.file
           buf == st.h.buf
           dirty == st.h.dirty
           new == With(buf, 0, root)
<1>1. InPool(f, st.h.root, buf, dirty) /\ st = State(f, Handle(st.h.root, buf, dirty)) /\ f \in Files
  BY OpenedFacts
<1>2. /\ DOMAIN new = DOMAIN buf \cup {0} /\ new[0] = root
      /\ new = [q \in DOMAIN new |-> new[q]]
      /\ \A q \in DOMAIN buf : q # 0 => new[q] = buf[q]
  BY DEF With
<1>3. s = State(f, Handle(root, new, dirty \cup {0}))
  <2> DEFINE old == st.h.root
             m == [st EXCEPT !.h.root = root]
  <2>1. s = [m EXCEPT !.h.buf = With(@, 0, root), !.h.dirty = @ \cup {0}]
    BY DEF SetRoot, SetPage
  <2> HIDE DEF f, buf, dirty, old, m
  <2>2. st = State(f, Handle(old, buf, dirty))
    BY <1>1 DEF old
  <2>3. m = State(f, Handle(root, buf, dirty))
    BY <2>2 DEF m, State, Handle
  <2>4. m.h.buf = buf /\ m.h.dirty = dirty
    BY <2>3 DEF State, Handle
  <2>5. s = [m EXCEPT !.h.buf = new, !.h.dirty = dirty \cup {0}]
    BY <2>1, <2>3, <2>4 DEF State, Handle
  <2> HIDE DEF new
  <2> QED BY <2>3, <2>5 DEF State, Handle
<1>4. 0 \in PageIds
  BY Kinds
<1> HIDE DEF new, f, buf, dirty
<1>5. InPool(f, root, new, dirty \cup {0})
  BY <1>1, <1>2, <1>4 DEF InPool
<1>6. Opened(s) /\ s.file = f /\ s.h.root = root /\ s.h.buf = new
  BY <1>3, <1>5, MakeOpened
<1>7. ASSUME NEW q \in PageIds \ {0} PROVE Page(s, q) = Page(st, q)
  <2>1. Page(s, q) = IF q \in DOMAIN new THEN new[q] ELSE f[q]
    BY <1>6, PageIs
  <2>2. Page(st, q) = IF q \in DOMAIN buf THEN buf[q] ELSE f[q]
    BY PageIs DEF buf, f
  <2> QED BY <1>2, <2>1, <2>2
<1> QED BY <1>6, <1>7 DEF Reads, f

LEMMA Writing ==
    ASSUME NEW st, Opened(st), NEW W, W \subseteq DOMAIN st.h.buf, NEW s, s = Written(st, W)
    PROVE  /\ Opened(s) /\ s.h.root = st.h.root /\ Reads(st, s, {})
           /\ \A p \in PageIds : s.file[p] = IF p \in W THEN Page(st, p) ELSE st.file[p]
<1> DEFINE f == st.file
           root == st.h.root
           buf == st.h.buf
           dirty == st.h.dirty
           new == [p \in DOMAIN f |-> IF p \in W THEN buf[p] ELSE f[p]]
<1>1. InPool(f, root, buf, dirty) /\ st = State(f, Handle(root, buf, dirty)) /\ f \in Files
  BY OpenedFacts
<1>2. DOMAIN f = PageIds /\ \A p \in PageIds : f[p] \in Contents(p)
  BY <1>1, FileFacts
<1>3. s = State(new, Handle(root, buf, dirty \ W))
  <2> DEFINE g == [p \in DOMAIN st.file |-> IF p \in W THEN st.h.buf[p] ELSE st.file[p]]
  <2>1. s = [st EXCEPT !.file = g, !.h.dirty = st.h.dirty \ W]
    <3>1. s = [st EXCEPT !.file = [p \in DOMAIN @ |-> IF p \in W THEN st.h.buf[p] ELSE @[p]],
                         !.h.dirty = @ \ W]
      BY DEF Written
    <3> QED BY <1>1, <3>1 DEF State, Handle
  <2>2. g = new
    OBVIOUS
  <2> HIDE DEF g, new, f, root, buf, dirty
  <2>3. st.h.dirty = dirty
    BY DEF dirty
  <2> QED BY <1>1, <2>1, <2>2, <2>3, ZenonT(60) DEF State, Handle
<1>4. new = [p \in PageIds |-> new[p]] /\ \A p \in PageIds : new[p] \in Contents(p)
  BY <1>1, <1>2 DEF InPool
<1>5. new \in Files
  <2> HIDE DEF new
  <2> QED BY <1>4, MakeFile
<1>6. \A p \in PageIds : new[p] = IF p \in W THEN buf[p] ELSE f[p]
  BY <1>2
<1> HIDE DEF new, f, root, buf, dirty
<1>7. InPool(new, root, buf, dirty \ W)
  <2>1. \A p \in DOMAIN buf : p \notin dirty \ W => buf[p] = new[p]
    BY <1>1, <1>6 DEF InPool
  <2> QED BY <1>1, <1>5, <2>1 DEF InPool
<1>8. Opened(s) /\ s.file = new /\ s.h.root = root /\ s.h.buf = buf
  BY <1>3, <1>7, MakeOpened
<1>9. W \subseteq DOMAIN buf
  BY DEF buf
<1>10. ASSUME NEW q \in PageIds PROVE Page(s, q) = Page(st, q)
  <2>1. Page(s, q) = IF q \in DOMAIN buf THEN buf[q] ELSE new[q]
    BY <1>8, PageIs
  <2>2. Page(st, q) = IF q \in DOMAIN buf THEN buf[q] ELSE f[q]
    BY PageIs DEF buf, f
  <2> QED BY <1>6, <1>9, <2>1, <2>2
<1>11. ASSUME NEW q \in PageIds PROVE s.file[q] = IF q \in W THEN Page(st, q) ELSE st.file[q]
  <2>1. Page(st, q) = IF q \in DOMAIN buf THEN buf[q] ELSE f[q]
    BY PageIs DEF buf, f
  <2> QED BY <1>6, <1>8, <1>9, <2>1 DEF f
<1> QED BY <1>8, <1>10, <1>11 DEF Reads, root

LEMMA Forgetting ==
    ASSUME NEW st, Opened(st), NEW p \in PageIds \ {0}, NEW s, s = Forgotten(st, p)
    PROVE  /\ Opened(s) /\ s.file = st.file /\ s.h.root = st.h.root /\ Reads(st, s, {p})
<1> DEFINE f == st.file
           root == st.h.root
           buf == st.h.buf
           dirty == st.h.dirty
           new == [q \in DOMAIN buf \ {p} |-> buf[q]]
<1>1. InPool(f, root, buf, dirty) /\ st = State(f, Handle(root, buf, dirty)) /\ f \in Files
  BY OpenedFacts
<1>2. s = State(f, Handle(root, new, dirty \ {p}))
  <2>1. s = [st EXCEPT !.h.buf = [q \in DOMAIN @ \ {p} |-> @[q]], !.h.dirty = @ \ {p}]
    BY DEF Forgotten
  <2>2. s = [st EXCEPT !.h.buf = new, !.h.dirty = dirty \ {p}]
    BY <1>1, <2>1 DEF State, Handle
  <2> HIDE DEF new, f, root, buf, dirty
  <2> QED BY <1>1, <2>2 DEF State, Handle
<1>3. DOMAIN new = DOMAIN buf \ {p} /\ \A q \in DOMAIN new : new[q] = buf[q]
  OBVIOUS
<1>4. new = [q \in DOMAIN new |-> new[q]]
  OBVIOUS
<1> HIDE DEF new, f, root, buf, dirty
<1>5. InPool(f, root, new, dirty \ {p})
  BY <1>1, <1>3, <1>4 DEF InPool
<1>6. Opened(s) /\ s.file = f /\ s.h.root = root /\ s.h.buf = new
  BY <1>2, <1>5, MakeOpened
<1>7. ASSUME NEW q \in PageIds \ {p} PROVE Page(s, q) = Page(st, q)
  <2>1. Page(s, q) = IF q \in DOMAIN new THEN new[q] ELSE f[q]
    BY <1>6, PageIs
  <2>2. Page(st, q) = IF q \in DOMAIN buf THEN buf[q] ELSE f[q]
    BY PageIs DEF buf, f
  <2> QED BY <1>3, <2>1, <2>2
<1> QED BY <1>6, <1>7 DEF Reads, f, root

LEMMA FlushingPage ==
    ASSUME NEW st, Opened(st), NEW p \in DOMAIN st.h.buf, NEW r \in FlushPage(st, p)
    PROVE  /\ Opened(r.st) /\ r.st.h.root = st.h.root
           /\ Reads(st, r.st, {}) /\ Stays(st, r.st, {p})
           /\ r.ok = TRUE /\ r.bad \in BOOLEAN
<1>1. CASE r = Done(st, TRUE, TRUE)
  BY <1>1 DEF Done, Reads, Stays
<1>2. CASE r = Done(Written(st, {p}), TRUE, FALSE)
  <2> DEFINE s == Written(st, {p})
  <2>1. /\ Opened(s) /\ s.h.root = st.h.root /\ Reads(st, s, {})
        /\ \A q \in PageIds : s.file[q] = IF q \in {p} THEN Page(st, q) ELSE st.file[q]
    <3>1. {p} \subseteq DOMAIN st.h.buf
      OBVIOUS
    <3> QED BY <3>1, Writing
  <2> HIDE DEF s
  <2>2. r.st = s /\ r.ok = TRUE /\ r.bad = FALSE
    BY <1>2 DEF Done, s
  <2> QED BY <2>1, <2>2 DEF Stays
<1> QED BY <1>1, <1>2 DEF FlushPage

LEMMA FirstIsLeast ==
    ASSUME NEW T, T \subseteq Nat, T # {}
    PROVE  First(T) \in T
BY LeastElement DEF First

LEMMA FirstFree ==
    ASSUME NEW st, FreePages(st) # {}
    PROVE  First(FreePages(st)) \in 3..MaxPage
<1>1. FreePages(st) \subseteq Nat /\ FreePages(st) \subseteq 3..MaxPage
  BY BoundAssumption DEF FreePages
<1> QED BY <1>1, FirstIsLeast

\* allocate_page: the bit is set in the pool whether or not it can be flushed
LEMMA Allocating ==
    ASSUME NEW st, Opened(st), NEW r \in AllocatePage(st)
    PROVE  /\ Opened(r.st) /\ r.st.h.root = st.h.root
           /\ Reads(st, r.st, {1}) /\ Stays(st, r.st, {1})
           /\ r.ok \in BOOLEAN /\ r.bad \in BOOLEAN
           /\ r.ok => /\ FreePages(st) # {}
                      /\ Page(r.st, 1) = Page(st, 1) \cup {First(FreePages(st))}
           /\ ~r.ok => /\ r.bad \/ FreePages(st) = {}
                       /\ Reads(st, r.st, {})
<1>1. 1 \in PageIds \ {0} /\ 1 \in PageIds
  BY Kinds
<1>2. CASE r \in Fetch(st, 1) /\ ~r.ok
  <2>1. /\ Opened(r.st) /\ r.st.file = st.file /\ r.st.h.root = st.h.root
        /\ Reads(st, r.st, {}) /\ r.bad = TRUE /\ r.ok = FALSE
    BY <1>1, <1>2, Fetching
  <2> QED BY <2>1 DEF Reads, Stays
<1>3. ASSUME NEW f \in Fetch(st, 1), f.ok,
             NEW q \in IF FreePages(f.st) = {} THEN {Done(f.st, FALSE, FALSE)}
                       ELSE FlushPage(SetPage(f.st, 1, Page(f.st, 1) \cup {First(FreePages(f.st))}), 1),
             r = Done(q.st, q.ok, f.bad \/ q.bad)
      PROVE  /\ Opened(r.st) /\ r.st.h.root = st.h.root
             /\ Reads(st, r.st, {1}) /\ Stays(st, r.st, {1})
             /\ r.ok \in BOOLEAN /\ r.bad \in BOOLEAN
             /\ r.ok => /\ FreePages(st) # {}
                        /\ Page(r.st, 1) = Page(st, 1) \cup {First(FreePages(st))}
             /\ ~r.ok => /\ r.bad \/ FreePages(st) = {}
                         /\ Reads(st, r.st, {})
  <2>1. /\ Opened(f.st) /\ f.st.file = st.file /\ f.st.h.root = st.h.root
        /\ Reads(st, f.st, {}) /\ f.bad = FALSE
    BY <1>1, <1>3, Fetching, ZenonT(60)
  <2>2. Page(f.st, 1) = Page(st, 1) /\ FreePages(f.st) = FreePages(st)
    BY <1>1, <2>1 DEF Reads, FreePages
  <2>3. r.st = q.st /\ r.ok = q.ok /\ r.bad = (f.bad \/ q.bad)
    BY <1>3 DEF Done
  <2>4. CASE FreePages(st) = {}
    <3>1. q.st = f.st /\ q.ok = FALSE /\ q.bad = FALSE
      BY <1>3, <2>2, <2>4 DEF Done
    <3> QED BY <2>1, <2>3, <2>4, <3>1 DEF Reads, Stays
  <2>5. CASE FreePages(st) # {}
    <3> DEFINE bits == Page(st, 1) \cup {First(FreePages(st))}
               s == SetPage(f.st, 1, bits)
    <3>1. q \in FlushPage(s, 1)
      BY <1>3, <2>2, <2>5
    <3>2. bits \in Contents(1)
      <4>1. Page(st, 1) \in SUBSET (2..MaxPage)
        BY <1>1, PageIs, Kinds
      <4>2. First(FreePages(st)) \in 3..MaxPage
        BY <2>5, FirstFree
      <4>3. First(FreePages(st)) \in 2..MaxPage
        BY <4>2, Kinds
      <4> QED BY <4>1, <4>3, Kinds
    <3> HIDE DEF bits
    <3>3. /\ Opened(s) /\ s.file = f.st.file /\ s.h.root = f.st.h.root
          /\ 1 \in DOMAIN s.h.buf /\ Page(s, 1) = bits /\ Reads(f.st, s, {1})
      BY <1>1, <2>1, <3>2, SettingPage, SMTT(40)
    <3> HIDE DEF s
    <3>4. /\ Opened(q.st) /\ q.st.h.root = s.h.root
          /\ Reads(s, q.st, {}) /\ Stays(s, q.st, {1})
          /\ q.ok = TRUE /\ q.bad \in BOOLEAN
      BY <3>1, <3>3, FlushingPage
    <3>5. Page(q.st, 1) = bits
      BY <1>1, <3>3, <3>4 DEF Reads
    <3>6. Reads(st, q.st, {1}) /\ Stays(st, q.st, {1})
      BY <2>1, <3>3, <3>4 DEF Reads, Stays
    <3> QED BY <2>1, <2>3, <2>5, <3>3, <3>4, <3>5, <3>6 DEF bits
  <2> QED BY <2>4, <2>5
<1>4. \/ r \in Fetch(st, 1) /\ ~r.ok
      \/ \E f \in Fetch(st, 1) : f.ok /\
           \E q \in IF FreePages(f.st) = {} THEN {Done(f.st, FALSE, FALSE)}
                    ELSE FlushPage(SetPage(f.st, 1, Page(f.st, 1) \cup {First(FreePages(f.st))}), 1) :
              r = Done(q.st, q.ok, f.bad \/ q.bad)
  BY DEF AllocatePage, Then
<1> QED BY <1>2, <1>3, <1>4

\* free_page: it answers nothing, the page leaves the pool unwritten
LEMMA Freeing ==
    ASSUME NEW st, Opened(st), NEW p \in PageIds \ {0}, NEW r \in FreePage(st, p)
    PROVE  /\ Opened(r.st) /\ r.st.h.root = st.h.root
           /\ Reads(st, r.st, {1, p}) /\ Stays(st, r.st, {1})
           /\ r.ok = TRUE /\ r.bad \in BOOLEAN
<1>1. 1 \in PageIds \ {0} /\ 1 \in PageIds
  BY Kinds
<1> DEFINE Cleared == Then(Fetch(st, 1), LAMBDA s : FlushPage(SetPage(s, 1, Page(s, 1) \ {p}), 1))
<1>2. ASSUME NEW c \in Cleared
      PROVE  /\ Opened(c.st) /\ c.st.h.root = st.h.root
             /\ Reads(st, c.st, {1}) /\ Stays(st, c.st, {1})
             /\ c.ok \in BOOLEAN /\ c.bad \in BOOLEAN
  <2>1. \/ c \in Fetch(st, 1) /\ ~c.ok
        \/ \E f \in Fetch(st, 1) : f.ok /\
             \E q \in FlushPage(SetPage(f.st, 1, Page(f.st, 1) \ {p}), 1) :
                c = Done(q.st, q.ok, f.bad \/ q.bad)
    BY DEF Then
  <2>2. CASE c \in Fetch(st, 1) /\ ~c.ok
    <3>1. /\ Opened(c.st) /\ c.st.file = st.file /\ c.st.h.root = st.h.root
          /\ Reads(st, c.st, {}) /\ c.bad = TRUE /\ c.ok = FALSE
      BY <1>1, <2>2, Fetching
    <3> QED BY <3>1 DEF Reads, Stays
  <2>3. ASSUME NEW f \in Fetch(st, 1), f.ok,
               NEW q \in FlushPage(SetPage(f.st, 1, Page(f.st, 1) \ {p}), 1),
               c = Done(q.st, q.ok, f.bad \/ q.bad)
        PROVE  /\ Opened(c.st) /\ c.st.h.root = st.h.root
               /\ Reads(st, c.st, {1}) /\ Stays(st, c.st, {1})
               /\ c.ok \in BOOLEAN /\ c.bad \in BOOLEAN
    <3>1. /\ Opened(f.st) /\ f.st.file = st.file /\ f.st.h.root = st.h.root
          /\ Reads(st, f.st, {}) /\ f.bad = FALSE
      BY <1>1, <2>3, Fetching, ZenonT(60)
    <3> DEFINE bits == Page(f.st, 1) \ {p}
               s == SetPage(f.st, 1, bits)
    <3>2. bits \in Contents(1)
      BY <1>1, <3>1, PageIs, Kinds
    <3>3. q \in FlushPage(s, 1)
      BY <2>3
    <3> HIDE DEF bits
    <3>4. /\ Opened(s) /\ s.file = f.st.file /\ s.h.root = f.st.h.root
          /\ 1 \in DOMAIN s.h.buf /\ Reads(f.st, s, {1})
      BY <1>1, <3>1, <3>2, SettingPage
    <3> HIDE DEF s
    <3>5. /\ Opened(q.st) /\ q.st.h.root = s.h.root
          /\ Reads(s, q.st, {}) /\ Stays(s, q.st, {1})
          /\ q.ok = TRUE /\ q.bad \in BOOLEAN
      BY <3>3, <3>4, FlushingPage
    <3>6. Reads(st, q.st, {1}) /\ Stays(st, q.st, {1})
      BY <3>1, <3>4, <3>5 DEF Reads, Stays
    <3>7. c.st = q.st /\ c.ok = q.ok /\ c.bad = (f.bad \/ q.bad)
      BY <2>3 DEF Done
    <3> QED BY <3>1, <3>4, <3>5, <3>6, <3>7
  <2> HIDE DEF Cleared
  <2> QED BY <2>1, <2>2, <2>3
<1>3. PICK m \in Then(Cleared, LAMBDA s : {Done(Forgotten(s, p), TRUE, FALSE)}) :
        r = Done(m.st, TRUE, m.bad)
  BY DEF FreePage
<1>4. r.st = m.st /\ r.ok = TRUE /\ r.bad = m.bad
  BY <1>3 DEF Done
<1> HIDE DEF Cleared
<1>5. \/ m \in Cleared /\ ~m.ok
      \/ \E c \in Cleared : c.ok /\ m = Done(Forgotten(c.st, p), TRUE, c.bad \/ FALSE)
  <2>1. \/ m \in Cleared /\ ~m.ok
        \/ \E c \in Cleared : c.ok /\ \E q \in {Done(Forgotten(c.st, p), TRUE, FALSE)} :
              m = Done(q.st, q.ok, c.bad \/ q.bad)
    BY <1>3 DEF Then
  <2>2. ASSUME NEW c \in Cleared, NEW q, q = Done(Forgotten(c.st, p), TRUE, FALSE),
               m = Done(q.st, q.ok, c.bad \/ q.bad)
        PROVE  m = Done(Forgotten(c.st, p), TRUE, c.bad \/ FALSE)
    <3>1. q.st = Forgotten(c.st, p) /\ q.ok = TRUE /\ q.bad = FALSE
      BY <2>2 DEF Done
    <3> QED BY <2>2, <3>1
  <2> QED BY <2>1, <2>2
<1>6. CASE m \in Cleared /\ ~m.ok
  BY <1>2, <1>4, <1>6, ZenonT(60) DEF Reads, Stays
<1>7. ASSUME NEW c \in Cleared, m = Done(Forgotten(c.st, p), TRUE, c.bad \/ FALSE)
      PROVE  /\ Opened(r.st) /\ r.st.h.root = st.h.root
             /\ Reads(st, r.st, {1, p}) /\ Stays(st, r.st, {1})
             /\ r.ok = TRUE /\ r.bad \in BOOLEAN
  <2> DEFINE s == Forgotten(c.st, p)
  <2>1. m.st = s /\ m.bad = (c.bad \/ FALSE)
    BY <1>7 DEF Done
  <2>2. /\ Opened(c.st) /\ c.st.h.root = st.h.root
        /\ Reads(st, c.st, {1}) /\ Stays(st, c.st, {1}) /\ c.bad \in BOOLEAN
    BY <1>2
  <2>3. Opened(s) /\ s.file = c.st.file /\ s.h.root = c.st.h.root /\ Reads(c.st, s, {p})
    BY <2>2, Forgetting
  <2> HIDE DEF s
  <2>4. Reads(st, s, {1, p}) /\ Stays(st, s, {1})
    BY <2>2, <2>3 DEF Reads, Stays
  <2> QED BY <1>4, <2>1, <2>2, <2>3, <2>4
<1> QED BY <1>5, <1>6, <1>7

-----------------------------------------------------------------------------
(* What a reader finds in an open table, and the calls that change it      *)

\* the root page is marked in the bitmap the pool shows
RootMarked(st) == st.h.root >= 3 => st.h.root \in Page(st, 1)

LEMMA EmptyLeaf ==
    /\ Leaf \in Maps
    /\ \A k \in Keys : Leaf[k] = NoValue
    /\ \A m \in Maps, k \in Keys, v \in Values \cup {NoValue} : [m EXCEPT ![k] = v] \in Maps
BY DEF Leaf, Maps

LEMMA ThroughOpened ==
    ASSUME NEW st, Opened(st)
    PROVE  /\ Through(st) \in Maps \cup {Broken}
           /\ st.h.root = 0 => Through(st) = Leaf
           /\ st.h.root # 0 =>
                 /\ st.h.root \in 2..MaxPage /\ st.h.root \in PageIds \ {0, 1}
                 /\ Page(st, st.h.root) \in Maps \cup {Blank}
                 /\ Through(st) = IF Page(st, st.h.root) = Blank THEN Broken
                                                                ELSE Page(st, st.h.root)
           /\ \A k \in Keys :
                 Find(st, k) = IF Through(st) \in Maps THEN Through(st)[k] ELSE NoValue
<1>1. st.h # NoTable /\ st.file # NoTable /\ st.h.root \in {0} \cup (2..MaxPage)
  BY OpenedFacts, Kinds
<1>2. Through(st) = IF st.h.root = 0 THEN Leaf
                    ELSE IF Page(st, st.h.root) = Blank THEN Broken ELSE Page(st, st.h.root)
  BY <1>1 DEF Through
<1>3. CASE st.h.root = 0
  BY <1>2, <1>3, EmptyLeaf DEF Find
<1>4. CASE st.h.root # 0
  <2>1. st.h.root \in 2..MaxPage /\ st.h.root \in PageIds \ {0, 1}
    BY <1>1, <1>4, Kinds
  <2>2. Page(st, st.h.root) \in Maps \cup {Blank}
    BY <2>1, PageIs, Kinds
  <2> QED BY <1>2, <1>4, <2>1, <2>2, MarkAssumption DEF Find
<1> QED BY <1>3, <1>4

LEMMA ThroughSame ==
    ASSUME NEW st, Opened(st), NEW s, Opened(s), s.h.root = st.h.root,
           NEW P, Reads(st, s, P), st.h.root \notin P \/ st.h.root = 0
    PROVE  Through(s) = Through(st)
<1>1. CASE st.h.root = 0
  BY <1>1, ThroughOpened
<1>2. CASE st.h.root # 0
  <2>1. st.h.root \in PageIds
    BY <1>2, ThroughOpened
  <2>2. Page(s, s.h.root) = Page(st, st.h.root)
    BY <1>2, <2>1 DEF Reads
  <2> QED BY <1>2, <2>2, ThroughOpened
<1> QED BY <1>1, <1>2

\* a leaf page that is not the old root becomes the root
LEMMA ThroughLeaf ==
    ASSUME NEW s, Opened(s), s.h.root # 0, Page(s, s.h.root) \in Maps
    PROVE  Through(s) = Page(s, s.h.root)
BY ThroughOpened, MarkAssumption

\* an outcome of a call: the table stays open and of its file at most the
\* bitmap page is written
Outcome(st, r) == /\ Opened(r.st) /\ Stays(st, r.st, {1})
                  /\ r.ok \in BOOLEAN /\ r.bad \in BOOLEAN
                  /\ ~r.bad /\ RootMarked(st) => RootMarked(r.st)

LEMMA MarkedSame ==
    ASSUME NEW st, NEW s, s.h.root = st.h.root, Page(s, 1) = Page(st, 1)
    PROVE  RootMarked(st) => RootMarked(s)
BY DEF RootMarked

LEMMA Reaching ==
    ASSUME NEW st, Opened(st), NEW r \in Reach(st)
    PROVE  /\ Outcome(st, r) /\ r.st.h.root = st.h.root /\ Reads(st, r.st, {})
           /\ Through(r.st) = Through(st) /\ r.ok = ~r.bad
<1>1. CASE st.h.root = 0
  <2>1. r.st = st /\ r.ok = TRUE /\ r.bad = FALSE
    BY <1>1 DEF Reach, Done
  <2> QED BY <2>1 DEF Outcome, Stays, Reads
<1>2. CASE st.h.root # 0
  <2>1. r \in Fetch(st, st.h.root) /\ st.h.root \in PageIds
    BY <1>2, ThroughOpened DEF Reach
  <2>2. /\ Opened(r.st) /\ r.st.file = st.file /\ r.st.h.root = st.h.root
        /\ Reads(st, r.st, {}) /\ r.ok = ~r.bad /\ r.bad \in BOOLEAN
    BY <2>1, Fetching
  <2>3. Through(r.st) = Through(st)
    BY <2>2, ThroughSame
  <2>4. Page(r.st, 1) = Page(st, 1)
    BY <2>2, Kinds DEF Reads
  <2> QED BY <2>2, <2>3, <2>4, MarkedSame DEF Outcome, Stays
<1> QED BY <1>1, <1>2

\* s is st with the leaf m as its root page p, which the bitmap has
LEMMA RootingLeaf ==
    ASSUME NEW st, Opened(st), NEW p \in 3..MaxPage, p \in Page(st, 1),
           NEW k \in Keys, NEW v \in Values, NEW s, s = NewRoot(st, p, k, v)
    PROVE  /\ Opened(s) /\ s.file = st.file /\ RootMarked(s)
           /\ Through(s) = [Leaf EXCEPT ![k] = v]
<1> DEFINE m == [Leaf EXCEPT ![k] = v]
           q == SetRoot(st, p)
<1>1. p \in PageIds \ {0} /\ p \in Contents(0) /\ p \in 2..MaxPage /\ m \in Maps /\ m \in Contents(p)
  <2>1. p \in PageIds \ {0} /\ p \in Contents(0) /\ p \in 2..MaxPage
    BY Kinds
  <2>2. m \in Maps
    BY EmptyLeaf
  <2> QED BY <2>1, <2>2, Kinds
<1>2. s = SetPage(q, p, m)
  BY DEF NewRoot
<1> HIDE DEF m
<1>3. Opened(q) /\ q.file = st.file /\ q.h.root = p /\ Reads(st, q, {0})
  BY <1>1, SettingRoot
<1> HIDE DEF q
<1>4. /\ Opened(s) /\ s.file = q.file /\ s.h.root = p
      /\ Page(s, p) = m /\ Reads(q, s, {p})
  BY <1>1, <1>2, <1>3, SettingPage
<1>5. Page(s, 1) = Page(st, 1)
  BY <1>3, <1>4, Kinds DEF Reads
<1>6. RootMarked(s)
  BY <1>4, <1>5 DEF RootMarked
<1>7. Through(s) = m
  BY <1>1, <1>4, ThroughLeaf
<1> QED BY <1>3, <1>4, <1>6, <1>7 DEF m

\* the root leaf of st becomes m
Rewritten(st, m, s) ==
    /\ Opened(s) /\ s.file = st.file /\ s.h.root = st.h.root
    /\ Through(s) = m /\ Page(s, s.h.root) = m
    /\ Reads(st, s, {st.h.root}) /\ (RootMarked(st) => RootMarked(s))

LEMMA RewritingLeaf ==
    ASSUME NEW st, Opened(st), st.h.root # 0, NEW m \in Maps
    PROVE  Rewritten(st, m, SetPage(st, st.h.root, m))
<1> DEFINE p == st.h.root
           s == SetPage(st, p, m)
<1>1. /\ p \in PageIds \ {0, 1} /\ p \in PageIds \ {0} /\ p \in 2..MaxPage
      /\ m \in Contents(p)
  BY ThroughOpened, Kinds
<1> HIDE DEF p, s
<1>2. /\ Opened(s) /\ s.file = st.file /\ s.h.root = st.h.root
      /\ Page(s, p) = m /\ Reads(st, s, {p})
  BY <1>1, SettingPage DEF s
<1>3. Page(s, 1) = Page(st, 1)
  BY <1>1, <1>2, Kinds DEF Reads
<1>4. Through(s) = m
  BY <1>1, <1>2, ThroughLeaf DEF p
<1>5. RootMarked(st) => RootMarked(s)
  BY <1>2, <1>3, MarkedSame
<1> QED BY <1>2, <1>4, <1>5 DEF p, s, Rewritten

Inserted(st, k, v, r) ==
    /\ Outcome(st, r)
    /\ r.ok => /\ Through(st) \in Maps /\ Through(st)[k] = NoValue
               /\ Through(r.st) = [Through(st) EXCEPT ![k] = v]
    /\ ~r.ok => /\ Through(r.st) = Through(st)
                /\ \/ r.bad \/ Through(st) = Broken \/ Through(st) = Leaf
                   \/ Through(st) \in Maps /\ Through(st)[k] # NoValue

LEMMA InsertOutcome ==
    ASSUME NEW st, Opened(st), NEW k \in Keys, NEW v \in Values, NEW r \in Insert(st, k, v)
    PROVE  Inserted(st, k, v, r)
<1>1. CASE st.h.root = 0
  <2> DEFINE p == First(FreePages(st))
  <2>1. Through(st) = Leaf
    BY <1>1, ThroughOpened
  <2>2. \/ r \in AllocatePage(st) /\ ~r.ok
        \/ \E a \in AllocatePage(st) : a.ok /\
              \E q \in {Done(NewRoot(a.st, p, k, v), TRUE, FALSE)} :
                 r = Done(q.st, q.ok, a.bad \/ q.bad)
    BY <1>1 DEF Insert, Then
  <2>3. CASE r \in AllocatePage(st) /\ ~r.ok
    <3>1. /\ Opened(r.st) /\ r.st.h.root = st.h.root
          /\ Stays(st, r.st, {1}) /\ r.bad \in BOOLEAN /\ r.ok \in BOOLEAN
          /\ Reads(st, r.st, {})
      BY <2>3, Allocating
    <3>2. Through(r.st) = Through(st)
      BY <3>1, ThroughSame
    <3>3. Page(r.st, 1) = Page(st, 1)
      BY <3>1, Kinds DEF Reads
    <3> QED BY <2>1, <2>3, <3>1, <3>2, <3>3, MarkedSame DEF Inserted, Outcome
  <2>4. ASSUME NEW a \in AllocatePage(st), a.ok, NEW q, q = Done(NewRoot(a.st, p, k, v), TRUE, FALSE),
               r = Done(q.st, q.ok, a.bad \/ q.bad)
        PROVE  Inserted(st, k, v, r)
    <3>1. /\ Opened(a.st) /\ a.st.h.root = st.h.root
          /\ Stays(st, a.st, {1}) /\ a.bad \in BOOLEAN
          /\ FreePages(st) # {} /\ Page(a.st, 1) = Page(st, 1) \cup {p}
      BY <2>4, Allocating
    <3> DEFINE s == NewRoot(a.st, p, k, v)
    <3>2. p \in 3..MaxPage /\ p \in Page(a.st, 1)
      BY <3>1, FirstFree
    <3>3. r.st = s /\ r.ok = TRUE /\ r.bad = (a.bad \/ FALSE)
      BY <2>4 DEF Done
    <3> HIDE DEF p
    <3>4. Opened(s) /\ s.file = a.st.file /\ RootMarked(s) /\ Through(s) = [Leaf EXCEPT ![k] = v]
      BY <3>1, <3>2, RootingLeaf
    <3> HIDE DEF s
    <3>5. Stays(st, s, {1})
      BY <3>1, <3>4 DEF Stays
    <3> QED BY <2>1, <3>1, <3>3, <3>4, <3>5, EmptyLeaf DEF Inserted, Outcome
  <2> QED BY <2>2, <2>3, <2>4
<1>2. CASE st.h.root # 0
  <2>1. \/ r \in Reach(st) /\ ~r.ok
        \/ \E a \in Reach(st) : a.ok /\
              \E q \in IF Page(a.st, a.st.h.root) = Blank \/ Find(a.st, k) # NoValue
                       THEN {Done(a.st, FALSE, FALSE)}
                       ELSE {Done(SetPage(a.st, a.st.h.root, [Page(a.st, a.st.h.root) EXCEPT ![k] = v]), TRUE, FALSE)} :
                 r = Done(q.st, q.ok, a.bad \/ q.bad)
    BY <1>2 DEF Insert, Then
  <2>2. CASE r \in Reach(st) /\ ~r.ok
    <3>1. Outcome(st, r) /\ Through(r.st) = Through(st) /\ r.bad
      BY <2>2, Reaching DEF Outcome
    <3> QED BY <2>2, <3>1 DEF Inserted
  <2>3. ASSUME NEW a \in Reach(st), a.ok,
               NEW q \in IF Page(a.st, a.st.h.root) = Blank \/ Find(a.st, k) # NoValue
                         THEN {Done(a.st, FALSE, FALSE)}
                         ELSE {Done(SetPage(a.st, a.st.h.root, [Page(a.st, a.st.h.root) EXCEPT ![k] = v]), TRUE, FALSE)},
               r = Done(q.st, q.ok, a.bad \/ q.bad)
        PROVE  Inserted(st, k, v, r)
    <3> DEFINE root == Page(a.st, a.st.h.root)
    <3>1. /\ Outcome(st, a) /\ a.st.h.root = st.h.root /\ Through(a.st) = Through(st)
          /\ a.bad = FALSE /\ Opened(a.st) /\ Stays(st, a.st, {1})
      BY <2>3, Reaching DEF Outcome
    <3>2. /\ root \in Maps \cup {Blank}
          /\ Through(st) = IF root = Blank THEN Broken ELSE root
          /\ Find(a.st, k) = IF Through(st) \in Maps THEN Through(st)[k] ELSE NoValue
      BY <1>2, <3>1, ThroughOpened
    <3>3. r.st = q.st /\ r.ok = q.ok /\ r.bad = (FALSE \/ q.bad)
      BY <2>3, <3>1 DEF Done
    <3>4. CASE root = Blank \/ Find(a.st, k) # NoValue
      <4>1. q.st = a.st /\ q.ok = FALSE /\ q.bad = FALSE
        BY <2>3, <3>4 DEF Done
      <4> QED BY <3>1, <3>2, <3>3, <3>4, <4>1 DEF Inserted, Outcome
    <3>5. CASE ~(root = Blank \/ Find(a.st, k) # NoValue)
      <4> DEFINE m == [root EXCEPT ![k] = v]
                 s == SetPage(a.st, a.st.h.root, m)
      <4>1. q.st = s /\ q.ok = TRUE /\ q.bad = FALSE
        BY <2>3, <3>5 DEF Done
      <4>2. m \in Maps
        BY <3>2, <3>5, EmptyLeaf
      <4>3. Through(st) = root /\ root \in Maps /\ root[k] = NoValue
        BY <3>2, <3>5
      <4> HIDE DEF m, root
      <4>4. /\ Opened(s) /\ s.file = a.st.file /\ Through(s) = m
            /\ (RootMarked(a.st) => RootMarked(s))
        <5>1. Opened(a.st) /\ a.st.h.root # 0
          BY <1>2, <3>1
        <5>2. Rewritten(a.st, m, s)
          BY <4>2, <5>1, RewritingLeaf
        <5> HIDE DEF s
        <5> QED BY <5>2 DEF Rewritten
      <4> HIDE DEF s
      <4>5. Stays(st, s, {1})
        BY <3>1, <4>4 DEF Stays
      <4> QED BY <3>1, <3>3, <4>1, <4>3, <4>4, <4>5 DEF Inserted, Outcome, m
    <3> QED BY <3>4, <3>5
  <2> QED BY <2>1, <2>2, <2>3
<1> QED BY <1>1, <1>2

Deleted(st, k, r) ==
    /\ Outcome(st, r)
    /\ r.ok => /\ Through(st) \in Maps /\ Through(st)[k] # NoValue
               /\ Through(r.st) = [Through(st) EXCEPT ![k] = NoValue]
    /\ ~r.ok => /\ Through(r.st) = Through(st)
                /\ r.bad \/ ~(Through(st) \in Maps /\ Through(st)[k] # NoValue)

\* the table of st is left without a page: its root was the empty leaf p
LEMMA Emptying ==
    ASSUME NEW st, Opened(st), NEW p \in PageIds \ {0, 1}, NEW r \in FreePage(SetRoot(st, 0), p)
    PROVE  /\ Opened(r.st) /\ Stays(st, r.st, {1}) /\ RootMarked(r.st)
           /\ Through(r.st) = Leaf /\ r.ok = TRUE /\ r.bad \in BOOLEAN
<1> DEFINE s == SetRoot(st, 0)
<1>1. 0 \in Contents(0) /\ p \in PageIds \ {0}
  BY Kinds
<1>2. Opened(s) /\ s.file = st.file /\ s.h.root = 0
  BY <1>1, SettingRoot
<1>3. r \in FreePage(s, p)
  OBVIOUS
<1> HIDE DEF s
<1>4. /\ Opened(r.st) /\ r.st.h.root = s.h.root /\ Stays(s, r.st, {1})
      /\ r.ok = TRUE /\ r.bad \in BOOLEAN
  BY <1>1, <1>2, <1>3, Freeing, ZenonT(60)
<1>5. Through(r.st) = Leaf
  BY <1>2, <1>4, ThroughOpened
<1>6. RootMarked(r.st)
  BY <1>2, <1>4 DEF RootMarked
<1> QED BY <1>2, <1>4, <1>5, <1>6 DEF Stays

LEMMA DeleteOutcome ==
    ASSUME NEW st, Opened(st), NEW k \in Keys, NEW r \in Delete(st, k)
    PROVE  Deleted(st, k, r)
<1> DEFINE Left(s) == SetPage(s, s.h.root, [Page(s, s.h.root) EXCEPT ![k] = NoValue])
           Rest(s) == IF Find(s, k) = NoValue THEN {Done(s, FALSE, FALSE)}
                      ELSE IF Page(Left(s), s.h.root) # Leaf THEN {Done(Left(s), TRUE, FALSE)}
                      ELSE FreePage(SetRoot(Left(s), 0), s.h.root)
<1>1. \/ r \in Reach(st) /\ ~r.ok
      \/ \E a \in Reach(st) : a.ok /\ \E q \in Rest(a.st) : r = Done(q.st, q.ok, a.bad \/ q.bad)
  BY ZenonT(60) DEF Delete, Then
<1>2. CASE r \in Reach(st) /\ ~r.ok
  <2>1. Outcome(st, r) /\ Through(r.st) = Through(st) /\ r.bad
    BY <1>2, Reaching DEF Outcome
  <2> QED BY <1>2, <2>1 DEF Deleted
<1>3. ASSUME NEW a \in Reach(st), a.ok, NEW q \in Rest(a.st), r = Done(q.st, q.ok, a.bad \/ q.bad)
      PROVE  Deleted(st, k, r)
  <2> DEFINE s == a.st
             p == s.h.root
             left == Left(s)
  <2>1. /\ Outcome(st, a) /\ p = st.h.root /\ Through(s) = Through(st)
        /\ a.bad = FALSE /\ Opened(s) /\ Stays(st, s, {1})
    BY <1>3, Reaching DEF Outcome
  <2>2. r.st = q.st /\ r.ok = q.ok /\ r.bad = (FALSE \/ q.bad)
    BY <1>3, <2>1 DEF Done
  <2>3. Find(s, k) = IF Through(st) \in Maps THEN Through(st)[k] ELSE NoValue
    BY <2>1, ThroughOpened
  <2>4. CASE Find(s, k) = NoValue
    <3>1. q.st = s /\ q.ok = FALSE /\ q.bad = FALSE
      BY <1>3, <2>4 DEF Done
    <3> QED BY <2>1, <2>2, <2>3, <2>4, <3>1 DEF Deleted, Outcome
  <2>5. CASE Find(s, k) # NoValue
    <3> DEFINE old == Page(s, p)
               m == [old EXCEPT ![k] = NoValue]
    <3>1. p # 0
      BY <2>5 DEF Find
    <3>2. Through(st) = old /\ old \in Maps /\ old[k] # NoValue
      BY <2>1, <2>3, <2>5, <3>1, ThroughOpened, MarkAssumption DEF Find
    <3>3. m \in Maps
      BY <3>2, EmptyLeaf
    <3>4. left = SetPage(s, s.h.root, m)
      OBVIOUS
    <3> HIDE DEF m, old, left
    <3>5. Rewritten(s, m, left)
      BY <2>1, <3>1, <3>3, <3>4, RewritingLeaf
    <3>6. /\ Opened(left) /\ left.file = s.file /\ left.h.root = p /\ Through(left) = m
          /\ Page(left, p) = m /\ (RootMarked(s) => RootMarked(left))
      BY <3>5 DEF Rewritten
    <3>7. CASE m # Leaf
      <4>1. q \in {Done(left, TRUE, FALSE)}
        BY <1>3, <2>5, <3>6, <3>7 DEF left
      <4>2. q.st = left /\ q.ok = TRUE /\ q.bad = FALSE
        BY <4>1 DEF Done
      <4>3. Stays(st, left, {1})
        BY <2>1, <3>6 DEF Stays
      <4> QED BY <2>1, <2>2, <3>2, <3>6, <4>2, <4>3 DEF Deleted, Outcome, m
    <3>8. CASE m = Leaf
      <4>1. q \in FreePage(SetRoot(left, 0), p) /\ p \in PageIds \ {0, 1}
        BY <1>3, <2>1, <2>5, <3>1, <3>6, <3>8, ThroughOpened DEF left
      <4> HIDE DEF p, s
      <4>2. /\ Opened(q.st) /\ Stays(left, q.st, {1}) /\ RootMarked(q.st)
            /\ Through(q.st) = Leaf /\ q.ok = TRUE /\ q.bad \in BOOLEAN
        BY <3>6, <4>1, Emptying
      <4>3. Stays(st, q.st, {1})
        BY <2>1, <3>6, <4>2 DEF Stays
      <4> QED BY <2>2, <3>2, <3>8, <4>2, <4>3 DEF Deleted, Outcome, m
    <3> QED BY <3>7, <3>8
  <2> QED BY <2>4, <2>5
<1> HIDE DEF Rest
<1> QED BY <1>1, <1>2, <1>3

Updated(st, k, v, r) ==
    /\ Outcome(st, r)
    /\ r.ok => /\ Through(st) \in Maps /\ Through(st)[k] # NoValue
               /\ Through(r.st) = [Through(st) EXCEPT ![k] = v]
    /\ ~r.ok => \/ /\ Through(r.st) = Through(st)
                   /\ r.bad \/ ~(Through(st) \in Maps /\ Through(st)[k] # NoValue)
                \/ /\ Through(st) \in Maps /\ Through(st)[k] # NoValue
                   /\ Through(r.st) = [Through(st) EXCEPT ![k] = NoValue]
                   /\ r.bad \/ Through(r.st) = Leaf

LEMMA UpdateOutcome ==
    ASSUME NEW st, Opened(st), NEW k \in Keys, NEW v \in Values, NEW r \in Update(st, k, v)
    PROVE  Updated(st, k, v, r)
<1>1. \/ r \in Delete(st, k) /\ ~r.ok
      \/ \E d \in Delete(st, k) : d.ok /\ \E q \in Insert(d.st, k, v) :
            r = Done(q.st, q.ok, d.bad \/ q.bad)
  BY DEF Update, Then
<1>2. CASE r \in Delete(st, k) /\ ~r.ok
  <2>1. Deleted(st, k, r)
    BY <1>2, DeleteOutcome
  <2> QED BY <1>2, <2>1 DEF Deleted, Updated
<1>3. ASSUME NEW d \in Delete(st, k), d.ok, NEW q \in Insert(d.st, k, v),
             r = Done(q.st, q.ok, d.bad \/ q.bad)
      PROVE  Updated(st, k, v, r)
  <2> DEFINE m == Through(st)
             e == [m EXCEPT ![k] = NoValue]
  <2>1. Deleted(st, k, d)
    BY DeleteOutcome
  <2>2. Outcome(st, d) /\ Opened(d.st) /\ m \in Maps /\ m[k] # NoValue /\ Through(d.st) = e
    BY <1>3, <2>1 DEF Deleted, Outcome
  <2>3. Inserted(d.st, k, v, q)
    BY <2>2, InsertOutcome
  <2>4. r.st = q.st /\ r.ok = q.ok /\ r.bad = (d.bad \/ q.bad)
    BY <1>3 DEF Done
  <2>5. Outcome(st, r)
    BY <2>2, <2>3, <2>4 DEF Inserted, Outcome, Stays
  <2>6. e \in Maps /\ e[k] = NoValue /\ [e EXCEPT ![k] = v] = [m EXCEPT ![k] = v]
    <3>1. e \in Maps
      BY <2>2, EmptyLeaf
    <3>2. e[k] = NoValue /\ [e EXCEPT ![k] = v] = [m EXCEPT ![k] = v]
      BY <2>2 DEF Maps
    <3> QED BY <3>1, <3>2
  <2> HIDE DEF m, e
  <2>7. ASSUME q.ok PROVE Through(q.st) = [m EXCEPT ![k] = v]
    BY <2>2, <2>3, <2>6, <2>7 DEF Inserted
  <2>8. ASSUME ~q.ok PROVE Through(q.st) = e /\ (q.bad \/ e = Leaf)
    <3>1. /\ Through(q.st) = e
          /\ \/ q.bad \/ e = Broken \/ e = Leaf
             \/ e \in Maps /\ e[k] # NoValue
      BY <2>2, <2>3, <2>8 DEF Inserted
    <3> QED BY <2>6, <3>1, MarkAssumption
  <2> QED BY <2>2, <2>4, <2>5, <2>7, <2>8 DEF Updated, m, e
<1> QED BY <1>1, <1>2, <1>3

-----------------------------------------------------------------------------
(* Tables that open, close and are created                                 *)

\* what a reader would find if the process were killed now
Kept(st) == Through(State(st.file, NoTable))
\* a root pointer in the file names a page its bitmap has
FileMarked(st) == st.file # NoTable /\ st.file[0] >= 3 => st.file[0] \in st.file[1]
Marked(st) == IF st.h = NoTable THEN FileMarked(st) ELSE RootMarked(st)

LEMMA ThroughFile ==
    ASSUME NEW f \in Files
    PROVE  /\ f[0] \in {0} \cup (2..MaxPage) /\ f[1] \in SUBSET (2..MaxPage)
           /\ f[0] # 0 => f[0] \in PageIds \ {0, 1} /\ f[f[0]] \in Maps \cup {Blank}
           /\ Through(State(f, NoTable)) \in Maps \cup {Broken}
           /\ Through(State(f, NoTable)) =
                 IF f[0] = 0 THEN Leaf ELSE IF f[f[0]] = Blank THEN Broken ELSE f[f[0]]
<1>1. f[0] \in {0} \cup (2..MaxPage) /\ f[1] \in SUBSET (2..MaxPage)
  BY FileFacts, Kinds
<1>2. f[0] # 0 => f[0] \in PageIds \ {0, 1} /\ f[f[0]] \in Maps \cup {Blank}
  BY <1>1, FileFacts, Kinds
<1>3. f # NoTable
  BY FileFacts
<1>4. Through(State(f, NoTable)) =
        IF f[0] = 0 THEN Leaf ELSE IF f[f[0]] = Blank THEN Broken ELSE f[f[0]]
  BY <1>3 DEF Through, State, Page
<1> QED BY <1>1, <1>2, <1>4, EmptyLeaf

LEMMA ThroughShut ==
    ASSUME NEW st, Shut(st)
    PROVE  /\ Through(st) = Kept(st) /\ Through(st) \in Maps \cup {Broken, NoTable}
           /\ Through(st) = NoTable <=> st.file = NoTable
<1>1. st.h = NoTable /\ st.file \in Files \cup {NoTable} /\ st = State(st.file, NoTable)
  BY ShutFacts
<1>2. Through(st) = Kept(st)
  BY <1>1 DEF Kept
<1>3. CASE st.file = NoTable
  BY <1>2, <1>3 DEF Through
<1>4. CASE st.file \in Files
  BY <1>1, <1>2, <1>4, ThroughFile, FileFacts, MarkAssumption DEF Kept
<1> QED BY <1>1, <1>2, <1>3, <1>4

LEMMA ThroughSound ==
    ASSUME NEW st, Sound(st)
    PROVE  /\ Through(st) \in Maps \cup {Broken, NoTable}
           /\ Through(st) = NoTable <=> st.file = NoTable
           /\ st = State(st.file, st.h)
           /\ st.h = NoTable => Shut(st)
           /\ st.h # NoTable => Opened(st)
<1>1. CASE Opened(st)
  <2>1. st.h # NoTable /\ st.file # NoTable
    BY <1>1, OpenedFacts
  <2>2. st = State(st.file, st.h)
    <3>1. PICK f, h : st = State(f, h)
      BY <1>1 DEF Opened
    <3> QED BY <3>1 DEF State
  <2> QED BY <1>1, <2>1, <2>2, ThroughOpened, MarkAssumption
<1>2. CASE Shut(st)
  BY <1>2, ThroughShut, ShutFacts
<1> QED BY <1>1, <1>2 DEF Sound

\* the bitmap page is no root: writing it does not change what is kept
LEMMA KeptSame ==
    ASSUME NEW st, Opened(st), NEW s, Opened(s), Stays(st, s, {1})
    PROVE  Kept(s) = Kept(st)
<1> DEFINE f == st.file
           g == s.file
<1>1. f \in Files /\ g \in Files
  BY OpenedFacts
<1>2. \A p \in PageIds \ {1} : g[p] = f[p]
  BY DEF Stays
<1>3. g[0] = f[0]
  BY <1>2, Kinds
<1>4. f[0] # 0 => g[f[0]] = f[f[0]]
  BY <1>1, <1>2, ThroughFile
<1> HIDE DEF f, g
<1>5. Through(State(g, NoTable)) = Through(State(f, NoTable))
  BY <1>1, <1>3, <1>4, ThroughFile
<1> QED BY <1>5 DEF Kept, f, g

\* some of the dirty pages are written; where all are, the file is the table
LEMMA FlushOutcome ==
    ASSUME NEW st, Opened(st), NEW W \in SUBSET st.h.dirty
    PROVE  /\ Opened(Written(st, W)) /\ Through(Written(st, W)) = Through(st)
           /\ RootMarked(st) => RootMarked(Written(st, W))
           /\ W = st.h.dirty =>
                 /\ Kept(Written(st, W)) = Through(st)
                 /\ RootMarked(st) => FileMarked(Written(st, W))
<1> DEFINE s == Written(st, W)
<1>1. W \subseteq DOMAIN st.h.buf
  BY OpenedFacts DEF InPool
<1>2. /\ Opened(s) /\ s.h.root = st.h.root /\ Reads(st, s, {})
      /\ \A p \in PageIds : s.file[p] = IF p \in W THEN Page(st, p) ELSE st.file[p]
  BY <1>1, Writing
<1> HIDE DEF s
<1>3. Through(s) = Through(st)
  BY <1>2, ThroughSame
<1>4. RootMarked(st) => RootMarked(s)
  <2>1. Page(s, 1) = Page(st, 1)
    BY <1>2, Kinds DEF Reads
  <2> QED BY <1>2, <2>1, MarkedSame
<1>5. ASSUME W = st.h.dirty
      PROVE  Kept(s) = Through(st) /\ (RootMarked(st) => FileMarked(s))
  <2> DEFINE f == s.file
             root == st.h.root
  <2>1. \A p \in PageIds : f[p] = Page(st, p)
    BY <1>2, <1>5, PageIs
  <2>2. f \in Files /\ f[0] = root /\ f[1] = Page(st, 1)
    BY <1>2, <2>1, OpenedFacts, PageIs, Kinds
  <2>3. Through(State(f, NoTable)) =
          IF root = 0 THEN Leaf ELSE IF f[root] = Blank THEN Broken ELSE f[root]
    <3> HIDE DEF f
    <3> QED BY <2>2, ThroughFile
  <2>4. root # 0 => f[root] = Page(st, root)
    BY <2>1, ThroughOpened
  <2>5. Through(st) = IF root = 0 THEN Leaf ELSE IF Page(st, root) = Blank THEN Broken ELSE Page(st, root)
    BY ThroughOpened
  <2>6. Kept(s) = Through(st)
    BY <2>3, <2>4, <2>5 DEF Kept
  <2> QED BY <2>2, <2>6 DEF RootMarked, FileMarked
<1> QED BY <1>2, <1>3, <1>4, <1>5 DEF s

LEMMA ClosedOutcome ==
    ASSUME NEW st, Opened(st), NEW r \in Closed(st)
    PROVE  /\ Shut(r.st) /\ r.st.file # NoTable /\ r.ok = TRUE /\ r.bad \in BOOLEAN
           /\ ~r.bad => Through(r.st) = Through(st)
           /\ ~r.bad /\ RootMarked(st) => FileMarked(r.st)
<1>1. PICK W \in SUBSET st.h.dirty :
        LET q == Done(Written(st, W), TRUE, W # st.h.dirty)
        IN  r = Done([q.st EXCEPT !.h = NoTable], TRUE, q.bad)
  BY DEF Closed, Flush
<1> DEFINE s == Written(st, W)
<1>2. r = Done([s EXCEPT !.h = NoTable], TRUE, W # st.h.dirty)
  BY <1>1 DEF Done
<1>3. /\ Opened(s)
      /\ W = st.h.dirty => /\ Kept(s) = Through(st)
                           /\ RootMarked(st) => FileMarked(s)
  BY FlushOutcome
<1> HIDE DEF s
<1>4. s = State(s.file, Handle(s.h.root, s.h.buf, s.h.dirty)) /\ s.file \in Files /\ s.file # NoTable
  BY <1>3, OpenedFacts
<1>5. [s EXCEPT !.h = NoTable] = State(s.file, NoTable)
  BY <1>4 DEF State
<1>6. r.st = State(s.file, NoTable) /\ r.ok = TRUE /\ r.bad = (W # st.h.dirty)
  BY <1>2, <1>5 DEF Done
<1>7. Shut(r.st) /\ r.st.file = s.file
  BY <1>4, <1>6 DEF Shut, State
<1>8. Through(r.st) = Kept(s)
  BY <1>6 DEF Kept
<1> QED BY <1>3, <1>4, <1>6, <1>7, <1>8 DEF FileMarked

\* the files a creation can leave
LEMMA NewFiles ==
    ASSUME NEW root \in {0, 2}, NEW used \in {{}, {2}}, NEW leaf \in {Blank, Leaf}
    PROVE  /\ NewFile(root, used, leaf) \in Files
           /\ \A h : FileMarked(State(NewFile(root, used, leaf), h))
           /\ root = 0 => Through(State(NewFile(root, used, leaf), NoTable)) = Leaf
           /\ root = 2 /\ leaf = Leaf =>
                 Through(State(NewFile(root, used, leaf), NoTable)) = Leaf
<1> DEFINE f == NewFile(root, used, leaf)
<1>1. /\ f = [p \in PageIds |-> f[p]] /\ f[0] = root /\ f[1] = used /\ f[2] = leaf
      /\ \A p \in PageIds \ {0, 1, 2} : f[p] = Blank
  BY Kinds DEF NewFile
<1> HIDE DEF f
<1>2. ASSUME NEW p \in PageIds PROVE f[p] \in Contents(p)
  <2>1. CASE p = 0
    BY <1>1, <2>1, Kinds
  <2>2. CASE p = 1
    BY <1>1, <2>2, Kinds
  <2>3. CASE p \notin {0, 1}
    <3>1. p \in 2..MaxPage
      BY <2>3, Kinds
    <3>2. f[p] \in {Blank, Leaf}
      BY <1>1, <2>3
    <3> QED BY <3>1, <3>2, Kinds, EmptyLeaf
  <2> QED BY <2>1, <2>2, <2>3
<1>3. f \in Files
  BY <1>1, <1>2, MakeFile
<1>4. Through(State(f, NoTable)) =
        IF f[0] = 0 THEN Leaf ELSE IF f[f[0]] = Blank THEN Broken ELSE f[f[0]]
  BY <1>3, ThroughFile
<1>5. \A h : FileMarked(State(f, h))
  BY <1>1 DEF FileMarked, State
<1>6. Leaf # Blank
  BY EmptyLeaf, MarkAssumption
<1> QED BY <1>1, <1>3, <1>4, <1>5, <1>6 DEF f

OpenedTable(st, r) ==
    /\ IF r.ok THEN Opened(r.st) ELSE Shut(r.st)
    /\ r.ok = ~r.bad /\ r.bad \in BOOLEAN
    /\ r.st.file # NoTable
    /\ Through(r.st) = IF Through(st) = NoTable THEN Leaf ELSE Through(st)
    /\ Kept(r.st) = IF Through(st) = NoTable THEN Leaf ELSE Kept(st)
    /\ Marked(st) => Marked(r.st)

LEMMA OpenOutcome ==
    ASSUME NEW st, Sound(st), NEW r \in Open(st)
    PROVE  OpenedTable(st, r)
<1>1. CASE st.h # NoTable
  <2>1. r.st = st /\ r.ok = TRUE /\ r.bad = FALSE
    BY <1>1 DEF Open, Done
  <2>2. Opened(st) /\ st.file # NoTable /\ Through(st) # NoTable
    BY <1>1, ThroughSound, OpenedFacts
  <2> QED BY <2>1, <2>2 DEF OpenedTable
<1>2. CASE st.h = NoTable
  <2> DEFINE f == IF st.file = NoTable THEN NewFile(0, {}, Blank) ELSE st.file
             buf == [p \in {0} |-> f[0]]
             new == State(f, Handle(f[0], buf, {}))
  <2>1. /\ Shut(st) /\ st.file \in Files \cup {NoTable} /\ st = State(st.file, NoTable)
        /\ (Through(st) = NoTable <=> st.file = NoTable) /\ Through(st) = Kept(st)
    BY <1>2, ThroughSound, ShutFacts, ThroughShut
  <2>2. /\ NewFile(0, {}, Blank) \in Files
        /\ \A h : FileMarked(State(NewFile(0, {}, Blank), h))
        /\ Through(State(NewFile(0, {}, Blank), NoTable)) = Leaf
    BY NewFiles
  <2>3. f \in Files /\ f # NoTable
    BY <2>1, <2>2, FileFacts
  <2>4. Through(State(f, NoTable)) = IF Through(st) = NoTable THEN Leaf ELSE Through(st)
    BY <2>1, <2>2
  <2>5. FileMarked(st) => FileMarked(State(f, NoTable))
    <3>1. CASE st.file = NoTable
      BY <2>2, <3>1
    <3>2. CASE st.file # NoTable
      BY <2>1, <3>2
    <3> QED BY <3>1, <3>2
  <2>6. \/ r = Done(new, TRUE, FALSE)
        \/ r = Done(State(f, NoTable), FALSE, TRUE)
    BY <1>2 DEF Open, State, Handle
  <2> HIDE DEF f
  <2>7. CASE r = Done(new, TRUE, FALSE)
    <3>1. InPool(f, f[0], buf, {})
      <4>1. f[0] \in Contents(0) /\ 0 \in PageIds
        BY <2>3, FileFacts, Kinds
      <4> QED BY <2>3, <4>1 DEF InPool
    <3>2. /\ Opened(new) /\ new.file = f /\ new.h.root = f[0] /\ new.h.buf = buf
          /\ new.h.dirty = {}
      BY <3>1, MakeOpened
    <3> HIDE DEF new, buf
    <3>3. \A p \in PageIds : Page(new, p) = f[p]
      BY <3>2, PageIs
    <3>4. Through(new) = Through(State(f, NoTable))
      <4>1. Through(State(f, NoTable)) =
              IF f[0] = 0 THEN Leaf ELSE IF f[f[0]] = Blank THEN Broken ELSE f[f[0]]
        BY <2>3, ThroughFile
      <4>2. f[0] # 0 => /\ Page(new, f[0]) = f[f[0]]
                        /\ Through(new) = IF Page(new, f[0]) = Blank THEN Broken ELSE Page(new, f[0])
        BY <3>2, <3>3, ThroughOpened
      <4>3. f[0] = 0 => Through(new) = Leaf
        BY <3>2, ThroughOpened
      <4> QED BY <4>1, <4>2, <4>3
    <3>5. Kept(new) = Through(State(f, NoTable))
      BY <3>2 DEF Kept
    <3>6. new.h # NoTable /\ Page(new, 1) = f[1]
      BY <3>2, <3>3, OpenedFacts, Kinds
    <3>7. FileMarked(State(f, NoTable)) => RootMarked(new)
      BY <2>3, <3>2, <3>6 DEF FileMarked, State, RootMarked
    <3>8. Marked(st) => Marked(new)
      BY <1>2, <2>5, <3>6, <3>7 DEF Marked
    <3>9. r.st = new /\ r.ok = TRUE /\ r.bad = FALSE
      BY <2>7 DEF Done
    <3> QED BY <2>1, <2>3, <2>4, <3>2, <3>4, <3>5, <3>8, <3>9 DEF OpenedTable
  <2>8. CASE r = Done(State(f, NoTable), FALSE, TRUE)
    <3>1. r.st = State(f, NoTable) /\ r.ok = FALSE /\ r.bad = TRUE
      BY <2>8 DEF Done
    <3>2. Shut(r.st) /\ r.st.file = f /\ r.st.h = NoTable
      BY <2>3, <3>1 DEF Shut, State
    <3>3. Kept(r.st) = Through(State(f, NoTable))
      BY <3>2 DEF Kept
    <3>4. Marked(st) => Marked(r.st)
      BY <1>2, <2>5, <3>1, <3>2 DEF Marked
    <3> QED BY <2>1, <2>3, <2>4, <3>1, <3>2, <3>3, <3>4 DEF OpenedTable
  <2> QED BY <2>6, <2>7, <2>8
<1> QED BY <1>1, <1>2

MadeTable(st, r) ==
    /\ Sound(r.st) /\ r.ok \in BOOLEAN /\ r.bad \in BOOLEAN
    /\ r.ok => /\ ~r.bad /\ Through(st) = NoTable
               /\ Through(r.st) = Leaf /\ Kept(r.st) = Leaf /\ r.st.file # NoTable
    /\ ~r.ok /\ ~r.bad => r.st = st /\ Through(st) # NoTable
    /\ r.bad => Through(st) = NoTable /\ Kept(r.st) = Through(r.st)
    /\ ~r.bad /\ Marked(st) => Marked(r.st)

LEMMA MadeOutcome ==
    ASSUME NEW st, Sound(st), NEW r \in Made(st)
    PROVE  MadeTable(st, r)
<1>1. CASE st.h # NoTable \/ st.file # NoTable
  <2>1. r.st = st /\ r.ok = FALSE /\ r.bad = FALSE
    BY <1>1 DEF Made, Done
  <2>2. Through(st) # NoTable
    BY <1>1, ThroughSound, OpenedFacts
  <2> QED BY <2>1, <2>2 DEF MadeTable
<1>2. CASE st.h = NoTable /\ st.file = NoTable
  <2> DEFINE F == {NoTable, NewFile(0, {}, Blank), NewFile(2, {}, Blank),
                   NewFile(2, {2}, Blank), NewFile(2, {2}, Leaf)}
             new == NewFile(2, {2}, Leaf)
  <2>1. Through(st) = NoTable /\ st = State(NoTable, NoTable)
    BY <1>2, ThroughSound
  <2>2. \A f : [st EXCEPT !.file = f] = State(f, NoTable)
    BY <2>1 DEF State
  <2>3. \/ r = Done(State(new, NoTable), TRUE, FALSE)
        \/ \E f \in F : r = Done(State(f, NoTable), FALSE, TRUE)
    BY <1>2, <2>2 DEF Made
  <2>4. F \subseteq Files \cup {NoTable}
    BY NewFiles
  <2>5. /\ new \in Files /\ FileMarked(State(new, NoTable))
        /\ Through(State(new, NoTable)) = Leaf
    BY NewFiles
  <2> HIDE DEF F, new
  <2>6. CASE r = Done(State(new, NoTable), TRUE, FALSE)
    <3>1. r.st = State(new, NoTable) /\ r.ok = TRUE /\ r.bad = FALSE
      BY <2>6 DEF Done
    <3>2. Shut(r.st) /\ r.st.file = new /\ r.st.h = NoTable
      BY <2>5, <3>1 DEF Shut, State
    <3>3. Kept(r.st) = Leaf /\ Marked(r.st)
      BY <2>5, <3>1, <3>2 DEF Kept, Marked
    <3>4. new # NoTable
      BY <2>5, FileFacts
    <3> QED BY <2>1, <2>5, <3>1, <3>2, <3>3, <3>4 DEF MadeTable, Sound
  <2>7. ASSUME NEW f \in F, r = Done(State(f, NoTable), FALSE, TRUE)
        PROVE  MadeTable(st, r)
    <3>1. r.st = State(f, NoTable) /\ r.ok = FALSE /\ r.bad = TRUE
      BY <2>7 DEF Done
    <3>2. Shut(r.st)
      BY <2>4, <3>1 DEF Shut
    <3> QED BY <2>1, <3>1, <3>2, ThroughShut DEF MadeTable, Sound
  <2> QED BY <2>3, <2>6, <2>7
<1> QED BY <1>1, <1>2

\* a scan opens the table and reads its root page
ScannedTable(st, r) ==
    /\ Sound(r.st) /\ r.bad \in BOOLEAN /\ r.st.file # NoTable
    /\ Through(r.st) = IF Through(st) = NoTable THEN Leaf ELSE Through(st)
    /\ Kept(r.st) = IF Through(st) = NoTable THEN Leaf ELSE Kept(st)
    /\ ~r.bad /\ Marked(st) => Marked(r.st)

LEMMA ScanOutcome ==
    ASSUME NEW st, Sound(st), NEW r \in Then(Open(st), Reach)
    PROVE  ScannedTable(st, r)
<1>1. \/ r \in Open(st) /\ ~r.ok
      \/ \E o \in Open(st) : o.ok /\ \E q \in Reach(o.st) : r = Done(q.st, q.ok, o.bad \/ q.bad)
  BY DEF Then
<1>2. CASE r \in Open(st) /\ ~r.ok
  <2>1. OpenedTable(st, r)
    BY <1>2, OpenOutcome
  <2> QED BY <1>2, <2>1 DEF OpenedTable, ScannedTable, Sound
<1>3. ASSUME NEW o \in Open(st), o.ok, NEW q \in Reach(o.st), r = Done(q.st, q.ok, o.bad \/ q.bad)
      PROVE  ScannedTable(st, r)
  <2>1. OpenedTable(st, o)
    BY OpenOutcome
  <2>2. Opened(o.st) /\ o.bad = FALSE
    BY <1>3, <2>1 DEF OpenedTable
  <2>3. Outcome(o.st, q) /\ Through(q.st) = Through(o.st)
    BY <2>2, Reaching
  <2>4. /\ Opened(q.st) /\ Stays(o.st, q.st, {1}) /\ q.bad \in BOOLEAN
        /\ ~q.bad /\ RootMarked(o.st) => RootMarked(q.st)
    BY <2>3 DEF Outcome
  <2>5. Kept(q.st) = Kept(o.st)
    BY <2>2, <2>4, KeptSame
  <2>6. o.st.h # NoTable /\ q.st.h # NoTable /\ q.st.file # NoTable
    BY <2>2, <2>4, OpenedFacts
  <2>7. r.st = q.st /\ r.bad = q.bad
    BY <1>3, <2>2, <2>4 DEF Done
  <2> QED BY <2>1, <2>3, <2>4, <2>5, <2>6, <2>7 DEF OpenedTable, ScannedTable, Sound, Marked
<1> QED BY <1>1, <1>2, <1>3

-----------------------------------------------------------------------------
(* The invariant.  A table in the catalog has a file; RootAllocated needs  *)
(* that every handle and file holds pages of the right kind, and that a    *)
(* clean page of the pool is what the file holds: what the next close or   *)
(* open makes of the root and of the bitmap depends on both.               *)
Shaped == /\ file = [t \in Names |-> file[t]] /\ handle = [t \in Names |-> handle[t]]
          /\ schema = [t \in Names |-> schema[t]] /\ faults \in Nat
Cataloged(t) == schema[t] # NoTable => schema[t] \in Schemas /\ file[t] # NoTable
Inv == /\ Shaped
       /\ \A t \in Names : Sound(Now(t)) /\ Cataloged(t)
       /\ faults = 0 => \A t \in Names : Marked(Now(t))

\* a call on the table t that ends with the outcome r
Stepped(t, r) == /\ Sound(r.st) /\ r.bad \in BOOLEAN
                 /\ ~r.bad /\ Marked(Now(t)) => Marked(r.st)

LEMMA Becoming ==
    ASSUME Inv, NEW t \in Names, NEW r, Stepped(t, r), Become(t, r)
    PROVE  /\ Now(t)' = r.st /\ \A u \in Names \ {t} : Now(u)' = Now(u)
           /\ file' = [u \in Names |-> file'[u]] /\ handle' = [u \in Names |-> handle'[u]]
           /\ file'[t] = r.st.file
           /\ \A u \in Names : Sound(Now(u)') /\ (file[u] # NoTable /\ u # t => file'[u] # NoTable)
           /\ faults' \in Nat /\ (r.bad => faults' > faults) /\ (~r.bad => faults' = faults)
           /\ faults' = 0 => \A u \in Names : Marked(Now(u)')
<1>1. /\ file' = [file EXCEPT ![t] = r.st.file] /\ handle' = [handle EXCEPT ![t] = r.st.h]
      /\ faults' = faults + (IF r.bad THEN 1 ELSE 0)
  BY DEF Become
<1>2. /\ file = [u \in Names |-> file[u]] /\ handle = [u \in Names |-> handle[u]] /\ faults \in Nat
      /\ \A u \in Names : Sound(Now(u)) /\ (faults = 0 => Marked(Now(u)))
  BY DEF Inv, Shaped
<1>3. /\ file' = [u \in Names |-> file'[u]] /\ handle' = [u \in Names |-> handle'[u]]
      /\ file'[t] = r.st.file /\ handle'[t] = r.st.h
      /\ \A u \in Names \ {t} : file'[u] = file[u] /\ handle'[u] = handle[u]
  BY <1>1, <1>2
<1>4. \A u \in Names : Now(u)' = State(file'[u], handle'[u]) /\ Now(u) = State(file[u], handle[u])
  BY DEF Now, State
<1>5. r.st = State(r.st.file, r.st.h)
  BY ThroughSound DEF Stepped
<1>6. Now(t)' = r.st /\ \A u \in Names \ {t} : Now(u)' = Now(u)
  BY <1>3, <1>4, <1>5
<1>7. faults' \in Nat /\ (r.bad => faults' > faults) /\ (~r.bad => faults' = faults)
  BY <1>1, <1>2
<1>8. \A u \in Names : Sound(Now(u)')
  BY <1>2, <1>6 DEF Stepped
<1>9. ASSUME faults' = 0, NEW u \in Names PROVE Marked(Now(u)')
  <2>1. faults = 0 /\ ~r.bad
    BY <1>2, <1>7, <1>9 DEF Stepped
  <2> QED BY <1>2, <1>6, <2>1 DEF Stepped
<1> QED BY <1>3, <1>6, <1>7, <1>8, <1>9

-----------------------------------------------------------------------------
(* Every call keeps the invariant and is a step of TableSpace              *)

tables == [t \in Names |-> Table(t)]
kept   == [t \in Names |-> Saved(t)]
View == INSTANCE TableSpace WITH table <- tables, saved <- kept

\* the empty table and the maps are TableSpace's
LEMMA SameMaps == View!Maps = Maps /\ View!Empty = Leaf
BY DEF View!Maps, Maps, View!Empty, Leaf

LEMMA SameAnswers == \A op, t, k, x : View!Answer(op, t, k, x) = Answer(op, t, k, x)
BY DEF View!Answer, Answer

LEMMA ViewOf ==
    ASSUME NEW t \in Names
    PROVE  tables[t] = Through(Now(t)) /\ kept[t] = Kept(Now(t))
BY DEF tables, kept, Table, Saved, Kept, State, Now

LEMMA ViewStep ==
    ASSUME Inv, NEW t \in Names, NEW r, Stepped(t, r), Become(t, r)
    PROVE  /\ tables' = [tables EXCEPT ![t] = Through(r.st)]
           /\ kept' = [kept EXCEPT ![t] = Kept(r.st)]
           /\ tables'[t] = Through(r.st) /\ kept'[t] = Kept(r.st)
           /\ Through(r.st) = Through(Now(t)) => tables' = tables
           /\ \A u \in Names \ {t} : tables'[u] = tables[u] /\ kept'[u] = kept[u]
           /\ r.bad => View!Fault
           /\ r.bad \/ Kept(r.st) \in {Kept(Now(t)), Through(r.st)} => View!Saving
<1>1. Now(t)' = r.st /\ \A u \in Names \ {t} : Now(u)' = Now(u)
  BY Becoming
<1>2. \A u \in Names : tables'[u] = Through(Now(u)') /\ kept'[u] = Kept(Now(u)')
  BY DEF tables, kept, Table, Saved, Kept, State, Now
<1>3. \A u \in Names : tables[u] = Through(Now(u)) /\ kept[u] = Kept(Now(u))
  BY ViewOf
<1>4. /\ tables = [u \in Names |-> tables[u]] /\ kept = [u \in Names |-> kept[u]]
      /\ tables' = [u \in Names |-> tables'[u]] /\ kept' = [u \in Names |-> kept'[u]]
  BY DEF tables, kept
<1>5. /\ tables'[t] = Through(r.st) /\ kept'[t] = Kept(r.st)
      /\ \A u \in Names \ {t} : tables'[u] = tables[u] /\ kept'[u] = kept[u]
  BY <1>1, <1>2, <1>3
<1>6. /\ tables' = [tables EXCEPT ![t] = Through(r.st)]
      /\ kept' = [kept EXCEPT ![t] = Kept(r.st)]
  BY <1>4, <1>5
<1>7. Through(r.st) = Through(Now(t)) => tables' = tables
  BY <1>3, <1>4, <1>5
<1>8. r.bad => View!Fault
  BY Becoming DEF View!Fault
<1>9. Kept(r.st) \in {Kept(Now(t)), Through(r.st)} => View!Saving
  <2>1. Kept(r.st) \in {Kept(Now(t)), Through(r.st)} => \A u \in Names : kept'[u] \in {kept[u], tables'[u]}
    BY <1>3, <1>5
  <2> QED BY <2>1 DEF View!Saving
<1> QED BY <1>5, <1>6, <1>7, <1>8, <1>9 DEF View!Saving

\* the catalog and the kind of the other variables follow
LEMMA InvStep ==
    ASSUME Inv, NEW t \in Names, NEW r, Stepped(t, r), Become(t, r),
           schema' = [u \in Names |-> schema'[u]],
           \A u \in Names \ {t} : schema'[u] = schema[u],
           schema'[t] # NoTable => schema'[t] \in Schemas /\ r.st.file # NoTable
    PROVE  Inv'
<1>1. /\ file' = [u \in Names |-> file'[u]] /\ handle' = [u \in Names |-> handle'[u]]
      /\ file'[t] = r.st.file /\ faults' \in Nat
      /\ \A u \in Names : Sound(Now(u)') /\ (file[u] # NoTable /\ u # t => file'[u] # NoTable)
      /\ faults' = 0 => \A u \in Names : Marked(Now(u)')
  BY Becoming
<1>2. Shaped'
  BY <1>1 DEF Shaped
<1>3. ASSUME NEW u \in Names PROVE Cataloged(u)'
  <2>1. CASE u = t
    BY <1>1, <2>1 DEF Cataloged
  <2>2. CASE u # t
    <3>1. schema[u] # NoTable => schema[u] \in Schemas /\ file[u] # NoTable
      BY DEF Inv, Cataloged
    <3> QED BY <1>1, <2>2, <3>1 DEF Cataloged
  <2> QED BY <2>1, <2>2
<1> QED BY <1>1, <1>2, <1>3 DEF Inv

\* a call that changes no schema, on a table whose file is still there
LEMMA InvSame ==
    ASSUME Inv, NEW t \in Names, NEW r, Stepped(t, r), Become(t, r), UNCHANGED schema,
           file[t] # NoTable => r.st.file # NoTable
    PROVE  Inv'
<1>1. /\ schema = [u \in Names |-> schema[u]]
      /\ schema[t] # NoTable => schema[t] \in Schemas /\ file[t] # NoTable
  BY DEF Inv, Shaped, Cataloged
<1>2. schema' = [u \in Names |-> schema'[u]]
  BY <1>1
<1> QED BY <1>1, <1>2, InvStep

\* a call on a record of an open table
LEMMA RecordStep ==
    ASSUME Inv, NEW t \in Names, IsOpen(t), NEW r, Outcome(Now(t), r), Become(t, r),
           UNCHANGED schema
    PROVE  /\ Inv' /\ Stepped(t, r) /\ View!Saving /\ (r.bad => View!Fault)
           /\ Through(Now(t)) \in Maps \cup {Broken}
<1>1. Sound(Now(t)) /\ Now(t).h # NoTable
  BY DEF Inv, IsOpen, Now
<1>2. Opened(Now(t))
  BY <1>1, ThroughSound
<1>3. /\ Opened(r.st) /\ Stays(Now(t), r.st, {1}) /\ r.bad \in BOOLEAN
      /\ ~r.bad /\ RootMarked(Now(t)) => RootMarked(r.st)
  BY DEF Outcome
<1>4. Kept(r.st) = Kept(Now(t))
  BY <1>2, <1>3, KeptSame
<1>5. r.st.h # NoTable /\ r.st.file # NoTable
  BY <1>3, OpenedFacts
<1>6. Stepped(t, r)
  BY <1>1, <1>3, <1>5 DEF Stepped, Sound, Marked
<1> QED BY <1>2, <1>4, <1>5, <1>6, InvSame, ViewStep, ThroughOpened

LEMMA CreateTableStep ==
    ASSUME Inv, NEW t \in Names, NEW s \in Schemas \cup {NoTable}, CreateTable(t, s)
    PROVE  Inv' /\ View!Next
<1>1. PICK r \in Made(Now(t)) :
        /\ Become(t, r)
        /\ answer' = Answer("create", t, NoValue,
                            r.ok /\ ~(r.ok /\ s # NoTable /\ schema[t] # NoTable))
        /\ IF r.ok /\ s # NoTable /\ schema[t] = NoTable
           THEN schema' = [schema EXCEPT ![t] = s] /\ given' = [given EXCEPT ![t] = NoRows]
           ELSE UNCHANGED <<schema, given>>
  BY DEF CreateTable
<1>2. Sound(Now(t)) /\ Cataloged(t) /\ schema = [u \in Names |-> schema[u]]
  BY DEF Inv, Shaped
<1>3. MadeTable(Now(t), r)
  BY <1>1, <1>2, MadeOutcome
<1>4. Stepped(t, r)
  BY <1>3 DEF MadeTable, Stepped
<1>5. Through(Now(t)) = NoTable <=> file[t] = NoTable
  BY <1>2, ThroughSound DEF Now
<1>6. r.ok => schema[t] = NoTable
  BY <1>2, <1>3, <1>5 DEF MadeTable, Cataloged
<1>7. Inv'
  <2>1. CASE r.ok /\ s # NoTable
    <3>1. schema' = [schema EXCEPT ![t] = s] /\ r.st.file # NoTable
      BY <1>1, <1>3, <1>6, <2>1 DEF MadeTable
    <3> QED BY <1>1, <1>2, <1>4, <2>1, <3>1, InvStep
  <2>2. CASE ~(r.ok /\ s # NoTable)
    <3>1. UNCHANGED schema
      BY <1>1, <2>2
    <3>2. file[t] # NoTable => r.st.file # NoTable
      BY <1>3, <1>5, ThroughSound DEF MadeTable, Now
    <3> QED BY <1>1, <1>4, <3>1, <3>2, InvSame
  <2> QED BY <2>1, <2>2
<1>8. answer' = View!Answer("create", t, NoValue, r.ok)
  <2>1. r.ok /\ ~(r.ok /\ s # NoTable /\ schema[t] # NoTable) <=> r.ok
    BY <1>6
  <2>2. (r.ok /\ ~(r.ok /\ s # NoTable /\ schema[t] # NoTable)) = r.ok
    BY <1>3, <2>1 DEF MadeTable
  <2> QED BY <1>1, <2>2, SameAnswers
<1>9. /\ tables' = [tables EXCEPT ![t] = Through(r.st)]
      /\ tables'[t] = Through(r.st) /\ kept'[t] = Kept(r.st)
      /\ Through(r.st) = Through(Now(t)) => tables' = tables
      /\ \A u \in Names \ {t} : tables'[u] = tables[u]
      /\ r.bad => View!Fault
      /\ r.bad \/ Kept(r.st) \in {Kept(Now(t)), Through(r.st)} => View!Saving
  BY <1>1, <1>4, ViewStep
<1>10. View!Saving
  BY <1>3, <1>9 DEF MadeTable
<1>11. tables[t] = Through(Now(t))
  BY ViewOf
<1>12. CASE r.ok
  <2>1. View!Create(t)
    <3>1. r.ok = TRUE
      BY <1>3, <1>12 DEF MadeTable
    <3>2. tables[t] = NoTable /\ Through(r.st) = Leaf /\ Kept(r.st) = Leaf
      BY <1>3, <1>11, <1>12 DEF MadeTable
    <3> QED BY <1>8, <1>9, <3>1, <3>2, SameMaps DEF View!Create
  <2> QED BY <1>7, <1>10, <2>1 DEF View!Next
<1>13. CASE ~r.ok /\ ~r.bad
  <2>1. r.ok = FALSE /\ Through(Now(t)) # NoTable /\ r.st = Now(t)
    BY <1>3, <1>13 DEF MadeTable
  <2>2. View!RefuseCreate(t)
    BY <1>8, <1>9, <1>11, <2>1 DEF View!RefuseCreate
  <2> QED BY <1>7, <1>10, <2>2 DEF View!Next
<1>14. CASE r.bad
  <2>1. r.ok = FALSE /\ Kept(r.st) = Through(r.st)
    BY <1>3, <1>14 DEF MadeTable
  <2>2. \A u \in Names : tables'[u] \in {tables[u], kept'[u]}
    BY <1>9, <2>1
  <2>3. View!Lose
    BY <1>8, <1>9, <1>14, <2>1, <2>2 DEF View!Lose
  <2> QED BY <1>7, <1>10, <2>3 DEF View!Next
<1>15. r.ok \in BOOLEAN /\ r.bad \in BOOLEAN
  BY <1>3 DEF MadeTable
<1> QED BY <1>12, <1>13, <1>14, <1>15

LEMMA DropTableStep ==
    ASSUME Inv, NEW t \in Names, DropTable(t)
    PROVE  Inv' /\ View!Next
<1>1. PICK c \in IF IsOpen(t) THEN Closed(Now(t)) ELSE {Done(Now(t), TRUE, FALSE)},
           remains \in BOOLEAN :
        /\ remains => c.st.file # NoTable
        /\ c.bad => remains
        /\ Become(t, Done([c.st EXCEPT !.file = IF remains THEN @ ELSE NoTable], TRUE, remains))
        /\ answer' = Answer("drop", t, NoValue, c.st.file # NoTable /\ ~remains)
  BY DEF DropTable
<1>2. schema' = [schema EXCEPT ![t] = NoTable]
  BY DEF DropTable
<1> DEFINE r == Done([c.st EXCEPT !.file = IF remains THEN @ ELSE NoTable], TRUE, remains)
<1>3. Sound(Now(t)) /\ schema = [u \in Names |-> schema[u]]
  BY DEF Inv, Shaped
<1>4. Shut(c.st) /\ (c.st.file # NoTable <=> Through(Now(t)) # NoTable)
  <2>1. CASE IsOpen(t)
    <3>1. Opened(Now(t))
      BY <1>3, <2>1, ThroughSound DEF IsOpen, Now
    <3> QED BY <1>1, <2>1, <3>1, ClosedOutcome, ThroughOpened, MarkAssumption
  <2>2. CASE ~IsOpen(t)
    <3>1. c.st = Now(t) /\ Now(t).h = NoTable
      BY <1>1, <2>2 DEF Done, IsOpen, Now
    <3> QED BY <1>3, <3>1, ThroughSound
  <2> QED BY <2>1, <2>2
<1>5. c.st = State(c.st.file, NoTable)
  BY <1>4, ShutFacts
<1>6. /\ r.st = State(IF remains THEN c.st.file ELSE NoTable, NoTable)
      /\ r.bad = remains
  <2>1. [c.st EXCEPT !.file = IF remains THEN @ ELSE NoTable]
          = State(IF remains THEN c.st.file ELSE NoTable, NoTable)
    BY <1>5 DEF State
  <2> QED BY <2>1 DEF Done
<1>7. Become(t, r) /\ answer' = Answer("drop", t, NoValue, c.st.file # NoTable /\ ~remains)
  BY <1>1
<1> HIDE DEF r
<1>8. Shut(r.st) /\ r.st.h = NoTable /\ (~remains => r.st.file = NoTable)
  BY <1>4, <1>6, ShutFacts DEF Shut, State
<1>9. Kept(r.st) = Through(r.st) /\ (~remains => Through(r.st) = NoTable)
  BY <1>8, ThroughShut
<1>10. Stepped(t, r)
  BY <1>6, <1>8 DEF Stepped, Sound, Marked, FileMarked
<1>11. Inv'
  BY <1>2, <1>3, <1>7, <1>10, InvStep
<1>12. /\ tables' = [tables EXCEPT ![t] = Through(r.st)]
       /\ tables'[t] = Through(r.st) /\ kept'[t] = Kept(r.st)
       /\ \A u \in Names \ {t} : tables'[u] = tables[u]
       /\ r.bad => View!Fault
       /\ r.bad \/ Kept(r.st) \in {Kept(Now(t)), Through(r.st)} => View!Saving
  BY <1>7, <1>10, ViewStep
<1>13. View!Saving
  BY <1>9, <1>12
<1>14. CASE ~remains
  <2>1. (c.st.file # NoTable /\ ~remains) = (tables[t] # NoTable)
    BY <1>4, <1>14, ViewOf
  <2>2. answer' = View!Answer("drop", t, NoValue, tables[t] # NoTable)
    BY <1>7, <2>1, SameAnswers
  <2>3. View!Drop(t)
    BY <1>9, <1>12, <1>14, <2>2 DEF View!Drop
  <2> QED BY <1>11, <1>13, <2>3 DEF View!Next
<1>15. CASE remains
  <2>1. (c.st.file # NoTable /\ ~remains) = FALSE
    BY <1>15
  <2>2. answer' = View!Answer("drop", t, NoValue, FALSE)
    BY <1>7, <2>1, SameAnswers
  <2>3. \A u \in Names : tables'[u] \in {tables[u], kept'[u]}
    BY <1>9, <1>12
  <2>4. View!Lose
    BY <1>6, <1>12, <1>15, <2>2, <2>3 DEF View!Lose
  <2> QED BY <1>11, <1>13, <2>4 DEF View!Next
<1> QED BY <1>14, <1>15

LEMMA SameNone == answer' = None => answer' = View!None
BY SameAnswers DEF None, View!None

LEMMA OpenTableStep ==
    ASSUME Inv, NEW t \in Names, OpenTable(t) \/ Scan(t)
    PROVE  Inv' /\ View!Next
<1>1. PICK r : /\ r \in Open(Now(t)) \/ r \in Then(Open(Now(t)), Reach)
               /\ Become(t, r) /\ answer' = None /\ UNCHANGED schema
  BY DEF OpenTable, Scan
<1>2. Sound(Now(t))
  BY DEF Inv
<1>3. ScannedTable(Now(t), r)
  <2>1. CASE r \in Open(Now(t))
    BY <1>2, <2>1, OpenOutcome DEF OpenedTable, ScannedTable, Sound
  <2>2. CASE r \in Then(Open(Now(t)), Reach)
    BY <1>2, <2>2, ScanOutcome
  <2> QED BY <1>1, <2>1, <2>2
<1>4. Stepped(t, r) /\ r.st.file # NoTable
  BY <1>3 DEF Stepped, ScannedTable
<1>5. Inv'
  BY <1>1, <1>4, InvSame
<1>6. /\ tables' = [tables EXCEPT ![t] = Through(r.st)]
      /\ kept'[t] = Kept(r.st)
      /\ Through(r.st) = Through(Now(t)) => tables' = tables
      /\ r.bad \/ Kept(r.st) \in {Kept(Now(t)), Through(r.st)} => View!Saving
  BY <1>1, <1>4, ViewStep
<1>7. tables[t] = Through(Now(t)) /\ answer' = View!None
  BY <1>1, ViewOf, SameNone
<1>8. CASE Through(Now(t)) = NoTable
  <2>1. Through(r.st) = Leaf /\ Kept(r.st) = Leaf
    BY <1>3, <1>8 DEF ScannedTable
  <2>2. View!Create(t) /\ View!Saving
    BY <1>6, <1>7, <1>8, <2>1, SameMaps DEF View!Create
  <2> QED BY <1>5, <2>2 DEF View!Next
<1>9. CASE Through(Now(t)) # NoTable
  <2>1. Through(r.st) = Through(Now(t)) /\ Kept(r.st) = Kept(Now(t))
    BY <1>3, <1>9 DEF ScannedTable
  <2>2. View!Other /\ View!Saving
    BY <1>6, <1>7, <2>1 DEF View!Other
  <2> QED BY <1>5, <2>2 DEF View!Next
<1> QED BY <1>8, <1>9

LEMMA CloseTableStep ==
    ASSUME Inv, NEW t \in Names, CloseTable(t)
    PROVE  Inv' /\ View!Next
<1>1. PICK r \in Closed(Now(t)) : Become(t, r)
  BY DEF CloseTable
<1>2. IsOpen(t) /\ answer' = None /\ UNCHANGED schema
  BY DEF CloseTable
<1>3. Sound(Now(t)) /\ Now(t).h # NoTable
  BY <1>2 DEF Inv, IsOpen, Now
<1>4. Opened(Now(t))
  BY <1>3, ThroughSound
<1>5. /\ Shut(r.st) /\ r.st.file # NoTable /\ r.bad \in BOOLEAN
      /\ ~r.bad => Through(r.st) = Through(Now(t))
      /\ ~r.bad /\ RootMarked(Now(t)) => FileMarked(r.st)
  BY <1>1, <1>4, ClosedOutcome
<1>6. r.st.h = NoTable /\ Kept(r.st) = Through(r.st)
  BY <1>5, ShutFacts, ThroughShut
<1>7. Stepped(t, r)
  BY <1>3, <1>5, <1>6 DEF Stepped, Sound, Marked
<1>8. Inv'
  BY <1>1, <1>2, <1>5, <1>7, InvSame
<1>9. /\ tables'[t] = Through(r.st) /\ kept'[t] = Kept(r.st)
      /\ \A u \in Names \ {t} : tables'[u] = tables[u]
      /\ Through(r.st) = Through(Now(t)) => tables' = tables
      /\ r.bad => View!Fault
      /\ r.bad \/ Kept(r.st) \in {Kept(Now(t)), Through(r.st)} => View!Saving
  BY <1>1, <1>7, ViewStep
<1>10. View!Saving /\ answer' = View!None
  BY <1>2, <1>6, <1>9, SameNone
<1>11. CASE ~r.bad
  BY <1>5, <1>8, <1>9, <1>10, <1>11 DEF View!Next, View!Other
<1>12. CASE r.bad
  <2>1. \A u \in Names : tables'[u] \in {tables[u], kept'[u]}
    BY <1>6, <1>9
  <2>2. View!Lose
    <3>1. answer' = None
      BY <1>2
    <3> QED BY <1>9, <1>10, <1>12, <2>1 DEF View!Lose
  <2> QED BY <1>8, <1>10, <2>2 DEF View!Next
<1> QED BY <1>11, <1>12

\* what the calls on records share
LEMMA OpenNow ==
    ASSUME Inv, NEW t \in Names, IsOpen(t)
    PROVE  Opened(Now(t)) /\ tables[t] = Through(Now(t))
<1>1. Sound(Now(t)) /\ Now(t).h # NoTable
  BY DEF Inv, IsOpen, Now
<1> QED BY <1>1, ThroughSound, ViewOf

\* an accepted or refused insert, from the table that st shows, is TableSpace's
LEMMA InsertView ==
    ASSUME NEW t \in Names, NEW k \in Keys, NEW v \in Values, NEW st, NEW r,
           Inserted(st, k, v, r), tables[t] = Through(st),
           tables' = [tables EXCEPT ![t] = Through(r.st)],
           Through(r.st) = Through(st) => tables' = tables,
           answer' = Answer("insert", t, k, r.ok), r.bad => View!Fault
    PROVE  View!Insert(t, k, v) \/ View!RefuseInsert(t, k)
<1>1. CASE r.ok
  <2>1. r.ok = TRUE
    BY <1>1 DEF Inserted, Outcome
  <2>2. /\ tables[t] \in Maps /\ tables[t][k] = NoValue
        /\ Through(r.st) = [tables[t] EXCEPT ![k] = v]
    BY <1>1 DEF Inserted
  <2>3. tables' = [tables EXCEPT ![t][k] = v]
    BY <2>2
  <2>4. answer' = View!Answer("insert", t, k, TRUE)
    BY <2>1, SameAnswers
  <2> QED BY <2>2, <2>3, <2>4, SameMaps DEF View!Insert, View!Holds, View!Put
<1>2. CASE ~r.ok
  <2>1. r.ok = FALSE
    BY <1>2 DEF Inserted, Outcome
  <2>2. tables' = tables
    BY <1>2 DEF Inserted
  <2>3. \/ r.bad \/ tables[t] = Broken \/ tables[t] = Leaf
        \/ tables[t] \in Maps /\ tables[t][k] # NoValue
    BY <1>2 DEF Inserted
  <2>4. answer' = View!Answer("insert", t, k, FALSE)
    BY <2>1, SameAnswers
  <2> QED BY <2>2, <2>3, <2>4, SameMaps DEF View!RefuseInsert, View!Holds
<1> QED BY <1>1, <1>2

LEMMA InsertRecordStep ==
    ASSUME Inv, NEW t \in Names, NEW k \in Keys, NEW v \in RawValues, InsertRecord(t, k, v)
    PROVE  Inv' /\ View!Next
<1>1. PICK r \in Insert(Now(t), k, v) : Become(t, r) /\ answer' = Answer("insert", t, k, r.ok)
  BY DEF InsertRecord
<1>2. IsOpen(t) /\ UNCHANGED schema /\ v \in Values
  BY BytesAssumption DEF InsertRecord
<1>3. Opened(Now(t)) /\ tables[t] = Through(Now(t))
  BY <1>2, OpenNow
<1>4. Inserted(Now(t), k, v, r) /\ Outcome(Now(t), r)
  BY <1>1, <1>2, <1>3, InsertOutcome DEF Inserted
<1>5. Inv' /\ Stepped(t, r) /\ View!Saving /\ (r.bad => View!Fault)
  BY <1>1, <1>2, <1>4, RecordStep
<1>6. /\ tables' = [tables EXCEPT ![t] = Through(r.st)]
      /\ Through(r.st) = Through(Now(t)) => tables' = tables
  BY <1>1, <1>5, ViewStep
<1>7. View!Insert(t, k, v) \/ View!RefuseInsert(t, k)
  BY <1>1, <1>2, <1>3, <1>4, <1>5, <1>6, InsertView
<1> QED BY <1>2, <1>5, <1>7 DEF View!Next

LEMMA GetRecordStep ==
    ASSUME Inv, NEW t \in Names, NEW k \in Keys, GetRecord(t, k)
    PROVE  Inv' /\ View!Next
<1>1. PICK r \in Reach(Now(t)) :
        /\ Become(t, r)
        /\ answer' = Answer("get", t, k, IF r.ok THEN Find(r.st, k) ELSE NoValue)
  BY DEF GetRecord
<1>2. IsOpen(t) /\ UNCHANGED schema
  BY DEF GetRecord
<1>3. Opened(Now(t)) /\ tables[t] = Through(Now(t))
  BY <1>2, OpenNow
<1>4. Outcome(Now(t), r) /\ Through(r.st) = Through(Now(t)) /\ r.ok = ~r.bad
  BY <1>1, <1>3, Reaching
<1>5. Inv' /\ Stepped(t, r) /\ View!Saving /\ (r.bad => View!Fault)
  BY <1>1, <1>2, <1>4, RecordStep
<1>6. tables' = tables
  BY <1>1, <1>4, <1>5, ViewStep
<1>7. Find(r.st, k) = IF View!Holds(t, k) THEN tables[t][k] ELSE NoValue
  <2>1. Find(r.st, k) = IF tables[t] \in Maps THEN tables[t][k] ELSE NoValue
    BY <1>3, <1>4, ThroughOpened DEF Outcome
  <2> QED BY <2>1, SameMaps DEF View!Holds
<1>8. View!Get(t, k)
  <2>1. CASE r.ok
    <3>1. answer' = View!Answer("get", t, k, IF View!Holds(t, k) THEN tables[t][k] ELSE NoValue)
      BY <1>1, <1>7, <2>1, SameAnswers
    <3>2. answer'.op = "get"
      BY <3>1 DEF View!Answer
    <3> QED BY <1>6, <3>1, <3>2 DEF View!Get
  <2>2. CASE ~r.ok
    <3>1. answer' = View!Answer("get", t, k, NoValue)
      BY <1>1, <2>2, SameAnswers
    <3>2. answer'.op = "get"
      BY <3>1 DEF View!Answer
    <3>3. View!Fault
      BY <1>4, <1>5, <2>2 DEF Outcome
    <3> QED BY <1>6, <3>1, <3>2, <3>3 DEF View!Get
  <2> QED BY <2>1, <2>2
<1> QED BY <1>5, <1>8 DEF View!Next

LEMMA DeleteRecordStep ==
    ASSUME Inv, NEW t \in Names, NEW k \in Keys, DeleteRecord(t, k)
    PROVE  Inv' /\ View!Next
<1>1. PICK r \in Delete(Now(t), k) : Become(t, r) /\ answer' = Answer("delete", t, k, r.ok)
  BY DEF DeleteRecord
<1>2. IsOpen(t) /\ UNCHANGED schema
  BY DEF DeleteRecord
<1>3. Opened(Now(t)) /\ tables[t] = Through(Now(t))
  BY <1>2, OpenNow
<1>4. Deleted(Now(t), k, r) /\ Outcome(Now(t), r)
  BY <1>1, <1>3, DeleteOutcome DEF Deleted
<1>5. Inv' /\ Stepped(t, r) /\ View!Saving /\ (r.bad => View!Fault)
  BY <1>1, <1>2, <1>4, RecordStep
<1>6. /\ tables' = [tables EXCEPT ![t] = Through(r.st)]
      /\ Through(r.st) = Through(Now(t)) => tables' = tables
  BY <1>1, <1>5, ViewStep
<1>7. CASE r.ok
  <2>1. r.ok = TRUE
    BY <1>4, <1>7 DEF Outcome
  <2>2. /\ tables[t] \in Maps /\ tables[t][k] # NoValue
        /\ Through(r.st) = [tables[t] EXCEPT ![k] = NoValue]
    BY <1>3, <1>4, <1>7 DEF Deleted
  <2>3. tables' = [tables EXCEPT ![t][k] = NoValue]
    BY <1>6, <2>2
  <2>4. answer' = View!Answer("delete", t, k, TRUE)
    BY <1>1, <2>1, SameAnswers
  <2>5. View!Delete(t, k)
    BY <2>2, <2>3, <2>4, SameMaps DEF View!Delete, View!Holds, View!Put
  <2> QED BY <1>5, <2>5 DEF View!Next
<1>8. CASE ~r.ok
  <2>1. r.ok = FALSE
    BY <1>4, <1>8 DEF Outcome
  <2>2. /\ tables' = tables
        /\ r.bad \/ ~(tables[t] \in Maps /\ tables[t][k] # NoValue)
    BY <1>3, <1>4, <1>6, <1>8 DEF Deleted
  <2>3. answer' = View!Answer("delete", t, k, FALSE)
    BY <1>1, <2>1, SameAnswers
  <2>4. View!RefuseChange(t, k)
    BY <1>5, <2>2, <2>3, SameMaps DEF View!RefuseChange, View!Holds
  <2> QED BY <1>5, <2>4 DEF View!Next
<1> QED BY <1>7, <1>8

LEMMA UpdateRecordStep ==
    ASSUME Inv, NEW t \in Names, NEW k \in Keys, NEW v \in RawValues, UpdateRecord(t, k, v)
    PROVE  Inv' /\ View!Next
<1>1. PICK r \in Update(Now(t), k, v) : Become(t, r) /\ answer' = Answer("update", t, k, r.ok)
  BY DEF UpdateRecord
<1>2. IsOpen(t) /\ UNCHANGED schema /\ v \in Values
  BY BytesAssumption DEF UpdateRecord
<1>3. Opened(Now(t)) /\ tables[t] = Through(Now(t))
  BY <1>2, OpenNow
<1>4. Updated(Now(t), k, v, r) /\ Outcome(Now(t), r)
  <2>1. Updated(Now(t), k, v, r)
    BY <1>1, <1>2, <1>3, UpdateOutcome
  <2> QED BY <2>1 DEF Updated
<1>5. Inv' /\ Stepped(t, r) /\ View!Saving /\ (r.bad => View!Fault)
  BY <1>1, <1>2, <1>4, RecordStep
<1>6. /\ tables' = [tables EXCEPT ![t] = Through(r.st)] /\ tables'[t] = Through(r.st)
      /\ Through(r.st) = Through(Now(t)) => tables' = tables
  BY <1>1, <1>5, ViewStep
<1>7. CASE r.ok
  <2>1. r.ok = TRUE
    BY <1>4, <1>7 DEF Outcome
  <2>2. /\ tables[t] \in Maps /\ tables[t][k] # NoValue
        /\ Through(r.st) = [tables[t] EXCEPT ![k] = v]
    BY <1>3, <1>4, <1>7 DEF Updated
  <2>3. tables' = [tables EXCEPT ![t][k] = v]
    BY <1>6, <2>2
  <2>4. answer' = View!Answer("update", t, k, TRUE)
    BY <1>1, <2>1, SameAnswers
  <2>5. View!Update(t, k, v)
    BY <2>2, <2>3, <2>4, SameMaps DEF View!Update, View!Holds, View!Put
  <2> QED BY <1>2, <1>5, <2>5 DEF View!Next
<1>8. CASE ~r.ok
  <2>1. r.ok = FALSE
    BY <1>4, <1>8 DEF Outcome
  <2>2. answer' = View!Answer("update", t, k, FALSE)
    BY <1>1, <2>1, SameAnswers
  <2>3. \/ /\ tables' = tables
           /\ r.bad \/ ~(tables[t] \in Maps /\ tables[t][k] # NoValue)
        \/ /\ tables[t] \in Maps /\ tables[t][k] # NoValue
           /\ Through(r.st) = [tables[t] EXCEPT ![k] = NoValue]
           /\ r.bad \/ Through(r.st) = Leaf
    BY <1>3, <1>4, <1>6, <1>8 DEF Updated
  <2>4. View!RefuseChange(t, k) \/ View!LostUpdate(t, k)
    <3>1. CASE /\ tables' = tables
               /\ r.bad \/ ~(tables[t] \in Maps /\ tables[t][k] # NoValue)
      BY <1>5, <2>2, <3>1, SameMaps DEF View!RefuseChange, View!Holds
    <3>2. CASE /\ tables[t] \in Maps /\ tables[t][k] # NoValue
               /\ Through(r.st) = [tables[t] EXCEPT ![k] = NoValue]
               /\ r.bad \/ Through(r.st) = Leaf
      <4>1. tables' = [tables EXCEPT ![t][k] = NoValue]
        BY <1>6, <3>2
      <4>2. View!Fault \/ tables'[t] = Leaf
        BY <1>5, <1>6, <3>2
      <4> QED BY <2>2, <3>2, <4>1, <4>2, SameMaps DEF View!LostUpdate, View!Holds, View!Put
    <3> QED BY <2>3, <3>1, <3>2
  <2> QED BY <1>5, <2>4 DEF View!Next
<1> QED BY <1>7, <1>8

\* the row's table is opened first: a table of the catalog has its file
LEMMA InsertRowStep ==
    ASSUME Inv, NEW t \in Names, NEW row \in Rows, InsertRow(t, row)
    PROVE  Inv' /\ View!Next
<1> DEFINE k == EncodeKey(schema[t], row)
           v == EncodeValue(schema[t], row)
<1>1. PICK o \in Open(Now(t)) :
         IF o.ok /\ <<schema[t], row>> \in Encodable
         THEN \E q \in Insert(o.st, k, v) : Become(t, q) /\ answer' = Answer("insert", t, k, q.ok)
         ELSE Become(t, o) /\ answer' = None
  BY DEF InsertRow
<1>2. schema[t] # NoTable /\ UNCHANGED schema
  BY DEF InsertRow
<1>3. /\ Sound(Now(t)) /\ file[t] # NoTable
      /\ <<schema[t], row>> \in Encodable => k \in Keys /\ v \in Values
  BY <1>2, BytesAssumption DEF Inv, Cataloged
<1> HIDE DEF k, v
<1>4. OpenedTable(Now(t), o) /\ Through(Now(t)) # NoTable
  BY <1>3, OpenOutcome, ThroughSound DEF Now
<1>5. /\ Through(o.st) = Through(Now(t)) /\ Kept(o.st) = Kept(Now(t))
      /\ Marked(Now(t)) => Marked(o.st)
      /\ o.ok = ~o.bad /\ o.bad \in BOOLEAN /\ Sound(o.st) /\ o.st.file # NoTable
      /\ o.ok => Opened(o.st)
  BY <1>4 DEF OpenedTable, Sound
<1>6. tables[t] = Through(Now(t))
  BY ViewOf
<1>7. CASE o.ok /\ <<schema[t], row>> \in Encodable
  <2>1. PICK q \in Insert(o.st, k, v) : Become(t, q) /\ answer' = Answer("insert", t, k, q.ok)
    BY <1>1, <1>7
  <2>2. Opened(o.st) /\ k \in Keys /\ v \in Values
    BY <1>3, <1>5, <1>7
  <2>3. Inserted(o.st, k, v, q)
    BY <2>1, <2>2, InsertOutcome
  <2>4. /\ Opened(q.st) /\ Stays(o.st, q.st, {1}) /\ q.bad \in BOOLEAN
        /\ ~q.bad /\ RootMarked(o.st) => RootMarked(q.st)
    BY <2>3 DEF Inserted, Outcome
  <2>5. Kept(q.st) = Kept(Now(t))
    BY <1>5, <2>2, <2>4, KeptSame
  <2>6. o.st.h # NoTable /\ q.st.h # NoTable /\ q.st.file # NoTable
    BY <2>2, <2>4, OpenedFacts
  <2>7. Stepped(t, q)
    BY <1>5, <2>4, <2>6 DEF Stepped, Sound, Marked
  <2>8. Inv'
    BY <1>2, <2>1, <2>6, <2>7, InvSame
  <2>9. /\ tables' = [tables EXCEPT ![t] = Through(q.st)]
        /\ Through(q.st) = Through(Now(t)) => tables' = tables
        /\ q.bad => View!Fault
        /\ View!Saving
    BY <2>1, <2>5, <2>7, ViewStep
  <2>10. tables[t] = Through(o.st) /\ (Through(q.st) = Through(o.st) => tables' = tables)
    BY <1>5, <1>6, <2>9
  <2>11. View!Insert(t, k, v) \/ View!RefuseInsert(t, k)
    BY <2>1, <2>2, <2>3, <2>9, <2>10, InsertView
  <2> QED BY <2>2, <2>8, <2>9, <2>11 DEF View!Next
<1>8. CASE ~(o.ok /\ <<schema[t], row>> \in Encodable)
  <2>1. Become(t, o) /\ answer' = None
    BY <1>1, <1>8
  <2>2. Stepped(t, o)
    BY <1>5 DEF Stepped
  <2>3. Inv'
    BY <1>2, <1>5, <2>1, <2>2, InvSame
  <2>4. tables' = tables /\ View!Saving
    BY <1>5, <2>1, <2>2, ViewStep
  <2>5. View!Other
    BY <2>1, <2>4, SameNone DEF View!Other
  <2> QED BY <2>3, <2>4, <2>5 DEF View!Next
<1> QED BY <1>7, <1>8

\* what is in the pools when X of the unsaved pages have been written
LEMMA AfterFacts ==
    ASSUME Inv, NEW X \in SUBSET Unsaved, NEW t \in Names
    PROVE  /\ Sound(After(X)[t]) /\ Through(After(X)[t]) = Through(Now(t))
           /\ file[t] # NoTable => After(X)[t].file # NoTable
           /\ Marked(Now(t)) => Marked(After(X)[t])
           /\ X = Unsaved => /\ Kept(After(X)[t]) \in {Kept(Now(t)), Through(Now(t))}
                             /\ Kept(After(X)[t]) = Through(Now(t))
                             /\ Marked(Now(t)) => FileMarked(After(X)[t])
<1>1. Sound(Now(t))
  BY DEF Inv
<1>2. CASE IsOpen(t)
  <2> DEFINE W == Part(t, X)
             s == Written(Now(t), W)
             dirty == Now(t).h.dirty
  <2>1. Opened(Now(t)) /\ Now(t).h # NoTable /\ dirty = handle[t].dirty
    BY <1>2, OpenNow DEF IsOpen, Now
  <2>2. dirty \subseteq PageIds
    BY <2>1, OpenedFacts DEF InPool
  <2>3. W \in SUBSET dirty
    BY <2>1 DEF Part, Unsaved
  <2>4. X = Unsaved => W = dirty
    <3>1. ASSUME X = Unsaved, NEW p \in dirty PROVE p \in W
      <4>1. <<t, p>> \in Unsaved
        BY <1>2, <2>1, <2>2, <3>1 DEF Unsaved, PageIds
      <4> QED BY <3>1, <4>1 DEF Part
    <3> QED BY <2>3, <3>1
  <2>5. After(X)[t] = s
    BY <1>2 DEF After
  <2> HIDE DEF W
  <2>6. /\ Opened(s) /\ Through(s) = Through(Now(t))
        /\ RootMarked(Now(t)) => RootMarked(s)
        /\ W = dirty => /\ Kept(s) = Through(Now(t))
                        /\ RootMarked(Now(t)) => FileMarked(s)
    BY <2>1, <2>3, FlushOutcome
  <2> HIDE DEF s, dirty
  <2>7. s.h # NoTable /\ s.file # NoTable
    BY <2>6, OpenedFacts
  <2> QED BY <2>1, <2>4, <2>5, <2>6, <2>7 DEF Sound, Marked
<1>3. CASE ~IsOpen(t)
  <2>1. After(X)[t] = Now(t) /\ Now(t).h = NoTable /\ Now(t).file = file[t]
    BY <1>3 DEF After, IsOpen, Now
  <2>2. Kept(Now(t)) = Through(Now(t))
    BY <1>1, <2>1, ThroughSound, ThroughShut
  <2> QED BY <1>1, <2>1, <2>2 DEF Marked
<1> QED BY <1>2, <1>3

LEMMA NowNext ==
    ASSUME NEW t \in Names
    PROVE  /\ Now(t)' = State(file'[t], handle'[t])
           /\ tables'[t] = Through(Now(t)') /\ kept'[t] = Kept(Now(t)')
BY DEF Now, State, tables, kept, Table, Saved, Kept

LEMMA FlushAllStep ==
    ASSUME Inv, FlushAll
    PROVE  Inv' /\ View!Next
<1>1. PICK X \in SUBSET Unsaved :
        /\ faults' = faults + (IF X = Unsaved THEN 0 ELSE 1)
        /\ file' = [t \in Names |-> After(X)[t].file]
        /\ handle' = [t \in Names |-> After(X)[t].h]
  BY DEF FlushAll
<1>2. answer' = None /\ UNCHANGED schema
  BY DEF FlushAll
<1>3. /\ faults \in Nat /\ schema = [t \in Names |-> schema[t]]
      /\ \A t \in Names : Cataloged(t) /\ (faults = 0 => Marked(Now(t)))
  BY DEF Inv, Shaped
<1>4. \A t \in Names : Now(t)' = After(X)[t]
  BY <1>1, AfterFacts, ThroughSound, NowNext
<1>5. Inv'
  <2>1. Shaped'
    BY <1>1, <1>2, <1>3 DEF Shaped
  <2>2. \A t \in Names : Sound(Now(t)')
    BY <1>4, AfterFacts
  <2>3. ASSUME NEW t \in Names PROVE Cataloged(t)'
    <3>1. file'[t] = After(X)[t].file
      BY <1>1
    <3>2. file[t] # NoTable => file'[t] # NoTable
      BY <3>1, AfterFacts
    <3> QED BY <1>2, <1>3, <3>2 DEF Cataloged
  <2>4. ASSUME faults' = 0, NEW t \in Names PROVE Marked(Now(t)')
    <3>1. faults = 0
      BY <1>1, <1>3, <2>4
    <3> QED BY <1>3, <1>4, <3>1, AfterFacts
  <2> QED BY <2>1, <2>2, <2>3, <2>4 DEF Inv
<1>6. /\ \A t \in Names : tables'[t] = tables[t]
      /\ X = Unsaved => \A t \in Names : kept'[t] = tables'[t]
  BY <1>4, AfterFacts, NowNext, ViewOf
<1>7. tables' = tables
  BY <1>6 DEF tables
<1>8. View!Saving
  <2>1. CASE X = Unsaved
    BY <1>6, <2>1 DEF View!Saving
  <2>2. CASE X # Unsaved
    BY <1>1, <1>3, <2>2 DEF View!Saving, View!Fault
  <2> QED BY <2>1, <2>2
<1> QED BY <1>2, <1>5, <1>7, <1>8, SameNone DEF View!Next, View!Other

LEMMA StopStep ==
    ASSUME Inv, Stop
    PROVE  Inv' /\ View!Next
<1>1. PICK X \in SUBSET Unsaved, killed \in BOOLEAN :
        /\ X # Unsaved => killed
        /\ faults' = faults + (IF killed THEN 1 ELSE 0)
        /\ file' = [t \in Names |-> After(X)[t].file]
  BY DEF Stop
<1>2. handle' = [t \in Names |-> NoTable] /\ schema' = handle' /\ answer' = None
  BY DEF Stop
<1>3. faults \in Nat /\ \A t \in Names : faults = 0 => Marked(Now(t))
  BY DEF Inv, Shaped
<1>4. ASSUME NEW t \in Names
      PROVE  /\ Now(t)' = State(After(X)[t].file, NoTable)
             /\ Shut(Now(t)') /\ Through(Now(t)') = Kept(After(X)[t])
             /\ kept'[t] = tables'[t] /\ tables'[t] = Kept(After(X)[t])
  <2>1. file'[t] = After(X)[t].file /\ handle'[t] = NoTable
    BY <1>1, <1>2
  <2>2. Now(t)' = State(After(X)[t].file, NoTable)
    BY <2>1, NowNext
  <2>3. Sound(After(X)[t])
    BY AfterFacts
  <2>4. After(X)[t].file \in Files \cup {NoTable}
    BY <2>3, OpenedFacts, ShutFacts DEF Sound
  <2>5. Shut(Now(t)') /\ Through(Now(t)') = Kept(After(X)[t])
    BY <2>2, <2>4 DEF Shut, Kept
  <2>6. Kept(Now(t)') = Through(Now(t)')
    BY <2>5, ThroughShut
  <2> QED BY <2>2, <2>5, <2>6, NowNext
<1>5. Inv'
  <2>1. Shaped'
    BY <1>1, <1>2, <1>3 DEF Shaped
  <2>2. \A t \in Names : Sound(Now(t)') /\ Cataloged(t)'
    BY <1>2, <1>4 DEF Sound, Cataloged
  <2>3. ASSUME faults' = 0, NEW t \in Names PROVE Marked(Now(t)')
    <3>1. faults = 0 /\ X = Unsaved
      BY <1>1, <1>3, <2>3
    <3>2. FileMarked(After(X)[t])
      BY <1>3, <3>1, AfterFacts
    <3> QED BY <1>4, <3>2 DEF Marked, FileMarked, State
  <2> QED BY <2>1, <2>2, <2>3 DEF Inv
<1>6. X = Unsaved => \A t \in Names : tables'[t] = tables[t]
  BY <1>4, AfterFacts, ViewOf
<1>7. View!Saving
  BY <1>4 DEF View!Saving
<1>8. CASE killed
  <2>1. View!Fault
    BY <1>1, <1>3, <1>8 DEF View!Fault
  <2>2. View!Lose
    BY <1>2, <1>4, <2>1, SameNone DEF View!Lose
  <2> QED BY <1>5, <1>7, <2>2 DEF View!Next
<1>9. CASE ~killed
  <2>1. tables' = tables
    BY <1>1, <1>6, <1>9 DEF tables
  <2> QED BY <1>2, <1>5, <1>7, <2>1, SameNone DEF View!Next, View!Other
<1> QED BY <1>8, <1>9

LEMMA InvInit == Init => Inv
<1> SUFFICES ASSUME Init PROVE Inv
  OBVIOUS
<1>1. /\ file = [t \in Names |-> NoTable] /\ handle = [t \in Names |-> NoTable]
      /\ schema = [t \in Names |-> NoTable] /\ faults = 0
  BY DEF Init
<1>2. \A t \in Names : Now(t) = State(NoTable, NoTable)
  BY <1>1 DEF Now, State
<1>3. \A t \in Names : Sound(Now(t)) /\ Marked(Now(t))
  BY <1>2 DEF Sound, Shut, Marked, FileMarked, State
<1> QED BY <1>1, <1>3 DEF Inv, Shaped, Cataloged

LEMMA StepFacts == Inv /\ Next => Inv' /\ View!Next
<1> SUFFICES ASSUME Inv, Next PROVE Inv' /\ View!Next
  OBVIOUS
<1>1. CASE FlushAll \/ Stop
  BY <1>1, FlushAllStep, StopStep
<1>2. ASSUME NEW t \in Names,
             \/ \E s \in Schemas \cup {NoTable} : CreateTable(t, s)
             \/ DropTable(t) \/ OpenTable(t) \/ CloseTable(t) \/ Scan(t)
             \/ \E row \in Rows : InsertRow(t, row)
      PROVE  Inv' /\ View!Next
  BY <1>2, CreateTableStep, DropTableStep, OpenTableStep, CloseTableStep, InsertRowStep
<1>3. ASSUME NEW t \in Names, NEW k \in Keys,
             \/ GetRecord(t, k) \/ DeleteRecord(t, k)
             \/ \E v \in RawValues : InsertRecord(t, k, v) \/ UpdateRecord(t, k, v)
      PROVE  Inv' /\ View!Next
  BY <1>3, GetRecordStep, DeleteRecordStep, InsertRecordStep, UpdateRecordStep
<1> QED BY <1>1, <1>2, <1>3 DEF Next

LEMMA StutterFacts == UNCHANGED vars => (Inv => Inv') /\ UNCHANGED View!vars
<1> SUFFICES ASSUME UNCHANGED vars PROVE (Inv => Inv') /\ UNCHANGED View!vars
  OBVIOUS
<1>1. /\ UNCHANGED <<file, handle, schema, faults, answer>>
      /\ \A t \in Names : Now(t)' = Now(t)
  BY DEF vars, Now
<1>2. Inv => Inv'
  BY <1>1 DEF Inv, Shaped, Cataloged
<1>3. tables' = tables /\ kept' = kept
  BY <1>1 DEF vars, tables, kept, Table, Saved, Now
<1> QED BY <1>1, <1>2, <1>3 DEF View!vars

-----------------------------------------------------------------------------
(* What a scan shows.  The rows given for a table of the catalog are those *)
(* its records decode to, one by one, as long as no write was lost: the    *)
(* calls on records have to keep the two in step.                          *)
RowOf(s, v) == IF s = NoTable \/ v = NoValue \/ Decode(s, v) = <<>> THEN NoValue ELSE Decode(s, v)
Agree(s, m, g) == m \in Maps /\ g = [k \in Keys |-> RowOf(s, m[k])]
Agrees(t) == schema[t] # NoTable /\ given[t] # Unknown => Agree(schema[t], Table(t), given[t])
ShowInv == given = [t \in Names |-> given[t]] /\ \A t \in Names : Agrees(t)

LEMMA EmptyAgrees ==
    ASSUME NEW s
    PROVE  Agree(s, Leaf, NoRows)
BY EmptyLeaf DEF Agree, RowOf, NoRows, Leaf

LEMMA AgreeExcept ==
    ASSUME NEW s, NEW m, NEW g, Agree(s, m, g), NEW k \in Keys, NEW v \in Values \cup {NoValue}
    PROVE  Agree(s, [m EXCEPT ![k] = v], [g EXCEPT ![k] = RowOf(s, v)])
<1> DEFINE n == [m EXCEPT ![k] = v]
<1>1. m \in Maps /\ n \in Maps
  BY EmptyLeaf DEF Agree
<1>2. \A j \in Keys : n[j] = IF j = k THEN v ELSE m[j]
  BY <1>1 DEF Maps
<1>3. g = [j \in Keys |-> RowOf(s, m[j])]
  BY DEF Agree
<1>4. [g EXCEPT ![k] = RowOf(s, v)] = [j \in Keys |-> IF j = k THEN RowOf(s, v) ELSE RowOf(s, m[j])]
  BY <1>3
<1> HIDE DEF n
<1>5. [j \in Keys |-> IF j = k THEN RowOf(s, v) ELSE RowOf(s, m[j])] = [j \in Keys |-> RowOf(s, n[j])]
  BY <1>2
<1> QED BY <1>1, <1>4, <1>5 DEF Agree, n

LEMMA ShowStep ==
    ASSUME Inv, ShowInv, NEW t \in Names, NEW r, Stepped(t, r), Become(t, r),
           given' = [u \in Names |-> given'[u]],
           \A u \in Names \ {t} : given'[u] = given[u] /\ schema'[u] = schema[u],
           schema'[t] # NoTable /\ given'[t] # Unknown => Agree(schema'[t], Through(r.st), given'[t])
    PROVE  ShowInv'
<1>1. /\ tables'[t] = Through(r.st)
      /\ \A u \in Names \ {t} : tables'[u] = tables[u]
  BY ViewStep
<1>2. \A u \in Names : tables[u] = Table(u) /\ tables'[u] = Table(u)'
  BY DEF tables
<1>3. \A u \in Names \ {t} : Agrees(u)'
  BY <1>1, <1>2 DEF ShowInv, Agrees
<1>4. Agrees(t)'
  BY <1>1, <1>2 DEF Agrees
<1> QED BY <1>3, <1>4 DEF ShowInv

\* a call that leaves the rows alone
LEMMA ShowSame ==
    ASSUME Inv, ShowInv, NEW t \in Names, NEW r, Stepped(t, r), Become(t, r),
           UNCHANGED <<schema, given>>,
           schema[t] # NoTable => Through(r.st) = Through(Now(t))
    PROVE  ShowInv'
<1>1. schema[t] # NoTable /\ given[t] # Unknown => Agree(schema[t], Through(r.st), given[t])
  BY DEF ShowInv, Agrees, Table
<1> QED BY <1>1, ShowStep DEF ShowInv

\* a call that changes the record of the key k
LEMMA ShowGive ==
    ASSUME Inv, ShowInv, NEW t \in Names, NEW r, Stepped(t, r), Become(t, r), UNCHANGED schema,
           NEW k \in Keys, NEW v \in Values \cup {NoValue}, NEW row, Give(t, k, row),
           schema[t] # NoTable => row = RowOf(schema[t], v),
           Through(r.st) = [Through(Now(t)) EXCEPT ![k] = v]
    PROVE  ShowInv'
<1>1. CASE given[t] = Unknown
  <2>1. given' = given
    BY <1>1 DEF Give
  <2> QED BY <1>1, <2>1, ShowStep DEF ShowInv
<1>2. CASE given[t] # Unknown
  <2>1. given' = [given EXCEPT ![t][k] = row]
    BY <1>2 DEF Give
  <2>2. given = [u \in Names |-> given[u]]
    BY DEF ShowInv
  <2>3. /\ given' = [u \in Names |-> given'[u]]
        /\ \A u \in Names \ {t} : given'[u] = given[u]
        /\ given'[t] = [given[t] EXCEPT ![k] = row]
    BY <2>1, <2>2
  <2>4. ASSUME schema[t] # NoTable PROVE Agree(schema[t], Through(r.st), given'[t])
    <3>1. Agree(schema[t], Through(Now(t)), given[t])
      BY <1>2, <2>4 DEF ShowInv, Agrees, Table
    <3> QED BY <2>3, <2>4, <3>1, AgreeExcept
  <2> QED BY <2>3, <2>4, ShowStep
<1> QED BY <1>1, <1>2

LEMMA ShowCreate ==
    ASSUME Inv, ShowInv, NEW t \in Names, NEW s \in Schemas \cup {NoTable}, CreateTable(t, s)
    PROVE  ShowInv'
<1>1. PICK r \in Made(Now(t)) :
        /\ Become(t, r)
        /\ IF r.ok /\ s # NoTable /\ schema[t] = NoTable
           THEN schema' = [schema EXCEPT ![t] = s] /\ given' = [given EXCEPT ![t] = NoRows]
           ELSE UNCHANGED <<schema, given>>
  BY DEF CreateTable
<1>2. Sound(Now(t)) /\ Cataloged(t) /\ schema = [u \in Names |-> schema[u]]
  BY DEF Inv, Shaped
<1>3. MadeTable(Now(t), r)
  BY <1>1, <1>2, MadeOutcome
<1>4. Stepped(t, r)
  BY <1>3 DEF MadeTable, Stepped, Sound
<1>5. schema[t] # NoTable => Through(Now(t)) # NoTable
  BY <1>2, ThroughSound DEF Cataloged, Now
<1>6. CASE r.ok /\ s # NoTable /\ schema[t] = NoTable
  <2>1. schema' = [schema EXCEPT ![t] = s] /\ given' = [given EXCEPT ![t] = NoRows]
    BY <1>1, <1>6
  <2>2. given = [u \in Names |-> given[u]]
    BY DEF ShowInv
  <2>3. /\ given' = [u \in Names |-> given'[u]] /\ given'[t] = NoRows
        /\ \A u \in Names \ {t} : given'[u] = given[u] /\ schema'[u] = schema[u]
    BY <1>2, <2>1, <2>2
  <2>4. Through(r.st) = Leaf
    BY <1>3, <1>6 DEF MadeTable
  <2> QED BY <1>1, <1>4, <2>3, <2>4, EmptyAgrees, ShowStep
<1>7. CASE ~(r.ok /\ s # NoTable /\ schema[t] = NoTable)
  <2>1. UNCHANGED <<schema, given>>
    BY <1>1, <1>7
  <2>2. schema[t] # NoTable => Through(r.st) = Through(Now(t))
    <3>1. MadeTable(Now(t), r) /\ (schema[t] # NoTable => Through(Now(t)) # NoTable)
      BY <1>3, <1>5
    <3> QED BY <3>1 DEF MadeTable
  <2> QED BY <1>1, <1>4, <2>1, <2>2, ShowSame
<1> QED BY <1>6, <1>7

LEMMA ShowDrop ==
    ASSUME Inv, ShowInv, NEW t \in Names, DropTable(t)
    PROVE  ShowInv'
<1>1. PICK r : Become(t, r)
  BY DEF DropTable
<1>2. /\ schema' = [schema EXCEPT ![t] = NoTable] /\ given' = [given EXCEPT ![t] = NoRows]
  BY DEF DropTable
<1>3. /\ schema = [u \in Names |-> schema[u]] /\ given = [u \in Names |-> given[u]]
      /\ file = [u \in Names |-> file[u]] /\ handle = [u \in Names |-> handle[u]]
  BY DEF Inv, Shaped, ShowInv
<1>4. schema'[t] = NoTable /\ given' = [u \in Names |-> given'[u]]
  BY <1>2, <1>3
<1>5. ASSUME NEW u \in Names \ {t}
      PROVE  schema'[u] = schema[u] /\ given'[u] = given[u] /\ Table(u)' = Table(u)
  <2>1. file'[u] = file[u] /\ handle'[u] = handle[u]
    BY <1>1, <1>3 DEF Become
  <2>2. Now(u)' = Now(u)
    BY <2>1 DEF Now
  <2> QED BY <1>2, <1>3, <2>2 DEF Table
<1>6. \A u \in Names : Agrees(u)'
  BY <1>4, <1>5 DEF Agrees, ShowInv
<1> QED BY <1>4, <1>6 DEF ShowInv

LEMMA ShowOpenScan ==
    ASSUME Inv, ShowInv, NEW t \in Names, OpenTable(t) \/ Scan(t)
    PROVE  ShowInv'
<1>1. PICK r \in Open(Now(t)) \cup Then(Open(Now(t)), Reach) : Become(t, r) /\ UNCHANGED <<schema, given>>
  BY DEF OpenTable, Scan
<1>2. Sound(Now(t)) /\ Cataloged(t)
  BY DEF Inv
<1>3. OpenedTable(Now(t), r) \/ ScannedTable(Now(t), r)
  BY <1>1, <1>2, OpenOutcome, ScanOutcome
<1>4. Stepped(t, r)
  BY <1>3 DEF OpenedTable, ScannedTable, Stepped, Sound
<1>5. Through(r.st) = IF Through(Now(t)) = NoTable THEN Leaf ELSE Through(Now(t))
  BY <1>3 DEF OpenedTable, ScannedTable
<1>6. schema[t] # NoTable => Through(Now(t)) # NoTable
  BY <1>2, ThroughSound DEF Cataloged, Now
<1> QED BY <1>1, <1>4, <1>5, <1>6, ShowSame

LEMMA ShowClose ==
    ASSUME Inv, ShowInv, NEW t \in Names, CloseTable(t)
    PROVE  ShowInv'
<1>1. PICK r \in Closed(Now(t)) : Become(t, r) /\ given' = [given EXCEPT ![t] = Lost(r, @)]
  BY DEF CloseTable
<1>2. IsOpen(t) /\ UNCHANGED schema /\ given = [u \in Names |-> given[u]]
  BY DEF CloseTable, ShowInv
<1>3. Opened(Now(t)) /\ Now(t).h # NoTable
  BY <1>2, OpenNow DEF IsOpen, Now
<1>4. /\ Shut(r.st) /\ r.bad \in BOOLEAN
      /\ ~r.bad => Through(r.st) = Through(Now(t))
      /\ ~r.bad /\ RootMarked(Now(t)) => FileMarked(r.st)
  BY <1>1, <1>3, ClosedOutcome
<1>5. Stepped(t, r)
  <2>1. r.st.h = NoTable
    BY <1>4, ShutFacts
  <2> QED BY <1>3, <1>4, <2>1 DEF Stepped, Sound, Marked
<1>6. /\ given' = [u \in Names |-> given'[u]]
      /\ \A u \in Names \ {t} : given'[u] = given[u] /\ schema'[u] = schema[u]
      /\ given'[t] = Lost(r, given[t])
  BY <1>1, <1>2
<1>7. ASSUME schema'[t] # NoTable, given'[t] # Unknown
      PROVE  Agree(schema'[t], Through(r.st), given'[t])
  <2>1. ~r.bad /\ given'[t] = given[t]
    BY <1>4, <1>6, <1>7 DEF Lost
  <2> QED BY <1>2, <1>4, <1>7, <2>1 DEF ShowInv, Agrees, Table
<1> QED BY <1>1, <1>5, <1>6, <1>7, ShowStep

LEMMA ShowRecord ==
    ASSUME Inv, ShowInv, NEW t \in Names, NEW k \in Keys,
           \/ GetRecord(t, k) \/ DeleteRecord(t, k)
           \/ \E v \in RawValues : InsertRecord(t, k, v) \/ UpdateRecord(t, k, v)
    PROVE  ShowInv'
<1>1. Opened(Now(t)) /\ UNCHANGED schema /\ IsOpen(t)
  BY OpenNow DEF GetRecord, DeleteRecord, InsertRecord, UpdateRecord
<1>2. RawValues \subseteq Values
  BY BytesAssumption
<1>3. \A v : Shows(t, v) = RowOf(schema[t], v)
  BY DEF Shows, RowOf
<1>4. RowOf(schema[t], NoValue) = NoValue
  BY DEF RowOf
<1>5. CASE GetRecord(t, k)
  <2>1. PICK r \in Reach(Now(t)) : Become(t, r) /\ UNCHANGED given
    BY <1>5 DEF GetRecord
  <2>2. Outcome(Now(t), r) /\ Through(r.st) = Through(Now(t))
    BY <1>1, <2>1, Reaching
  <2>3. Stepped(t, r)
    BY <1>1, <2>1, <2>2, RecordStep
  <2> QED BY <1>1, <2>1, <2>2, <2>3, ShowSame
<1>6. CASE DeleteRecord(t, k)
  <2>1. PICK r \in Delete(Now(t), k) :
           Become(t, r) /\ IF r.ok THEN Give(t, k, NoValue) ELSE UNCHANGED given
    BY <1>6 DEF DeleteRecord
  <2>2. Deleted(Now(t), k, r)
    BY <1>1, <2>1, DeleteOutcome
  <2>3. Stepped(t, r)
    BY <1>1, <2>1, <2>2, RecordStep DEF Deleted
  <2>4. CASE r.ok
    <3>1. Give(t, k, NoValue) /\ Through(r.st) = [Through(Now(t)) EXCEPT ![k] = NoValue]
      BY <2>1, <2>2, <2>4 DEF Deleted
    <3> QED BY <1>1, <1>4, <2>1, <2>3, <3>1, ShowGive
  <2>5. CASE ~r.ok
    <3>1. UNCHANGED given /\ Through(r.st) = Through(Now(t))
      BY <2>1, <2>2, <2>5 DEF Deleted
    <3> QED BY <1>1, <2>1, <2>3, <3>1, ShowSame
  <2> QED BY <2>4, <2>5
<1>7. ASSUME NEW v \in RawValues, InsertRecord(t, k, v) PROVE ShowInv'
  <2>1. PICK r \in Insert(Now(t), k, v) :
           Become(t, r) /\ IF r.ok THEN Give(t, k, Shows(t, v)) ELSE UNCHANGED given
    BY <1>7 DEF InsertRecord
  <2>2. Inserted(Now(t), k, v, r)
    BY <1>1, <1>2, <2>1, InsertOutcome
  <2>3. Stepped(t, r)
    BY <1>1, <2>1, <2>2, RecordStep DEF Inserted
  <2>4. CASE r.ok
    <3>1. Give(t, k, Shows(t, v)) /\ Through(r.st) = [Through(Now(t)) EXCEPT ![k] = v]
      BY <2>1, <2>2, <2>4 DEF Inserted
    <3> QED BY <1>1, <1>2, <1>3, <2>1, <2>3, <3>1, ShowGive
  <2>5. CASE ~r.ok
    <3>1. UNCHANGED given /\ Through(r.st) = Through(Now(t))
      BY <2>1, <2>2, <2>5 DEF Inserted
    <3> QED BY <1>1, <2>1, <2>3, <3>1, ShowSame
  <2> QED BY <2>4, <2>5
<1>8. ASSUME NEW v \in RawValues, UpdateRecord(t, k, v) PROVE ShowInv'
  <2>1. PICK r \in Update(Now(t), k, v) :
           /\ Become(t, r)
           /\ IF r.ok \/ Find(r.st, k) = NoValue
              THEN Give(t, k, IF r.ok THEN Shows(t, v) ELSE NoValue) ELSE UNCHANGED given
    BY <1>8 DEF UpdateRecord
  <2>2. Updated(Now(t), k, v, r)
    BY <1>1, <1>2, <2>1, UpdateOutcome
  <2>3. Stepped(t, r) /\ Opened(r.st)
    BY <1>1, <2>1, <2>2, RecordStep DEF Updated, Outcome
  <2>4. Find(r.st, k) = IF Through(r.st) \in Maps THEN Through(r.st)[k] ELSE NoValue
    BY <2>3, ThroughOpened
  <2>5. CASE r.ok
    <3>1. Give(t, k, Shows(t, v)) /\ Through(r.st) = [Through(Now(t)) EXCEPT ![k] = v]
      BY <2>1, <2>2, <2>5 DEF Updated
    <3> QED BY <1>1, <1>2, <1>3, <2>1, <2>3, <3>1, ShowGive
  <2>6. CASE ~r.ok /\ Find(r.st, k) # NoValue
    <3>1. UNCHANGED given
      BY <2>1, <2>6
    <3>2. Through(r.st) # [Through(Now(t)) EXCEPT ![k] = NoValue] \/ Through(Now(t)) \notin Maps
      <4> SUFFICES ASSUME Through(Now(t)) \in Maps,
                          Through(r.st) = [Through(Now(t)) EXCEPT ![k] = NoValue]
                   PROVE  FALSE
        OBVIOUS
      <4>1. Through(r.st)[k] = NoValue /\ Through(r.st) \in Maps
        BY EmptyLeaf DEF Maps
      <4> QED BY <2>4, <2>6, <4>1
    <3>3. Through(r.st) = Through(Now(t))
      BY <2>2, <2>6, <3>2 DEF Updated
    <3> QED BY <1>1, <2>1, <2>3, <3>1, <3>3, ShowSame
  <2>7. CASE ~r.ok /\ Find(r.st, k) = NoValue
    <3>1. Give(t, k, NoValue)
      BY <2>1, <2>7
    <3>2. CASE Through(r.st) = [Through(Now(t)) EXCEPT ![k] = NoValue]
      BY <1>1, <1>4, <2>1, <2>3, <3>1, <3>2, ShowGive
    <3>3. CASE Through(r.st) # [Through(Now(t)) EXCEPT ![k] = NoValue]
      <4>1. Through(r.st) = Through(Now(t))
        BY <2>2, <2>7, <3>3 DEF Updated
      <4>2. Through(Now(t)) \notin Maps
        <5> SUFFICES ASSUME Through(Now(t)) \in Maps PROVE FALSE
          OBVIOUS
        <5>1. Through(Now(t))[k] = NoValue
          BY <2>4, <2>7, <4>1
        <5>2. [Through(Now(t)) EXCEPT ![k] = NoValue] = Through(Now(t))
          BY <5>1 DEF Maps
        <5> QED BY <3>3, <4>1, <5>2
      <4>3. ~(schema[t] # NoTable /\ given[t] # Unknown)
        BY <4>2 DEF ShowInv, Agrees, Agree, Table
      <4>4. given = [u \in Names |-> given[u]]
        BY DEF ShowInv
      <4>5. /\ given' = [u \in Names |-> given'[u]]
            /\ \A u \in Names \ {t} : given'[u] = given[u]
            /\ given[t] = Unknown => given' = given
        BY <3>1, <4>4 DEF Give
      <4>6. ~(schema'[t] # NoTable /\ given'[t] # Unknown)
        BY <1>1, <4>3, <4>5
      <4> QED BY <1>1, <2>1, <2>3, <4>5, <4>6, ShowStep
    <3> QED BY <3>2, <3>3
  <2> QED BY <2>5, <2>6, <2>7
<1> QED BY <1>5, <1>6, <1>7, <1>8

\* the row that is given is the one its bytes decode to: the codec
LEMMA ShowInsertRow ==
    ASSUME Inv, ShowInv, NEW t \in Names, NEW row \in Rows, InsertRow(t, row)
    PROVE  ShowInv'
<1> DEFINE k == EncodeKey(schema[t], row)
           v == EncodeValue(schema[t], row)
<1>1. PICK o \in Open(Now(t)) :
         IF o.ok /\ <<schema[t], row>> \in Encodable
         THEN \E q \in Insert(o.st, k, v) :
                 /\ Become(t, q)
                 /\ IF q.ok THEN Give(t, k, Stored(schema[t], row)) ELSE UNCHANGED given
         ELSE Become(t, o) /\ UNCHANGED given
  BY DEF InsertRow
<1>2. schema[t] # NoTable /\ UNCHANGED schema
  BY DEF InsertRow
<1>3. /\ Sound(Now(t)) /\ file[t] # NoTable /\ schema[t] \in Schemas
      /\ <<schema[t], row>> \in Encodable => k \in Keys /\ v \in Values
  BY <1>2, BytesAssumption DEF Inv, Cataloged
<1>4. <<schema[t], row>> \in Encodable => Stored(schema[t], row) = RowOf(schema[t], v)
  <2>1. ASSUME <<schema[t], row>> \in Encodable
        PROVE  Stored(schema[t], row) = RowOf(schema[t], v)
    <3>1. Decode(schema[t], v) = Stored(schema[t], row) /\ Decode(schema[t], v) # <<>>
      BY <1>3, <2>1, RoundTrip
    <3>2. v # NoValue
      BY <1>3, <2>1, MarkAssumption
    <3> HIDE DEF v
    <3> QED BY <1>2, <3>1, <3>2 DEF RowOf
  <2> QED BY <2>1
<1> HIDE DEF k, v
<1>5. OpenedTable(Now(t), o) /\ Through(Now(t)) # NoTable
  BY <1>3, OpenOutcome, ThroughSound DEF Now
<1>6. /\ Through(o.st) = Through(Now(t))
      /\ Marked(Now(t)) => Marked(o.st)
      /\ o.ok = ~o.bad /\ o.bad \in BOOLEAN /\ Sound(o.st)
      /\ o.ok => Opened(o.st)
  BY <1>5 DEF OpenedTable, Sound
<1>7. CASE o.ok /\ <<schema[t], row>> \in Encodable
  <2>1. PICK q \in Insert(o.st, k, v) :
           /\ Become(t, q)
           /\ IF q.ok THEN Give(t, k, Stored(schema[t], row)) ELSE UNCHANGED given
    BY <1>1, <1>7
  <2>2. Opened(o.st) /\ k \in Keys /\ v \in Values
    BY <1>3, <1>6, <1>7
  <2>3. Inserted(o.st, k, v, q)
    BY <2>1, <2>2, InsertOutcome
  <2>4. /\ Opened(q.st) /\ q.bad \in BOOLEAN
        /\ ~q.bad /\ RootMarked(o.st) => RootMarked(q.st)
    BY <2>3 DEF Inserted, Outcome
  <2>5. o.st.h # NoTable /\ q.st.h # NoTable
    BY <2>2, <2>4, OpenedFacts
  <2>6. Stepped(t, q)
    BY <1>6, <2>4, <2>5 DEF Stepped, Sound, Marked
  <2>7. CASE q.ok
    <3>1. /\ Give(t, k, Stored(schema[t], row))
          /\ Through(q.st) = [Through(Now(t)) EXCEPT ![k] = v]
      BY <1>6, <2>1, <2>3, <2>7 DEF Inserted
    <3>2. Stored(schema[t], row) = RowOf(schema[t], v)
      BY <1>4, <1>7
    <3> QED BY <1>2, <2>1, <2>2, <2>6, <3>1, <3>2, ShowGive
  <2>8. CASE ~q.ok
    <3>1. UNCHANGED given /\ Through(q.st) = Through(Now(t))
      BY <1>6, <2>1, <2>3, <2>8 DEF Inserted
    <3> QED BY <1>2, <2>1, <2>6, <3>1, ShowSame
  <2> QED BY <2>7, <2>8
<1>8. CASE ~(o.ok /\ <<schema[t], row>> \in Encodable)
  <2>1. Become(t, o) /\ UNCHANGED given
    BY <1>1, <1>8
  <2>2. Stepped(t, o)
    BY <1>6 DEF Stepped
  <2> QED BY <1>2, <1>6, <2>1, <2>2, ShowSame
<1> QED BY <1>7, <1>8

LEMMA ShowSaving ==
    ASSUME Inv, ShowInv, FlushAll \/ Stop
    PROVE  ShowInv'
<1>1. CASE FlushAll
  <2>1. PICK X \in SUBSET Unsaved :
          /\ file' = [t \in Names |-> After(X)[t].file]
          /\ handle' = [t \in Names |-> After(X)[t].h]
    BY <1>1 DEF FlushAll
  <2>2. UNCHANGED <<schema, given>>
    BY <1>1 DEF FlushAll
  <2>3. ASSUME NEW t \in Names PROVE Table(t)' = Table(t)
    <3>1. Sound(After(X)[t]) /\ Through(After(X)[t]) = Through(Now(t))
      BY AfterFacts
    <3>2. After(X)[t] = State(After(X)[t].file, After(X)[t].h)
      BY <3>1, ThroughSound
    <3>3. Now(t)' = After(X)[t]
      BY <2>1, <3>2, NowNext
    <3> QED BY <3>1, <3>3 DEF Table
  <2>4. \A t \in Names : Agrees(t)'
    BY <2>2, <2>3 DEF Agrees, ShowInv
  <2> QED BY <2>2, <2>4 DEF ShowInv
<1>2. CASE Stop
  <2>1. /\ handle' = [t \in Names |-> NoTable] /\ schema' = handle'
        /\ given' = [t \in Names |-> NoRows]
    BY <1>2 DEF Stop
  <2>2. given' = [t \in Names |-> given'[t]] /\ \A t \in Names : schema'[t] = NoTable
    BY <2>1
  <2> QED BY <2>2 DEF ShowInv, Agrees
<1> QED BY <1>1, <1>2

LEMMA ShowNext == Inv /\ ShowInv /\ [Next]_vars => ShowInv'
<1> SUFFICES ASSUME Inv, ShowInv, [Next]_vars PROVE ShowInv'
  OBVIOUS
<1>1. CASE FlushAll \/ Stop
  BY <1>1, ShowSaving
<1>2. ASSUME NEW t \in Names,
             \/ \E s \in Schemas \cup {NoTable} : CreateTable(t, s)
             \/ DropTable(t) \/ OpenTable(t) \/ CloseTable(t) \/ Scan(t)
             \/ \E row \in Rows : InsertRow(t, row)
      PROVE  ShowInv'
  BY <1>2, ShowCreate, ShowDrop, ShowOpenScan, ShowClose, ShowInsertRow
<1>3. ASSUME NEW t \in Names, NEW k \in Keys,
             \/ GetRecord(t, k) \/ DeleteRecord(t, k)
             \/ \E v \in RawValues : InsertRecord(t, k, v) \/ UpdateRecord(t, k, v)
      PROVE  ShowInv'
  BY <1>3, ShowRecord
<1>4. CASE UNCHANGED vars
  <2>1. \A t \in Names : Table(t)' = Table(t)
    BY <1>4 DEF vars, Table, Now
  <2> QED BY <1>4, <2>1 DEF vars, ShowInv, Agrees
<1> QED BY <1>1, <1>2, <1>3, <1>4 DEF Next

THEOREM Invariant == Spec => []Inv
<1>1. Inv /\ [Next]_vars => Inv'
  BY StepFacts, StutterFacts
<1> QED BY <1>1, InvInit, PTL DEF Spec

\* ScanShowsRows: while no write of a table was lost, a scan shows the rows that
\* insert_row was given, as the codec stores them, and the records put there
\* past the catalog that decode to a row, each under its own key
THEOREM ScansShowRows == Spec => []ScanShowsRows
<1>1. Init => ShowInv
  BY DEF Init, ShowInv, Agrees
<1>2. Inv /\ ShowInv => ScanShowsRows
  <2> SUFFICES ASSUME Inv, ShowInv, NEW t \in Names, schema[t] # NoTable
               PROVE  /\ file[t] # NoTable
                      /\ given[t] # Unknown =>
                            /\ Table(t) # Broken
                            /\ {Shows(t, Table(t)[k]) : k \in Keys} = {given[t][k] : k \in Keys}
    BY DEF ScanShowsRows
  <2>1. file[t] # NoTable
    BY DEF Inv, Cataloged
  <2>2. ASSUME given[t] # Unknown
        PROVE  /\ Table(t) # Broken
               /\ {Shows(t, Table(t)[k]) : k \in Keys} = {given[t][k] : k \in Keys}
    <3>1. Agree(schema[t], Table(t), given[t])
      BY <2>2 DEF ShowInv, Agrees
    <3>2. \A k \in Keys : given[t][k] = Shows(t, Table(t)[k])
      BY <3>1 DEF Agree, Shows, RowOf
    <3>3. Table(t) # Broken
      BY <3>1, MarkAssumption DEF Agree
    <3> QED BY <3>2, <3>3
  <2> QED BY <2>1, <2>2
<1> QED BY <1>1, <1>2, ShowNext, Invariant, PTL DEF Spec

\* RootAllocated: while no call has failed, the page a root pointer names, in
\* memory or in the file, is marked in the bitmap that allocate_page reads
THEOREM RootsAreAllocated == Spec => []RootAllocated
<1>1. Inv => RootAllocated
  <2> SUFFICES ASSUME Inv, faults = 0, NEW t \in Names
               PROVE  /\ IsOpen(t) /\ handle[t].root >= 3 => handle[t].root \in Page(Now(t), 1)
                      /\ ~IsOpen(t) /\ file[t] # NoTable /\ file[t][0] >= 3 => file[t][0] \in file[t][1]
    BY DEF RootAllocated
  <2>1. Marked(Now(t))
    BY DEF Inv
  <2>2. Now(t).h = handle[t] /\ Now(t).file = file[t]
    BY DEF Now
  <2> QED BY <2>1, <2>2 DEF Marked, RootMarked, FileMarked, IsOpen
<1> QED BY <1>1, Invariant, PTL

\* TablesKept: the engine implements TableSpace.  Closing, reopening and a
\* normal stop change no table, a refusal has one of the reasons TableSpace
\* names, and only a step with a fault takes a table back to what its file held
THEOREM EngineIsTableSpace == Spec => TablesKept
<1>1. Init => Abstract!Init
  <2> SUFFICES ASSUME Init PROVE Abstract!Init
    OBVIOUS
  <2>1. /\ \A t \in Names : file[t] = NoTable /\ handle[t] = NoTable
        /\ faults = 0 /\ answer = None
    BY DEF Init
  <2>2. \A t \in Names : Table(t) = NoTable /\ Saved(t) = NoTable
    BY <2>1 DEF Table, Saved, Through, Now
  <2> QED BY <2>1, <2>2 DEF Abstract!Init, Abstract!None, Abstract!Answer, None, Answer
<1>2. View!Next <=> Abstract!Next
  BY DEF tables, kept, View!Next, View!Saving, View!Fault, View!Create, View!RefuseCreate,
         View!Drop, View!Delete, View!LostUpdate, View!RefuseInsert, View!RefuseChange,
         View!Get, View!Insert, View!Update, View!Other, View!Lose, View!Holds, View!Put,
         View!Empty, View!Maps, View!Answer, View!None,
         Abstract!Next, Abstract!Saving, Abstract!Fault, Abstract!Create,
         Abstract!RefuseCreate, Abstract!Drop, Abstract!Delete, Abstract!LostUpdate,
         Abstract!RefuseInsert, Abstract!RefuseChange, Abstract!Get, Abstract!Insert,
         Abstract!Update, Abstract!Other, Abstract!Lose, Abstract!Holds, Abstract!Put,
         Abstract!Empty, Abstract!Maps, Abstract!Answer, Abstract!None
<1>3. UNCHANGED View!vars <=> UNCHANGED Abstract!vars
  BY DEF View!vars, Abstract!vars, tables, kept
<1>4. Inv /\ [Next]_vars => [Abstract!Next]_(Abstract!vars)
  BY <1>2, <1>3, StepFacts, StutterFacts
<1> QED BY <1>1, <1>4, Invariant, PTL DEF Spec, TablesKept, Abstract!Spec
=============================================================================
