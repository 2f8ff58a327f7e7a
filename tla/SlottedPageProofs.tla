------------------------- MODULE SlottedPageProofs -------------------------
(***************************************************************************)
(* Theorems about SlottedPage, for every page size, every set of keys and  *)
(* value sizes, and every width the page size fits in.                     *)
(***************************************************************************)
EXTENDS SlottedPage, SequenceTheorems, WellFoundedInduction, TLAPS

-----------------------------------------------------------------------------
(* Lists with one element more or less                                     *)

LEMMA InsertAtFacts ==
    ASSUME NEW S, NEW s \in Seq(S), NEW i \in 1..(Len(s) + 1), NEW e \in S
    PROVE  /\ InsertAt(s, i, e) \in Seq(S)
           /\ Len(InsertAt(s, i, e)) = Len(s) + 1
           /\ \A j \in 1..(Len(s) + 1) :
                InsertAt(s, i, e)[j] = IF j < i THEN s[j] ELSE IF j = i THEN e ELSE s[j - 1]
<1> DEFINE a == SubSeq(s, 1, i - 1)
           b == SubSeq(s, i, Len(s))
<1>0. Len(s) \in Nat /\ \A j \in 1..Len(s) : s[j] \in S
  BY ElementOfSeq, LenProperties
<1>1. a \in Seq(S) /\ Len(a) = i - 1 /\ \A j \in 1..(i - 1) : a[j] = s[j]
  <2>1. \A j \in 1..(i - 1) : s[j] \in S
    BY <1>0
  <2>2. /\ a \in Seq(S)
        /\ Len(a) = IF 1 <= i - 1 THEN (i - 1) - 1 + 1 ELSE 0
        /\ \A j \in 1..((i - 1) - 1 + 1) : a[j] = s[1 + j - 1]
    BY <2>1, <1>0, SubSeqProperties
  <2> QED BY <2>2, <1>0
<1>2. b \in Seq(S) /\ Len(b) = Len(s) - i + 1 /\ \A j \in 1..(Len(s) - i + 1) : b[j] = s[i + j - 1]
  <2>1. \A j \in i..Len(s) : s[j] \in S
    BY <1>0
  <2>2. /\ b \in Seq(S)
        /\ Len(b) = IF i <= Len(s) THEN Len(s) - i + 1 ELSE 0
        /\ \A j \in 1..(Len(s) - i + 1) : b[j] = s[i + j - 1]
    BY <2>1, <1>0, SubSeqProperties
  <2> QED BY <2>2, <1>0
<1>3. <<e>> \in Seq(S) /\ Len(<<e>>) = 1 /\ <<e>>[1] = e
  OBVIOUS
<1> DEFINE c == a \o <<e>>
<1>4. /\ c \in Seq(S) /\ Len(c) = i
      /\ \A j \in 1..i : c[j] = IF j < i THEN s[j] ELSE e
  <2>1. /\ c \in Seq(S) /\ Len(c) = Len(a) + 1
        /\ \A j \in 1..(Len(a) + 1) : c[j] = IF j <= Len(a) THEN a[j] ELSE <<e>>[j - Len(a)]
    BY <1>1, <1>3, ConcatProperties
  <2>2. Len(c) = i
    BY <2>1, <1>1, <1>0
  <2>3. ASSUME NEW j \in 1..i PROVE c[j] = IF j < i THEN s[j] ELSE e
    <3>1. CASE j < i
      BY <3>1, <2>1, <1>1, <1>0
    <3>2. CASE j = i
      BY <3>2, <2>1, <1>1, <1>3, <1>0
    <3> QED BY <3>1, <3>2, <1>0
  <2> QED BY <2>1, <2>2, <2>3
<1> HIDE DEF a, b, c
<1>5. /\ c \o b \in Seq(S) /\ Len(c \o b) = Len(c) + Len(b)
      /\ \A j \in 1..(Len(c) + Len(b)) : (c \o b)[j] = IF j <= Len(c) THEN c[j] ELSE b[j - Len(c)]
  BY <1>2, <1>4, ConcatProperties
<1>6. InsertAt(s, i, e) = c \o b
  BY DEF InsertAt, a, b, c
<1>7. Len(c) + Len(b) = Len(s) + 1
  BY <1>2, <1>4, <1>0
<1>8. ASSUME NEW j \in 1..(Len(s) + 1)
      PROVE (c \o b)[j] = IF j < i THEN s[j] ELSE IF j = i THEN e ELSE s[j - 1]
  <2>0. i \in Nat /\ j \in Nat /\ Len(c) = i
    BY <1>0, <1>4
  <2>1. ASSUME j < i PROVE (c \o b)[j] = s[j]
    BY <2>0, <2>1, <1>5, <1>7, <1>4
  <2>2. ASSUME j = i PROVE (c \o b)[j] = e
    BY <2>0, <2>2, <1>5, <1>7, <1>4
  <2>3. ASSUME j > i PROVE (c \o b)[j] = s[j - 1]
    <3>1. (c \o b)[j] = b[j - i]
      BY <2>0, <2>3, <1>5, <1>7
    <3>2. j - i \in 1..(Len(s) - i + 1) /\ i + (j - i) - 1 = j - 1
      BY <2>3, <1>0
    <3>3. b[j - i] = s[j - 1]
      BY <3>2, <1>2
    <3> QED BY <3>1, <3>3
  <2>4. j < i \/ j = i \/ j > i
    BY <2>0
  <2>5. j > i => ~(j < i) /\ j # i
    BY <2>0
  <2>6. j = i => ~(j < i)
    BY <2>0
  <2> QED BY <2>1, <2>2, <2>3, <2>4, <2>5, <2>6, Zenon
<1> QED BY <1>5, <1>6, <1>7, <1>8

LEMMA RemoveAtFacts ==
    ASSUME NEW S, NEW s \in Seq(S), NEW i \in 1..Len(s)
    PROVE  /\ RemoveAt(s, i) \in Seq(S)
           /\ Len(RemoveAt(s, i)) = Len(s) - 1
           /\ \A j \in 1..(Len(s) - 1) : RemoveAt(s, i)[j] = IF j < i THEN s[j] ELSE s[j + 1]
<1> DEFINE a == SubSeq(s, 1, i - 1)
           b == SubSeq(s, i + 1, Len(s))
<1>0. Len(s) \in Nat /\ \A j \in 1..Len(s) : s[j] \in S
  BY ElementOfSeq, LenProperties
<1>1. a \in Seq(S) /\ Len(a) = i - 1 /\ \A j \in 1..(i - 1) : a[j] = s[j]
  <2>1. \A j \in 1..(i - 1) : s[j] \in S
    BY <1>0
  <2>2. /\ a \in Seq(S)
        /\ Len(a) = IF 1 <= i - 1 THEN (i - 1) - 1 + 1 ELSE 0
        /\ \A j \in 1..((i - 1) - 1 + 1) : a[j] = s[1 + j - 1]
    BY <2>1, <1>0, SubSeqProperties
  <2> QED BY <2>2, <1>0
<1>2. b \in Seq(S) /\ Len(b) = Len(s) - i /\ \A j \in 1..(Len(s) - i) : b[j] = s[i + j]
  <2>1. \A j \in (i + 1)..Len(s) : s[j] \in S
    BY <1>0
  <2>2. /\ b \in Seq(S)
        /\ Len(b) = IF i + 1 <= Len(s) THEN Len(s) - (i + 1) + 1 ELSE 0
        /\ \A j \in 1..(Len(s) - (i + 1) + 1) : b[j] = s[(i + 1) + j - 1]
    BY <2>1, <1>0, SubSeqProperties
  <2>3. \A j \in 1..(Len(s) - i) : (i + 1) + j - 1 = i + j
    BY <1>0
  <2> QED BY <2>2, <2>3, <1>0
<1> HIDE DEF a, b
<1>3. /\ a \o b \in Seq(S) /\ Len(a \o b) = Len(a) + Len(b)
      /\ \A j \in 1..(Len(a) + Len(b)) : (a \o b)[j] = IF j <= Len(a) THEN a[j] ELSE b[j - Len(a)]
  BY <1>1, <1>2, ConcatProperties
<1>4. RemoveAt(s, i) = a \o b
  BY DEF RemoveAt, a, b
<1>5. Len(a) + Len(b) = Len(s) - 1
  BY <1>1, <1>2, <1>0
<1>6. ASSUME NEW j \in 1..(Len(s) - 1)
      PROVE (a \o b)[j] = IF j < i THEN s[j] ELSE s[j + 1]
  <2>0. i \in Nat /\ j \in Nat /\ Len(a) = i - 1
    BY <1>0, <1>1
  <2>1. ASSUME j < i PROVE (a \o b)[j] = s[j]
    BY <2>0, <2>1, <1>3, <1>5, <1>1
  <2>2. ASSUME j >= i PROVE (a \o b)[j] = s[j + 1]
    <3>1. (a \o b)[j] = b[j - (i - 1)]
      BY <2>0, <2>2, <1>3, <1>5, SMTT(40)
    <3>2. j - (i - 1) \in 1..(Len(s) - i) /\ i + (j - (i - 1)) = j + 1
      BY <2>2, <1>0
    <3>3. b[j - (i - 1)] = s[j + 1]
      BY <3>2, <1>2
    <3> QED BY <3>1, <3>3
  <2>3. j < i \/ j >= i
    BY <2>0
  <2>4. j >= i => ~(j < i)
    BY <2>0
  <2> QED BY <2>1, <2>2, <2>3, <2>4, Zenon
<1> QED BY <1>3, <1>4, <1>5, <1>6

-----------------------------------------------------------------------------
(* Sizes                                                                   *)

(* Where the whole record fits below the directory, its 16-bit size and    *)
(* the new free_start have not wrapped.                                    *)
LEMMA NoWrap ==
    ASSUME NEW a \in Nat, NEW w \in Nat, a < w
    PROVE  a % w = a
  BY Z3

LEMMA KeyLength ==
    \A k \in Keys : Len(k) \in Nat \ {0}
BY KeyAssumption, EmptySeq

LEMMA RecordWidth ==
    ASSUME SizeAssumption, Layout,
           NEW k \in Keys, NEW v \in ValueSizes, WriteFits(k, v)
    PROVE  /\ Bytes(k, v) \in Nat \ {0}
           /\ RecordSize(k, v) = Bytes(k, v)
           /\ NewFreeStart(k, v) = free_start + Bytes(k, v)
<1>1. Bytes(k, v) \in Nat \ {0}
  BY SizeAssumption, KeyLength DEF Bytes
<1>2. free_start \in Nat /\ free_end \in Nat /\ free_end <= PageSize /\ Len(slots) \in Nat
  BY SizeAssumption, ElementOfSeq, LenProperties, SMTT(40) DEF Layout, TypeOK, InPage
<1>3. Bytes(k, v) < Width /\ free_start + Bytes(k, v) < Width
  BY <1>1, <1>2, SizeAssumption DEF WriteFits
<1>4. RecordSize(k, v) = Bytes(k, v)
  BY <1>1, <1>3, NoWrap, SizeAssumption DEF RecordSize
<1>5. NewFreeStart(k, v) = free_start + Bytes(k, v)
  BY <1>1, <1>2, <1>3, <1>4, NoWrap, SizeAssumption DEF NewFreeStart
<1> QED BY <1>1, <1>4, <1>5

-----------------------------------------------------------------------------
(* Layout is inductive as it stands                                        *)

LEMMA Sizes ==
    ASSUME SizeAssumption, Layout
    PROVE  /\ free_start \in Nat /\ free_end \in Nat
           /\ HeaderSize \in Nat /\ PageSize \in Nat /\ SlotSize \in Nat \ {0}
           /\ Len(slots) \in Nat
           /\ \A o \in DOMAIN heap : o \in Nat /\ SizeAt(o) \in Nat \ {0} /\ o < free_start
           /\ \A j \in 1..Len(slots) : slots[j] \in DOMAIN heap
<1>1. free_start \in Nat /\ free_end \in Nat /\ slots \in Seq(DOMAIN heap)
  BY DEF Layout, TypeOK
<1>2. Len(slots) \in Nat /\ \A j \in 1..Len(slots) : slots[j] \in DOMAIN heap
  BY <1>1, ElementOfSeq, LenProperties
<1>3. ASSUME NEW o \in DOMAIN heap
      PROVE  o \in Nat /\ SizeAt(o) \in Nat \ {0} /\ o < free_start
  <2>1. o \in Nat /\ heap[o].key \in Keys /\ heap[o].value \in ValueSizes
    BY <1>3 DEF Layout, TypeOK, Record
  <2>2. SizeAt(o) \in Nat \ {0}
    <3>1. Len(heap[o].key) \in Nat /\ RecordHeader \in Nat \ {0} /\ heap[o].value \in Nat
      BY <2>1, SizeAssumption, KeyLength
    <3>2. RecordHeader + Len(heap[o].key) + heap[o].value \in Nat \ {0}
      BY <3>1, SMTT(40)
    <3> QED BY <3>2 DEF SizeAt, Bytes
  <2>3. o + SizeAt(o) <= free_start
    BY <1>3 DEF Layout, RecordsFit
  <2> QED BY <1>1, <2>1, <2>2, <2>3
<1> QED BY <1>1, <1>2, <1>3, SizeAssumption

LEMMA InitLayout ==
    ASSUME SizeAssumption, Init PROVE Layout
<1>1. heap = Empty /\ slots = <<>> /\ free_start = HeaderSize /\ free_end = PageSize
  BY DEF Init
<1>2. DOMAIN heap = {} /\ Len(slots) = 0 /\ slots \in Seq(DOMAIN heap) /\ DOMAIN slots = {}
  BY <1>1 DEF Empty
<1>3. TypeOK
  BY <1>1, <1>2, SizeAssumption DEF TypeOK
<1>4. InPage
  BY <1>1, <1>2, SizeAssumption DEF InPage
<1> QED BY <1>2, <1>3, <1>4 DEF Layout, RecordsFit, RecordsApart, SlotsApart

LEMMA ResetLayout ==
    ASSUME SizeAssumption, InitPage PROVE Layout'
<1>1. heap' = Empty /\ slots' = <<>> /\ free_start' = HeaderSize /\ free_end' = PageSize
  BY DEF InitPage
<1>2. DOMAIN heap' = {} /\ Len(slots') = 0 /\ slots' \in Seq(DOMAIN heap') /\ DOMAIN slots' = {}
  BY <1>1 DEF Empty
<1>3. TypeOK'
  BY <1>1, <1>2, SizeAssumption DEF TypeOK
<1>4. InPage'
  BY <1>1, <1>2, SizeAssumption DEF InPage
<1> QED BY <1>2, <1>3, <1>4 DEF Layout, RecordsFit, RecordsApart, SlotsApart

(* What an accepted insertion does to records and slots: the record is new *)
(* at free_start, its slot is placed where the search pointed.             *)
InsertedAt(k, v, i) ==
    /\ free_start' = free_start + Bytes(k, v) /\ Bytes(k, v) \in Nat \ {0}
    /\ free_end' = free_end - SlotSize /\ free_start' <= free_end'
    /\ DOMAIN heap' = DOMAIN heap \cup {free_start}
    /\ free_start \notin DOMAIN heap
    /\ heap'[free_start] = [key |-> k, value |-> v, deleted |-> FALSE]
    /\ \A o \in DOMAIN heap : heap'[o] = heap[o]
    /\ slots' \in Seq(DOMAIN heap')
    /\ Len(slots') = Len(slots) + 1
    /\ \A j \in 1..(Len(slots) + 1) :
         slots'[j] = IF j < i + 1 THEN slots[j] ELSE IF j = i + 1 THEN free_start ELSE slots[j - 1]

LEMMA InsertChanges ==
    ASSUME SizeAssumption, Layout,
           NEW k \in Keys, NEW v \in ValueSizes, PageInsert(k, v)
    PROVE  \E i \in 0..Len(slots) : i = SearchRecord(k).index /\ InsertedAt(k, v, i)
<1>1. PICK i \in 0..Len(slots) : /\ i = SearchRecord(k).index
                                  /\ slots' = InsertAt(slots, i + 1, free_start)
  BY DEF PageInsert
<1> DEFINE r == [key |-> k, value |-> v, deleted |-> FALSE]
<1>2. /\ heap' = [o \in DOMAIN heap \cup {free_start} |-> IF o = free_start THEN r ELSE heap[o]]
      /\ free_start' = NewFreeStart(k, v)
      /\ free_end' = free_end - SlotSize
      /\ WriteFits(k, v)
      /\ NewFreeStart(k, v) <= free_end - SlotSize
  BY DEF PageInsert, Accepts
<1>3. /\ Bytes(k, v) \in Nat \ {0}
      /\ free_start' = free_start + Bytes(k, v)
      /\ free_start' <= free_end'
  BY <1>2, RecordWidth
<1>4. /\ free_start \in Nat /\ free_end \in Nat /\ Len(slots) \in Nat
      /\ HeaderSize \in Nat /\ PageSize \in Nat /\ SlotSize \in Nat \ {0}
      /\ \A o \in DOMAIN heap : o \in Nat /\ SizeAt(o) \in Nat \ {0} /\ o < free_start
      /\ \A j \in 1..Len(slots) : slots[j] \in DOMAIN heap
  BY Sizes
<1>5. /\ DOMAIN heap' = DOMAIN heap \cup {free_start}
      /\ free_start \notin DOMAIN heap
      /\ heap'[free_start] = r
      /\ \A o \in DOMAIN heap : heap'[o] = heap[o]
  BY <1>2, <1>4
<1> HIDE DEF r
<1> DEFINE D == DOMAIN heap'
<1>7. /\ slots' \in Seq(D)
      /\ Len(slots') = Len(slots) + 1
      /\ \A j \in 1..(Len(slots) + 1) :
           slots'[j] = IF j < i + 1 THEN slots[j] ELSE IF j = i + 1 THEN free_start ELSE slots[j - 1]
  <2>1. slots \in Seq(D)
    BY <1>5, <1>4, ElementOfSeq, SeqDef, LenProperties DEF Layout, TypeOK
  <2>2. i + 1 \in 1..(Len(slots) + 1) /\ free_start \in D
    BY <1>4, <1>5
  <2> DEFINE n == i + 1
             t == InsertAt(slots, n, free_start)
  <2>3. n \in 1..(Len(slots) + 1) /\ slots' = t
    BY <1>1, <2>2
  <2> HIDE DEF D, n
  <2>4. /\ t \in Seq(D)
        /\ Len(t) = Len(slots) + 1
        /\ \A j \in 1..(Len(slots) + 1) :
             t[j] = IF j < n THEN slots[j] ELSE IF j = n THEN free_start ELSE slots[j - 1]
    <3>1. slots \in Seq(D) /\ n \in 1..(Len(slots) + 1) /\ free_start \in D
      BY <2>1, <2>2, <2>3
    <3>2. t \in Seq(D) /\ Len(t) = Len(slots) + 1
      BY <3>1, InsertAtFacts
    <3>3. ASSUME NEW j \in 1..(Len(slots) + 1)
          PROVE  t[j] = IF j < n THEN slots[j] ELSE IF j = n THEN free_start ELSE slots[j - 1]
      BY <3>1, InsertAtFacts
    <3> QED BY <3>2, <3>3
  <2> HIDE DEF t
  <2> QED BY <2>3, <2>4 DEF n
<1> QED BY <1>1, <1>2, <1>3, <1>5, <1>7 DEF InsertedAt, r, D

(* A record goes where no record is, and the directory still ends above it *)
LEMMA InsertLayout ==
    ASSUME SizeAssumption, Layout,
           NEW k \in Keys, NEW v \in ValueSizes, PageInsert(k, v)
    PROVE  Layout'
<1>1. PICK i \in 0..Len(slots) : InsertedAt(k, v, i)
  BY InsertChanges
<1> DEFINE r == [key |-> k, value |-> v, deleted |-> FALSE]
<1>2. free_end' = free_end - SlotSize
  BY <1>1 DEF InsertedAt
<1>3. /\ Bytes(k, v) \in Nat \ {0}
      /\ free_start' = free_start + Bytes(k, v)
      /\ free_start' <= free_end'
  BY <1>1 DEF InsertedAt
<1>4. /\ free_start \in Nat /\ free_end \in Nat /\ Len(slots) \in Nat
      /\ HeaderSize \in Nat /\ PageSize \in Nat /\ SlotSize \in Nat \ {0}
      /\ \A o \in DOMAIN heap : o \in Nat /\ SizeAt(o) \in Nat \ {0} /\ o < free_start
      /\ \A j \in 1..Len(slots) : slots[j] \in DOMAIN heap
  BY Sizes
<1>5. /\ DOMAIN heap' = DOMAIN heap \cup {free_start}
      /\ free_start \notin DOMAIN heap
      /\ heap'[free_start] = r
      /\ \A o \in DOMAIN heap : heap'[o] = heap[o]
  BY <1>1 DEF InsertedAt
<1>6. /\ \A o : o = free_start => SizeAt(o)' = Bytes(k, v)
      /\ \A o \in DOMAIN heap : SizeAt(o)' = SizeAt(o)
  BY <1>5 DEF SizeAt
<1> HIDE DEF r
<1>7. /\ slots' \in Seq(DOMAIN heap')
      /\ Len(slots') = Len(slots) + 1
      /\ \A j \in 1..(Len(slots) + 1) :
           slots'[j] = IF j < i + 1 THEN slots[j] ELSE IF j = i + 1 THEN free_start ELSE slots[j - 1]
  BY <1>1 DEF InsertedAt
<1>8. TypeOK'
  <2>1. r \in Record
    BY DEF r, Record
  <2>2. \A o \in DOMAIN heap : heap[o] \in Record
    BY DEF Layout, TypeOK
  <2>3. \A o \in DOMAIN heap' : heap'[o] \in Record
    BY <2>1, <2>2, <1>5
  <2>4. DOMAIN heap' \subseteq Nat
    BY <1>4, <1>5
  <2>5. free_start' \in Nat /\ free_end' \in Nat
    BY <1>2, <1>3, <1>4
  <2> QED BY <1>7, <2>3, <2>4, <2>5 DEF TypeOK
<1>9. InPage'
  <2>1. HeaderSize <= free_start /\ free_end + SlotSize * Len(slots) = PageSize
    BY DEF Layout, InPage
  <2>2. SlotSize * (Len(slots) + 1) = SlotSize * Len(slots) + SlotSize /\ SlotSize * Len(slots) \in Nat
    BY <1>4
  <2>3. SlotSize * Len(slots') = SlotSize * (Len(slots) + 1)
    BY <1>7
  <2>4. free_end' + SlotSize * Len(slots') = PageSize
    <3> DEFINE d == SlotSize * Len(slots)
               e == SlotSize * Len(slots')
    <3>1. d \in Nat /\ e = d + SlotSize /\ free_end + d = PageSize
      BY <2>1, <2>2, <2>3
    <3> HIDE DEF d, e
    <3>2. free_end' + e = PageSize
      BY <3>1, <1>2, <1>4
    <3> QED BY <3>2 DEF e
  <2> QED BY <2>1, <2>4, <1>3, <1>4 DEF InPage
<1>10. RecordsFit'
  <2>1. ASSUME NEW o \in DOMAIN heap' PROVE HeaderSize <= o /\ o + SizeAt(o)' <= free_start'
    <3>1. CASE o = free_start
      <4>1. SizeAt(o)' = Bytes(k, v) /\ HeaderSize <= free_start
        BY <3>1, <1>6 DEF Layout, InPage
      <4> QED BY <4>1, <3>1, <1>3, <1>4
    <3>2. CASE o \in DOMAIN heap
      <4>1. HeaderSize <= o /\ o + SizeAt(o) <= free_start
        BY <3>2 DEF Layout, RecordsFit
      <4> QED BY <4>1, <3>2, <1>3, <1>4, <1>6
    <3> QED BY <3>1, <3>2, <1>5
  <2> QED BY <2>1 DEF RecordsFit
<1>11. RecordsApart'
  <2>1. ASSUME NEW o \in DOMAIN heap', NEW p \in DOMAIN heap', o < p PROVE o + SizeAt(o)' <= p
    <3>1. o # free_start
      <4>1. p <= free_start
        BY <1>4, <1>5
      <4> QED BY <4>1, <2>1, <1>4, <1>5
    <3>2. o \in DOMAIN heap
      BY <3>1, <1>5
    <3>3. CASE p = free_start
      BY <3>2, <3>3, <1>6 DEF Layout, RecordsFit
    <3>4. CASE p \in DOMAIN heap
      BY <2>1, <3>2, <3>4, <1>6 DEF Layout, RecordsApart
    <3> QED BY <3>3, <3>4, <1>5
  <2> QED BY <2>1 DEF RecordsApart
<1>12. SlotsApart'
  <2>0. DOMAIN slots' = 1..(Len(slots) + 1) /\ DOMAIN slots = 1..Len(slots)
    BY <1>7, LenProperties DEF Layout, TypeOK
  <2>1. ASSUME NEW a \in DOMAIN slots', NEW b \in DOMAIN slots', a # b PROVE slots'[a] # slots'[b]
    <3> DEFINE old(j) == IF j < i + 1 THEN j ELSE j - 1
    <3>1. \A j \in 1..(Len(slots) + 1) :
            j # i + 1 => old(j) \in 1..Len(slots) /\ slots'[j] = slots[old(j)]
      BY <1>4, <1>7, SMTT(40)
    <3>2. slots'[i + 1] = free_start
      BY <1>4, <1>7
    <3>3. CASE a = i + 1
      BY <2>0, <2>1, <3>1, <3>2, <3>3, <1>4, <1>5
    <3>4. CASE b = i + 1
      BY <2>0, <2>1, <3>1, <3>2, <3>4, <1>4, <1>5
    <3>5. CASE a # i + 1 /\ b # i + 1
      <4>1. old(a) # old(b)
        BY <2>0, <2>1, <3>5, <1>4
      <4> HIDE DEF old
      <4> QED BY <2>0, <3>1, <3>5, <4>1 DEF Layout, SlotsApart
    <3> QED BY <3>3, <3>4, <3>5
  <2> QED BY <2>1 DEF SlotsApart
<1> QED BY <1>8, <1>9, <1>10, <1>11, <1>12 DEF Layout

(* What a deletion does: every record stays, only its flag may change, and *)
(* one slot goes.                                                          *)
DeletedAt(i) ==
    /\ free_end' = free_end + SlotSize /\ free_start' = free_start
    /\ DOMAIN heap' = DOMAIN heap
    /\ \A o \in DOMAIN heap : /\ heap'[o] \in Record /\ SizeAt(o)' = SizeAt(o)
                              /\ heap'[o].key = heap[o].key /\ heap'[o].value = heap[o].value
                              /\ o # slots[i + 1] => heap'[o] = heap[o]
    /\ slots' \in Seq(DOMAIN heap)
    /\ Len(slots') = Len(slots) - 1
    /\ \A j \in 1..(Len(slots) - 1) : slots'[j] = IF j < i + 1 THEN slots[j] ELSE slots[j + 1]

LEMMA DeleteChanges ==
    ASSUME SizeAssumption, Layout, NEW k \in Keys, PageDelete(k)
    PROVE  \E i \in 0..(Len(slots) - 1) : i = SearchRecord(k).index /\ DeletedAt(i)
<1>1. PICK i \in 0..(Len(slots) - 1) :
        /\ i = SearchRecord(k).index
        /\ heap' = [heap EXCEPT ![slots[i + 1]].deleted = TRUE]
        /\ slots' = RemoveAt(slots, i + 1)
  BY DEF PageDelete
<1>2. free_end' = free_end + SlotSize /\ free_start' = free_start
  BY DEF PageDelete
<1>3. /\ free_start \in Nat /\ free_end \in Nat /\ Len(slots) \in Nat
      /\ HeaderSize \in Nat /\ PageSize \in Nat /\ SlotSize \in Nat \ {0}
      /\ \A j \in 1..Len(slots) : slots[j] \in DOMAIN heap
  BY Sizes
<1>4. DOMAIN heap' = DOMAIN heap
  BY <1>1
<1>5. ASSUME NEW o \in DOMAIN heap
      PROVE  /\ heap'[o] \in Record /\ SizeAt(o)' = SizeAt(o)
             /\ heap'[o].key = heap[o].key /\ heap'[o].value = heap[o].value
             /\ o # slots[i + 1] => heap'[o] = heap[o]
  <2>1. heap[o] \in Record
    BY DEF Layout, TypeOK
  <2>2. heap'[o] = IF o = slots[i + 1] THEN [heap[o] EXCEPT !.deleted = TRUE] ELSE heap[o]
    BY <1>1
  <2>3. heap'[o] \in Record /\ heap'[o].key = heap[o].key /\ heap'[o].value = heap[o].value
    BY <2>1, <2>2 DEF Record
  <2> QED BY <2>2, <2>3 DEF SizeAt
<1>6. /\ slots' \in Seq(DOMAIN heap)
      /\ Len(slots') = Len(slots) - 1
      /\ \A j \in 1..(Len(slots) - 1) : slots'[j] = IF j < i + 1 THEN slots[j] ELSE slots[j + 1]
  <2>1. i + 1 \in 1..Len(slots) /\ slots \in Seq(DOMAIN heap)
    BY <1>3 DEF Layout, TypeOK
  <2> QED BY <1>1, <2>1, RemoveAtFacts, ZenonT(60)
<1> QED BY <1>1, <1>2, <1>4, <1>5, <1>6 DEF DeletedAt

(* A deletion keeps every record in its place and gives one slot back      *)
LEMMA DeleteLayout ==
    ASSUME SizeAssumption, Layout, NEW k \in Keys, PageDelete(k)
    PROVE  Layout'
<1>1. PICK i \in 0..(Len(slots) - 1) : DeletedAt(i)
  BY DeleteChanges
<1>2. free_end' = free_end + SlotSize /\ free_start' = free_start
  BY <1>1 DEF DeletedAt
<1>3. /\ free_start \in Nat /\ free_end \in Nat /\ Len(slots) \in Nat
      /\ HeaderSize \in Nat /\ PageSize \in Nat /\ SlotSize \in Nat \ {0}
      /\ \A j \in 1..Len(slots) : slots[j] \in DOMAIN heap
  BY Sizes
<1>4. DOMAIN heap' = DOMAIN heap
  BY <1>1 DEF DeletedAt
<1>5. \A o \in DOMAIN heap : heap'[o] \in Record /\ SizeAt(o)' = SizeAt(o)
  BY <1>1 DEF DeletedAt
<1>6. /\ slots' \in Seq(DOMAIN heap)
      /\ Len(slots') = Len(slots) - 1
      /\ \A j \in 1..(Len(slots) - 1) : slots'[j] = IF j < i + 1 THEN slots[j] ELSE slots[j + 1]
  BY <1>1 DEF DeletedAt
<1>7. TypeOK'
  BY <1>2, <1>3, <1>4, <1>5, <1>6 DEF Layout, TypeOK
<1>8. InPage'
  <2>1. /\ HeaderSize <= free_start /\ free_start <= free_end
        /\ free_end + SlotSize * Len(slots) = PageSize
    BY DEF Layout, InPage
  <2>2. SlotSize * (Len(slots) - 1) = SlotSize * Len(slots) - SlotSize /\ SlotSize * Len(slots) \in Nat
    BY <1>3
  <2>3. free_end' + SlotSize * Len(slots') = PageSize
    BY <2>1, <2>2, <1>2, <1>3, <1>6, SMTT(40)
  <2> QED BY <2>1, <2>3, <1>2, <1>3 DEF InPage
<1>9. RecordsFit'
  BY <1>2, <1>4, <1>5 DEF Layout, RecordsFit
<1>10. RecordsApart'
  BY <1>4, <1>5 DEF Layout, RecordsApart
<1>11. SlotsApart'
  <2>0. DOMAIN slots' = 1..(Len(slots) - 1) /\ DOMAIN slots = 1..Len(slots)
    BY <1>6, LenProperties DEF Layout, TypeOK
  <2> DEFINE old(j) == IF j < i + 1 THEN j ELSE j + 1
  <2>1. \A j \in 1..(Len(slots) - 1) : old(j) \in 1..Len(slots) /\ slots'[j] = slots[old(j)]
    BY <1>3, <1>6
  <2>2. \A a, b \in 1..(Len(slots) - 1) : a # b => old(a) # old(b)
    BY <1>3
  <2> HIDE DEF old
  <2> QED BY <2>0, <2>1, <2>2 DEF Layout, SlotsApart
<1> QED BY <1>7, <1>8, <1>9, <1>10, <1>11 DEF Layout

(* Whatever sizes are inserted and whatever is deleted, records and slot   *)
(* directory never meet, records never overlap and no record has two slots *)
(* (page_insert, page_delete, write_record and insert_slot), for every     *)
(* page size, key set and value size.                                      *)
THEOREM LayoutHolds == Spec => []Layout
<1>1. Init => Layout
  BY SizeAssumption, InitLayout
<1>2. Layout /\ [Next]_vars => Layout'
  <2> SUFFICES ASSUME Layout, [Next]_vars PROVE Layout'
    OBVIOUS
  <2>1. ASSUME NEW k \in Keys, PageDelete(k) PROVE Layout'
    BY <2>1, SizeAssumption, DeleteLayout
  <2>2. ASSUME NEW k \in Keys, NEW v \in ValueSizes, PageInsert(k, v) PROVE Layout'
    BY <2>2, SizeAssumption, InsertLayout
  <2>3. CASE InitPage
    BY <2>3, SizeAssumption, ResetLayout
  <2>4. CASE UNCHANGED vars
    BY <2>4 DEF vars, Layout, TypeOK, InPage, RecordsFit, RecordsApart, SlotsApart,
                SizeAt, Record
  <2> QED BY <2>1, <2>2, <2>3, <2>4 DEF Next
<1> QED BY <1>1, <1>2, PTL DEF Spec

-----------------------------------------------------------------------------
(* compare_keys is a total order                                           *)

LEMMA LeastElement ==
    ASSUME NEW T, T \subseteq Nat, T # {}
    PROVE  \E x \in T : \A y \in T : x <= y
<1>1. \E x \in T : \A y \in T : ~(<<y, x>> \in OpToRel(<, Nat))
  BY NatLessThanWellFounded, WFMin
<1>2. \A x, y \in T : y < x => <<y, x>> \in OpToRel(<, Nat)
  BY DEF OpToRel
<1>3. \A x, y \in T : ~(y < x) => x <= y
  OBVIOUS
<1> QED BY <1>1, <1>2, <1>3

ByteSeq == Seq(0..255)

\* the first m bytes of a and of b are the same
Agree(a, b, m) == m \in Nat /\ m <= Len(a) /\ m <= Len(b) /\ \A l \in 1..m : a[l] = b[l]

\* a comes first after the m common bytes
Before(a, b, m) == \/ m = Len(a) /\ m < Len(b)
                   \/ m < Len(a) /\ m < Len(b) /\ a[m + 1] < b[m + 1]

LEMMA Bytes255 ==
    ASSUME NEW a \in ByteSeq
    PROVE  Len(a) \in Nat /\ \A i \in 1..Len(a) : a[i] \in Int
<1>1. a \in Seq(0..255)
  BY DEF ByteSeq
<1>2. Len(a) \in Nat /\ \A i \in 1..Len(a) : a[i] \in 0..255
  BY <1>1, LenProperties, ElementOfSeq
<1>3. \A x \in 0..255 : x \in Int
  OBVIOUS
<1> QED BY <1>2, <1>3

LEMMA CompareCases ==
    ASSUME NEW a \in ByteSeq, NEW b \in ByteSeq
    PROVE  /\ CompareKeys(a, b) \in Int
           /\ \E m \in Nat : /\ Agree(a, b, m)
                             /\ \/ m = Len(a) /\ m = Len(b) /\ CompareKeys(a, b) = 0
                                \/ Before(a, b, m) /\ CompareKeys(a, b) < 0
                                \/ Before(b, a, m) /\ CompareKeys(a, b) > 0
<1> DEFINE differ == {i \in 1..Len(a) : i <= Len(b) /\ a[i] # b[i]}
           i == CHOOSE j \in differ : \A l \in differ : j <= l
           c == CompareKeys(a, b)
<1>1. /\ Len(a) \in Nat /\ Len(b) \in Nat
      /\ \A j \in 1..Len(a) : a[j] \in Int
      /\ \A j \in 1..Len(b) : b[j] \in Int
  BY Bytes255
<1>2. c = IF differ = {} THEN Len(a) - Len(b) ELSE a[i] - b[i]
  BY DEF CompareKeys
<1>3. CASE differ = {}
  <2> DEFINE m == IF Len(a) <= Len(b) THEN Len(a) ELSE Len(b)
  <2>1. m \in Nat /\ m <= Len(a) /\ m <= Len(b) /\ (m = Len(a) \/ m = Len(b))
    BY <1>1
  <2>2. c = Len(a) - Len(b)
    BY <1>2, <1>3
  <2> HIDE DEF m, c, i
  <2>3. \A l \in 1..m : a[l] = b[l]
    BY <1>1, <1>3, <2>1
  <2>4. Agree(a, b, m)
    BY <2>1, <2>3 DEF Agree
  <2>5. CASE Len(a) = Len(b)
    <3>1. c = 0 /\ m = Len(a) /\ m = Len(b)
      BY <1>1, <2>1, <2>2, <2>5
    <3> QED BY <2>1, <2>4, <3>1 DEF c
  <2>6. CASE Len(a) < Len(b)
    <3>1. c < 0 /\ c \in Int /\ Before(a, b, m)
      BY <1>1, <2>1, <2>2, <2>6 DEF Before
    <3> QED BY <2>1, <2>4, <3>1 DEF c
  <2>7. CASE Len(b) < Len(a)
    <3>1. c > 0 /\ c \in Int /\ Before(b, a, m)
      BY <1>1, <2>1, <2>2, <2>7 DEF Before
    <3> QED BY <2>1, <2>4, <3>1 DEF c
  <2> QED BY <1>1, <2>5, <2>6, <2>7
<1>4. CASE differ # {}
  <2>1. \E j \in differ : \A l \in differ : j <= l
    <3>1. differ \subseteq Nat
      BY <1>1
    <3> HIDE DEF differ
    <3> QED BY <1>4, <3>1, LeastElement
  <2>2. i \in differ /\ \A l \in differ : i <= l
    <3> HIDE DEF differ
    <3> QED BY <2>1
  <2>3. c = a[i] - b[i]
    BY <1>2, <1>4
  <2> HIDE DEF i, c
  <2>4. i \in 1..Len(a) /\ i \in 1..Len(b) /\ a[i] # b[i] /\ a[i] \in Int /\ b[i] \in Int
    BY <1>1, <2>2
  <2>5. c \in Int /\ (a[i] < b[i] => c < 0) /\ (b[i] < a[i] => c > 0) /\ (a[i] < b[i] \/ b[i] < a[i])
    BY <2>3, <2>4
  <2>6. \A l \in 1..(i - 1) : a[l] = b[l]
    <3> SUFFICES ASSUME NEW l \in 1..(i - 1), a[l] # b[l] PROVE FALSE
      OBVIOUS
    <3>1. l \in differ /\ l < i
      BY <1>1, <2>4
    <3> QED BY <1>1, <2>2, <2>4, <3>1
  <2>7. PICK m \in Nat : m = i - 1 /\ m + 1 = i /\ m < Len(a) /\ m < Len(b)
    BY <1>1, <2>4
  <2>8. Agree(a, b, m)
    BY <1>1, <2>6, <2>7 DEF Agree
  <2>9. (a[i] < b[i] => Before(a, b, m)) /\ (b[i] < a[i] => Before(b, a, m))
    BY <2>7 DEF Before
  <2> QED BY <2>5, <2>8, <2>9 DEF c
<1> QED BY <1>3, <1>4

LEMMA CompareWitness ==
    ASSUME NEW a \in ByteSeq, NEW b \in ByteSeq
    PROVE  /\ CompareKeys(a, b) < 0 => \E m \in Nat : Agree(a, b, m) /\ Before(a, b, m)
           /\ CompareKeys(a, b) > 0 => \E m \in Nat : Agree(a, b, m) /\ Before(b, a, m)
           /\ CompareKeys(a, b) = 0 => \E m \in Nat : Agree(a, b, m) /\ m = Len(a) /\ m = Len(b)
<1> DEFINE c == CompareKeys(a, b)
<1>1. c \in Int
  BY CompareCases
<1>2. PICK m \in Nat : /\ Agree(a, b, m)
                       /\ \/ m = Len(a) /\ m = Len(b) /\ c = 0
                          \/ Before(a, b, m) /\ c < 0
                          \/ Before(b, a, m) /\ c > 0
  BY CompareCases
<1> HIDE DEF c
<1>3. (c < 0 => Before(a, b, m)) /\ (c > 0 => Before(b, a, m)) /\ (c = 0 => m = Len(a) /\ m = Len(b))
  BY <1>1, <1>2
<1> QED BY <1>2, <1>3 DEF c

\* where two keys first differ decides how they compare
LEMMA FirstDifference ==
    ASSUME NEW a \in ByteSeq, NEW b \in ByteSeq, NEW m \in Nat,
           Agree(a, b, m), Before(a, b, m)
    PROVE  CompareKeys(a, b) < 0 /\ CompareKeys(b, a) > 0
<1>1. /\ Len(a) \in Nat /\ Len(b) \in Nat
      /\ \A j \in 1..Len(a) : a[j] \in Int
      /\ \A j \in 1..Len(b) : b[j] \in Int
  BY Bytes255
<1>2. ASSUME NEW p \in Nat, Agree(a, b, p), Before(a, b, p) \/ Before(b, a, p) \/ (p = Len(a) /\ p = Len(b))
      PROVE  p = m
  <2>1. CASE p < m
    <3>1. p + 1 \in 1..m /\ p < Len(a) /\ p < Len(b)
      BY <1>1, <2>1 DEF Agree
    <3>2. a[p + 1] = b[p + 1] /\ a[p + 1] \in Int
      BY <1>1, <3>1 DEF Agree
    <3> QED BY <1>1, <1>2, <3>1, <3>2 DEF Before
  <2>2. CASE m < p
    <3>1. m + 1 \in 1..p /\ m < Len(a) /\ m < Len(b)
      BY <1>1, <1>2, <2>2 DEF Agree
    <3>2. a[m + 1] = b[m + 1] /\ a[m + 1] \in Int
      BY <1>1, <1>2, <3>1 DEF Agree
    <3> QED BY <1>1, <3>1, <3>2 DEF Before
  <2> QED BY <2>1, <2>2
<1>3. ~Before(b, a, m) /\ ~(m = Len(a) /\ m = Len(b))
  BY <1>1 DEF Before
<1>4. CompareKeys(a, b) < 0
  <2>1. PICK p \in Nat : /\ Agree(a, b, p)
                         /\ \/ p = Len(a) /\ p = Len(b) /\ CompareKeys(a, b) = 0
                            \/ Before(a, b, p) /\ CompareKeys(a, b) < 0
                            \/ Before(b, a, p) /\ CompareKeys(a, b) > 0
    BY CompareCases
  <2>2. p = m
    BY <1>2, <2>1
  <2> QED BY <1>3, <2>1, <2>2
<1>5. CompareKeys(b, a) > 0
  <2>1. PICK p \in Nat : /\ Agree(b, a, p)
                         /\ \/ p = Len(b) /\ p = Len(a) /\ CompareKeys(b, a) = 0
                            \/ Before(b, a, p) /\ CompareKeys(b, a) < 0
                            \/ Before(a, b, p) /\ CompareKeys(b, a) > 0
    BY CompareCases
  <2>2. Agree(a, b, p)
    BY <2>1 DEF Agree
  <2>3. p = m
    BY <1>2, <2>1, <2>2
  <2> QED BY <1>3, <2>1, <2>3
<1> QED BY <1>4, <1>5

LEMMA CompareOrder ==
    ASSUME NEW a \in ByteSeq, NEW b \in ByteSeq
    PROVE  /\ CompareKeys(a, b) \in Int
           /\ CompareKeys(a, b) = 0 <=> a = b
           /\ CompareKeys(a, b) < 0 <=> CompareKeys(b, a) > 0
<1>1. \A x, y \in ByteSeq : CompareKeys(x, y) \in Int
  BY CompareCases
<1>2. \A x, y \in ByteSeq : CompareKeys(x, y) < 0 => CompareKeys(y, x) > 0
  <2> SUFFICES ASSUME NEW x \in ByteSeq, NEW y \in ByteSeq, CompareKeys(x, y) < 0
               PROVE  CompareKeys(y, x) > 0
    OBVIOUS
  <2>1. \E m \in Nat : Agree(x, y, m) /\ Before(x, y, m)
    BY CompareWitness
  <2> QED BY <2>1, FirstDifference
<1>3. \A x, y \in ByteSeq : CompareKeys(x, y) > 0 => CompareKeys(y, x) < 0
  <2> SUFFICES ASSUME NEW x \in ByteSeq, NEW y \in ByteSeq, CompareKeys(x, y) > 0
               PROVE  CompareKeys(y, x) < 0
    OBVIOUS
  <2>1. \E m \in Nat : Agree(x, y, m) /\ Before(y, x, m)
    BY CompareWitness
  <2>2. \E m \in Nat : Agree(y, x, m) /\ Before(y, x, m)
    BY <2>1 DEF Agree
  <2> QED BY <2>2, FirstDifference
<1>4. CompareKeys(a, b) = 0 => a = b
  <2> SUFFICES ASSUME CompareKeys(a, b) = 0 PROVE a = b
    OBVIOUS
  <2>1. \E m \in Nat : Agree(a, b, m) /\ m = Len(a) /\ m = Len(b)
    BY CompareWitness
  <2>2. Len(a) = Len(b) /\ \A l \in 1..Len(a) : a[l] = b[l]
    BY <2>1 DEF Agree
  <2>3. a \in Seq(0..255) /\ b \in Seq(0..255)
    BY DEF ByteSeq
  <2> QED BY <2>2, <2>3, SeqEqual
<1>5. CompareKeys(a, a) = 0
  BY <1>1, <1>2, <1>3
<1> QED BY <1>1, <1>2, <1>3, <1>4, <1>5

LEMMA CompareTransitive ==
    ASSUME NEW a \in ByteSeq, NEW b \in ByteSeq, NEW c \in ByteSeq,
           CompareKeys(a, b) < 0, CompareKeys(b, c) < 0
    PROVE  CompareKeys(a, c) < 0
<1>1. /\ Len(a) \in Nat /\ Len(b) \in Nat /\ Len(c) \in Nat
      /\ \A j \in 1..Len(a) : a[j] \in Int
      /\ \A j \in 1..Len(b) : b[j] \in Int
      /\ \A j \in 1..Len(c) : c[j] \in Int
  BY Bytes255
<1>2. PICK m \in Nat : Agree(a, b, m) /\ Before(a, b, m)
  BY CompareWitness
<1>3. PICK p \in Nat : Agree(b, c, p) /\ Before(b, c, p)
  BY CompareWitness
<1>4. CASE m < p
  <2>1. Agree(a, c, m)
    BY <1>1, <1>2, <1>3, <1>4 DEF Agree
  <2>2. m + 1 \in 1..p /\ m < Len(c)
    BY <1>1, <1>3, <1>4 DEF Agree
  <2>3. b[m + 1] = c[m + 1]
    BY <1>3, <2>2 DEF Agree
  <2>4. Before(a, c, m)
    BY <1>2, <2>2, <2>3 DEF Before
  <2> QED BY <2>1, <2>4, FirstDifference
<1>5. CASE p < m
  <2>1. Agree(a, c, p)
    BY <1>1, <1>2, <1>3, <1>5 DEF Agree
  <2>2. p + 1 \in 1..m /\ p < Len(a) /\ p < Len(b)
    BY <1>1, <1>2, <1>5 DEF Agree
  <2>3. a[p + 1] = b[p + 1]
    BY <1>2, <2>2 DEF Agree
  <2>4. Before(a, c, p)
    BY <1>1, <1>3, <2>2, <2>3 DEF Before
  <2> QED BY <2>1, <2>4, FirstDifference
<1>6. CASE m = p
  <2>1. Agree(a, c, m)
    BY <1>1, <1>2, <1>3, <1>6 DEF Agree
  <2>2. Before(a, c, m)
    <3>1. m < Len(b) /\ m < Len(c)
      BY <1>1, <1>2, <1>3, <1>6 DEF Before
    <3>2. b[m + 1] < c[m + 1]
      BY <1>1, <1>3, <1>6, <3>1 DEF Before
    <3>3. CASE m = Len(a)
      BY <3>1, <3>3 DEF Before
    <3>4. CASE m < Len(a) /\ a[m + 1] < b[m + 1]
      <4>1. m + 1 \in 1..Len(a) /\ m + 1 \in 1..Len(b) /\ m + 1 \in 1..Len(c)
        BY <1>1, <3>1, <3>4
      <4>2. a[m + 1] < c[m + 1]
        BY <1>1, <3>2, <3>4, <4>1
      <4> QED BY <3>1, <3>4, <4>2 DEF Before
    <3> QED BY <1>2, <3>3, <3>4 DEF Before
  <2> QED BY <2>1, <2>2, FirstDifference
<1> QED BY <1>4, <1>5, <1>6

-----------------------------------------------------------------------------
(* The binary search                                                       *)

KeyOf(j) == heap[slots[j]].key

InOrder == \A i, j \in 1..Len(slots) : i < j => CompareKeys(KeyOf(i), KeyOf(j)) < 0

LEMMA SlotFacts ==
    ASSUME SizeAssumption, Layout
    PROVE  /\ Len(slots) \in Nat
           /\ \A j \in 1..Len(slots) : /\ slots[j] \in DOMAIN heap
                                       /\ KeyOf(j) \in Keys /\ KeyOf(j) \in ByteSeq
                                       /\ heap[slots[j]].value \in ValueSizes
           /\ \A i \in 0..(Len(slots) - 1) :
                 /\ SlotKey(i) = KeyOf(i + 1) /\ SlotKey(i) # <<>>
                 /\ SlotValue(i) = IF heap[slots[i + 1]].value = 0 THEN NoValue
                                                                 ELSE heap[slots[i + 1]].value
<1>1. /\ free_start \in Nat /\ HeaderSize \in Nat /\ RecordHeader \in Nat \ {0} /\ Len(slots) \in Nat
      /\ \A j \in 1..Len(slots) : slots[j] \in DOMAIN heap
      /\ \A o \in DOMAIN heap : o \in Nat /\ o < free_start
  BY Sizes, SizeAssumption
<1>2. \A o \in DOMAIN heap : heap[o] \in Record /\ HeaderSize <= o /\ o + SizeAt(o) <= free_start
  BY DEF Layout, TypeOK, RecordsFit
<1>3. \A o \in DOMAIN heap : heap[o].key \in Keys /\ heap[o].value \in ValueSizes
  BY <1>2 DEF Record
<1>4. \A k \in Keys : k \in ByteSeq /\ k # <<>> /\ Len(k) \in Nat
  BY KeyAssumption, KeyLength DEF ByteSeq
<1>5. \A o \in DOMAIN heap : heap[o].value \in Nat /\ Len(heap[o].key) \in Nat
  BY <1>3, <1>4, SizeAssumption
<1>6. ASSUME NEW i \in 0..(Len(slots) - 1)
      PROVE  /\ SlotKey(i) = KeyOf(i + 1) /\ SlotKey(i) # <<>>
             /\ SlotValue(i) = IF heap[slots[i + 1]].value = 0 THEN NoValue
                                                             ELSE heap[slots[i + 1]].value
  <2> DEFINE o == slots[i + 1]
  <2>1. i + 1 \in 1..Len(slots) /\ i < Len(slots)
    BY <1>1
  <2>2. o \in DOMAIN heap /\ o \in Nat /\ HeaderSize <= o /\ o < free_start
    BY <1>1, <1>2, <2>1
  <2>3. o + (RecordHeader + Len(heap[o].key) + heap[o].value) <= free_start
    BY <1>2, <2>2 DEF SizeAt, Bytes
  <2>4. Len(heap[o].key) \in Nat /\ heap[o].value \in Nat
    BY <1>5, <2>2
  <2> HIDE DEF o
  <2>5. o \in HeaderSize..(free_start - 1) /\ o + RecordHeader + Len(heap[o].key) <= free_start
    <3> DEFINE kl == Len(heap[o].key)
               vl == heap[o].value
    <3>1. /\ o \in Nat /\ HeaderSize <= o /\ o < free_start /\ kl \in Nat /\ vl \in Nat
          /\ o + (RecordHeader + kl + vl) <= free_start
      BY <2>2, <2>3, <2>4
    <3>2. free_start \in Nat /\ HeaderSize \in Nat /\ RecordHeader \in Nat
      BY <1>1
    <3> HIDE DEF kl, vl
    <3>3. o \in HeaderSize..(free_start - 1) /\ o + RecordHeader + kl <= free_start
      BY <3>1, <3>2
    <3> QED BY <3>3 DEF kl
  <2>6. Readable(i)
    BY <2>1, <2>5 DEF Readable, o
  <2>7. SlotKey(i) = heap[o].key
    BY <2>5, <2>6 DEF SlotKey, o
  <2>8. o + SizeAt(o) <= free_start
    BY <1>2, <2>2
  <2>9. SlotValue(i) = IF heap[o].value = 0 THEN NoValue ELSE heap[o].value
    BY <2>6, <2>8 DEF SlotValue, o
  <2>10. heap[o].key # <<>>
    BY <1>3, <1>4, <2>2
  <2> QED BY <2>7, <2>9, <2>10 DEF KeyOf, o
<1> QED BY <1>1, <1>3, <1>4, <1>6 DEF KeyOf

\* one probe of the search f between range[1] and range[2]
Probe(f, range, k) ==
    LET left  == range[1]
        right == range[2]
        mid   == Middle(left, right)
        cmp   == CompareKeys(SlotKey(mid), k)
    IN  IF left >= right \/ SlotKey(mid) = <<>> THEN [found |-> FALSE, index |-> left]
        ELSE IF cmp < 0 THEN f[<<mid + 1, right>>]
        ELSE IF cmp > 0 THEN f[<<left, mid>>]
        ELSE [found |-> TRUE, index |-> mid]

Ranges == (0..Len(slots)) \X (0..Len(slots))

LEMMA MiddleBetween ==
    ASSUME NEW l \in Nat, NEW r \in Nat, l < r
    PROVE  Middle(l, r) \in Nat /\ l <= Middle(l, r) /\ Middle(l, r) < r
BY DEF Middle

\* the recursive definition of the search has a solution: it only looks at
\* shorter ranges
LEMMA SearchDefined ==
    ASSUME Len(slots) \in Nat, NEW k
    PROVE  \E f : /\ SearchRecord(k) = f[<<0, Len(slots)>>]
                  /\ \A range \in Ranges : f[range] = Probe(f, range, k)
<1> DEFINE n == Len(slots)
           solves(f, d) == \A range \in Ranges : range[2] - range[1] <= d => f[range] = Probe(f, range, k)
           T == {d \in Nat : ~ \E f : solves(f, d)}
<1>1. T = {}
  <2> SUFFICES ASSUME T # {} PROVE FALSE
    OBVIOUS
  <2>1. PICK d \in T : \A e \in T : d <= e
    <3>1. T \subseteq Nat
      OBVIOUS
    <3> HIDE DEF T
    <3> QED BY <3>1, LeastElement
  <2>2. d \in Nat
    OBVIOUS
  <2>3. PICK g : d # 0 => solves(g, d - 1)
    <3>1. CASE d # 0
      <4>1. d - 1 \in Nat /\ ~(d <= d - 1)
        BY <2>2, <3>1
      <4>2. d - 1 \notin T
        BY <2>1, <4>1
      <4> QED BY <4>1, <4>2
    <3> QED BY <3>1
  <2> HIDE DEF T
  <2> DEFINE f == [range \in Ranges |-> IF d # 0 /\ range[2] - range[1] < d THEN g[range]
                                         ELSE Probe(g, range, k)]
  <2>4. ASSUME NEW range \in Ranges, range[2] - range[1] <= d
        PROVE  f[range] = Probe(f, range, k)
    <3> DEFINE left == range[1]
               right == range[2]
               mid == Middle(left, right)
    <3>1. left \in 0..n /\ right \in 0..n /\ range = <<left, right>>
      BY DEF Ranges
    <3>2. f[range] = Probe(g, range, k)
      <4>1. CASE d # 0 /\ right - left < d
        <5>1. d - 1 \in Nat /\ right - left <= d - 1
          BY <2>2, <3>1, <4>1
        <5>2. g[range] = Probe(g, range, k)
          BY <2>3, <4>1, <5>1
        <5> QED BY <4>1, <5>2
      <4>2. CASE ~(d # 0 /\ right - left < d)
        BY <4>2
      <4> QED BY <4>1, <4>2
    <3>3. Probe(f, range, k) = Probe(g, range, k)
      <4>1. CASE left >= right
        BY <4>1 DEF Probe
      <4>2. CASE left < right
        <5>1. mid \in Nat /\ left <= mid /\ mid < right
          BY <3>1, <4>2, MiddleBetween
        <5> HIDE DEF mid
        <5>2. <<mid + 1, right>> \in Ranges /\ <<left, mid>> \in Ranges
          BY <3>1, <5>1 DEF Ranges
        <5>3. d # 0 /\ right - (mid + 1) < d /\ mid - left < d
          BY <2>2, <2>4, <3>1, <4>2, <5>1
        <5>4. f[<<mid + 1, right>>] = g[<<mid + 1, right>>] /\ f[<<left, mid>>] = g[<<left, mid>>]
          BY <5>2, <5>3
        <5> HIDE DEF f
        <5> QED BY <5>4 DEF Probe, mid
      <4> QED BY <3>1, <4>1, <4>2
    <3> QED BY <3>2, <3>3
  <2>5. solves(f, d)
    BY <2>4
  <2> HIDE DEF f
  <2>6. \E h : solves(h, d)
    BY <2>5
  <2> QED BY <2>1, <2>6 DEF T
<1>2. PICK g : solves(g, n)
  <2>1. n \notin T
    BY <1>1
  <2> QED BY <2>1
<1> DEFINE f == [range \in Ranges |-> g[range]]
<1>3. \A range \in Ranges : f[range] = Probe(f, range, k)
  <2> SUFFICES ASSUME NEW range \in Ranges PROVE f[range] = Probe(f, range, k)
    OBVIOUS
  <2> DEFINE left == range[1]
             right == range[2]
             mid == Middle(left, right)
  <2>1. left \in 0..n /\ right \in 0..n /\ right - left <= n
    BY DEF Ranges
  <2>2. f[range] = Probe(g, range, k)
    BY <1>2, <2>1
  <2>3. CASE left >= right
    BY <2>2, <2>3 DEF Probe
  <2>4. CASE left < right
    <3>1. mid \in Nat /\ left <= mid /\ mid < right
      BY <2>1, <2>4, MiddleBetween
    <3> HIDE DEF mid
    <3>2. <<mid + 1, right>> \in Ranges /\ <<left, mid>> \in Ranges
      BY <2>1, <3>1 DEF Ranges
    <3>3. f[<<mid + 1, right>>] = g[<<mid + 1, right>>] /\ f[<<left, mid>>] = g[<<left, mid>>]
      BY <3>2
    <3> HIDE DEF f
    <3> QED BY <2>2, <3>3 DEF Probe, mid
  <2> QED BY <2>1, <2>3, <2>4
<1>4. f = [range \in Ranges |-> f[range]]
  OBVIOUS
<1> HIDE DEF f
<1>5. \E h : h = [range \in Ranges |-> Probe(h, range, k)]
  <2>1. f = [range \in Ranges |-> Probe(f, range, k)]
    BY <1>3, <1>4
  <2> QED BY <2>1
<1> DEFINE S == CHOOSE h : h = [range \in Ranges |-> Probe(h, range, k)]
<1>6. S = [range \in Ranges |-> Probe(S, range, k)]
  BY <1>5
<1>7. SearchRecord(k) = S[<<0, n>>]
  BY DEF SearchRecord, Probe, Ranges
<1> HIDE DEF S
<1>8. \A range \in Ranges : S[range] = Probe(S, range, k)
  BY <1>6
<1> QED BY <1>7, <1>8

\* what the search may answer: the slot that holds k, or the place k belongs
Outcome(r, k) ==
    \/ r.found = TRUE /\ r.index \in 0..(Len(slots) - 1) /\ KeyOf(r.index + 1) = k
    \/ /\ r.found = FALSE /\ r.index \in 0..Len(slots)
       /\ \A j \in 1..r.index : CompareKeys(KeyOf(j), k) < 0
       /\ \A j \in (r.index + 1)..Len(slots) : CompareKeys(KeyOf(j), k) > 0

\* the keys outside the range are known to be too small or too large
Around(range, k) ==
    /\ range \in Ranges /\ range[1] <= range[2]
    /\ \A j \in 1..range[1] : CompareKeys(KeyOf(j), k) < 0
    /\ \A j \in (range[2] + 1)..Len(slots) : CompareKeys(KeyOf(j), k) > 0

LEMMA KeyOrder ==
    ASSUME SizeAssumption, Layout, InOrder, NEW k \in Keys, NEW m \in 1..Len(slots)
    PROVE  /\ CompareKeys(KeyOf(m), k) \in Int
           /\ CompareKeys(KeyOf(m), k) < 0 =>
                 \A j \in 1..m : CompareKeys(KeyOf(j), k) < 0
           /\ CompareKeys(KeyOf(m), k) > 0 =>
                 \A j \in m..Len(slots) : CompareKeys(KeyOf(j), k) > 0
           /\ CompareKeys(KeyOf(m), k) = 0 => KeyOf(m) = k
<1>1. Len(slots) \in Nat /\ \A j \in 1..Len(slots) : KeyOf(j) \in ByteSeq
  BY SlotFacts
<1>2. k \in ByteSeq
  BY KeyAssumption DEF ByteSeq
<1>3. \A i, j \in 1..Len(slots) : i < j => CompareKeys(KeyOf(i), KeyOf(j)) < 0
  BY DEF InOrder
<1> HIDE DEF KeyOf, ByteSeq
<1>4. CompareKeys(KeyOf(m), k) \in Int /\ (CompareKeys(KeyOf(m), k) = 0 => KeyOf(m) = k)
  BY <1>1, <1>2, CompareOrder
<1>5. ASSUME CompareKeys(KeyOf(m), k) < 0, NEW j \in 1..m
      PROVE  CompareKeys(KeyOf(j), k) < 0
  <2>1. CASE j = m
    BY <1>5, <2>1
  <2>2. CASE j < m
    <3>1. j \in 1..Len(slots) /\ KeyOf(j) \in ByteSeq
      BY <1>1
    <3>2. CompareKeys(KeyOf(j), KeyOf(m)) < 0
      BY <1>3, <2>2, <3>1
    <3> QED BY <1>1, <1>2, <1>5, <3>1, <3>2, CompareTransitive
  <2> QED BY <1>1, <2>1, <2>2
<1>6. ASSUME CompareKeys(KeyOf(m), k) > 0, NEW j \in m..Len(slots)
      PROVE  CompareKeys(KeyOf(j), k) > 0
  <2>1. CASE j = m
    BY <1>6, <2>1
  <2>2. CASE m < j
    <3>1. j \in 1..Len(slots) /\ KeyOf(j) \in ByteSeq /\ KeyOf(m) \in ByteSeq
      BY <1>1
    <3>2. CompareKeys(KeyOf(m), KeyOf(j)) < 0
      BY <1>3, <2>2, <3>1
    <3>3. CompareKeys(k, KeyOf(m)) < 0
      BY <1>2, <1>6, <3>1, CompareOrder
    <3>4. CompareKeys(k, KeyOf(j)) < 0
      BY <1>2, <3>1, <3>2, <3>3, CompareTransitive
    <3> QED BY <1>2, <3>1, <3>4, CompareOrder
  <2> QED BY <1>1, <2>1, <2>2
<1> QED BY <1>4, <1>5, <1>6

LEMMA SearchSound ==
    ASSUME SizeAssumption, Layout, InOrder, NEW k \in Keys
    PROVE  Outcome(SearchRecord(k), k)
<1> DEFINE n == Len(slots)
<1>1. /\ n \in Nat
      /\ \A i \in 0..(n - 1) : SlotKey(i) = KeyOf(i + 1) /\ SlotKey(i) # <<>>
  BY SlotFacts
<1>2. PICK f : /\ SearchRecord(k) = f[<<0, n>>]
               /\ \A range \in Ranges : f[range] = Probe(f, range, k)
  BY <1>1, SearchDefined
<1> DEFINE T == {d \in Nat : \E range \in Ranges : /\ range[2] - range[1] = d /\ Around(range, k)
                                                   /\ ~Outcome(f[range], k)}
<1>3. T = {}
  <2> SUFFICES ASSUME T # {} PROVE FALSE
    OBVIOUS
  <2>1. PICK d \in T : \A e \in T : d <= e
    <3>1. T \subseteq Nat
      OBVIOUS
    <3> HIDE DEF T
    <3> QED BY <3>1, LeastElement
  <2>2. PICK range \in Ranges : /\ range[2] - range[1] = d /\ Around(range, k)
                                /\ ~Outcome(f[range], k)
    OBVIOUS
  <2>3. PICK l \in 0..n, r \in 0..n : range = <<l, r>>
    BY DEF Ranges
  <2>4. /\ l <= r /\ r - l = d
        /\ \A j \in 1..l : CompareKeys(KeyOf(j), k) < 0
        /\ \A j \in (r + 1)..n : CompareKeys(KeyOf(j), k) > 0
    BY <2>2, <2>3 DEF Around
  <2>5. ASSUME NEW q \in Ranges, Around(q, k), q[2] - q[1] < d
        PROVE  Outcome(f[q], k)
    <3>1. q[2] - q[1] \in Nat
      BY <1>1, <2>5, SMTT(40) DEF Around, Ranges
    <3>2. ~(q[2] - q[1] \in T)
      BY <2>1, <2>5, <3>1
    <3> QED BY <2>5, <3>1, <3>2
  <2> HIDE DEF T
  <2>6. f[range] = Probe(f, <<l, r>>, k)
    BY <1>2, <2>3
  <2>7. CASE l >= r
    <3>1. l = r
      BY <1>1, <2>4, <2>7
    <3>2. f[range] = [found |-> FALSE, index |-> l]
      BY <2>6, <2>7 DEF Probe
    <3>3. Outcome([found |-> FALSE, index |-> l], k)
      BY <2>4, <3>1 DEF Outcome
    <3> QED BY <2>2, <3>2, <3>3
  <2>8. CASE l < r
    <3> DEFINE mid == Middle(l, r)
               cmp == CompareKeys(SlotKey(mid), k)
    <3>1. mid \in Nat /\ l <= mid /\ mid < r
      BY <1>1, <2>8, MiddleBetween
    <3>2. f[range] = IF l >= r \/ SlotKey(mid) = <<>> THEN [found |-> FALSE, index |-> l]
                     ELSE IF cmp < 0 THEN f[<<mid + 1, r>>]
                     ELSE IF cmp > 0 THEN f[<<l, mid>>]
                     ELSE [found |-> TRUE, index |-> mid]
      BY <2>6 DEF Probe
    <3> HIDE DEF mid, cmp
    <3>3. mid \in 0..(n - 1) /\ mid + 1 \in 1..n
      BY <1>1, <3>1
    <3>4. SlotKey(mid) # <<>> /\ cmp = CompareKeys(KeyOf(mid + 1), k)
      BY <1>1, <3>3 DEF cmp
    <3>5. /\ cmp \in Int
          /\ cmp < 0 => \A j \in 1..(mid + 1) : CompareKeys(KeyOf(j), k) < 0
          /\ cmp > 0 => \A j \in (mid + 1)..n : CompareKeys(KeyOf(j), k) > 0
          /\ cmp = 0 => KeyOf(mid + 1) = k
      BY <3>3, <3>4, KeyOrder
    <3>6. CASE cmp < 0
      <4> DEFINE q == <<mid + 1, r>>
      <4>1. f[range] = f[q]
        BY <1>1, <2>8, <3>2, <3>4, <3>6
      <4>2. q \in Ranges /\ q[1] = mid + 1 /\ q[2] = r /\ mid + 1 <= r /\ r - (mid + 1) < d
        BY <1>1, <2>4, <3>1, <3>3 DEF Ranges
      <4> HIDE DEF q
      <4>3. Around(q, k)
        BY <2>4, <3>5, <3>6, <4>2 DEF Around
      <4> QED BY <2>2, <2>5, <4>1, <4>2, <4>3
    <3>7. CASE cmp > 0
      <4> DEFINE q == <<l, mid>>
      <4>1. f[range] = f[q]
        BY <1>1, <2>8, <3>2, <3>4, <3>5, <3>7
      <4>2. q \in Ranges /\ q[1] = l /\ q[2] = mid /\ l <= mid /\ mid - l < d
        BY <1>1, <2>4, <3>1, <3>3 DEF Ranges
      <4> HIDE DEF q
      <4>3. Around(q, k)
        BY <2>4, <3>5, <3>7, <4>2 DEF Around
      <4> QED BY <2>2, <2>5, <4>1, <4>2, <4>3
    <3>8. CASE cmp = 0
      <4>1. f[range] = [found |-> TRUE, index |-> mid]
        BY <1>1, <2>8, <3>2, <3>4, <3>8
      <4>2. Outcome([found |-> TRUE, index |-> mid], k)
        BY <3>3, <3>5, <3>8 DEF Outcome
      <4> QED BY <2>2, <4>1, <4>2
    <3> QED BY <3>5, <3>6, <3>7, <3>8
  <2> QED BY <1>1, <2>7, <2>8
<1>4. <<0, n>> \in Ranges /\ Around(<<0, n>>, k)
  BY <1>1 DEF Ranges, Around
<1> QED
  <2>1. n - 0 \notin T
    BY <1>3
  <2> DEFINE q == <<0, n>>
  <2>2. q \in Ranges /\ Around(q, k) /\ q[2] - q[1] = n - 0 /\ n - 0 \in Nat
    BY <1>1, <1>4
  <2> HIDE DEF q
  <2>3. Outcome(f[q], k)
    BY <2>1, <2>2
  <2> QED BY <1>2, <2>3 DEF q

-----------------------------------------------------------------------------
(* The page is a map                                                       *)

NoneDeleted == \A j \in 1..Len(slots) : ~heap[slots[j]].deleted
SlotsAreHeld == \A j \in 1..Len(slots) : held[KeyOf(j)] = heap[slots[j]].value
HeldHaveSlots ==
    /\ DOMAIN held = Keys
    /\ \A k \in Keys : held[k] # NoValue => \E j \in 1..Len(slots) : KeyOf(j) = k

\* with Layout, the inductive invariant: ordered slots of live records that
\* hold just what was inserted and not deleted
MapInv == InOrder /\ NoneDeleted /\ SlotsAreHeld /\ HeldHaveSlots

LEMMA MapGivesPage ==
    ASSUME SizeAssumption, Layout, MapInv PROVE PageIsMap
<1>1. /\ Len(slots) \in Nat
      /\ \A j \in 1..Len(slots) : /\ slots[j] \in DOMAIN heap
                                  /\ KeyOf(j) \in Keys /\ KeyOf(j) \in ByteSeq
                                  /\ heap[slots[j]].value \in ValueSizes
      /\ \A i \in 0..(Len(slots) - 1) :
            SlotValue(i) = IF heap[slots[i + 1]].value = 0 THEN NoValue
                                                         ELSE heap[slots[i + 1]].value
  BY SlotFacts
<1>2. DOMAIN slots = 1..Len(slots)
  BY LenProperties DEF Layout, TypeOK
<1>3. ASSUME NEW k \in Keys
      PROVE  LET r == SearchRecord(k)
             IN  /\ r.found = (held[k] # NoValue)
                 /\ r.found => SlotValue(r.index) = IF held[k] = 0 THEN NoValue ELSE held[k]
  <2> DEFINE r == SearchRecord(k)
  <2>1. Outcome(r, k)
    BY SearchSound DEF MapInv
  <2> HIDE DEF r
  <2>2. CASE r.found = TRUE /\ r.index \in 0..(Len(slots) - 1) /\ KeyOf(r.index + 1) = k
    <3>1. r.index + 1 \in 1..Len(slots)
      BY <1>1, <2>2
    <3>2. held[k] = heap[slots[r.index + 1]].value
      BY <2>2, <3>1 DEF MapInv, SlotsAreHeld
    <3>3. held[k] # NoValue
      BY <1>1, <3>1, <3>2, SizeAssumption
    <3>4. SlotValue(r.index) = IF held[k] = 0 THEN NoValue ELSE held[k]
      BY <1>1, <2>2, <3>2
    <3> QED BY <2>2, <3>3, <3>4 DEF r
  <2>3. CASE /\ r.found = FALSE /\ r.index \in 0..Len(slots)
             /\ \A j \in 1..r.index : CompareKeys(KeyOf(j), k) < 0
             /\ \A j \in (r.index + 1)..Len(slots) : CompareKeys(KeyOf(j), k) > 0
    <3>1. ASSUME NEW j \in 1..Len(slots), KeyOf(j) = k PROVE FALSE
      <4>1. CompareKeys(k, k) = 0
        BY <1>1, <3>1, CompareOrder
      <4>2. j \in 1..r.index \/ j \in (r.index + 1)..Len(slots)
        BY <1>1, <2>3
      <4> QED BY <2>3, <3>1, <4>1, <4>2
    <3>2. held[k] = NoValue
      BY <3>1 DEF MapInv, HeldHaveSlots
    <3> QED BY <2>3, <3>2 DEF r
  <2> QED BY <2>1, <2>2, <2>3 DEF Outcome
<1>4. \A i, j \in DOMAIN slots : i < j => CompareKeys(heap[slots[i]].key, heap[slots[j]].key) < 0
  BY <1>2 DEF MapInv, InOrder, KeyOf
<1>5. \A i \in DOMAIN slots : ~heap[slots[i]].deleted
  BY <1>2 DEF MapInv, NoneDeleted
<1> QED BY <1>3, <1>4, <1>5 DEF PageIsMap

LEMMA EmptyPageIsMap ==
    /\ Init => MapInv
    /\ InitPage => MapInv'
<1>1. ASSUME Init PROVE MapInv
  <2>1. Len(slots) = 0 /\ DOMAIN held = Keys /\ \A k \in Keys : held[k] = NoValue
    BY <1>1 DEF Init
  <2> QED BY <2>1 DEF MapInv, InOrder, NoneDeleted, SlotsAreHeld, HeldHaveSlots
<1>2. ASSUME InitPage PROVE MapInv'
  <2>1. Len(slots') = 0 /\ DOMAIN held' = Keys /\ \A k \in Keys : held'[k] = NoValue
    BY <1>2 DEF InitPage
  <2> QED BY <2>1 DEF MapInv, InOrder, NoneDeleted, SlotsAreHeld, HeldHaveSlots
<1> QED BY <1>1, <1>2

LEMMA InsertKeepsMap ==
    ASSUME SizeAssumption, Layout, MapInv,
           NEW k \in Keys, NEW v \in ValueSizes, PageInsert(k, v)
    PROVE  MapInv'
<1> DEFINE n == Len(slots)
<1>1. PICK i \in 0..n : i = SearchRecord(k).index /\ InsertedAt(k, v, i)
  BY InsertChanges
<1>2. /\ n \in Nat
      /\ \A j \in 1..n : slots[j] \in DOMAIN heap /\ KeyOf(j) \in Keys /\ KeyOf(j) \in ByteSeq
  BY SlotFacts
<1>3. k \in ByteSeq
  BY KeyAssumption DEF ByteSeq
<1>4. /\ \A j \in 1..i : CompareKeys(KeyOf(j), k) < 0
      /\ \A j \in (i + 1)..n : CompareKeys(KeyOf(j), k) > 0
  <2>1. Outcome(SearchRecord(k), k) /\ ~SearchRecord(k).found
    BY SearchSound DEF MapInv, PageInsert
  <2> QED BY <1>1, <2>1 DEF Outcome
<1>5. /\ free_start \notin DOMAIN heap
      /\ heap'[free_start] = [key |-> k, value |-> v, deleted |-> FALSE]
      /\ \A o \in DOMAIN heap : heap'[o] = heap[o]
      /\ Len(slots') = n + 1
      /\ \A j \in 1..(n + 1) :
           slots'[j] = IF j < i + 1 THEN slots[j] ELSE IF j = i + 1 THEN free_start ELSE slots[j - 1]
  BY <1>1 DEF InsertedAt
<1>6. held' = [held EXCEPT ![k] = v] /\ DOMAIN held = Keys
  BY DEF PageInsert, MapInv, HeldHaveSlots
<1> DEFINE old(j) == IF j < i + 1 THEN j ELSE j - 1
<1>7. ASSUME NEW j \in 1..(n + 1), j # i + 1
      PROVE  old(j) \in 1..n /\ slots'[j] = slots[old(j)] /\ heap'[slots'[j]] = heap[slots[old(j)]]
  <2>1. old(j) \in 1..n /\ slots'[j] = slots[old(j)]
    BY <1>2, <1>5, <1>7
  <2> HIDE DEF old
  <2> QED BY <1>2, <1>5, <2>1
<1>8. i + 1 \in 1..(n + 1) /\ slots'[i + 1] = free_start
  BY <1>2, <1>5
<1>9. \A a, b \in 1..(n + 1) : a < b /\ a # i + 1 /\ b # i + 1 => old(a) < old(b)
  BY <1>2
<1>10. \A j \in 1..(n + 1) : j < i + 1 => old(j) \in 1..i
  BY <1>2
<1>11. \A j \in 1..(n + 1) : i + 1 < j => old(j) \in (i + 1)..n
  BY <1>2
<1>12. \A m \in 1..n : \E j \in 1..(n + 1) : j # i + 1 /\ old(j) = m
  <2> TAKE m \in 1..n
  <2>1. CASE m <= i
    <3>1. m \in 1..(n + 1) /\ m # i + 1 /\ old(m) = m
      BY <1>2, <2>1
    <3> QED BY <3>1
  <2>2. CASE m > i
    <3>1. m + 1 \in 1..(n + 1) /\ m + 1 # i + 1 /\ old(m + 1) = m
      BY <1>2, <2>2
    <3> QED BY <3>1
  <2> QED BY <1>2, <2>1, <2>2
<1> HIDE DEF old
<1>13. /\ \A j \in 1..(n + 1) : j # i + 1 => KeyOf(j)' = KeyOf(old(j))
       /\ \A j \in 1..(n + 1) : j = i + 1 => KeyOf(j)' = k
  BY <1>5, <1>7, <1>8 DEF KeyOf
<1>14. \A j \in 1..n : KeyOf(j) # k
  <2> SUFFICES ASSUME NEW j \in 1..n, KeyOf(j) = k PROVE FALSE
    OBVIOUS
  <2>1. CompareKeys(k, k) = 0
    BY <1>3, CompareOrder
  <2>2. j \in 1..i \/ j \in (i + 1)..n
    BY <1>2
  <2> QED BY <1>4, <2>1, <2>2
<1>15. InOrder'
  <2> SUFFICES ASSUME NEW a \in 1..(n + 1), NEW b \in 1..(n + 1), a < b
               PROVE  CompareKeys(KeyOf(a)', KeyOf(b)') < 0
    BY <1>5 DEF InOrder
  <2>1. CASE a # i + 1 /\ b # i + 1
    <3>1. /\ old(a) \in 1..n /\ old(b) \in 1..n /\ old(a) < old(b)
          /\ KeyOf(a)' = KeyOf(old(a)) /\ KeyOf(b)' = KeyOf(old(b))
      BY <1>7, <1>9, <1>13, <2>1
    <3> QED BY <3>1 DEF MapInv, InOrder
  <2>2. CASE b = i + 1
    <3>1. old(a) \in 1..i /\ KeyOf(a)' = KeyOf(old(a)) /\ KeyOf(b)' = k
      BY <1>2, <1>10, <1>13, <2>2
    <3> QED BY <1>4, <3>1
  <2>3. CASE a = i + 1
    <3>1. old(b) \in (i + 1)..n /\ old(b) \in 1..n /\ KeyOf(b)' = KeyOf(old(b)) /\ KeyOf(a)' = k
      BY <1>2, <1>7, <1>11, <1>13, <2>3
    <3>2. KeyOf(old(b)) \in ByteSeq /\ CompareKeys(KeyOf(old(b)), k) > 0
      BY <1>2, <1>4, <3>1
    <3> QED BY <1>3, <3>1, <3>2, CompareOrder
  <2> QED BY <2>1, <2>2, <2>3
<1>16. NoneDeleted'
  <2> SUFFICES ASSUME NEW j \in 1..(n + 1) PROVE ~heap'[slots'[j]].deleted
    BY <1>5 DEF NoneDeleted
  <2>1. CASE j = i + 1
    BY <1>5, <1>8, <2>1
  <2>2. CASE j # i + 1
    BY <1>7, <2>2 DEF MapInv, NoneDeleted
  <2> QED BY <2>1, <2>2
<1>17. SlotsAreHeld'
  <2> SUFFICES ASSUME NEW j \in 1..(n + 1) PROVE held'[KeyOf(j)'] = heap'[slots'[j]].value
    BY <1>5 DEF SlotsAreHeld
  <2>1. CASE j = i + 1
    BY <1>5, <1>6, <1>8, <1>13, <2>1
  <2>2. CASE j # i + 1
    <3>1. old(j) \in 1..n /\ KeyOf(j)' = KeyOf(old(j)) /\ heap'[slots'[j]] = heap[slots[old(j)]]
      BY <1>7, <1>13, <2>2
    <3>2. KeyOf(old(j)) \in Keys /\ KeyOf(old(j)) # k
      BY <1>2, <1>14, <3>1
    <3>3. held[KeyOf(old(j))] = heap[slots[old(j)]].value
      BY <3>1 DEF MapInv, SlotsAreHeld
    <3> QED BY <1>6, <3>1, <3>2, <3>3
  <2> QED BY <2>1, <2>2
<1>18. HeldHaveSlots'
  <2>1. DOMAIN held' = Keys
    BY <1>6
  <2>2. ASSUME NEW q \in Keys, held'[q] # NoValue
        PROVE  \E j \in 1..(n + 1) : KeyOf(j)' = q
    <3>1. CASE q = k
      BY <1>8, <1>13, <3>1
    <3>2. CASE q # k
      <4>1. held[q] # NoValue
        BY <1>6, <2>2, <3>2
      <4>2. PICK m \in 1..n : KeyOf(m) = q
        BY <4>1 DEF MapInv, HeldHaveSlots
      <4>3. PICK j \in 1..(n + 1) : j # i + 1 /\ old(j) = m
        BY <1>12
      <4> QED BY <1>13, <4>2, <4>3
    <3> QED BY <3>1, <3>2
  <2> QED BY <1>5, <2>1, <2>2 DEF HeldHaveSlots
<1> QED BY <1>15, <1>16, <1>17, <1>18 DEF MapInv

LEMMA DeleteKeepsMap ==
    ASSUME SizeAssumption, Layout, MapInv, NEW k \in Keys, PageDelete(k)
    PROVE  MapInv'
<1> DEFINE n == Len(slots)
<1>1. PICK i \in 0..(n - 1) : i = SearchRecord(k).index /\ DeletedAt(i)
  BY DeleteChanges
<1>2. /\ n \in Nat
      /\ \A j \in 1..n : slots[j] \in DOMAIN heap /\ KeyOf(j) \in Keys /\ KeyOf(j) \in ByteSeq
  BY SlotFacts
<1>3. i + 1 \in 1..n /\ KeyOf(i + 1) = k
  <2>1. Outcome(SearchRecord(k), k) /\ SearchRecord(k).found
    BY SearchSound DEF MapInv, PageDelete
  <2>2. KeyOf(SearchRecord(k).index + 1) = k
    BY <2>1 DEF Outcome
  <2> QED BY <1>1, <1>2, <2>2
<1>4. /\ \A o \in DOMAIN heap : o # slots[i + 1] => heap'[o] = heap[o]
      /\ Len(slots') = n - 1
      /\ \A j \in 1..(n - 1) : slots'[j] = IF j < i + 1 THEN slots[j] ELSE slots[j + 1]
  BY <1>1 DEF DeletedAt
<1>5. held' = [held EXCEPT ![k] = NoValue] /\ DOMAIN held = Keys
  BY DEF PageDelete, MapInv, HeldHaveSlots
<1> DEFINE old(j) == IF j < i + 1 THEN j ELSE j + 1
<1>6. \A j \in 1..(n - 1) : old(j) \in 1..n /\ old(j) # i + 1 /\ slots'[j] = slots[old(j)]
  BY <1>2, <1>4
<1>7. \A a, b \in 1..(n - 1) : a < b => old(a) < old(b)
  BY <1>2
<1>8. \A m \in 1..n : m # i + 1 => \E j \in 1..(n - 1) : old(j) = m
  <2> SUFFICES ASSUME NEW m \in 1..n, m # i + 1 PROVE \E j \in 1..(n - 1) : old(j) = m
    OBVIOUS
  <2>1. CASE m <= i
    <3>1. m \in 1..(n - 1) /\ old(m) = m
      BY <1>2, <2>1
    <3> QED BY <3>1
  <2>2. CASE m > i
    <3>1. m - 1 \in 1..(n - 1) /\ old(m - 1) = m
      BY <1>2, <2>2
    <3> QED BY <3>1
  <2> QED BY <1>2, <2>1, <2>2
<1> HIDE DEF old
<1>9. DOMAIN slots = 1..n
  BY LenProperties DEF Layout, TypeOK
<1>10. \A j \in 1..(n - 1) : heap'[slots'[j]] = heap[slots[old(j)]]
  <2> TAKE j \in 1..(n - 1)
  <2>1. slots[old(j)] # slots[i + 1]
    BY <1>3, <1>6, <1>9 DEF Layout, SlotsApart
  <2> QED BY <1>2, <1>4, <1>6, <2>1
<1>11. \A j \in 1..(n - 1) : KeyOf(j)' = KeyOf(old(j))
  BY <1>10 DEF KeyOf
<1>12. \A m \in 1..n : m # i + 1 => KeyOf(m) # k
  <2> SUFFICES ASSUME NEW m \in 1..n, m # i + 1, KeyOf(m) = k PROVE FALSE
    OBVIOUS
  <2>1. CompareKeys(k, k) = 0
    BY <1>2, <1>3, CompareOrder
  <2>2. CompareKeys(KeyOf(m), KeyOf(i + 1)) = 0 /\ CompareKeys(KeyOf(i + 1), KeyOf(m)) = 0
    BY <1>3, <2>1
  <2>3. m < i + 1 \/ i + 1 < m
    BY <1>2, <1>3
  <2> QED BY <1>3, <2>2, <2>3 DEF MapInv, InOrder
<1>13. InOrder'
  <2> SUFFICES ASSUME NEW a \in 1..(n - 1), NEW b \in 1..(n - 1), a < b
               PROVE  CompareKeys(KeyOf(a)', KeyOf(b)') < 0
    BY <1>4 DEF InOrder
  <2>1. /\ old(a) \in 1..n /\ old(b) \in 1..n /\ old(a) < old(b)
        /\ KeyOf(a)' = KeyOf(old(a)) /\ KeyOf(b)' = KeyOf(old(b))
    BY <1>6, <1>7, <1>11
  <2> QED BY <2>1 DEF MapInv, InOrder
<1>14. NoneDeleted'
  BY <1>4, <1>6, <1>10 DEF MapInv, NoneDeleted
<1>15. SlotsAreHeld'
  <2> SUFFICES ASSUME NEW j \in 1..(n - 1) PROVE held'[KeyOf(j)'] = heap'[slots'[j]].value
    BY <1>4 DEF SlotsAreHeld
  <2>1. old(j) \in 1..n /\ KeyOf(j)' = KeyOf(old(j)) /\ heap'[slots'[j]] = heap[slots[old(j)]]
    BY <1>6, <1>10, <1>11
  <2>2. KeyOf(old(j)) \in Keys /\ KeyOf(old(j)) # k
    BY <1>2, <1>6, <1>12
  <2>3. held[KeyOf(old(j))] = heap[slots[old(j)]].value
    BY <2>1 DEF MapInv, SlotsAreHeld
  <2> QED BY <1>5, <2>1, <2>2, <2>3
<1>16. HeldHaveSlots'
  <2>1. DOMAIN held' = Keys
    BY <1>5
  <2>2. ASSUME NEW q \in Keys, held'[q] # NoValue
        PROVE  \E j \in 1..(n - 1) : KeyOf(j)' = q
    <3>1. q # k /\ held[q] # NoValue
      BY <1>5, <2>2
    <3>2. PICK m \in 1..n : KeyOf(m) = q
      BY <3>1 DEF MapInv, HeldHaveSlots
    <3>3. m # i + 1
      BY <1>3, <3>1, <3>2
    <3>4. PICK j \in 1..(n - 1) : old(j) = m
      BY <1>8, <3>3
    <3> QED BY <1>11, <3>2, <3>4
  <2> QED BY <1>4, <2>1, <2>2 DEF HeldHaveSlots
<1> QED BY <1>13, <1>14, <1>15, <1>16 DEF MapInv

(* Whatever is inserted and deleted, the binary search finds exactly the   *)
(* keys inserted and not deleted, with their values, the slots list them   *)
(* in strictly increasing key order, and no slot leads to a deleted record *)
(* (search_record, page_insert, page_delete), for every page size, every   *)
(* set of byte-sequence keys and every set of value sizes.                 *)
THEOREM PageIsAMap == Spec => []PageIsMap
<1>1. Init => Layout /\ MapInv
  BY SizeAssumption, InitLayout, EmptyPageIsMap
<1>2. Layout /\ MapInv /\ [Next]_vars => MapInv'
  <2> SUFFICES ASSUME Layout, MapInv, [Next]_vars PROVE MapInv'
    OBVIOUS
  <2>1. ASSUME NEW k \in Keys, PageDelete(k) PROVE MapInv'
    BY <2>1, SizeAssumption, DeleteKeepsMap
  <2>2. ASSUME NEW k \in Keys, NEW v \in ValueSizes, PageInsert(k, v) PROVE MapInv'
    BY <2>2, SizeAssumption, InsertKeepsMap
  <2>3. CASE InitPage
    BY <2>3, EmptyPageIsMap
  <2>4. CASE UNCHANGED vars
    BY <2>4 DEF vars, MapInv, InOrder, NoneDeleted, SlotsAreHeld, HeldHaveSlots, KeyOf
  <2> QED BY <2>1, <2>2, <2>3, <2>4 DEF Next
<1>3. Layout /\ MapInv => PageIsMap
  BY SizeAssumption, MapGivesPage
<1> QED BY <1>1, <1>2, <1>3, LayoutHolds, PTL DEF Spec
=============================================================================
