---------------------------- MODULE SchemaBytes ----------------------------
(* How page 1 of a table file stores the schema: a count of columns, the   *)
(* table name and each column's name, type and flags, with 16-bit lengths  *)
(* of two bytes.  A byte has Base values (256 in the code).                *)
EXTENDS Integers, Sequences, SequencesExt

CONSTANTS Base, MaxSchema,  \* PAGE1_MAX_SCHEMA_SIZE
          Damages           \* bytes a damaged page may hold in place of one of its own

Byte == 0..(Base - 1)
(* A length that fits the page fits two bytes.                             *)
ASSUME BaseAssumption == Base \in Nat /\ Base >= 8 /\ MaxSchema \in Nat /\ MaxSchema < Base * Base
ASSUME DamageAssumption == Damages \subseteq Byte

TableSchemas ==
    [name : Seq(Byte),
     columns : Seq([name : Seq(Byte), type : Seq(Byte), primary : BOOLEAN, unique : BOOLEAN,
                    not_null : BOOLEAN, auto_inc : BOOLEAN])]

U16(n)    == <<n % Base, (n \div Base) % Base>>
U16Of(b, i) == b[i] + Base * b[i + 1]

Text(s) == U16(Len(s)) \o s

(* COL_FLAG_AUTO_INCREMENT, the flag of 8, is neither written nor read.    *)
Flag(b, n) == IF b THEN n ELSE 0
Flags(col) == Flag(col.primary, 1) + Flag(col.unique, 2) + Flag(col.not_null, 4)
Bit(f, n)  == (f \div n) % 2 = 1

Column(col)  == Text(col.name) \o Text(col.type) \o <<Flags(col)>>
Serialize(s) == U16(Len(s.columns)) \o Text(s.name)
                \o FlattenSeq([i \in 1..Len(s.columns) |-> Column(s.columns[i])])

(* Reading at index i of the bytes b gives a value and the next index, or  *)
(* Bad where the code throws.                                              *)
Bad == [ok |-> FALSE]
Read(v, i) == [ok |-> TRUE, val |-> v, at |-> i]

Within(b, i, n) == i + n - 1 <= Len(b)

ReadText(b, i) ==
    IF ~Within(b, i, 2) THEN Bad
    ELSE LET n == U16Of(b, i)
         IN IF ~Within(b, i + 2, n) THEN Bad ELSE Read(SubSeq(b, i + 2, i + 1 + n), i + 2 + n)
ReadColumn(b, i) ==
    LET name == ReadText(b, i)
        type == ReadText(b, name.at)
    IN IF ~name.ok THEN Bad
       ELSE IF ~type.ok \/ ~Within(b, type.at, 1) THEN Bad
       ELSE LET f == b[type.at]
            IN Read([name |-> name.val, type |-> type.val, primary |-> Bit(f, 1),
                     unique |-> Bit(f, 2), not_null |-> Bit(f, 4), auto_inc |-> FALSE], type.at + 1)
(* Where a column follows what was read before it                          *)
Following(b, before) == IF before.ok THEN ReadColumn(b, before.at) ELSE Bad

(* The whole of b must be the schema; the faulty variant reads its front.  *)
X_Complete(b, at) == TRUE
Complete(b, at)   == at = Len(b) + 1
Deserialize(b) ==
    LET n    == U16Of(b, 1)
        name == ReadText(b, 3)
        read[i \in 0..n] == IF i = 0 THEN name ELSE Following(b, read[i - 1])
    IN IF Len(b) < 4 THEN Bad
       ELSE IF ~read[n].ok THEN Bad
       ELSE IF ~Complete(b, read[n].at) THEN Bad
       ELSE Read([name |-> name.val, columns |-> [i \in 1..n |-> read[i].val]], read[n].at)

(* write_schema refuses what does not fit; read_schema checks the size.    *)
WriteSchema(s)   == LET b == Serialize(s) IN IF Len(b) > MaxSchema THEN Bad ELSE Read(b, Len(b) + 1)
ReadSchema(page) == IF page = <<>> \/ Len(page) > MaxSchema THEN Bad ELSE Deserialize(page)

(***************************************************************************)
(* The page of a table that is created                                     *)
(***************************************************************************)
VARIABLE page   \* its schema, the bytes on page 1 and what became of them

NoPage == [state |-> "none", schema |-> Bad, bytes |-> <<>>, read |-> Bad]
PageInit == page = NoPage

Refuse == page = NoPage /\ page' = [NoPage EXCEPT !.state = "refused"]

Store(s) == LET w == WriteSchema(s)
            IN  IF ~w.ok THEN Refuse
                ELSE /\ page = NoPage
                     /\ page' = [state |-> "stored", schema |-> s, bytes |-> w.val, read |-> Bad]

(* The file is not what was written: cut short, longer, or one byte off.   *)
Damaged(b) == {SubSeq(b, 1, n) : n \in 0..(Len(b) - 1)}
              \cup {Append(b, x) : x \in Damages}
              \cup {[b EXCEPT ![i] = x] : i \in DOMAIN b, x \in Damages}
Damage == /\ page.state = "stored"
          /\ \E b \in Damaged(page.bytes) \ {page.bytes} :
                page' = [page EXCEPT !.state = "damaged", !.bytes = b]

Load == /\ page.state \in {"stored", "damaged"}
        /\ page' = [page EXCEPT !.state = IF @ = "stored" THEN "read" ELSE "read damaged",
                                !.read = ReadSchema(page.bytes)]

(* On its own, of whatever schema is written                               *)
PageNext == (\E s \in TableSchemas : Store(s)) \/ Refuse \/ Damage \/ Load
PageSpec == PageInit /\ [][PageNext]_page

NumberingAside(s) == [s EXCEPT !.columns = [i \in DOMAIN @ |-> [@[i] EXCEPT !.auto_inc = FALSE]]]
FlagAt(s, i) == Len(Serialize([s EXCEPT !.columns = SubSeq(@, 1, i)]))

(* The schema of a created table is read back as it was written, and bytes *)
(* that are not the encoding of any schema are rejected: of a damaged page *)
(* read_schema throws or returns the schema these very bytes encode, never *)
(* a part of it.  Nothing is said of AUTO_INCREMENT, of its flag or of the *)
(* flag bits above it: what becomes of it is AutoIncrementKept's.          *)
SchemaKept ==
    /\ page.state = "read" =>
          page.read.ok /\ NumberingAside(page.read.val) = NumberingAside(page.schema)
    /\ page.state = "read damaged" /\ page.read.ok =>
          LET s == page.read.val
              flags == {FlagAt(s, i) : i \in DOMAIN s.columns}
              again == Serialize(s)
          IN /\ Len(again) = Len(page.bytes)
             /\ \A i \in DOMAIN again :
                   IF i \in flags THEN again[i] % 8 = page.bytes[i] % 8
                   ELSE again[i] = page.bytes[i]

(* What schema_serializer.h promises of the flag it reserves: a column     *)
(* created with AUTO_INCREMENT is read back with it.                       *)
AutoIncrementKept ==
    page.state = "read" =>
       \A i \in DOMAIN page.schema.columns :
          page.schema.columns[i].auto_inc => page.read.val.columns[i].auto_inc
=============================================================================
