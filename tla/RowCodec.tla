------------------------------ MODULE RowCodec ------------------------------
(* Rows of the storage engine as bytes.  A cell is encoded as a tag and a  *)
(* payload; a unit of payload stands for the bytes of one field that are   *)
(* read together (the 4 of an int, the 2 of a length, one character), and  *)
(* a DOUBLE or a DATETIME takes two.  Tags are the column types.           *)
EXTENDS Integers, Sequences, SequencesExt

CONSTANT Width              \* lengths are kept modulo Width (2^16)

ColumnTypes == {"INT", "FLOAT", "DOUBLE", "STRING", "BOOLEAN", "DATETIME"}

ASSUME WidthAssumption == Width \in Nat \ {0}

(* A schema is [pk_index, columns]; a row is a sequence of [type, data],   *)
(* where data is the units of a number and the characters of a STRING; no  *)
(* cell is a DATETIME.                                                     *)
Length(s) == Len(s) % Width
Matches(type, cell) == type = "DATETIME" \/ type = cell.type   \* std::get throws otherwise
Payload(type, cell) ==
    CASE type = "STRING"   -> <<Length(cell.data)>> \o SubSeq(cell.data, 1, Length(cell.data))
      [] type = "DATETIME" -> <<0, 0>>
      [] OTHER -> cell.data
AppendColumn(type, cell) == <<type>> \o Payload(type, cell)

HasKey(schema, row) == schema.pk_index \in 0..(Len(schema.columns) - 1) /\ schema.pk_index < Len(row)
EncodeKey(schema, row) ==
    IF HasKey(schema, row)
    THEN AppendColumn(schema.columns[schema.pk_index + 1], row[schema.pk_index + 1])
    ELSE <<>>
EncodeValue(schema, row) ==
    IF Len(row) # Len(schema.columns) THEN <<>>
    ELSE FlattenSeq([i \in DOMAIN row |-> AppendColumn(schema.columns[i], row[i])])

(* encode_key and encode_value throw where a cell they reach has another   *)
(* type than its column.                                                   *)
Throws(schema, row) ==
    \/ HasKey(schema, row) /\ ~Matches(schema.columns[schema.pk_index + 1], row[schema.pk_index + 1])
    \/ Len(row) = Len(schema.columns) /\ \E i \in DOMAIN row : ~Matches(schema.columns[i], row[i])

(* A payload that starts at p: its length in units, the cell it is read as *)
Zero == [type |-> "INT", data |-> <<0>>]
Units(type) == IF type \in {"DOUBLE", "DATETIME"} THEN 2 ELSE 1
Extent(type, data, p) ==
    IF type = "STRING" /\ p <= Len(data) THEN 1 + data[p] ELSE Units(type)
X_Cell(type, data, p) ==
    CASE type = "STRING" -> [type |-> type, data |-> SubSeq(data, p, p + data[p])]
      [] type = "DATETIME" -> Zero
      [] OTHER -> [type |-> type, data |-> SubSeq(data, p, p + Units(type) - 1)]
Cell(type, data, p) ==
    CASE type = "STRING" -> [type |-> type, data |-> SubSeq(data, p + 1, p + data[p])]
      [] type = "DATETIME" -> Zero
      [] OTHER -> [type |-> type, data |-> SubSeq(data, p, p + Units(type) - 1)]

(* The place behind a column that starts at p, 0 where decode gives up     *)
Behind(type, data, p) ==
    LET next == p + 1 + Extent(type, data, p + 1)
    IN  IF p = 0 \/ p > Len(data) THEN 0
        ELSE IF data[p] # type \/ next > Len(data) + 1 THEN 0 ELSE next
Decode(schema, data) ==
    LET n == Len(schema.columns)
        start[i \in 0..n] == IF i = 0 THEN 1 ELSE Behind(schema.columns[i], data, start[i - 1])
    IN  IF start[n] = 0 THEN <<>>
        ELSE [i \in 1..n |-> Cell(schema.columns[i], data, start[i - 1] + 1)]

(* What becomes of a row that is stored: a DATETIME is the integer 0, a    *)
(* STRING loses its last Width characters or a multiple of them.           *)
Stored(schema, row) ==
    [i \in DOMAIN row |->
       CASE schema.columns[i] = "DATETIME" -> Zero
         [] schema.columns[i] = "STRING" ->
              [type |-> "STRING", data |-> SubSeq(row[i].data, 1, Len(row[i].data) % Width)]
         [] OTHER -> row[i]]
=============================================================================
