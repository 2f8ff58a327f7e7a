-------------------------- MODULE MCStorageEngine --------------------------
EXTENDS StorageEngine

Of(type, data) == [type |-> type, data |-> data]
TableSchema(pk, columns) == [pk_index |-> pk, columns |-> columns]

(* A table with columns of every type, and one without a key               *)
SomeSchemas == {TableSchema(0, <<"INT", "STRING", "DATETIME", "FLOAT", "DOUBLE", "BOOLEAN">>),
                TableSchema(-1, <<"STRING">>)}
Row(id, length, rest) ==
    <<Of("INT", <<id>>), Of("STRING", [i \in 1..length |-> 7]), Of("INT", <<4>>)>> \o rest
Rest == <<Of("FLOAT", <<5>>), Of("DOUBLE", <<5, 6>>), Of("BOOLEAN", <<1>>)>>
(* Strings of one character, of a length that wraps and of one that does   *)
(* not fit with the rest of the row; a row too short and one of other      *)
(* types                                                                   *)
SomeRows == {Row(1, 1, Rest), Row(2, 18, Rest), Row(3, 9, Rest), Row(1, 1, <<>>),
             Row(1, 1, <<Of("FLOAT", <<5>>), Of("INT", <<5>>), Of("BOOLEAN", <<1>>)>>)}
SomeKeys == {<<"INT", 1>>, <<"INT", 2>>}
Bytes(id) == <<"INT", id, "STRING", 1, 7, "DATETIME", 0, 0,
               "FLOAT", 5, "DOUBLE", 5, 6, "BOOLEAN", 1>>
SomeValues == {Bytes(1), Bytes(2)}
RowOne == {Bytes(1)}
=============================================================================
