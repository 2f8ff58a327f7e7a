---------------------------- MODULE SlottedPage ----------------------------
(* One page of the table files of the storage engine: records are written  *)
(* upwards from the page header, the directory of sorted slots grows       *)
(* downwards from the end of the page, and both share 16-bit offsets.      *)
(*                                                                         *)
(* heap holds the records by offset, slots the directory.  They share the  *)
(* page's bytes without harm as long as Layout holds.  A value is its      *)
(* length, a key a sequence of bytes; the callers in StorageEngine refuse  *)
(* empty keys.                                                             *)
EXTENDS Integers, Sequences, FiniteSets, SequencesExt

CONSTANTS Keys, ValueSizes,
          PageSize, HeaderSize, RecordHeader, SlotSize,
          Width,                 \* offsets and sizes are kept modulo Width (2^16)
          NoValue

ASSUME KeyAssumption  == \A k \in Keys : k \in Seq(0..255) /\ k # <<>>
ASSUME SizeAssumption ==
    /\ ValueSizes \subseteq Nat /\ PageSize \in Nat /\ HeaderSize \in Nat
    /\ RecordHeader \in Nat \ {0} /\ SlotSize \in Nat \ {0} /\ Width \in Nat
    /\ HeaderSize <= PageSize /\ PageSize < Width
    /\ NoValue \notin ValueSizes

VARIABLES heap,        \* the records, by offset, deleted ones included
          slots,       \* record offsets in key order; Len(slots) is cell_count
          free_start, free_end,
          held         \* what the accepted inserts and deletes add up to

vars == <<heap, slots, free_start, free_end, held>>

Empty == [o \in {} |-> NoValue]
Init == /\ heap = Empty /\ slots = <<>>
        /\ free_start = HeaderSize /\ free_end = PageSize
        /\ held = [k \in Keys |-> NoValue]

Bytes(k, v) == RecordHeader + Len(k) + v
RecordSize(k, v) == Bytes(k, v) % Width
SizeAt(o) == Bytes(heap[o].key, heap[o].value)

(* memcmp of the common length, then the shorter key first                 *)
CompareKeys(a, b) ==
    LET differ == {i \in 1..Len(a) : i <= Len(b) /\ a[i] # b[i]}
        i == CHOOSE j \in differ : \A l \in differ : j <= l
    IN  IF differ = {} THEN Len(a) - Len(b) ELSE a[i] - b[i]

(* slots are numbered from 0                                               *)
Readable(i) == /\ i < Len(slots) /\ slots[i + 1] \in HeaderSize..(free_start - 1)
SlotKey(i) ==
    IF Readable(i) /\ slots[i + 1] + RecordHeader + Len(heap[slots[i + 1]].key) <= free_start
    THEN heap[slots[i + 1]].key ELSE <<>>
SlotValue(i) ==
    IF Readable(i) /\ heap[slots[i + 1]].value # 0 /\ slots[i + 1] + SizeAt(slots[i + 1]) <= free_start
    THEN heap[slots[i + 1]].value ELSE NoValue

Middle_Right(left, right) == left + (right - left + 1) \div 2
Middle(left, right) == left + (right - left) \div 2
SearchRecord(k) ==
    LET n == Len(slots)
        search[range \in (0..n) \X (0..n)] ==
            LET left  == range[1]
                right == range[2]
                mid   == Middle(left, right)
                cmp   == CompareKeys(SlotKey(mid), k)
            IN  IF left >= right \/ SlotKey(mid) = <<>> THEN [found |-> FALSE, index |-> left]
                ELSE IF cmp < 0 THEN search[<<mid + 1, right>>]
                ELSE IF cmp > 0 THEN search[<<left, mid>>]
                ELSE [found |-> TRUE, index |-> mid]
    IN  search[<<0, n>>]

(* The slots already written are counted again in the room for the new one *)
CanInsert(size) ==
    free_start + size + (((Len(slots) + 1) * SlotSize) % Width) <= free_end

(* write_record: the sum is not 16 bits wide here                          *)
X_WriteFits(k, v) == free_start + RecordSize(k, v) <= free_end
WriteFits(k, v) == free_start + Bytes(k, v) <= free_end
NewFreeStart(k, v) == (free_start + RecordSize(k, v)) % Width

(* insert_slot throws when the directory would leave its place             *)
SlotFits(start) ==
    /\ free_end - SlotSize >= start
    /\ free_end - SlotSize + (Len(slots) + 1) * SlotSize <= PageSize

Accepts(k, v) ==
    /\ CanInsert(RecordSize(k, v))
    /\ WriteFits(k, v)
    /\ NewFreeStart(k, v) <= free_end - SlotSize
    /\ SlotFits(NewFreeStart(k, v))

PageInsert(k, v) ==
    LET r == SearchRecord(k)
    IN  /\ ~r.found /\ Accepts(k, v)
        /\ \E i \in 0..Len(slots) :     \* insert_slot throws for any other index
             /\ i = r.index
             /\ slots' = InsertAt(slots, i + 1, free_start)
        /\ heap' = [o \in DOMAIN heap \cup {free_start} |->
                      IF o = free_start THEN [key |-> k, value |-> v, deleted |-> FALSE]
                      ELSE heap[o]]
        /\ free_start' = NewFreeStart(k, v)
        /\ free_end' = free_end - SlotSize
        /\ held' = [held EXCEPT ![k] = v]

(* The record stays where it is, flagged; only its slot goes.              *)
PageDelete(k) ==
    LET r == SearchRecord(k)
    IN  /\ r.found
        /\ \E i \in 0..(Len(slots) - 1) :
             /\ i = r.index
             /\ heap' = [heap EXCEPT ![slots[i + 1]].deleted = TRUE]
             /\ slots' = RemoveAt(slots, i + 1)
        /\ free_end' = free_end + SlotSize
        /\ held' = [held EXCEPT ![k] = NoValue]
        /\ UNCHANGED free_start

InitPage == /\ heap' = Empty /\ slots' = <<>>
            /\ free_start' = HeaderSize /\ free_end' = PageSize
            /\ held' = [k \in Keys |-> NoValue]

Next == \/ \E k \in Keys : PageDelete(k) \/ \E v \in ValueSizes : PageInsert(k, v)
        \/ InitPage

Spec == Init /\ [][Next]_vars

(***************************************************************************)
(* Properties                                                              *)
(***************************************************************************)
Record == [key : Keys, value : ValueSizes, deleted : BOOLEAN]
TypeOK == /\ slots \in Seq(DOMAIN heap)
          /\ DOMAIN heap \subseteq Nat /\ \A o \in DOMAIN heap : heap[o] \in Record
          /\ free_start \in Nat /\ free_end \in Nat

(* Records and directory never meet, whatever sizes the callers pass: the  *)
(* directory ends where the page ends, each record lies between the header *)
(* and free_start, records do not overlap, and no two slots share one.     *)
InPage == /\ HeaderSize <= free_start /\ free_start <= free_end
          /\ free_end + SlotSize * Len(slots) = PageSize
RecordsFit == \A o \in DOMAIN heap : HeaderSize <= o /\ o + SizeAt(o) <= free_start
RecordsApart == \A o, p \in DOMAIN heap : o < p => o + SizeAt(o) <= p
SlotsApart == \A i, j \in DOMAIN slots : i # j => slots[i] # slots[j]
Layout == TypeOK /\ InPage /\ RecordsFit /\ RecordsApart /\ SlotsApart

(* The binary search finds exactly the keys that were inserted and not     *)
(* deleted, with their values, and the slots list them in key order; an    *)
(* empty value is stored but reads as no value.                            *)
PageIsMap ==
    /\ \A k \in Keys :
         LET r == SearchRecord(k)
         IN  /\ r.found = (held[k] # NoValue)
             /\ r.found => SlotValue(r.index) = IF held[k] = 0 THEN NoValue ELSE held[k]
    /\ \A i, j \in DOMAIN slots :
          i < j => CompareKeys(heap[slots[i]].key, heap[slots[j]].key) < 0
    /\ \A i \in DOMAIN slots : ~heap[slots[i]].deleted
=============================================================================
