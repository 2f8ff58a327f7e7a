-------------------------- MODULE MCSlottedPage --------------------------
EXTENDS SlottedPage

(* A prefix, a longer key and two keys that differ in the first byte        *)
Keys4 == {<<1>>, <<1, 1>>, <<1, 2>>, <<2>>}
=============================================================================
