---------------------------- MODULE MCBufferPool ----------------------------
(* Symmetric page ids and pointers for the runs of BufferPool.             *)
EXTENDS BufferPool, TLC

Symmetry == Permutations(Pages) \union Permutations(Handles)
=============================================================================
