------------------------------ MODULE PageStore ------------------------------
(***************************************************************************)
(* What the buffer pool promises the B+tree: a page reads as it was last   *)
(* written until it is freed or the pool goes away with unwritten pages    *)
(* (a crash, or a close whose writes fail), and the file holds, page by    *)
(* page, the current content, one written back earlier, or the torn rest   *)
(* of a write that failed.                                                 *)
(***************************************************************************)
EXTENDS Naturals

CONSTANTS Pages, Values, Fresh, Zero, Torn

VARIABLES content,   \* what a reader of the page sees
          durable,   \* what the file holds
          live,      \* allocated pages
          losses     \* how often the pool went away with unwritten pages

vars == <<content, durable, live, losses>>

Contents == Values \union {Fresh, Zero, Torn}

Init == /\ durable = [p \in Pages |-> Zero]
        /\ content = durable
        /\ live = {}
        /\ losses = 0

\* in any step, pages may be written back, or torn by a failed write
WriteBack == /\ durable' \in [Pages -> Contents]
             /\ \A p \in Pages : durable'[p] \in {durable[p], content[p], Torn}

Write(p, v) == /\ p \in live
               /\ content' = [content EXCEPT ![p] = v]
               /\ UNCHANGED <<live, losses>>

Create(p) == /\ p \notin live
             /\ content' = [content EXCEPT ![p] = Fresh]
             /\ live' = live \union {p}
             /\ UNCHANGED losses

\* a freed page may be dropped without being written
Free(p) == /\ p \in live
           /\ content' \in {content, [content EXCEPT ![p] = durable[p]]}
           /\ live' = live \ {p}
           /\ UNCHANGED losses

Lose == /\ content' = durable'
        /\ losses' = losses + 1
        /\ UNCHANGED live

Next == /\ WriteBack
        /\ \/ UNCHANGED <<content, live, losses>>
           \/ \E p \in Pages : Create(p) \/ Free(p) \/ \E v \in Values : Write(p, v)
           \/ Lose

Spec == Init /\ [][Next]_vars
=============================================================================
