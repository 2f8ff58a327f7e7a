----------------------------- MODULE BufferPool -----------------------------
(***************************************************************************)
(* src/storage/buffer_pool.cpp over disk_manager.cpp: the frames, the page *)
(* table, the LRU list, and the code that holds Page pointers into it.     *)
(* The engine is single-threaded, so a call is one action, except          *)
(* flush_all, whose writes can be cut short by a crash.                    *)
(* An operator with an underscore in its name is a faulty variant of the   *)
(* one that follows it; the specification uses none of them.               *)
(***************************************************************************)
EXTENDS Naturals, Sequences, FiniteSets

CONSTANTS Pages,            \* page ids
          PoolSize,         \* pool_size_
          Handles,          \* Page* variables of the calling code
          Values,           \* contents callers write
          Fresh,            \* content left by init_page
          Zero,             \* what read_page makes of bytes past the end of file
          Torn,             \* content left by a write that failed half way
          NoPage,           \* INVALID_PAGE_ID
          FreeWhilePinned,  \* may free_page name a page its caller still pins?
          MaxLosses         \* bound: crashes, and closes that fail to write

Frames   == 1..PoolSize
NoFrame  == 0               \* SIZE_MAX, and page_table_.end()
Contents == Values \union {Fresh, Zero, Torn}

ASSUME BPAssumption == /\ PoolSize \in Nat \ {0}
                       /\ IsFiniteSet(Handles)
                       /\ NoPage \notin Pages
                       /\ FreeWhilePinned \in BOOLEAN
                       /\ MaxLosses \in Nat

VARIABLES
    disk,        \* the table file
    frames,      \* frames_
    pageTable,   \* page_table_
    lru,         \* lru_list_, front first
    held,        \* the pointers callers hold: page asked for, frame, written through?
    live,        \* pages whose bit is set in the allocation bitmap
    phase,       \* "open", or which flush_all is running
    todo,        \* pages the running flush_all has not reached
    failed,      \* history: pages the running flush_all failed to write
    stranded,    \* history: frames whose page could not be evicted, until used again
    losses       \* history: how often the pool went away with unwritten pages

poolVars == <<frames, pageTable, lru>>
historyVars == <<failed, stranded, losses>>
vars == <<disk, frames, pageTable, lru, held, live, phase, todo, failed, stranded, losses>>

Frame     == [page : Pages \union {NoPage}, pins : Nat, dirty : BOOLEAN, data : Contents]
EmptyFrame == [page |-> NoPage, pins |-> 0, dirty |-> FALSE, data |-> Zero]
Handle    == [page : Pages \union {NoPage}, frame : Frames \union {NoFrame}, wrote : BOOLEAN]
NotHeld   == [page |-> NoPage, frame |-> NoFrame, wrote |-> FALSE]

\* a new BufferPoolManager: every frame free and in the list
NoFrames  == [f \in Frames |-> EmptyFrame]
NoMapping == [p \in Pages |-> NoFrame]
AllListed == [f \in Frames |-> f]

Init == /\ frames = NoFrames
        /\ pageTable = NoMapping
        /\ lru = AllListed
        /\ disk = [p \in Pages |-> Zero]
        /\ held = [h \in Handles |-> NotHeld]
        /\ live = {}
        /\ phase = "open"
        /\ todo = {}
        /\ failed = {}
        /\ stranded = {}
        /\ losses = 0

-----------------------------------------------------------------------------
(* The frame search and the LRU list                                       *)

Cached     == {p \in Pages : pageTable[p] # NoFrame}
FreeFrames == {f \in Frames : frames[f].page = NoPage}
InLru(f)   == \E i \in 1..Len(lru) : lru[i] = f

\* remove_from_lru: erases the first occurrence
At(s, f) == CHOOSE i \in 1..Len(s) : s[i] = f /\ \A j \in 1..(i - 1) : s[j] # f
Without(s, f) ==
    IF \E i \in 1..Len(s) : s[i] = f
    THEN [j \in 1..(Len(s) - 1) |-> IF j < At(s, f) THEN s[j] ELSE s[j + 1]]
    ELSE s

\* mark_frame_used
Used_KeptTwice(s, f) == <<f>> \o s
Used(s, f) == <<f>> \o Without(s, f)

\* positions of the list a search that pops from its back may stop at
Evictable_Any == 1..Len(lru)
Evictable == {i \in 1..Len(lru) : frames[lru[i]].pins = 0}

\* find_or_evict_frame: a free frame, else the last unpinned one of the list
Victim ==
    IF FreeFrames # {}
    THEN CHOOSE f \in FreeFrames : \A g \in FreeFrames : f <= g
    ELSE IF Evictable # {}
         THEN lru[CHOOSE i \in Evictable : \A j \in Evictable : j <= i]
         ELSE NoFrame

\* the list after it: the victim and the pinned frames behind it are popped
SearchedLru ==
    IF FreeFrames # {} THEN lru
    ELSE IF Evictable # {}
         THEN SubSeq(lru, 1, (CHOOSE i \in Evictable : \A j \in Evictable : j <= i) - 1)
         ELSE <<>>

\* evict_frame: the file after the victim's page went back to it
WrittenBack_Lost(f) == disk
WrittenBack(f) ==
    IF frames[f].dirty THEN [disk EXCEPT ![frames[f].page] = frames[f].data] ELSE disk

\* page_table_.erase(frame.page_id)
Unmapped_Forgotten(f) == pageTable
Unmapped(f) == [p \in Pages |-> IF p = frames[f].page THEN NoFrame ELSE pageTable[p]]

\* a write_page that throws leaves the old bytes, or some of the new ones
WriteFails(p) == disk' \in {disk, [disk EXCEPT ![p] = Torn]}

-----------------------------------------------------------------------------
(* fetch_page and new_page                                                 *)

MayCall(h) == phase = "open" /\ held[h] = NotHeld

Hold(h, p, f) == held' = [held EXCEPT ![h] = [page |-> p, frame |-> f, wrote |-> FALSE]]

\* both: the page is in the pool
PinCount_Kept(f) == frames[f].pins
PinCount(f) == frames[f].pins + 1
Hit(h, p) ==
    LET f == pageTable[p] IN
    /\ p \in Cached
    /\ frames' = [frames EXCEPT ![f].pins = PinCount(f)]
    /\ lru' = Used(lru, f)
    /\ stranded' = stranded \ {f}
    /\ Hold(h, p, f)
    /\ UNCHANGED <<disk, pageTable>>

\* both: the page takes the victim's frame
Miss(h, p, content, dirty) ==
    LET f == Victim IN
    /\ p \notin Cached
    /\ f # NoFrame
    /\ disk' = WrittenBack(f)
    /\ frames' = [frames EXCEPT ![f] =
                     [page |-> p, pins |-> 1, dirty |-> dirty, data |-> content]]
    /\ pageTable' = [Unmapped(f) EXCEPT ![p] = f]
    /\ lru' = Used(SearchedLru, f)
    /\ stranded' = stranded \ {f}
    /\ Hold(h, p, f)

Fetch(h, p) ==
    /\ MayCall(h)
    /\ p \in live
    /\ \/ Hit(h, p)
       \/ Miss(h, p, disk[p], FALSE)
    /\ UNCHANGED <<live, phase, todo, failed, losses>>

NewDirty_Clean == FALSE
NewDirty == TRUE
NewPage(h, p) ==
    /\ MayCall(h)
    /\ p \notin live
    /\ \/ Hit(h, p)
       \/ Miss(h, p, Fresh, NewDirty)
    /\ live' = live \union {p}
    /\ UNCHANGED <<phase, todo, failed, losses>>

\* both return nullptr: no frame can be had
NoFrameLeft(p) ==
    /\ phase = "open"
    /\ p \notin Cached
    /\ Victim = NoFrame
    /\ lru' = SearchedLru
    /\ UNCHANGED <<disk, frames, pageTable, held, live, phase, todo, historyVars>>

\* both return nullptr: the victim cannot be written back and stays, unlisted
EvictFails(p) ==
    /\ phase = "open"
    /\ p \notin Cached
    /\ Victim # NoFrame
    /\ frames[Victim].dirty
    /\ WriteFails(frames[Victim].page)
    /\ lru' = SearchedLru
    /\ stranded' = stranded \union {Victim}
    /\ UNCHANGED <<frames, pageTable, held, live, phase, todo, failed, losses>>

\* fetch_page returns nullptr: the victim is gone, the read failed
ReadFails(p) ==
    LET f == Victim IN
    /\ phase = "open"
    /\ p \in live \ Cached
    /\ f # NoFrame
    /\ disk' = WrittenBack(f)
    /\ frames' = [frames EXCEPT ![f] = EmptyFrame]
    /\ pageTable' = Unmapped(f)
    /\ lru' = SearchedLru
    /\ UNCHANGED <<held, live, phase, todo, historyVars>>

-----------------------------------------------------------------------------
(* What callers do with the pointer, and the other calls                   *)

Write(h, v) ==
    /\ phase = "open"
    /\ held[h] # NotHeld
    /\ frames' = [frames EXCEPT ![held[h].frame].data = v]
    /\ held' = [held EXCEPT ![h].wrote = TRUE]
    /\ UNCHANGED <<disk, pageTable, lru, live, phase, todo, historyVars>>

\* unpin_page: an unpinned frame the search had popped goes to the back
DirtyAfter_Overwritten(f, wrote) == wrote
DirtyAfter(f, wrote) == frames[f].dirty \/ wrote
Relisted_Never(f, pins) == lru
Relisted(f, pins) == IF pins = 0 /\ ~InLru(f) THEN Append(lru, f) ELSE lru
Unpin(h) ==
    LET p == held[h].page
        f == pageTable[p]
        pins == frames[f].pins - 1
    IN  /\ phase = "open"
        /\ held[h] # NotHeld
        /\ frames' = [frames EXCEPT ![f].pins = pins,
                                    ![f].dirty = DirtyAfter(f, held[h].wrote)]
        /\ lru' = Relisted(f, pins)
        /\ held' = [held EXCEPT ![h] = NotHeld]
        /\ UNCHANGED <<disk, pageTable, live, phase, todo, historyVars>>

\* free_page: the bit is cleared, and delete_page drops the page unless pinned
MayDelete_Never(p) == FALSE
MayDelete(p) == p \in Cached /\ frames[pageTable[p]].pins = 0
FreePage(p) ==
    LET f == pageTable[p] IN
    /\ phase = "open"
    /\ p \in live
    /\ FreeWhilePinned \/ \A h \in Handles : held[h].page # p
    /\ live' = live \ {p}
    /\ IF MayDelete(p)
       THEN /\ frames' = [frames EXCEPT ![f] = EmptyFrame]
            /\ pageTable' = [pageTable EXCEPT ![p] = NoFrame]
            /\ lru' = Without(lru, f)
            /\ stranded' = stranded \ {f}
       ELSE UNCHANGED <<poolVars, stranded>>
    /\ UNCHANGED <<disk, held, phase, todo, failed, losses>>

\* write_page inside flush_page and flush_all
FlushFrame(p) ==
    LET f == pageTable[p] IN
    \/ /\ disk' = WrittenBack(f)
       /\ frames' = [frames EXCEPT ![f].dirty = FALSE]
       /\ UNCHANGED failed
    \/ /\ frames[f].dirty
       /\ phase = "destroy" => losses < MaxLosses
       /\ WriteFails(p)
       /\ failed' = IF phase = "open" THEN failed ELSE failed \union {p}
       /\ UNCHANGED frames

FlushPage(p) ==
    /\ phase = "open"
    /\ p \in Cached
    /\ FlushFrame(p)
    /\ UNCHANGED <<pageTable, lru, held, live, phase, todo, stranded, losses>>

\* flush_all, called alone or by close_table
StartFlush(next) ==
    /\ phase = "open"
    /\ next = "close" => \A h \in Handles : held[h] = NotHeld
    /\ phase' = next
    /\ todo' = Cached
    /\ UNCHANGED <<disk, poolVars, held, live, historyVars>>

FlushNext(p) ==
    /\ p \in todo
    /\ FlushFrame(p)
    /\ todo' = todo \ {p}
    /\ UNCHANGED <<pageTable, lru, held, live, phase, stranded, losses>>

FlushDone ==
    /\ phase = "flush"
    /\ todo = {}
    /\ phase' = "open"
    /\ failed' = {}
    /\ UNCHANGED <<disk, poolVars, held, live, todo, stranded, losses>>

\* close_table erases the handle: the destructor runs flush_all again
Destruct_NoFlush == {}
Destruct == Cached
StartDestruct ==
    /\ phase = "close"
    /\ todo = {}
    /\ phase' = "destroy"
    /\ todo' = Destruct
    /\ failed' = {}
    /\ UNCHANGED <<disk, poolVars, held, live, stranded, losses>>

NewPool == /\ frames' = NoFrames
           /\ pageTable' = NoMapping
           /\ lru' = AllListed
           /\ failed' = {}
           /\ stranded' = {}

\* the pool is gone; the next open_table makes a new one
Destroyed ==
    /\ phase = "destroy"
    /\ todo = {}
    /\ NewPool
    /\ losses' = IF failed = {} THEN losses ELSE losses + 1
    /\ phase' = "open"
    /\ UNCHANGED <<disk, held, live, todo>>

\* the process dies, perhaps in the middle of a write
Crash ==
    /\ losses < MaxLosses
    /\ losses' = losses + 1
    /\ \/ disk' = disk
       \/ \E p \in Cached : /\ frames[pageTable[p]].dirty
                            /\ disk' = [disk EXCEPT ![p] = Torn]
    /\ NewPool
    /\ held' = [h \in Handles |-> NotHeld]
    /\ phase' = "open"
    /\ todo' = {}
    /\ UNCHANGED live

Next ==
    \/ \E h \in Handles, p \in Pages : Fetch(h, p) \/ NewPage(h, p)
    \/ \E p \in Pages : NoFrameLeft(p) \/ EvictFails(p) \/ ReadFails(p)
    \/ \E h \in Handles, v \in Values : Write(h, v)
    \/ \E h \in Handles : Unpin(h)
    \/ \E p \in Pages : FreePage(p) \/ FlushPage(p) \/ FlushNext(p)
    \/ \E next \in {"flush", "close"} : StartFlush(next)
    \/ FlushDone
    \/ StartDestruct
    \/ Destroyed
    \/ Crash

Spec == Init /\ [][Next]_vars

-----------------------------------------------------------------------------
(* Properties                                                              *)

\* Every variable has its type and the list names no frame twice
\* (remove_from_lru before every push).
TypeOK ==
    /\ disk \in [Pages -> Contents]
    /\ frames \in [Frames -> Frame]
    /\ pageTable \in [Pages -> Frames \union {NoFrame}]
    /\ lru \in Seq(Frames)
    /\ \A i, j \in 1..Len(lru) : lru[i] = lru[j] => i = j
    /\ held \in [Handles -> Handle]
    /\ live \subseteq Pages
    /\ phase \in {"open", "flush", "close", "destroy"}
    /\ todo \subseteq Pages
    /\ failed \subseteq Pages
    /\ stranded \subseteq Frames
    /\ losses \in 0..MaxLosses

\* The page table and the frames say the same: a page is in at most one frame,
\* and a frame with a page is found through the table.
CachedOnce ==
    /\ \A p \in Cached : frames[pageTable[p]].page = p
    /\ \A f \in Frames \ FreeFrames : pageTable[frames[f].page] = f
    /\ \A f \in FreeFrames : frames[f].pins = 0 /\ ~frames[f].dirty

\* The pin count of a frame is the number of pointers into it (fetch_page,
\* new_page, unpin_page, and every path that resets the frame).
Holders(f) == {h \in Handles : held[h].frame = f}
PinsCounted == \A f \in Frames : frames[f].pins = Cardinality(Holders(f))

\* A pointer a caller holds still points at the page it asked for: no eviction,
\* deletion or reload takes the frame from under it.
PointerValid ==
    \A h \in Handles : held[h] # NotHeld =>
        /\ held[h].frame \in Frames
        /\ frames[held[h].frame].page = held[h].page

\* A frame that is not dirty, and that no caller has written to since it was
\* fetched, equals the file: evicting it loses nothing.
CleanIsOnDisk ==
    \A p \in Cached :
        LET f == pageTable[p] IN
        \/ frames[f].dirty
        \/ \E h \in Holders(f) : held[h].wrote
        \/ frames[f].data = disk[p]

\* An unpinned frame is in the LRU list, so it can be reused, unless the
\* eviction that chose it could not write its page: then it stays out of the
\* list until the page is fetched again.
EvictableUnlessFailed ==
    \A f \in Frames \ (FreeFrames \union stranded) : frames[f].pins = 0 => InLru(f)

\* A page read through the pool.
View == [p \in Pages |-> IF p \in Cached THEN frames[pageTable[p]].data ELSE disk[p]]

\* close_table keeps every page the destructor could write: what a reader sees
\* after the pool is destroyed is what it saw before.
CloseKeeps ==
    [][Destroyed => \A p \in Pages \ failed : View'[p] = View[p]]_vars

\* A page new_page returns holds what init_page leaves, as its callers that
\* fill it in place (create_new_root, the first insert) expect.
NewPageIsFresh ==
    [][\A h \in Handles, p \in Pages : NewPage(h, p) => View'[p] = Fresh]_vars

\* The pool implements the page store.
Store == INSTANCE PageStore WITH content <- View, durable <- disk
PageStoreKept == Store!Spec
=============================================================================
