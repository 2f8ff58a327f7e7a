-------------------------- MODULE BufferPoolProofs --------------------------
(***************************************************************************)
(* Theorems about BufferPool, for every pool size, every set of pages and  *)
(* every set of pointers.  Only the last two, that a new page is fresh and *)
(* that the pool implements PageStore, ask that callers unpin a page       *)
(* before they free it.                                                    *)
(***************************************************************************)
EXTENDS BufferPool, FiniteSetTheorems, SequenceTheorems, WellFoundedInduction, TLAPS

-----------------------------------------------------------------------------
(* The inductive invariant                                                 *)

\* a flush_all only visits pages of the pool, and the pool is closed unheld
FlushScope == /\ todo \subseteq Cached
              /\ phase = "open" => todo = {}
              /\ phase \in {"close", "destroy"} => \A h \in Handles : held[h] = NotHeld
              /\ phase = "destroy" /\ failed # {} => losses < MaxLosses

IInv == TypeOK /\ CachedOnce /\ PinsCounted /\ PointerValid /\ FlushScope

\* a list of frames that names none twice
FrameList(s) == /\ s \in Seq(Frames)
                /\ \A i, j \in 1..Len(s) : s[i] = s[j] => i = j

-----------------------------------------------------------------------------
(* The frame search and the LRU list                                       *)

LEMMA LeastElement ==
    ASSUME NEW T, T \subseteq Nat, T # {}
    PROVE  \E x \in T : \A y \in T : x <= y
<1>1. \E x \in T : \A y \in T : ~(<<y, x>> \in OpToRel(<, Nat))
  BY NatLessThanWellFounded, WFMin
<1>2. \A x, y \in T : y < x => <<y, x>> \in OpToRel(<, Nat)
  BY DEF OpToRel
<1>3. \A x, y \in T : ~(y < x) => x <= y
  OBVIOUS
<1> QED BY <1>1, <1>2, <1>3

LEMMA GreatestElement ==
    ASSUME NEW n \in Nat, NEW T, T \subseteq 1..n, T # {}
    PROVE  \E x \in T : \A y \in T : y <= x
<1> DEFINE U == {n - y : y \in T}
<1>1. U \subseteq Nat /\ U # {}
  OBVIOUS
<1>2. PICK u \in U : \A v \in U : u <= v
  BY <1>1, LeastElement
<1>3. PICK x \in T : u = n - x
  OBVIOUS
<1>4. \A y \in T : n - x <= n - y
  BY <1>2, <1>3
<1> QED BY <1>3, <1>4

LEMMA FreeFrameFound ==
    ASSUME BPAssumption, FreeFrames # {}
    PROVE  Victim \in FreeFrames
<1>1. FreeFrames \subseteq Nat
  BY BPAssumption DEF FreeFrames, Frames
<1>2. \E f \in FreeFrames : \A g \in FreeFrames : f <= g
  BY <1>1, LeastElement
<1> QED BY <1>2 DEF Victim

LEMMA EvictableFound ==
    ASSUME lru \in Seq(Frames), Evictable # {}
    PROVE  (CHOOSE i \in Evictable : \A j \in Evictable : j <= i) \in Evictable
<1>1. Len(lru) \in Nat /\ Evictable \subseteq 1..Len(lru)
  BY DEF Evictable
<1>2. \E i \in Evictable : \A j \in Evictable : j <= i
  BY <1>1, GreatestElement
<1> QED BY <1>2

\* The frame find_or_evict_frame returns is free or unpinned.
LEMMA VictimUnpinned ==
    ASSUME BPAssumption, TypeOK, CachedOnce
    PROVE  /\ Victim \in Frames \union {NoFrame}
           /\ Victim # NoFrame => frames[Victim].pins = 0
<1>1. CASE FreeFrames # {}
  <2>1. Victim \in FreeFrames
    BY <1>1, FreeFrameFound
  <2> QED BY <2>1 DEF FreeFrames, CachedOnce
<1>2. CASE FreeFrames = {} /\ Evictable # {}
  <2> DEFINE i == CHOOSE k \in Evictable : \A j \in Evictable : j <= k
  <2>1. lru \in Seq(Frames)
    BY DEF TypeOK
  <2>2. Victim = lru[i]
    BY <1>2 DEF Victim
  <2>3. i \in Evictable
    BY <1>2, <2>1, EvictableFound
  <2> HIDE DEF i
  <2>4. i \in 1..Len(lru) /\ frames[lru[i]].pins = 0
    BY <2>3 DEF Evictable
  <2>5. lru[i] \in Frames
    BY <2>1, <2>4
  <2> QED BY <2>2, <2>4, <2>5
<1>3. CASE FreeFrames = {} /\ Evictable = {}
  BY <1>3 DEF Victim
<1> QED BY <1>1, <1>2, <1>3

LEMMA PrefixProperties ==
    ASSUME NEW S, NEW s \in Seq(S), NEW i \in 1..Len(s)
    PROVE  /\ SubSeq(s, 1, i - 1) \in Seq(S)
           /\ Len(SubSeq(s, 1, i - 1)) = i - 1
           /\ \A j \in 1..(i - 1) : SubSeq(s, 1, i - 1)[j] = s[j]
<1>1. \A j \in 1..(i - 1) : s[j] \in S
  OBVIOUS
<1>2. SubSeq(s, 1, i - 1) \in Seq(S)
  BY <1>1, SubSeqProperties
<1>3. Len(SubSeq(s, 1, i - 1)) = i - 1
  BY <1>1, SubSeqProperties
<1>4. \A j \in 1..(i - 1) : SubSeq(s, 1, i - 1)[j] = s[j]
  BY <1>1, SubSeqProperties
<1> QED BY <1>2, <1>3, <1>4

LEMMA SearchedLruList ==
    ASSUME TypeOK
    PROVE  FrameList(SearchedLru)
<1>1. FrameList(lru)
  BY DEF TypeOK, FrameList
<1>2. CASE FreeFrames # {}
  BY <1>1, <1>2 DEF SearchedLru
<1>3. CASE FreeFrames = {} /\ Evictable # {}
  <2> DEFINE i == CHOOSE k \in Evictable : \A j \in Evictable : j <= k
  <2>1. i \in 1..Len(lru)
    BY <1>3, EvictableFound DEF TypeOK, Evictable
  <2>2. SearchedLru = SubSeq(lru, 1, i - 1)
    BY <1>3 DEF SearchedLru
  <2> HIDE DEF i
  <2>3. /\ SubSeq(lru, 1, i - 1) \in Seq(Frames)
        /\ Len(SubSeq(lru, 1, i - 1)) = i - 1
        /\ \A j \in 1..(i - 1) : SubSeq(lru, 1, i - 1)[j] = lru[j]
    BY <1>1, <2>1, PrefixProperties DEF FrameList
  <2> QED BY <1>1, <2>1, <2>2, <2>3, SMTT(40) DEF FrameList
<1>4. CASE FreeFrames = {} /\ Evictable = {}
  BY <1>4 DEF SearchedLru, FrameList
<1> QED BY <1>2, <1>3, <1>4

\* remove_from_lru leaves a list without the frame.
LEMMA WithoutList ==
    ASSUME NEW s, FrameList(s), NEW f \in Frames
    PROVE  /\ FrameList(Without(s, f))
           /\ \A i \in 1..Len(Without(s, f)) : Without(s, f)[i] # f
<1>1. CASE ~ \E i \in 1..Len(s) : s[i] = f
  BY <1>1 DEF Without
<1>2. CASE \E i \in 1..Len(s) : s[i] = f
  <2> DEFINE n == Len(s)
             k == At(s, f)
             t == [j \in 1..(n - 1) |-> IF j < k THEN s[j] ELSE s[j + 1]]
  <2>1. s \in Seq(Frames) /\ n \in Nat /\ DOMAIN s = 1..n
    BY DEF FrameList
  <2>2. PICK i \in 1..n : s[i] = f
    BY <1>2
  <2>3. \A j \in 1..(i - 1) : s[j] # f
    BY <2>1, <2>2 DEF FrameList
  <2>4. k \in 1..n /\ s[k] = f
    BY <2>2, <2>3 DEF At
  <2>5. Without(s, f) = t
    BY <1>2 DEF Without
  <2> HIDE DEF k
  <2>6. \A j \in 1..(n - 1) : t[j] \in Frames
    BY <2>1
  <2>7. t \in Seq(Frames) /\ Len(t) = n - 1
    BY <2>1, <2>2, <2>6
  <2>8. \A a, b \in 1..(n - 1) : t[a] = t[b] => a = b
    BY <2>1, <2>4 DEF FrameList
  <2>9. \A a \in 1..(n - 1) : t[a] # f
    BY <2>1, <2>4 DEF FrameList
  <2> QED BY <2>5, <2>7, <2>8, <2>9 DEF FrameList
<1> QED BY <1>1, <1>2

\* mark_frame_used leaves a list.
LEMMA UsedList ==
    ASSUME NEW s, FrameList(s), NEW f \in Frames
    PROVE  FrameList(Used(s, f))
<1> DEFINE t == Without(s, f)
<1>1. FrameList(t) /\ \A i \in 1..Len(t) : t[i] # f
  BY WithoutList
<1> HIDE DEF t
<1>2. /\ <<f>> \o t \in Seq(Frames)
      /\ Len(<<f>> \o t) = Len(t) + 1
      /\ \A i \in 1..(Len(t) + 1) : (<<f>> \o t)[i] = IF i = 1 THEN f ELSE t[i - 1]
  BY <1>1 DEF FrameList
<1>3. FrameList(<<f>> \o t)
  BY <1>1, <1>2 DEF FrameList
<1> QED BY <1>3 DEF Used, t

\* The list unpin_page leaves.
LEMMA RelistedList ==
    ASSUME FrameList(lru), NEW f \in Frames, NEW n
    PROVE  FrameList(Relisted(f, n))
<1>1. CASE n = 0 /\ ~InLru(f)
  <2>1. /\ Append(lru, f) \in Seq(Frames)
        /\ Len(Append(lru, f)) = Len(lru) + 1
        /\ \A i \in 1..(Len(lru) + 1) :
              Append(lru, f)[i] = IF i = Len(lru) + 1 THEN f ELSE lru[i]
    BY DEF FrameList
  <2>2. \A i \in 1..Len(lru) : lru[i] # f
    BY <1>1 DEF InLru
  <2> QED BY <1>1, <2>1, <2>2 DEF FrameList, Relisted
<1> QED BY <1>1 DEF Relisted
-----------------------------------------------------------------------------
(* Pins and pointers                                                       *)

LEMMA HoldersFinite ==
    ASSUME BPAssumption, NEW f
    PROVE  IsFiniteSet(Holders(f)) /\ Cardinality(Holders(f)) \in Nat
<1>1. Holders(f) \in SUBSET Handles
  BY DEF Holders
<1> QED BY <1>1, FS_Subset, FS_CardinalityType DEF BPAssumption

\* A pointer taken into f adds one holder to f and changes no other frame's.
LEMMA HoldCounts ==
    ASSUME BPAssumption, TypeOK, NEW h \in Handles, NEW p \in Pages, NEW f \in Frames,
           held[h] = NotHeld, Hold(h, p, f)
    PROVE  /\ Cardinality(Holders(f)') = Cardinality(Holders(f)) + 1
           /\ \A g \in Frames \ {f} : Holders(g)' = Holders(g)
<1>1. h \notin Holders(f) /\ NoFrame \notin Frames
  BY DEF Holders, NotHeld, NoFrame, Frames
<1>2. Holders(f)' = Holders(f) \union {h}
  BY DEF Holders, Hold, TypeOK
<1>3. \A g \in Frames \ {f} : Holders(g)' = Holders(g)
  BY <1>1 DEF Holders, Hold, TypeOK, NotHeld
<1> QED BY <1>1, <1>2, <1>3, HoldersFinite, FS_AddElement, ZenonT(60)

\* A pointer given back removes one holder.
LEMMA ReleaseCounts ==
    ASSUME BPAssumption, TypeOK, NEW h \in Handles, NEW f \in Frames,
           held[h].frame = f, held' = [held EXCEPT ![h] = NotHeld]
    PROVE  /\ Cardinality(Holders(f)') = Cardinality(Holders(f)) - 1
           /\ Cardinality(Holders(f)) > 0
           /\ \A g \in Frames \ {f} : Holders(g)' = Holders(g)
<1>1. h \in Holders(f) /\ NoFrame \notin Frames
  BY DEF Holders, NoFrame, Frames
<1>2. Holders(f)' = Holders(f) \ {h}
  BY <1>1 DEF Holders, TypeOK, NotHeld
<1>3. \A g \in Frames \ {f} : Holders(g)' = Holders(g)
  BY <1>1 DEF Holders, TypeOK, NotHeld
<1>4. Holders(f) # {}
  BY <1>1
<1>5. Cardinality(Holders(f)) > 0
  BY <1>4, HoldersFinite, FS_EmptySet
<1>6. IsFiniteSet(Holders(f))
  BY HoldersFinite
<1>7. Cardinality(Holders(f) \ {h}) = Cardinality(Holders(f)) - 1
  BY <1>1, <1>6, FS_RemoveElement
<1> QED BY <1>2, <1>3, <1>5, <1>7

\* No pointer leads into a frame without pins.
LEMMA UnpinnedUnheld ==
    ASSUME BPAssumption, PinsCounted, NEW f \in Frames, frames[f].pins = 0
    PROVE  \A h \in Handles : held[h].frame # f
<1>1. Cardinality(Holders(f)) = 0
  BY DEF PinsCounted
<1>2. Holders(f) = {}
  BY <1>1, HoldersFinite, FS_EmptySet
<1> QED BY <1>2 DEF Holders

-----------------------------------------------------------------------------
(* Every step preserves the invariant                                      *)

LEMMA InitInvariant ==
    ASSUME BPAssumption, Init
    PROVE  IInv
<1> USE DEF Init, NoFrames, NoMapping, AllListed, EmptyFrame, NotHeld
<1>1. NoFrame \notin Frames
  BY DEF NoFrame, Frames
<1>2. lru \in Seq(Frames) /\ Len(lru) = PoolSize
  BY DEF BPAssumption, Frames
<1>3. TypeOK
  BY <1>2 DEF BPAssumption, TypeOK, Contents, Frame, Handle, Frames
<1>4. CachedOnce
  BY DEF CachedOnce, Cached, FreeFrames
<1>5. \A f \in Frames : Holders(f) = {}
  BY <1>1 DEF Holders
<1>6. PinsCounted
  BY <1>5, FS_EmptySet DEF PinsCounted
<1> QED BY <1>3, <1>4, <1>6 DEF IInv, PointerValid, FlushScope, Cached

\* The page is in the pool.
LEMMA HitStep ==
    ASSUME BPAssumption, IInv, NEW h \in Handles, NEW p \in Pages,
           MayCall(h), Hit(h, p), live' \subseteq Pages, UNCHANGED <<phase, todo, failed, losses>>
    PROVE  IInv'
<1> DEFINE f == pageTable[p]
<1>1. f \in Frames /\ frames[f].page = p /\ p # NoPage
  BY DEF IInv, TypeOK, CachedOnce, Hit, Cached, BPAssumption
<1> HIDE DEF f
<1>a. /\ frames' = [frames EXCEPT ![f].pins = frames[f].pins + 1]
      /\ lru' = Used(lru, f)
      /\ stranded' = stranded \ {f}
      /\ Hold(h, p, f)
      /\ UNCHANGED <<disk, pageTable>>
  BY DEF Hit, f, PinCount
<1>2. FrameList(lru')
  BY <1>1, <1>a, UsedList DEF IInv, TypeOK, FrameList
<1>3. frames' \in [Frames -> Frame]
  <2>1. frames[f] \in Frame
    BY <1>1 DEF IInv, TypeOK
  <2>2. [frames[f] EXCEPT !.pins = frames[f].pins + 1] \in Frame
    BY <2>1 DEF Frame
  <2> QED BY <1>1, <1>a, <2>2 DEF IInv, TypeOK
<1>4. TypeOK'
  BY <1>1, <1>a, <1>2, <1>3 DEF IInv, TypeOK, FrameList, Hold, Handle
<1>5. CachedOnce'
  BY <1>1, <1>a DEF IInv, TypeOK, CachedOnce, Cached, FreeFrames
<1>6. PinsCounted'
  BY <1>1, <1>a, HoldCounts DEF IInv, TypeOK, PinsCounted, MayCall
<1>7. PointerValid'
  BY <1>1, <1>a DEF IInv, TypeOK, PointerValid, Hold
<1>8. FlushScope'
  BY <1>a DEF IInv, FlushScope, MayCall, Cached
<1> QED BY <1>4, <1>5, <1>6, <1>7, <1>8 DEF IInv

\* The frame the search found loses its page and pins nothing.
LEMMA VictimReusable ==
    ASSUME BPAssumption, IInv, Victim # NoFrame
    PROVE  /\ Victim \in Frames
           /\ frames[Victim].pins = 0
           /\ \A h \in Handles : held[h].frame # Victim
           /\ WrittenBack(Victim) \in [Pages -> Contents]
<1>1. Victim \in Frames /\ frames[Victim].pins = 0
  BY VictimUnpinned DEF IInv
<1>2. \A h \in Handles : held[h].frame # Victim
  BY <1>1, UnpinnedUnheld DEF IInv
<1>3. WrittenBack(Victim) \in [Pages -> Contents]
  BY <1>1 DEF WrittenBack, IInv, TypeOK, Frame
<1> QED BY <1>1, <1>2, <1>3

\* The page takes the victim's frame.
LEMMA MissStep ==
    ASSUME BPAssumption, IInv, NEW h \in Handles, NEW p \in Pages,
           NEW content \in Contents, NEW dirty \in BOOLEAN,
           MayCall(h), Miss(h, p, content, dirty),
           live' \subseteq Pages, UNCHANGED <<phase, todo, failed, losses>>
    PROVE  IInv'
<1> DEFINE f == Victim
           q == frames[f].page
<1>1. /\ f \in Frames /\ frames[f].pins = 0
      /\ \A k \in Handles : held[k].frame # f
      /\ WrittenBack(f) \in [Pages -> Contents]
  BY VictimReusable DEF Miss
<1> HIDE DEF f
<1>a. /\ p \notin Cached
      /\ disk' = WrittenBack(f)
      /\ frames' = [frames EXCEPT ![f] =
                      [page |-> p, pins |-> 1, dirty |-> dirty, data |-> content]]
      /\ pageTable' = [Unmapped(f) EXCEPT ![p] = f]
      /\ lru' = Used(SearchedLru, f)
      /\ stranded' = stranded \ {f}
      /\ Hold(h, p, f)
  BY DEF Miss, f
<1>2. FrameList(lru')
  BY <1>1, <1>a, UsedList, SearchedLruList DEF IInv
<1>3. /\ frames' \in [Frames -> Frame]
      /\ pageTable' \in [Pages -> Frames \union {NoFrame}]
  BY <1>1, <1>a DEF IInv, TypeOK, Frame, Unmapped
<1>4. TypeOK'
  BY <1>1, <1>a, <1>2, <1>3 DEF IInv, TypeOK, FrameList, Hold, Handle
<1>5. pageTable' = [r \in Pages |-> IF r = p THEN f ELSE IF r = q THEN NoFrame ELSE pageTable[r]]
  BY <1>a DEF Unmapped
<1>6. CachedOnce'
  <2>1. \A r \in Pages : pageTable[r] \in Frames => frames[pageTable[r]].page = r
    BY DEF IInv, TypeOK, CachedOnce, Cached, NoFrame, Frames
  <2>2. \A r \in Cached' : frames'[pageTable'[r]].page = r
    BY <1>1, <1>a, <1>5, <2>1 DEF IInv, TypeOK, Cached
  <2>3. \A g \in Frames \ FreeFrames' : pageTable'[frames'[g].page] = g
    BY <1>1, <1>a, <1>5, <2>1 DEF IInv, TypeOK, Frame, CachedOnce, Cached, FreeFrames, NoFrame, Frames
  <2>4. \A g \in FreeFrames' : frames'[g].pins = 0 /\ ~frames'[g].dirty
    BY <1>1, <1>a DEF IInv, TypeOK, CachedOnce, FreeFrames, BPAssumption
  <2> QED BY <2>2, <2>3, <2>4 DEF CachedOnce
<1>7. PinsCounted'
  <2>1. Cardinality(Holders(f)) = 0
    BY <1>1 DEF IInv, PinsCounted
  <2> QED BY <1>1, <1>a, <2>1, HoldCounts DEF IInv, TypeOK, PinsCounted, MayCall
<1>8. PointerValid'
  BY <1>1, <1>a DEF IInv, TypeOK, PointerValid, Hold
<1>9. FlushScope'
  BY DEF IInv, FlushScope, MayCall
<1> QED BY <1>4, <1>6, <1>7, <1>8, <1>9 DEF IInv
LEMMA FetchStep ==
    ASSUME BPAssumption, IInv, NEW h \in Handles, NEW p \in Pages, Fetch(h, p)
    PROVE  IInv'
<1>1. disk[p] \in Contents /\ live' \subseteq Pages
  BY DEF IInv, TypeOK, Fetch
<1> QED BY <1>1, HitStep, MissStep DEF Fetch

LEMMA NewPageStep ==
    ASSUME BPAssumption, IInv, NEW h \in Handles, NEW p \in Pages, NewPage(h, p)
    PROVE  IInv'
<1>1. Fresh \in Contents /\ NewDirty \in BOOLEAN /\ live' \subseteq Pages
  BY DEF IInv, TypeOK, NewPage, Contents, NewDirty
<1> QED BY <1>1, HitStep, MissStep DEF NewPage

\* A write that fails leaves a content of the file.
LEMMA TornType ==
    ASSUME IInv, NEW p, WriteFails(p)
    PROVE  disk' \in [Pages -> Contents]
BY DEF IInv, TypeOK, WriteFails, Contents

\* Only the list, the file and the histories change.
LEMMA PoolKept ==
    ASSUME IInv, FrameList(lru'), disk' \in [Pages -> Contents],
           stranded' \subseteq Frames, UNCHANGED <<frames, pageTable, held, live, phase, todo, failed, losses>>
    PROVE  IInv'
<1>1. TypeOK'
  BY DEF IInv, TypeOK, FrameList
<1>2. CachedOnce'
  BY DEF IInv, CachedOnce, Cached, FreeFrames
<1>3. PinsCounted' /\ PointerValid' /\ FlushScope'
  BY DEF IInv, PinsCounted, Holders, PointerValid, FlushScope, Cached
<1> QED BY <1>1, <1>2, <1>3 DEF IInv

LEMMA NoFrameLeftStep ==
    ASSUME IInv, NEW p \in Pages, NoFrameLeft(p)
    PROVE  IInv'
<1>1. FrameList(lru')
  BY SearchedLruList DEF IInv, NoFrameLeft
<1> QED BY <1>1, PoolKept DEF NoFrameLeft, IInv, TypeOK, historyVars

LEMMA EvictFailsStep ==
    ASSUME BPAssumption, IInv, NEW p \in Pages, EvictFails(p)
    PROVE  IInv'
<1>1. FrameList(lru')
  BY SearchedLruList DEF IInv, EvictFails
<1>2. disk' \in [Pages -> Contents]
  BY TornType DEF EvictFails
<1>3. stranded' \subseteq Frames
  BY VictimReusable DEF EvictFails, IInv, TypeOK
<1> QED BY <1>1, <1>2, <1>3, PoolKept DEF EvictFails

LEMMA ReadFailsStep ==
    ASSUME BPAssumption, IInv, NEW p \in Pages, ReadFails(p)
    PROVE  IInv'
<1> DEFINE f == Victim
           q == frames[f].page
<1>1. /\ f \in Frames /\ frames[f].pins = 0
      /\ \A k \in Handles : held[k].frame # f
      /\ WrittenBack(f) \in [Pages -> Contents]
  BY VictimReusable DEF ReadFails
<1> HIDE DEF f
<1>a. /\ phase = "open"
      /\ disk' = WrittenBack(f)
      /\ frames' = [frames EXCEPT ![f] = EmptyFrame]
      /\ pageTable' = [r \in Pages |-> IF r = q THEN NoFrame ELSE pageTable[r]]
      /\ lru' = SearchedLru
      /\ UNCHANGED <<held, live, phase, todo, failed, stranded, losses>>
  BY DEF ReadFails, f, Unmapped, historyVars
<1>2. FrameList(lru')
  BY <1>a, SearchedLruList DEF IInv
<1>3. /\ frames' \in [Frames -> Frame]
      /\ pageTable' \in [Pages -> Frames \union {NoFrame}]
  BY <1>1, <1>a DEF IInv, TypeOK, Frame, EmptyFrame, Contents
<1>4. TypeOK'
  BY <1>1, <1>a, <1>2, <1>3 DEF IInv, TypeOK, FrameList
<1>5. CachedOnce'
  <2>1. \A r \in Pages : pageTable[r] \in Frames => frames[pageTable[r]].page = r
    BY DEF IInv, TypeOK, CachedOnce, Cached, NoFrame, Frames
  <2>2. \A r \in Cached' : frames'[pageTable'[r]].page = r
    BY <1>1, <1>a, <2>1 DEF IInv, TypeOK, Cached
  <2>3. \A g \in Frames \ FreeFrames' : pageTable'[frames'[g].page] = g
    BY <1>1, <1>a, <2>1 DEF IInv, TypeOK, Frame, CachedOnce, Cached, FreeFrames, NoFrame, Frames, EmptyFrame
  <2>4. \A g \in FreeFrames' : frames'[g].pins = 0 /\ ~frames'[g].dirty
    BY <1>1, <1>a DEF IInv, TypeOK, CachedOnce, FreeFrames, EmptyFrame
  <2> QED BY <2>2, <2>3, <2>4 DEF CachedOnce
<1>6. PinsCounted'
  BY <1>1, <1>a DEF IInv, TypeOK, PinsCounted, Holders, EmptyFrame
<1>7. PointerValid'
  BY <1>1, <1>a DEF IInv, TypeOK, PointerValid
<1>8. FlushScope'
  BY <1>a DEF IInv, FlushScope
<1> QED BY <1>4, <1>5, <1>6, <1>7, <1>8 DEF IInv

LEMMA WriteStep ==
    ASSUME BPAssumption, IInv, NEW h \in Handles, NEW v \in Values, Write(h, v)
    PROVE  IInv'
<1> DEFINE f == held[h].frame
<1>1. f \in Frames /\ frames[f] \in Frame /\ held[h] \in Handle
  BY DEF IInv, TypeOK, PointerValid, Write
<1>2. [frames[f] EXCEPT !.data = v] \in Frame /\ [held[h] EXCEPT !.wrote = TRUE] \in Handle
  BY <1>1 DEF Frame, Handle, Contents
<1>3. frames' \in [Frames -> Frame] /\ held' \in [Handles -> Handle]
  BY <1>1, <1>2 DEF Write, IInv, TypeOK
<1>4. TypeOK'
  BY <1>3 DEF Write, IInv, TypeOK, historyVars
<1>5. CachedOnce'
  BY <1>1 DEF Write, IInv, TypeOK, CachedOnce, Cached, FreeFrames
<1>6. PinsCounted'
  <2>1. \A k \in Handles : held'[k].frame = held[k].frame
    BY <1>1 DEF Write, IInv, TypeOK, Handle
  <2>2. \A g \in Frames : Holders(g)' = Holders(g)
    BY <2>1 DEF Holders
  <2>3. \A g \in Frames : frames'[g].pins = frames[g].pins
    BY <1>1 DEF Write, IInv, TypeOK, Frame
  <2> QED BY <2>2, <2>3 DEF IInv, PinsCounted
<1>7. PointerValid'
  <2>1. /\ \A k \in Handles : held'[k].frame = held[k].frame /\ held'[k].page = held[k].page
        /\ \A k \in Handles : held'[k] # NotHeld => held[k] # NotHeld
    BY <1>1 DEF Write, IInv, TypeOK, Handle
  <2>2. \A g \in Frames : frames'[g].page = frames[g].page
    BY <1>1 DEF Write, IInv, TypeOK, Frame
  <2> QED BY <2>1, <2>2 DEF IInv, PointerValid
<1>8. FlushScope'
  BY DEF Write, IInv, FlushScope, Cached
<1> QED BY <1>4, <1>5, <1>6, <1>7, <1>8 DEF IInv

LEMMA UnpinStep ==
    ASSUME BPAssumption, IInv, NEW h \in Handles, Unpin(h)
    PROVE  IInv'
<1> DEFINE p == held[h].page
<1>0. PICK f \in Frames : f = held[h].frame
  BY DEF IInv, PointerValid, Unpin
<1>17. PICK pins : pins = frames[f].pins - 1
  OBVIOUS
<1>1. f \in Frames /\ frames[f].page = p /\ frames[f] \in Frame /\ held[h] \in Handle
  BY <1>0 DEF IInv, TypeOK, PointerValid, Unpin
<1>2. held[h].frame = f /\ pins = frames[f].pins - 1
  BY <1>0, <1>17, SMTT(40)
<1>3. held' = [held EXCEPT ![h] = NotHeld]
  BY DEF Unpin
<1>4. p # NoPage /\ pageTable[p] = f
  <2>1. Cardinality(Holders(f)) > 0
    BY <1>1, <1>2, <1>3, ReleaseCounts DEF IInv
  <2>2. frames[f].pins > 0
    BY <1>1, <2>1 DEF IInv, PinsCounted
  <2>3. f \notin FreeFrames
    BY <1>1, <2>2 DEF IInv, CachedOnce
  <2> QED BY <1>1, <2>3 DEF IInv, CachedOnce, FreeFrames
<1>5. /\ Cardinality(Holders(f)') = frames[f].pins - 1
      /\ frames[f].pins > 0 /\ frames[f].pins \in Nat
      /\ \A g \in Frames \ {f} : Holders(g)' = Holders(g)
  <2>1. frames[f].pins = Cardinality(Holders(f)) /\ frames[f].pins \in Nat
    BY <1>1 DEF IInv, PinsCounted, Frame
  <2>2. TypeOK
    BY DEF IInv
  <2> QED BY <1>1, <1>2, <1>3, <2>1, <2>2, ReleaseCounts
<1>6. /\ phase = "open"
      /\ frames' = [frames EXCEPT ![f].pins = pins, ![f].dirty = DirtyAfter(f, held[h].wrote)]
      /\ lru' = Relisted(f, pins)
      /\ UNCHANGED <<disk, pageTable, live, phase, todo, failed, stranded, losses>>
  BY <1>2, <1>4 DEF Unpin, historyVars
<1>7. [frames[f] EXCEPT !.pins = pins, !.dirty = DirtyAfter(f, held[h].wrote)] \in Frame
  <2>1. pins \in Nat /\ DirtyAfter(f, held[h].wrote) \in BOOLEAN
    BY <1>1, <1>2, <1>5 DEF Frame, Handle, DirtyAfter
  <2> QED BY <1>1, <2>1 DEF Frame
<1>8. frames' \in [Frames -> Frame] /\ held' \in [Handles -> Handle]
  BY <1>1, <1>3, <1>6, <1>7 DEF IInv, TypeOK, Handle, NotHeld
<1>9. FrameList(lru')
  BY <1>1, <1>6, RelistedList DEF IInv, TypeOK, FrameList
<1>10. TypeOK'
  BY <1>6, <1>8, <1>9 DEF IInv, TypeOK, FrameList
<1>11. /\ \A g \in Frames : frames'[g].page = frames[g].page
       /\ frames'[f].pins = pins
       /\ \A g \in Frames \ {f} : frames'[g] = frames[g]
  BY <1>1, <1>6 DEF IInv, TypeOK, Frame
<1>16. \A g \in Frames \ {f} : frames'[g].dirty = frames[g].dirty /\ frames'[g].pins = frames[g].pins
  BY <1>11
<1>12. CachedOnce'
  <2>1. f \notin FreeFrames
    BY <1>1, <1>4 DEF FreeFrames
  <2>2. Cached' = Cached /\ FreeFrames' = FreeFrames
    BY <1>6, <1>11 DEF Cached, FreeFrames
  <2>3. \A r \in Cached : frames'[pageTable'[r]].page = r
    BY <1>6, <1>11 DEF IInv, TypeOK, CachedOnce, Cached
  <2>4. \A g \in Frames \ FreeFrames : pageTable'[frames'[g].page] = g
    BY <1>6, <1>11 DEF IInv, CachedOnce
  <2>5. \A g \in FreeFrames : frames'[g].pins = 0 /\ ~frames'[g].dirty
    BY <1>16, <2>1 DEF IInv, CachedOnce, FreeFrames
  <2> QED BY <2>2, <2>3, <2>4, <2>5 DEF CachedOnce
<1>13. PinsCounted'
  <2>1. frames'[f].pins = Cardinality(Holders(f)')
    BY <1>2, <1>5, <1>11
  <2>2. \A g \in Frames \ {f} : frames'[g].pins = Cardinality(Holders(g)')
    BY <1>5, <1>16 DEF IInv, PinsCounted
  <2> QED BY <2>1, <2>2 DEF PinsCounted
<1>14. PointerValid'
  BY <1>3, <1>11 DEF IInv, TypeOK, PointerValid
<1>15. FlushScope'
  BY <1>6 DEF IInv, FlushScope, Cached
<1> QED BY <1>10, <1>12, <1>13, <1>14, <1>15, SMTT(40) DEF IInv
LEMMA FreePageStep ==
    ASSUME BPAssumption, IInv, NEW p \in Pages, FreePage(p)
    PROVE  IInv'
<1>1. CASE ~MayDelete(p)
  <2>1. FrameList(lru') /\ live' \subseteq Pages
    BY <1>1 DEF FreePage, poolVars, IInv, TypeOK, FrameList
  <2>2. UNCHANGED <<disk, frames, pageTable, held, phase, todo, failed, stranded, losses>>
    BY <1>1 DEF FreePage, poolVars
  <2>3. TypeOK'
    BY <2>1, <2>2 DEF IInv, TypeOK, FrameList
  <2>4. CachedOnce'
    BY <2>2 DEF IInv, CachedOnce, Cached, FreeFrames
  <2>5. PinsCounted' /\ PointerValid' /\ FlushScope'
    BY <2>2 DEF IInv, PinsCounted, Holders, PointerValid, FlushScope, Cached
  <2> QED BY <2>3, <2>4, <2>5 DEF IInv
<1>2. CASE MayDelete(p)
  <2>0. PICK f \in Frames : f = pageTable[p]
    BY <1>2 DEF MayDelete, Cached, IInv, TypeOK
  <2>1. /\ frames[f].page = p /\ frames[f].pins = 0
        /\ \A k \in Handles : held[k].frame # f
    BY <1>2, <2>0, UnpinnedUnheld DEF MayDelete, IInv, CachedOnce
  <2>2. /\ phase = "open"
        /\ frames' = [frames EXCEPT ![f] = EmptyFrame]
        /\ pageTable' = [pageTable EXCEPT ![p] = NoFrame]
        /\ lru' = Without(lru, f)
        /\ live' = live \ {p}
        /\ stranded' = stranded \ {f}
        /\ UNCHANGED <<disk, held, phase, todo, failed, losses>>
    BY <1>2, <2>0 DEF FreePage
  <2>3. FrameList(lru')
    BY <2>2, WithoutList DEF IInv, TypeOK, FrameList
  <2>4. frames' \in [Frames -> Frame]
    BY <2>2 DEF IInv, TypeOK, Frame, EmptyFrame, Contents
  <2>5. TypeOK'
    BY <2>2, <2>3, <2>4 DEF IInv, TypeOK, FrameList
  <2>6. CachedOnce'
    <3>1. \A r \in Pages : pageTable[r] \in Frames => frames[pageTable[r]].page = r
      BY DEF IInv, TypeOK, CachedOnce, Cached, NoFrame, Frames
    <3>2. \A r \in Cached' : frames'[pageTable'[r]].page = r
      BY <2>1, <2>2, <3>1 DEF IInv, TypeOK, Cached
    <3>3. \A g \in Frames \ FreeFrames' : pageTable'[frames'[g].page] = g
      BY <2>0, <2>1, <2>2 DEF IInv, TypeOK, CachedOnce, FreeFrames, EmptyFrame
    <3>4. \A g \in FreeFrames' : frames'[g].pins = 0 /\ ~frames'[g].dirty
      BY <2>2 DEF IInv, TypeOK, CachedOnce, FreeFrames, EmptyFrame
    <3> QED BY <3>2, <3>3, <3>4 DEF CachedOnce
  <2>7. PinsCounted'
    BY <2>1, <2>2 DEF IInv, TypeOK, PinsCounted, Holders, EmptyFrame
  <2>8. PointerValid'
    BY <2>1, <2>2 DEF IInv, TypeOK, PointerValid
  <2>9. FlushScope'
    BY <2>2 DEF IInv, FlushScope
  <2> QED BY <2>5, <2>6, <2>7, <2>8, <2>9 DEF IInv
<1> QED BY <1>1, <1>2

\* Writing a page of the pool back, or failing to.
LEMMA FlushFrameStep ==
    ASSUME BPAssumption, IInv, NEW p \in Cached, FlushFrame(p), todo' \subseteq todo,
           UNCHANGED <<pageTable, lru, held, live, phase, stranded, losses>>
    PROVE  IInv'
<1>0. PICK f \in Frames : f = pageTable[p]
  BY DEF Cached, IInv, TypeOK
<1>1. /\ disk' \in [Pages -> Contents]
      /\ frames' = frames \/ frames' = [frames EXCEPT ![f].dirty = FALSE]
      /\ failed' \subseteq Pages
  BY <1>0, TornType DEF FlushFrame, WrittenBack, IInv, TypeOK, Frame, Cached
<1>2. frames' \in [Frames -> Frame]
  <2>0. frames[f] \in Frame
    BY DEF IInv, TypeOK
  <2>1. [frames[f] EXCEPT !.dirty = FALSE] \in Frame
    BY <2>0 DEF Frame
  <2> QED BY <1>1, <2>1 DEF IInv, TypeOK
<1>3. \A g \in Frames : /\ frames'[g].page = frames[g].page
                        /\ frames'[g].pins = frames[g].pins
                        /\ frames'[g].dirty => frames[g].dirty
  <2>1. CASE frames' = frames
    BY <2>1
  <2>2. CASE frames' = [frames EXCEPT ![f].dirty = FALSE]
    <3>1. \A g \in Frames \ {f} : frames'[g] = frames[g]
      BY <2>2 DEF IInv, TypeOK
    <3>2. frames[f] \in Frame /\ frames'[f] = [frames[f] EXCEPT !.dirty = FALSE]
      BY <2>2 DEF IInv, TypeOK
    <3>3. /\ frames'[f].page = frames[f].page
          /\ frames'[f].pins = frames[f].pins
          /\ ~frames'[f].dirty
      BY <3>2 DEF Frame
    <3> QED BY <3>1, <3>3
  <2> QED BY <1>1, <2>1, <2>2
<1>4. TypeOK'
  BY <1>1, <1>2 DEF IInv, TypeOK
<1>5. CachedOnce'
  <2>1. Cached' = Cached /\ FreeFrames' = FreeFrames
    BY <1>3 DEF Cached, FreeFrames
  <2>2. \A r \in Cached : pageTable[r] \in Frames
    BY DEF IInv, TypeOK, Cached
  <2> QED BY <1>3, <2>1, <2>2 DEF IInv, CachedOnce, FreeFrames
<1>6. PinsCounted'
  <2>1. \A g \in Frames : Holders(g)' = Holders(g)
    BY DEF Holders
  <2> QED BY <1>3, <2>1 DEF IInv, PinsCounted
<1>7. PointerValid'
  BY <1>3 DEF IInv, PointerValid
<1>8. phase = "destroy" /\ failed' # {} => losses < MaxLosses
  BY DEF FlushFrame, IInv, FlushScope
<1>9. FlushScope'
  BY <1>8 DEF IInv, FlushScope, Cached
<1> QED BY <1>4, <1>5, <1>6, <1>7, <1>9 DEF IInv

LEMMA FlushNextStep ==
    ASSUME BPAssumption, IInv, NEW p \in Pages, FlushNext(p)
    PROVE  IInv'
<1>1. p \in Cached
  BY DEF FlushNext, IInv, FlushScope
<1> QED BY <1>1, FlushFrameStep DEF FlushNext

\* The steps of flush_all that only move it along.
LEMMA FlushControlStep ==
    ASSUME BPAssumption, IInv,
           \/ \E next \in {"flush", "close"} : StartFlush(next)
           \/ FlushDone
           \/ StartDestruct
    PROVE  IInv'
<1> USE DEF StartFlush, FlushDone, StartDestruct, poolVars, historyVars
<1>1. /\ UNCHANGED <<disk, frames, pageTable, lru, held, live, stranded, losses>>
      /\ failed' \subseteq Pages
      /\ todo' \subseteq Cached
      /\ phase' \in {"open", "flush", "close", "destroy"}
      /\ phase' = "open" => todo' = {}
      /\ phase' \in {"close", "destroy"} => \A h \in Handles : held[h] = NotHeld
  BY DEF IInv, TypeOK, FlushScope, Destruct
<1>2. TypeOK'
  BY <1>1 DEF IInv, TypeOK, Cached
<1>3. CachedOnce'
  BY <1>1 DEF IInv, CachedOnce, Cached, FreeFrames
<1>4. PinsCounted' /\ PointerValid' /\ FlushScope'
  BY <1>1 DEF IInv, PinsCounted, Holders, PointerValid, FlushScope, Cached
<1> QED BY <1>2, <1>3, <1>4 DEF IInv

\* A new pool nobody points into.
LEMMA NewPoolStep ==
    ASSUME BPAssumption, IInv, NewPool, disk' \in [Pages -> Contents],
           held' = [h \in Handles |-> NotHeld], live' = live,
           phase' = "open", todo' = {}, losses' \in 0..MaxLosses
    PROVE  IInv'
<1> USE DEF NewPool, NoFrames, NoMapping, AllListed, EmptyFrame, NotHeld
<1>1. NoFrame \notin Frames
  BY DEF NoFrame, Frames
<1>2. lru' \in Seq(Frames) /\ Len(lru') = PoolSize
  BY DEF BPAssumption, Frames
<1>3. TypeOK'
  BY <1>2 DEF BPAssumption, IInv, TypeOK, Contents, Frame, Handle, Frames
<1>4. CachedOnce'
  BY DEF CachedOnce, Cached, FreeFrames
<1>5. \A f \in Frames : Holders(f)' = {}
  BY <1>1 DEF Holders
<1>6. PinsCounted'
  BY <1>5, FS_EmptySet DEF PinsCounted
<1> QED BY <1>3, <1>4, <1>6 DEF IInv, PointerValid, FlushScope, Cached

LEMMA DestroyedStep ==
    ASSUME BPAssumption, IInv, Destroyed
    PROVE  IInv'
<1>1. held' = [h \in Handles |-> NotHeld]
  BY DEF Destroyed, IInv, TypeOK, FlushScope
<1>2. losses' \in 0..MaxLosses
  BY DEF Destroyed, IInv, TypeOK, FlushScope, BPAssumption
<1> QED BY <1>1, <1>2, NewPoolStep DEF Destroyed, IInv, TypeOK

LEMMA CrashStep ==
    ASSUME BPAssumption, IInv, Crash
    PROVE  IInv'
<1>1. disk' \in [Pages -> Contents]
  BY DEF Crash, IInv, TypeOK, Contents, Cached
<1>2. losses' \in 0..MaxLosses
  BY DEF Crash, IInv, TypeOK, BPAssumption
<1> QED BY <1>1, <1>2, NewPoolStep DEF Crash
LEMMA NextStep ==
    ASSUME BPAssumption, IInv, [Next]_vars
    PROVE  IInv'
<1>1. CASE \E h \in Handles, p \in Pages : Fetch(h, p) \/ NewPage(h, p)
  BY <1>1, FetchStep, NewPageStep
<1>2. CASE \E p \in Pages : NoFrameLeft(p) \/ EvictFails(p) \/ ReadFails(p)
  BY <1>2, NoFrameLeftStep, EvictFailsStep, ReadFailsStep
<1>3. CASE \E h \in Handles, v \in Values : Write(h, v)
  BY <1>3, WriteStep
<1>4. CASE \E h \in Handles : Unpin(h)
  BY <1>4, UnpinStep
<1>5. CASE \E p \in Pages : FreePage(p) \/ FlushPage(p) \/ FlushNext(p)
  <2>1. ASSUME NEW p \in Pages, FlushPage(p) PROVE IInv'
    BY <2>1, FlushFrameStep DEF FlushPage
  <2> QED BY <1>5, <2>1, FreePageStep, FlushNextStep
<1>6. CASE (\E next \in {"flush", "close"} : StartFlush(next)) \/ FlushDone \/ StartDestruct
  BY <1>6, FlushControlStep
<1>7. CASE Destroyed
  BY <1>7, DestroyedStep
<1>8. CASE Crash
  BY <1>8, CrashStep
<1>9. CASE UNCHANGED vars
  <2>1. TypeOK' /\ CachedOnce'
    BY <1>9 DEF vars, IInv, TypeOK, CachedOnce, Cached, FreeFrames
  <2>2. PinsCounted' /\ PointerValid' /\ FlushScope'
    BY <1>9 DEF vars, IInv, PinsCounted, Holders, PointerValid, FlushScope, Cached
  <2> QED BY <2>1, <2>2 DEF IInv
<1> QED BY <1>1, <1>2, <1>3, <1>4, <1>5, <1>6, <1>7, <1>8, <1>9 DEF Next

-----------------------------------------------------------------------------
(* Theorems                                                                *)

LEMMA Inductive == Spec => []IInv
<1>1. Init => IInv
  BY BPAssumption, InitInvariant
<1>2. IInv /\ [Next]_vars => IInv'
  BY BPAssumption, NextStep
<1> QED BY <1>1, <1>2, PTL DEF Spec

\* The variables keep their types, and the LRU list never names a frame twice.
THEOREM PoolTypeCorrect == Spec => []TypeOK
<1>1. IInv => TypeOK
  BY DEF IInv
<1> QED BY <1>1, Inductive, PTL

\* A page is in at most one frame and the page table finds it, whatever pages
\* are fetched, evicted, deleted, flushed or lost in a crash.
THEOREM PageCachedOnce == Spec => []CachedOnce
<1>1. IInv => CachedOnce
  BY DEF IInv
<1> QED BY <1>1, Inductive, PTL

\* The pin count of a frame is the number of pointers into it.
THEOREM PinsMatchPointers == Spec => []PinsCounted
<1>1. IInv => PinsCounted
  BY DEF IInv
<1> QED BY <1>1, Inductive, PTL

\* No eviction, deletion or reload takes a frame from under a pointer.
THEOREM PointersStayValid == Spec => []PointerValid
<1>1. IInv => PointerValid
  BY DEF IInv
<1> QED BY <1>1, Inductive, PTL


-----------------------------------------------------------------------------
(* What the pool keeps, and that it is a page store                        *)

\* the destructor's flush_all leaves no dirty page behind it but those it could
\* not write
CloseScope == phase = "destroy" => \A p \in Cached \ (todo \union failed) : ~frames[pageTable[p]].dirty

KeepInv == EvictableUnlessFailed /\ CleanIsOnDisk /\ CloseScope

\* where callers free only pages nobody holds, neither the pool nor a pointer
\* keeps a freed page
LiveScope == /\ Cached \subseteq live
             /\ \A h \in Handles : held[h] # NotHeld => held[h].page \in live

-----------------------------------------------------------------------------
(* The list                                                                *)

Lists(s, f) == \E i \in 1..Len(s) : s[i] = f

LEMMA WithoutKeeps ==
    ASSUME NEW s, FrameList(s), NEW f \in Frames, NEW g \in Frames, g # f, Lists(s, g)
    PROVE  Lists(Without(s, f), g)
<1>1. CASE ~ \E i \in 1..Len(s) : s[i] = f
  BY <1>1 DEF Without
<1>2. CASE \E i \in 1..Len(s) : s[i] = f
  <2> DEFINE n == Len(s)
             k == At(s, f)
             t == [j \in 1..(n - 1) |-> IF j < k THEN s[j] ELSE s[j + 1]]
  <2>1. s \in Seq(Frames) /\ n \in Nat /\ DOMAIN s = 1..n
    BY DEF FrameList
  <2>2. PICK i \in 1..n : s[i] = f
    BY <1>2
  <2>3. \A j \in 1..(i - 1) : s[j] # f
    BY <2>1, <2>2 DEF FrameList
  <2>4. k \in 1..n /\ s[k] = f
    BY <2>2, <2>3 DEF At
  <2>5. Without(s, f) = t
    BY <1>2 DEF Without
  <2>6. PICK m \in 1..n : s[m] = g
    BY DEF Lists
  <2> HIDE DEF k
  <2>7. m # k
    BY <2>4, <2>6
  <2>8. \A j \in 1..(n - 1) : t[j] \in Frames
    BY <2>1
  <2>9. t \in Seq(Frames) /\ Len(t) = n - 1
    BY <2>1, <2>2, <2>8
  <2>10. CASE m < k
    <3>1. m \in 1..(n - 1) /\ t[m] = g
      BY <2>1, <2>4, <2>6, <2>10
    <3> QED BY <2>5, <2>9, <3>1 DEF Lists
  <2>11. CASE m > k
    <3>1. m - 1 \in 1..(n - 1) /\ ~(m - 1 < k) /\ (m - 1) + 1 = m
      BY <2>1, <2>4, <2>6, <2>11
    <3>2. t[m - 1] = g
      BY <2>6, <3>1
    <3> QED BY <2>5, <2>9, <3>1, <3>2 DEF Lists
  <2> QED BY <2>1, <2>4, <2>6, <2>7, <2>10, <2>11
<1> QED BY <1>1, <1>2

\* mark_frame_used lists the frame and drops no other.
LEMMA UsedKeeps ==
    ASSUME NEW s, FrameList(s), NEW f \in Frames, NEW g \in Frames, g = f \/ Lists(s, g)
    PROVE  Lists(Used(s, f), g)
<1> DEFINE t == Without(s, f)
<1>1. FrameList(t)
  BY WithoutList
<1>2. g # f => Lists(t, g)
  BY WithoutKeeps
<1> HIDE DEF t
<1>3. /\ Len(<<f>> \o t) = Len(t) + 1 /\ Len(t) \in Nat
      /\ \A i \in 1..(Len(t) + 1) : (<<f>> \o t)[i] = IF i = 1 THEN f ELSE t[i - 1]
  BY <1>1 DEF FrameList
<1>4. CASE g = f
  <2>1. 1 \in 1..(Len(t) + 1) /\ (<<f>> \o t)[1] = g
    BY <1>3, <1>4
  <2> QED BY <1>3, <2>1 DEF Lists, Used, t
<1>5. CASE g # f
  <2>1. PICK i \in 1..Len(t) : t[i] = g
    BY <1>2, <1>5 DEF Lists
  <2>2. i + 1 \in 1..(Len(t) + 1) /\ (i + 1) - 1 = i /\ i + 1 # 1
    BY <1>3, <2>1
  <2>3. (<<f>> \o t)[i + 1] = g
    BY <1>3, <2>1, <2>2
  <2> QED BY <1>3, <2>2, <2>3 DEF Lists, Used, t
<1> QED BY <1>4, <1>5

\* The search pops pinned frames and the one it returns.
LEMMA SearchKeeps ==
    ASSUME TypeOK, NEW g \in Frames, InLru(g), frames[g].pins = 0, g # Victim
    PROVE  Lists(SearchedLru, g)
<1>1. CASE FreeFrames # {}
  BY <1>1 DEF SearchedLru, InLru, Lists
<1>2. PICK m \in 1..Len(lru) : lru[m] = g
  BY DEF InLru
<1>3. m \in Evictable
  BY <1>2 DEF Evictable
<1>4. CASE FreeFrames = {}
  <2> DEFINE i == CHOOSE k \in Evictable : \A j \in Evictable : j <= k
  <2>0. lru \in Seq(Frames) /\ Len(lru) \in Nat
    BY DEF TypeOK
  <2>1. i \in 1..Len(lru)
    BY <1>3, <2>0, EvictableFound DEF Evictable
  <2>2. m <= i
    <3>1. \E k \in Evictable : \A j \in Evictable : j <= k
      BY <1>3, <2>0, GreatestElement DEF Evictable
    <3> QED BY <1>3, <3>1
  <2>3. SearchedLru = SubSeq(lru, 1, i - 1) /\ Victim = lru[i]
    BY <1>3, <1>4 DEF SearchedLru, Victim
  <2> HIDE DEF i
  <2>4. m \in 1..(i - 1)
    BY <1>2, <2>0, <2>1, <2>2, <2>3
  <2>5. /\ Len(SubSeq(lru, 1, i - 1)) = i - 1
        /\ \A j \in 1..(i - 1) : SubSeq(lru, 1, i - 1)[j] = lru[j]
    BY <2>0, <2>1, PrefixProperties
  <2> QED BY <1>2, <2>3, <2>4, <2>5 DEF Lists
<1> QED BY <1>1, <1>4

\* unpin_page lists a frame nobody pins any more, and drops none.
LEMMA RelistedKeeps ==
    ASSUME FrameList(lru), NEW f \in Frames, NEW g \in Frames, NEW n,
           InLru(g) \/ (g = f /\ n = 0)
    PROVE  Lists(Relisted(f, n), g)
<1>1. CASE n = 0 /\ ~InLru(f)
  <2>1. /\ Len(Append(lru, f)) = Len(lru) + 1 /\ Len(lru) \in Nat
        /\ \A i \in 1..(Len(lru) + 1) :
              Append(lru, f)[i] = IF i = Len(lru) + 1 THEN f ELSE lru[i]
    BY DEF FrameList
  <2>2. CASE g = f
    <3>1. Len(lru) + 1 \in 1..(Len(lru) + 1) /\ Append(lru, f)[Len(lru) + 1] = g
      BY <2>1, <2>2
    <3> QED BY <1>1, <2>1, <3>1 DEF Lists, Relisted
  <2>3. CASE InLru(g)
    <3>1. PICK i \in 1..Len(lru) : lru[i] = g
      BY <2>3 DEF InLru
    <3>2. i \in 1..(Len(lru) + 1) /\ Append(lru, f)[i] = g
      BY <2>1, <3>1
    <3> QED BY <1>1, <2>1, <3>2 DEF Lists, Relisted
  <2> QED BY <2>2, <2>3
<1>2. CASE ~(n = 0 /\ ~InLru(f))
  BY <1>2 DEF Relisted, InLru, Lists
<1> QED BY <1>1, <1>2

-----------------------------------------------------------------------------
(* Pages of the pool and the file                                          *)

Clean(p) == LET f == pageTable[p] IN
            \/ frames[f].dirty
            \/ \E h \in Holders(f) : held[h].wrote
            \/ frames[f].data = disk[p]

LEMMA FrameOfPage ==
    ASSUME BPAssumption, IInv, NEW p \in Cached
    PROVE  /\ p \in Pages /\ p # NoPage
           /\ pageTable[p] \in Frames
           /\ frames[pageTable[p]].page = p
           /\ frames[pageTable[p]] \in Frame
BY DEF IInv, TypeOK, CachedOnce, Cached, BPAssumption

LEMMA PageOfFrame ==
    ASSUME BPAssumption, IInv, NEW f \in Frames, f \notin FreeFrames
    PROVE  frames[f].page \in Cached /\ pageTable[frames[f].page] = f
<1>1. frames[f].page \in Pages
  BY DEF IInv, TypeOK, Frame, FreeFrames
<1>2. pageTable[frames[f].page] = f
  BY DEF IInv, CachedOnce
<1>3. f # NoFrame
  BY DEF Frames, NoFrame
<1> QED BY <1>1, <1>2, <1>3 DEF Cached

LEMMA CleanStays ==
    ASSUME NEW p \in Pages, Clean(p),
           pageTable'[p] = pageTable[p],
           frames[pageTable[p]].dirty => frames'[pageTable[p]].dirty,
           frames'[pageTable[p]].data = frames[pageTable[p]].data,
           disk'[p] = disk[p],
           \A k \in Holders(pageTable[p]) : held[k].wrote => held'[k] = held[k]
    PROVE  Clean(p)'
BY DEF Clean, Holders

\* What the file holds after the victim's page went back to it: for that page
\* what was in the frame, whether or not it had to be written.
LEMMA WrittenBackPages ==
    ASSUME BPAssumption, IInv, CleanIsOnDisk, Victim # NoFrame
    PROVE  \A r \in Pages : WrittenBack(Victim)[r] =
              IF frames[Victim].page = r THEN frames[Victim].data ELSE disk[r]
<1> DEFINE f == Victim
<1>1. f \in Frames /\ frames[f] \in Frame /\ Holders(f) = {}
  BY VictimReusable DEF Holders, IInv, TypeOK
<1>2. disk \in [Pages -> Contents]
  BY DEF IInv, TypeOK
<1> HIDE DEF f
<1>3. CASE f \in FreeFrames
  <2>1. ~frames[f].dirty /\ frames[f].page = NoPage
    BY <1>3 DEF FreeFrames, IInv, CachedOnce
  <2>2. WrittenBack(f) = disk
    BY <2>1 DEF WrittenBack
  <2> QED BY <2>1, <2>2 DEF f, BPAssumption
<1>4. CASE f \notin FreeFrames
  <2>1. frames[f].page \in Cached /\ pageTable[frames[f].page] = f
    BY <1>1, <1>4, PageOfFrame
  <2>2. frames[f].page \in Pages
    BY <2>1 DEF Cached
  <2>3. frames[f].dirty \/ frames[f].data = disk[frames[f].page]
    BY <1>1, <2>1 DEF CleanIsOnDisk
  <2>4. \A r \in Pages : WrittenBack(f)[r] = IF frames[f].page = r THEN frames[f].data ELSE disk[r]
    BY <1>2, <2>2, <2>3 DEF WrittenBack
  <2> QED BY <2>4 DEF f
<1> QED BY <1>3, <1>4

-----------------------------------------------------------------------------
(* Every step keeps KeepInv                                                *)

LEMMA InitKeeps ==
    ASSUME BPAssumption, Init
    PROVE  KeepInv
<1>1. FreeFrames = Frames /\ Cached = {}
  BY DEF Init, NoFrames, NoMapping, EmptyFrame, FreeFrames, Cached
<1> QED BY <1>1 DEF KeepInv, EvictableUnlessFailed, CleanIsOnDisk, CloseScope

LEMMA HitKeeps ==
    ASSUME BPAssumption, IInv, KeepInv, NEW h \in Handles, NEW p \in Pages,
           MayCall(h), Hit(h, p), UNCHANGED phase
    PROVE  KeepInv'
<1> DEFINE f == pageTable[p]
<1>1. f \in Frames /\ frames[f].page = p /\ p # NoPage /\ frames[f] \in Frame
  BY FrameOfPage DEF Hit
<1> HIDE DEF f
<1>a. /\ frames' = [frames EXCEPT ![f].pins = frames[f].pins + 1]
      /\ lru' = Used(lru, f)
      /\ stranded' = stranded \ {f}
      /\ Hold(h, p, f)
      /\ UNCHANGED <<disk, pageTable>>
  BY DEF Hit, f, PinCount
<1>2. /\ \A g \in Frames \ {f} : frames'[g] = frames[g]
      /\ frames'[f].page = frames[f].page /\ frames'[f].pins = frames[f].pins + 1
      /\ frames'[f].dirty = frames[f].dirty /\ frames'[f].data = frames[f].data
  BY <1>1, <1>a DEF IInv, TypeOK, Frame
<1>3. frames'[f].pins # 0
  BY <1>1, <1>2 DEF Frame
<1>4. EvictableUnlessFailed'
  <2> SUFFICES ASSUME NEW g \in Frames, g \notin FreeFrames', g \notin stranded', frames'[g].pins = 0
               PROVE  InLru(g)'
    BY DEF EvictableUnlessFailed
  <2>1. g # f
    BY <1>3
  <2>2. InLru(g)
    BY <1>2, <1>a, <2>1 DEF KeepInv, EvictableUnlessFailed, FreeFrames
  <2>3. FrameList(lru) /\ Lists(lru, g)
    BY <2>2 DEF IInv, TypeOK, FrameList, InLru, Lists
  <2>4. Lists(lru', g)
    BY <1>1, <1>a, <2>3, UsedKeeps
  <2> QED BY <2>4 DEF InLru, Lists
<1>5. CleanIsOnDisk'
  <2> SUFFICES ASSUME NEW r \in Cached' PROVE Clean(r)'
    BY DEF CleanIsOnDisk, Clean
  <2>1. r \in Cached /\ pageTable[r] \in Frames /\ r \in Pages
    BY <1>a, FrameOfPage DEF Cached
  <2>2. Clean(r)
    BY <2>1 DEF KeepInv, CleanIsOnDisk, Clean
  <2>3. \A k \in Holders(pageTable[r]) : held'[k] = held[k]
    BY <1>a, <2>1 DEF MayCall, Hold, Holders, NotHeld, NoFrame, Frames, IInv, TypeOK
  <2>4. /\ frames'[pageTable[r]].data = frames[pageTable[r]].data
        /\ frames'[pageTable[r]].dirty = frames[pageTable[r]].dirty
    BY <1>2, <2>1
  <2> QED BY <1>a, <2>1, <2>2, <2>3, <2>4, CleanStays
<1>6. CloseScope'
  BY DEF CloseScope, MayCall
<1> QED BY <1>4, <1>5, <1>6 DEF KeepInv

LEMMA MissKeeps ==
    ASSUME BPAssumption, IInv, KeepInv, NEW h \in Handles, NEW p \in Pages,
           NEW content, NEW dirty,
           MayCall(h), Miss(h, p, content, dirty), UNCHANGED phase,
           dirty \/ content = disk[p]
    PROVE  KeepInv'
<1> DEFINE f == Victim
           q == frames[f].page
<1>1. f \in Frames /\ \A k \in Handles : held[k].frame # f
  BY VictimReusable DEF Miss
<1>w. \A r \in Pages : WrittenBack(f)[r] = IF q = r THEN frames[f].data ELSE disk[r]
  BY WrittenBackPages DEF Miss, KeepInv
<1>q. q # p
  <2>1. q # NoPage => q \in Cached
    BY <1>1, PageOfFrame DEF FreeFrames
  <2> QED BY <2>1 DEF Miss, BPAssumption
<1> HIDE DEF f
<1>a. /\ p \notin Cached
      /\ disk' = WrittenBack(f)
      /\ frames' = [frames EXCEPT ![f] =
                      [page |-> p, pins |-> 1, dirty |-> dirty, data |-> content]]
      /\ pageTable' = [r \in Pages |-> IF r = p THEN f ELSE IF r = q THEN NoFrame ELSE pageTable[r]]
      /\ lru' = Used(SearchedLru, f)
      /\ stranded' = stranded \ {f}
      /\ Hold(h, p, f)
  BY DEF Miss, f, Unmapped
<1>2. /\ \A g \in Frames \ {f} : frames'[g] = frames[g]
      /\ frames'[f].pins = 1 /\ frames'[f].dirty = dirty /\ frames'[f].data = content
  BY <1>1, <1>a DEF IInv, TypeOK
<1>3. EvictableUnlessFailed'
  <2> SUFFICES ASSUME NEW g \in Frames, g \notin FreeFrames', g \notin stranded', frames'[g].pins = 0
               PROVE  InLru(g)'
    BY DEF EvictableUnlessFailed
  <2>1. g # f
    BY <1>2
  <2>2. InLru(g) /\ frames[g].pins = 0
    BY <1>2, <1>a, <2>1 DEF KeepInv, EvictableUnlessFailed, FreeFrames
  <2>3. Lists(SearchedLru, g) /\ FrameList(SearchedLru)
    BY <2>1, <2>2, SearchKeeps, SearchedLruList DEF f, IInv
  <2>4. Lists(lru', g)
    BY <1>1, <1>a, <2>3, UsedKeeps
  <2> QED BY <2>4 DEF InLru, Lists
<1>4. CleanIsOnDisk'
  <2> SUFFICES ASSUME NEW r \in Cached' PROVE Clean(r)'
    BY DEF CleanIsOnDisk, Clean
  <2>0. r \in Pages
    BY DEF Cached
  <2>1. CASE r = p
    BY <1>a, <1>2, <1>w, <1>q, <2>0, <2>1 DEF Clean
  <2>2. CASE r # p
    <3>1. r # q /\ pageTable'[r] = pageTable[r] /\ r \in Cached
      BY <1>a, <2>0, <2>2 DEF Cached
    <3>2. pageTable[r] \in Frames /\ pageTable[r] # f
      BY <3>1, FrameOfPage
    <3>3. Clean(r)
      BY <3>1 DEF KeepInv, CleanIsOnDisk, Clean
    <3>4. \A k \in Holders(pageTable[r]) : held'[k] = held[k]
      BY <1>a, <3>2 DEF MayCall, Hold, Holders, NotHeld, NoFrame, Frames, IInv, TypeOK
    <3> QED BY <1>a, <1>2, <1>w, <2>0, <3>1, <3>2, <3>3, <3>4, CleanStays
  <2> QED BY <2>1, <2>2
<1>5. CloseScope'
  BY DEF CloseScope, MayCall
<1> QED BY <1>3, <1>4, <1>5 DEF KeepInv

LEMMA FetchKeeps ==
    ASSUME BPAssumption, IInv, KeepInv, NEW h \in Handles, NEW p \in Pages, Fetch(h, p)
    PROVE  KeepInv'
BY HitKeeps, MissKeeps DEF Fetch

LEMMA NewPageKeeps ==
    ASSUME BPAssumption, IInv, KeepInv, NEW h \in Handles, NEW p \in Pages, NewPage(h, p)
    PROVE  KeepInv'
BY HitKeeps, MissKeeps DEF NewPage, NewDirty

\* Only the file and the list change, and the file only where a frame is dirty.
LEMMA ListKeeps ==
    ASSUME BPAssumption, IInv, KeepInv, phase = "open", UNCHANGED <<frames, pageTable, held, phase>>,
           lru' = SearchedLru, stranded \subseteq stranded', Victim \in stranded' \/ Victim = NoFrame,
           \A p \in Cached : ~frames[pageTable[p]].dirty => disk'[p] = disk[p]
    PROVE  KeepInv'
<1>1. EvictableUnlessFailed'
  <2> SUFFICES ASSUME NEW g \in Frames, g \notin FreeFrames, g \notin stranded', frames[g].pins = 0
               PROVE  InLru(g)'
    BY DEF EvictableUnlessFailed, FreeFrames
  <2>1. InLru(g) /\ g # Victim
    BY DEF KeepInv, EvictableUnlessFailed, NoFrame, Frames
  <2>2. Lists(SearchedLru, g)
    BY <2>1, SearchKeeps DEF IInv
  <2> QED BY <2>2 DEF InLru, Lists
<1>2. CleanIsOnDisk'
  BY DEF KeepInv, CleanIsOnDisk, Cached, Holders
<1>3. CloseScope'
  BY DEF CloseScope
<1> QED BY <1>1, <1>2, <1>3 DEF KeepInv

LEMMA NoFrameLeftKeeps ==
    ASSUME BPAssumption, IInv, KeepInv, NEW p \in Pages, NoFrameLeft(p)
    PROVE  KeepInv'
BY ListKeeps DEF NoFrameLeft, historyVars

LEMMA EvictFailsKeeps ==
    ASSUME BPAssumption, IInv, KeepInv, NEW p \in Pages, EvictFails(p)
    PROVE  KeepInv'
<1> DEFINE f == Victim
<1>1. f \in Frames /\ f \notin FreeFrames
  BY VictimReusable DEF EvictFails, IInv, CachedOnce
<1>2. pageTable[frames[f].page] = f
  BY <1>1, PageOfFrame
<1>3. \A r \in Cached : ~frames[pageTable[r]].dirty => disk'[r] = disk[r]
  BY <1>2 DEF EvictFails, WriteFails, IInv, TypeOK, Cached
<1> QED BY <1>3, ListKeeps DEF EvictFails

LEMMA ReadFailsKeeps ==
    ASSUME BPAssumption, IInv, KeepInv, NEW p \in Pages, ReadFails(p)
    PROVE  KeepInv'
<1> DEFINE f == Victim
           q == frames[f].page
<1>1. f \in Frames
  BY VictimReusable DEF ReadFails
<1>w. \A r \in Pages : WrittenBack(f)[r] = IF q = r THEN frames[f].data ELSE disk[r]
  BY WrittenBackPages DEF ReadFails, KeepInv
<1> HIDE DEF f
<1>a. /\ phase = "open"
      /\ disk' = WrittenBack(f)
      /\ frames' = [frames EXCEPT ![f] = EmptyFrame]
      /\ pageTable' = [r \in Pages |-> IF r = q THEN NoFrame ELSE pageTable[r]]
      /\ lru' = SearchedLru
      /\ UNCHANGED <<held, phase, stranded>>
  BY DEF ReadFails, f, Unmapped, historyVars
<1>2. /\ \A g \in Frames \ {f} : frames'[g] = frames[g]
      /\ frames'[f].page = NoPage
  BY <1>1, <1>a DEF IInv, TypeOK, EmptyFrame
<1>3. EvictableUnlessFailed'
  <2> SUFFICES ASSUME NEW g \in Frames, g \notin FreeFrames', g \notin stranded', frames'[g].pins = 0
               PROVE  InLru(g)'
    BY DEF EvictableUnlessFailed
  <2>1. g # f
    BY <1>2 DEF FreeFrames
  <2>2. InLru(g) /\ frames[g].pins = 0
    BY <1>2, <1>a, <2>1 DEF KeepInv, EvictableUnlessFailed, FreeFrames
  <2>3. Lists(SearchedLru, g)
    BY <2>1, <2>2, SearchKeeps DEF f, IInv
  <2> QED BY <1>a, <2>3 DEF InLru, Lists
<1>4. CleanIsOnDisk'
  <2> SUFFICES ASSUME NEW r \in Cached' PROVE Clean(r)'
    BY DEF CleanIsOnDisk, Clean
  <2>1. r \in Pages /\ r # q /\ pageTable'[r] = pageTable[r] /\ r \in Cached
    BY <1>a DEF Cached
  <2>2. pageTable[r] \in Frames /\ pageTable[r] # f
    BY <2>1, FrameOfPage
  <2>3. Clean(r)
    BY <2>1 DEF KeepInv, CleanIsOnDisk, Clean
  <2> QED BY <1>a, <1>2, <1>w, <2>1, <2>2, <2>3, CleanStays
<1>5. CloseScope'
  BY <1>a DEF CloseScope
<1> QED BY <1>3, <1>4, <1>5 DEF KeepInv

LEMMA WriteKeeps ==
    ASSUME BPAssumption, IInv, KeepInv, NEW h \in Handles, NEW v \in Values, Write(h, v)
    PROVE  KeepInv'
<1> DEFINE f == held[h].frame
<1>1. f \in Frames /\ frames[f] \in Frame /\ held[h] \in Handle
  BY DEF IInv, TypeOK, PointerValid, Write
<1> HIDE DEF f
<1>a. /\ frames' = [frames EXCEPT ![f].data = v]
      /\ held' = [held EXCEPT ![h].wrote = TRUE]
      /\ UNCHANGED <<disk, pageTable, lru, phase, stranded>>
  BY DEF Write, historyVars, f
<1>2. \A g \in Frames : frames'[g].page = frames[g].page /\ frames'[g].pins = frames[g].pins
                          /\ frames'[g].dirty = frames[g].dirty
  BY <1>1, <1>a DEF IInv, TypeOK, Frame
<1>3. /\ \A g \in Frames \ {f} : frames'[g] = frames[g]
      /\ \A k \in Handles \ {h} : held'[k] = held[k]
      /\ held'[h].frame = f /\ held'[h].wrote
  BY <1>1, <1>a DEF IInv, TypeOK, f, Handle
<1>4. EvictableUnlessFailed'
  BY <1>a, <1>2 DEF KeepInv, EvictableUnlessFailed, FreeFrames, InLru
<1>5. CleanIsOnDisk'
  <2> SUFFICES ASSUME NEW r \in Cached' PROVE Clean(r)'
    BY DEF CleanIsOnDisk, Clean
  <2>1. r \in Pages /\ r \in Cached /\ pageTable'[r] = pageTable[r] /\ pageTable[r] \in Frames
    BY <1>a, FrameOfPage DEF Cached
  <2>2. CASE pageTable[r] = f
    <3>1. h \in Holders(pageTable[r])'
      BY <1>3, <1>a, <2>2 DEF Holders
    <3> QED BY <1>3, <3>1 DEF Clean
  <2>3. CASE pageTable[r] # f
    <3>1. Clean(r)
      BY <2>1 DEF KeepInv, CleanIsOnDisk, Clean
    <3>2. h \notin Holders(pageTable[r])
      BY <2>3 DEF Holders, f
    <3>3. \A k \in Holders(pageTable[r]) : held'[k] = held[k]
      BY <1>3, <3>2 DEF Holders
    <3> QED BY <1>a, <1>3, <2>1, <2>3, <3>1, <3>3, CleanStays
  <2> QED BY <2>2, <2>3
<1>6. CloseScope'
  BY <1>a DEF CloseScope, Write
<1> QED BY <1>4, <1>5, <1>6 DEF KeepInv

\* The frame unpin_page looks up is the one the pointer leads to.
LEMMA UnpinFacts ==
    ASSUME BPAssumption, IInv, NEW h \in Handles, Unpin(h)
    PROVE  /\ held[h].page \in Cached
           /\ pageTable[held[h].page] = held[h].frame
           /\ held[h].frame \in Frames
<1> DEFINE f == held[h].frame
<1>1. f \in Frames /\ frames[f].page = held[h].page
  BY SMTT(40) DEF IInv, PointerValid, Unpin
<1>2. Cardinality(Holders(f)) > 0
  BY <1>1, ReleaseCounts DEF IInv, Unpin
<1>3. f \notin FreeFrames
  BY <1>1, <1>2 DEF IInv, PinsCounted, CachedOnce
<1> QED BY <1>1, <1>3, PageOfFrame, SMTT(40)

LEMMA UnpinKeeps ==
    ASSUME BPAssumption, IInv, KeepInv, NEW h \in Handles, Unpin(h)
    PROVE  KeepInv'
<1> DEFINE f == held[h].frame
           pins == frames[f].pins - 1
           dirt == DirtyAfter(f, held[h].wrote)
<1>1. f \in Frames /\ frames[f] \in Frame /\ pageTable[held[h].page] = f
  BY UnpinFacts DEF IInv, TypeOK
<1>a. /\ phase = "open"
      /\ frames' = [frames EXCEPT ![f].pins = pins, ![f].dirty = dirt]
      /\ lru' = Relisted(f, pins)
      /\ held' = [held EXCEPT ![h] = NotHeld]
      /\ UNCHANGED <<disk, pageTable, phase, stranded>>
  BY <1>1 DEF Unpin, historyVars
<1>d. dirt = (frames[f].dirty \/ held[h].wrote)
  BY DEF DirtyAfter
<1> HIDE DEF f, dirt
<1>2. /\ \A g \in Frames \ {f} : frames'[g] = frames[g]
      /\ frames'[f].page = frames[f].page /\ frames'[f].pins = pins
      /\ frames'[f].dirty = dirt /\ frames'[f].data = frames[f].data
      /\ \A k \in Handles \ {h} : held'[k] = held[k]
  BY <1>1, <1>a DEF IInv, TypeOK, Frame
<1>3. EvictableUnlessFailed'
  <2> SUFFICES ASSUME NEW g \in Frames, g \notin FreeFrames', g \notin stranded', frames'[g].pins = 0
               PROVE  InLru(g)'
    BY DEF EvictableUnlessFailed
  <2>1. InLru(g) \/ (g = f /\ pins = 0)
    BY <1>2, <1>a DEF KeepInv, EvictableUnlessFailed, FreeFrames
  <2>2. FrameList(lru)
    BY DEF IInv, TypeOK, FrameList
  <2>3. Lists(lru', g)
    BY <1>1, <1>a, <2>1, <2>2, RelistedKeeps
  <2> QED BY <2>3 DEF InLru, Lists
<1>4. CleanIsOnDisk'
  <2> SUFFICES ASSUME NEW r \in Cached' PROVE Clean(r)'
    BY DEF CleanIsOnDisk, Clean
  <2>1. r \in Pages /\ r \in Cached /\ pageTable'[r] = pageTable[r] /\ pageTable[r] \in Frames
    BY <1>a, FrameOfPage DEF Cached
  <2>2. Clean(r)
    BY <2>1 DEF KeepInv, CleanIsOnDisk, Clean
  <2>3. CASE pageTable[r] = f /\ held[h].wrote
    BY <1>2, <1>a, <1>d, <2>3 DEF Clean
  <2>4. CASE pageTable[r] # f \/ ~held[h].wrote
    <3>1. \A k \in Holders(pageTable[r]) : held[k].wrote => held'[k] = held[k]
      BY <1>2, <2>4 DEF Holders, f
    <3>2. /\ frames[pageTable[r]].dirty => frames'[pageTable[r]].dirty
          /\ frames'[pageTable[r]].data = frames[pageTable[r]].data
      BY <1>2, <1>d, <2>1
    <3> QED BY <1>a, <2>1, <2>2, <3>1, <3>2, CleanStays
  <2> QED BY <2>3, <2>4
<1>5. CloseScope'
  BY <1>a DEF CloseScope
<1> QED BY <1>3, <1>4, <1>5 DEF KeepInv

\* A page that is freed and dropped leaves its frame, and no other, empty.
LEMMA DropFacts ==
    ASSUME BPAssumption, IInv, NEW p \in Pages, FreePage(p), MayDelete(p), NEW f, f = pageTable[p]
    PROVE  /\ f \in Frames /\ frames[f].page = p /\ phase = "open"
           /\ \A g \in Frames \ {f} : frames'[g] = frames[g]
           /\ frames'[f] = EmptyFrame
           /\ pageTable' = [pageTable EXCEPT ![p] = NoFrame]
           /\ lru' = Without(lru, f)
           /\ stranded' = stranded \ {f}
           /\ live' = live \ {p}
           /\ UNCHANGED <<disk, held, phase, todo, failed, losses>>
<1>1. f \in Frames /\ frames[f].page = p
  BY FrameOfPage DEF MayDelete
<1>2. frames' = [frames EXCEPT ![f] = EmptyFrame]
  BY DEF FreePage
<1>3. \A g \in Frames \ {f} : frames'[g] = frames[g]
  BY <1>1, <1>2 DEF IInv, TypeOK
<1>4. frames'[f] = EmptyFrame
  BY <1>1, <1>2 DEF IInv, TypeOK
<1> QED BY <1>1, <1>3, <1>4 DEF FreePage

LEMMA FreePageKeeps ==
    ASSUME BPAssumption, IInv, KeepInv, NEW p \in Pages, FreePage(p)
    PROVE  KeepInv'
<1>1. CASE ~MayDelete(p)
  <2>1. UNCHANGED <<disk, frames, pageTable, lru, held, phase, stranded>> /\ phase = "open"
    BY <1>1 DEF FreePage, poolVars
  <2> QED BY <2>1 DEF KeepInv, EvictableUnlessFailed, FreeFrames, InLru, CleanIsOnDisk, Cached,
                      Holders, CloseScope
<1>2. CASE MayDelete(p)
  <2> DEFINE f == pageTable[p]
  <2>0. f = pageTable[p]
    OBVIOUS
  <2> HIDE DEF f
  <2>1. /\ f \in Frames /\ frames[f].page = p /\ phase = "open"
        /\ \A g \in Frames \ {f} : frames'[g] = frames[g]
        /\ frames'[f] = EmptyFrame
        /\ pageTable' = [pageTable EXCEPT ![p] = NoFrame]
        /\ lru' = Without(lru, f)
        /\ stranded' = stranded \ {f}
        /\ UNCHANGED <<disk, held, phase>>
    BY <1>2, <2>0, DropFacts
  <2>2. EvictableUnlessFailed'
    <3> SUFFICES ASSUME NEW g \in Frames, g \notin FreeFrames', g \notin stranded', frames'[g].pins = 0
                 PROVE  InLru(g)'
      BY DEF EvictableUnlessFailed
    <3>1. g # f
      BY <2>1 DEF FreeFrames, EmptyFrame
    <3>2. InLru(g)
      BY <2>1, <3>1 DEF KeepInv, EvictableUnlessFailed, FreeFrames
    <3>3. FrameList(lru) /\ Lists(lru, g)
      BY <3>2 DEF IInv, TypeOK, FrameList, InLru, Lists
    <3>4. Lists(lru', g)
      BY <2>1, <3>1, <3>3, WithoutKeeps
    <3> QED BY <3>4 DEF InLru, Lists
  <2>3. CleanIsOnDisk'
    <3> SUFFICES ASSUME NEW r \in Cached' PROVE Clean(r)'
      BY DEF CleanIsOnDisk, Clean
    <3>1. r \in Pages /\ r # p /\ pageTable'[r] = pageTable[r] /\ r \in Cached
      BY <2>1 DEF Cached, IInv, TypeOK
    <3>2. pageTable[r] \in Frames /\ pageTable[r] # f
      BY <2>1, <3>1, FrameOfPage
    <3>3. Clean(r)
      BY <3>1 DEF KeepInv, CleanIsOnDisk, Clean
    <3> QED BY <2>1, <3>1, <3>2, <3>3, CleanStays
  <2>4. CloseScope'
    BY <2>1 DEF CloseScope
  <2> QED BY <2>2, <2>3, <2>4 DEF KeepInv
<1> QED BY <1>1, <1>2

\* What writing the page p back, or failing to, does to its frame.
LEMMA FlushFacts ==
    ASSUME BPAssumption, IInv, NEW p \in Cached, FlushFrame(p), NEW f, f = pageTable[p]
    PROVE  /\ f \in Frames /\ frames[f].page = p /\ frames[f] \in Frame /\ p \in Pages
           /\ \A g \in Frames : frames'[g].page = frames[g].page /\ frames'[g].pins = frames[g].pins
           /\ \A g \in Frames : frames'[g].data = frames[g].data
           /\ \A g \in Frames \ {f} : frames'[g] = frames[g]
           /\ \A r \in Pages \ {p} : disk'[r] = disk[r]
           /\ \/ /\ ~frames'[f].dirty /\ failed' = failed
                 /\ disk'[p] = IF frames[f].dirty THEN frames[f].data ELSE disk[p]
              \/ /\ frames[f].dirty /\ frames'[f].dirty
                 /\ disk'[p] \in {disk[p], Torn}
                 /\ failed' = IF phase = "open" THEN failed ELSE failed \union {p}
<1>1. f \in Frames /\ frames[f].page = p /\ frames[f] \in Frame /\ p \in Pages
  BY FrameOfPage
<1>2. CASE /\ disk' = WrittenBack(f)
           /\ frames' = [frames EXCEPT ![f].dirty = FALSE]
           /\ UNCHANGED failed
  <2>1. /\ \A g \in Frames \ {f} : frames'[g] = frames[g]
        /\ frames'[f] = [frames[f] EXCEPT !.dirty = FALSE]
    BY <1>1, <1>2 DEF IInv, TypeOK
  <2>2. /\ frames'[f].page = frames[f].page /\ frames'[f].pins = frames[f].pins
        /\ frames'[f].data = frames[f].data /\ ~frames'[f].dirty
    BY <1>1, <2>1 DEF Frame
  <2>3. /\ \A r \in Pages \ {p} : disk'[r] = disk[r]
        /\ disk'[p] = IF frames[f].dirty THEN frames[f].data ELSE disk[p]
    BY <1>1, <1>2 DEF WrittenBack, IInv, TypeOK
  <2> QED BY <1>1, <1>2, <2>1, <2>2, <2>3
<1>3. CASE /\ frames[f].dirty
           /\ WriteFails(p)
           /\ failed' = IF phase = "open" THEN failed ELSE failed \union {p}
           /\ UNCHANGED frames
  <2>1. /\ \A r \in Pages \ {p} : disk'[r] = disk[r]
        /\ disk'[p] \in {disk[p], Torn}
    BY <1>1, <1>3 DEF WriteFails, IInv, TypeOK
  <2> QED BY <1>1, <1>3, <2>1
<1> QED BY <1>2, <1>3 DEF FlushFrame

LEMMA FlushKeeps ==
    ASSUME BPAssumption, IInv, KeepInv, NEW p \in Cached, FlushFrame(p),
           UNCHANGED <<pageTable, lru, held, phase, stranded>>,
           phase = "destroy" => todo' = todo \ {p}
    PROVE  KeepInv'
<1> DEFINE f == pageTable[p]
<1>0. f = pageTable[p]
  OBVIOUS
<1> HIDE DEF f
<1>1. f \in Frames /\ frames[f].page = p /\ p \in Pages
  BY <1>0, FlushFacts
<1>2. \A g \in Frames : frames'[g].page = frames[g].page /\ frames'[g].pins = frames[g].pins
  BY <1>0, FlushFacts
<1>3. /\ \A g \in Frames : frames'[g].data = frames[g].data
      /\ \A g \in Frames \ {f} : frames'[g] = frames[g]
  BY <1>0, FlushFacts
<1>4. \A r \in Pages \ {p} : disk'[r] = disk[r]
  BY <1>0, FlushFacts
<1>5. \/ ~frames'[f].dirty /\ failed' = failed /\ (frames[f].dirty => disk'[p] = frames[f].data)
         /\ (~frames[f].dirty => disk'[p] = disk[p])
      \/ frames[f].dirty /\ frames'[f].dirty /\ failed' = IF phase = "open" THEN failed ELSE failed \union {p}
  BY <1>0, FlushFacts
<1>6. \A r \in Cached : /\ r \in Pages /\ pageTable[r] \in Frames
                        /\ r # p => pageTable[r] # f
  BY <1>1, FrameOfPage
<1>7. EvictableUnlessFailed'
  BY <1>2 DEF KeepInv, EvictableUnlessFailed, FreeFrames, InLru
<1>8. CleanIsOnDisk'
  <2> SUFFICES ASSUME NEW r \in Cached PROVE Clean(r)'
    BY DEF CleanIsOnDisk, Clean, Cached
  <2>1. Clean(r)
    BY DEF KeepInv, CleanIsOnDisk, Clean
  <2>2. CASE r # p
    <3>1. pageTable[r] \in Frames /\ pageTable[r] # f /\ r \in Pages
      BY <1>6, <2>2
    <3>2. frames'[pageTable[r]] = frames[pageTable[r]] /\ disk'[r] = disk[r]
      BY <1>3, <1>4, <2>2, <3>1
    <3> QED BY <2>1, <3>1, <3>2, CleanStays
  <2>3. CASE r = p
    <3>1. Clean(p)
      BY <2>1, <2>3
    <3>2. frames'[f].data = frames[f].data
      BY <1>1, <1>3
    <3>3. Clean(p)'
      BY <1>0, <1>5, <3>1, <3>2 DEF Clean, Holders
    <3> QED BY <2>3, <3>3
  <2> QED BY <2>2, <2>3
<1>9. CloseScope'
  <2> SUFFICES ASSUME phase = "destroy", NEW r \in Cached, r \notin todo', r \notin failed'
               PROVE  ~frames'[pageTable[r]].dirty
    BY DEF CloseScope, Cached
  <2>1. CASE r = p
    <3>1. p \notin failed'
      BY <2>1
    <3>2. ~frames'[f].dirty
      BY <1>5, <3>1
    <3> QED BY <1>0, <2>1, <3>2
  <2>2. CASE r # p
    <3>1. r \notin todo /\ r \notin failed
      BY <1>5, <2>2
    <3>2. ~frames[pageTable[r]].dirty
      BY <3>1 DEF KeepInv, CloseScope
    <3>3. pageTable[r] \in Frames /\ pageTable[r] # f
      BY <1>6, <2>2
    <3>4. frames'[pageTable[r]] = frames[pageTable[r]]
      BY <1>3, <3>3
    <3> QED BY <3>2, <3>4
  <2> QED BY <2>1, <2>2
<1> QED BY <1>7, <1>8, <1>9 DEF KeepInv

LEMMA FlushControlKeeps ==
    ASSUME BPAssumption, IInv, KeepInv,
           \/ \E next \in {"flush", "close"} : StartFlush(next)
           \/ FlushDone
           \/ StartDestruct
    PROVE  KeepInv'
<1> USE DEF StartFlush, FlushDone, StartDestruct, poolVars, historyVars
<1>1. /\ UNCHANGED <<disk, frames, pageTable, lru, held, stranded>>
      /\ phase' = "destroy" => todo' = Cached
  BY DEF Destruct
<1>2. EvictableUnlessFailed' /\ CleanIsOnDisk'
  BY <1>1 DEF KeepInv, EvictableUnlessFailed, FreeFrames, InLru, CleanIsOnDisk, Cached, Holders
<1>3. CloseScope'
  BY <1>1 DEF CloseScope, Cached
<1> QED BY <1>2, <1>3 DEF KeepInv

LEMMA NewPoolKeeps ==
    ASSUME BPAssumption, NewPool, phase' = "open"
    PROVE  KeepInv'
<1>1. FreeFrames' = Frames /\ Cached' = {}
  BY DEF NewPool, NoFrames, NoMapping, EmptyFrame, FreeFrames, Cached
<1> QED BY <1>1 DEF KeepInv, EvictableUnlessFailed, CleanIsOnDisk, CloseScope

LEMMA KeepStep ==
    ASSUME BPAssumption, IInv, KeepInv, [Next]_vars
    PROVE  KeepInv'
<1>1. CASE \E h \in Handles, p \in Pages : Fetch(h, p) \/ NewPage(h, p)
  BY <1>1, FetchKeeps, NewPageKeeps
<1>2. CASE \E p \in Pages : NoFrameLeft(p) \/ EvictFails(p) \/ ReadFails(p)
  BY <1>2, NoFrameLeftKeeps, EvictFailsKeeps, ReadFailsKeeps
<1>3. CASE \E h \in Handles, v \in Values : Write(h, v)
  BY <1>3, WriteKeeps
<1>4. CASE \E h \in Handles : Unpin(h)
  BY <1>4, UnpinKeeps
<1>5. CASE \E p \in Pages : FreePage(p) \/ FlushPage(p) \/ FlushNext(p)
  <2>1. ASSUME NEW p \in Pages, FlushPage(p) PROVE KeepInv'
    BY <2>1, FlushKeeps DEF FlushPage
  <2>2. ASSUME NEW p \in Pages, FlushNext(p) PROVE KeepInv'
    <3>1. p \in Cached
      BY <2>2 DEF FlushNext, IInv, FlushScope
    <3> QED BY <2>2, <3>1, FlushKeeps DEF FlushNext
  <2> QED BY <1>5, <2>1, <2>2, FreePageKeeps
<1>6. CASE (\E next \in {"flush", "close"} : StartFlush(next)) \/ FlushDone \/ StartDestruct
  BY <1>6, FlushControlKeeps
<1>7. CASE Destroyed \/ Crash
  BY <1>7, NewPoolKeeps DEF Destroyed, Crash
<1>8. CASE UNCHANGED vars
  BY <1>8 DEF vars, KeepInv, EvictableUnlessFailed, FreeFrames, InLru, CleanIsOnDisk, Cached,
              Holders, CloseScope
<1> QED BY <1>1, <1>2, <1>3, <1>4, <1>5, <1>6, <1>7, <1>8 DEF Next

LEMMA KeepInvariant == Spec => []KeepInv
<1>1. Init => KeepInv
  BY BPAssumption, InitKeeps
<1>2. IInv /\ KeepInv /\ [Next]_vars => KeepInv'
  BY BPAssumption, KeepStep
<1> QED BY <1>1, <1>2, Inductive, PTL DEF Spec

-----------------------------------------------------------------------------
(* Callers that unpin a page before they free it                           *)

\* A freed page leaves the pool.
LEMMA FreedIsDropped ==
    ASSUME BPAssumption, IInv, ~FreeWhilePinned, NEW p \in Pages, FreePage(p)
    PROVE  /\ \A h \in Handles : held[h].page # p
           /\ p \in Cached => MayDelete(p)
<1>1. \A h \in Handles : held[h].page # p
  BY DEF FreePage
<1>2. ASSUME p \in Cached PROVE MayDelete(p)
  <2> DEFINE f == pageTable[p]
  <2>1. f \in Frames /\ frames[f].page = p
    BY <1>2, FrameOfPage
  <2>2. Holders(f) = {}
    <3> SUFFICES ASSUME NEW h \in Handles, held[h].frame = f PROVE FALSE
      BY DEF Holders
    <3>1. held[h] # NotHeld
      BY <2>1 DEF NotHeld, NoFrame, Frames
    <3> QED BY <1>1, <2>1, <3>1 DEF IInv, PointerValid
  <2>3. frames[f].pins = 0
    BY <2>1, <2>2, FS_EmptySet DEF IInv, PinsCounted
  <2> QED BY <1>2, <2>3 DEF MayDelete
<1> QED BY <1>1, <1>2

LEMMA LiveStep ==
    ASSUME BPAssumption, ~FreeWhilePinned, IInv, LiveScope, [Next]_vars
    PROVE  LiveScope'
<1>1. ASSUME NEW h \in Handles, NEW p \in Pages, Fetch(h, p) \/ NewPage(h, p) PROVE LiveScope'
  <2>1. p \in live' /\ live \subseteq live' /\ Hold(h, p, IF p \in Cached THEN pageTable[p] ELSE Victim)
    BY <1>1 DEF Fetch, NewPage, Hit, Miss
  <2>2. Cached' \subseteq Cached \union {p}
    BY <1>1 DEF Fetch, NewPage, Hit, Miss, Unmapped, Cached, IInv, TypeOK
  <2>3. \A k \in Handles : held'[k] # NotHeld => held'[k].page \in live'
    BY <2>1 DEF Hold, LiveScope, IInv, TypeOK
  <2> QED BY <2>1, <2>2, <2>3 DEF LiveScope
<1>2. ASSUME NEW p \in Pages, NoFrameLeft(p) \/ EvictFails(p) \/ ReadFails(p) PROVE LiveScope'
  BY <1>2 DEF NoFrameLeft, EvictFails, ReadFails, Unmapped, Cached, LiveScope
<1>3. ASSUME NEW h \in Handles, NEW v \in Values, Write(h, v) PROVE LiveScope'
  <2>1. \A k \in Handles : /\ held'[k].page = held[k].page
                          /\ held'[k] # NotHeld => held[k] # NotHeld
    BY <1>3 DEF Write, IInv, TypeOK, Handle
  <2> QED BY <1>3, <2>1 DEF Write, LiveScope, Cached
<1>4. ASSUME NEW h \in Handles, Unpin(h) PROVE LiveScope'
  BY <1>4 DEF Unpin, LiveScope, Cached, IInv, TypeOK
<1>5. ASSUME NEW p \in Pages, FreePage(p) PROVE LiveScope'
  <2>1. p \notin Cached' /\ Cached' \subseteq Cached
    <3>1. CASE MayDelete(p)
      BY <1>5, <3>1 DEF FreePage, Cached, IInv, TypeOK
    <3>2. CASE ~MayDelete(p)
      BY <1>5, <3>2, FreedIsDropped DEF FreePage, poolVars, Cached
    <3> QED BY <3>1, <3>2
  <2>2. \A h \in Handles : held[h].page # p
    BY <1>5, FreedIsDropped
  <2> QED BY <1>5, <2>1, <2>2 DEF FreePage, LiveScope
<1>6. ASSUME NEW p \in Pages, FlushPage(p) \/ FlushNext(p) PROVE LiveScope'
  BY <1>6 DEF FlushPage, FlushNext, LiveScope, Cached
<1>7. CASE (\E next \in {"flush", "close"} : StartFlush(next)) \/ FlushDone \/ StartDestruct
  BY <1>7 DEF StartFlush, FlushDone, StartDestruct, poolVars, LiveScope, Cached
<1>8. CASE Destroyed \/ Crash
  <2>1. Cached' = {}
    BY <1>8 DEF Destroyed, Crash, NewPool, NoMapping, Cached
  <2>2. \A h \in Handles : held'[h] # NotHeld => held'[h] = held[h]
    BY <1>8 DEF Destroyed, Crash
  <2> QED BY <1>8, <2>1, <2>2 DEF Destroyed, Crash, LiveScope
<1>9. CASE UNCHANGED vars
  BY <1>9 DEF vars, LiveScope, Cached
<1> QED BY <1>1, <1>2, <1>3, <1>4, <1>5, <1>6, <1>7, <1>8, <1>9 DEF Next

LEMMA LiveInvariant ==
    ASSUME ~FreeWhilePinned
    PROVE  Spec => []LiveScope
<1>1. Init => LiveScope
  BY DEF Init, NoMapping, LiveScope, Cached
<1>2. IInv /\ LiveScope /\ [Next]_vars => LiveScope'
  BY BPAssumption, LiveStep
<1> QED BY <1>1, <1>2, Inductive, PTL DEF Spec

-----------------------------------------------------------------------------
(* What a reader sees                                                      *)

LEMMA ViewOf ==
    ASSUME NEW p \in Pages
    PROVE  View[p] = IF p \in Cached THEN frames[pageTable[p]].data ELSE disk[p]
BY DEF View

LEMMA ViewOfNext ==
    ASSUME NEW p \in Pages
    PROVE  View'[p] = IF p \in Cached' THEN frames'[pageTable'[p]].data ELSE disk'[p]
BY DEF View

\* A page of the pool reads the same, and the file is untouched.
LEMMA HitView ==
    ASSUME BPAssumption, IInv, NEW h \in Handles, NEW p \in Pages, Hit(h, p)
    PROVE  View' = View /\ disk' = disk
<1> DEFINE f == pageTable[p]
<1>1. f \in Frames /\ frames[f] \in Frame
  BY FrameOfPage DEF Hit
<1>a. /\ frames' = [frames EXCEPT ![f].pins = frames[f].pins + 1]
      /\ UNCHANGED <<disk, pageTable>>
  BY DEF Hit, PinCount
<1> HIDE DEF f
<1>2. \A g \in Frames : frames'[g].data = frames[g].data
  BY <1>1, <1>a DEF IInv, TypeOK, Frame
<1>3. \A r \in Cached : pageTable[r] \in Frames
  BY FrameOfPage
<1> QED BY <1>a, <1>2, <1>3 DEF View, Cached

\* The page that takes a frame reads as what was put there; the evicted page
\* reads the same from the file.
LEMMA MissView ==
    ASSUME BPAssumption, IInv, CleanIsOnDisk, NEW h \in Handles, NEW p \in Pages,
           NEW content, NEW dirty, Miss(h, p, content, dirty)
    PROVE  /\ View' = [View EXCEPT ![p] = content]
           /\ \A r \in Pages : disk'[r] \in {disk[r], View[r]}
           /\ View[p] = disk[p]
<1> DEFINE f == Victim
           q == frames[f].page
<1>1. f \in Frames
  BY VictimReusable DEF Miss
<1>w. \A r \in Pages : WrittenBack(f)[r] = IF q = r THEN frames[f].data ELSE disk[r]
  BY WrittenBackPages DEF Miss
<1>q. q # NoPage => q \in Cached /\ pageTable[q] = f
  BY <1>1, PageOfFrame DEF FreeFrames
<1> HIDE DEF f
<1>a. /\ p \notin Cached
      /\ disk' = WrittenBack(f)
      /\ frames' = [frames EXCEPT ![f] =
                      [page |-> p, pins |-> 1, dirty |-> dirty, data |-> content]]
      /\ pageTable' = [r \in Pages |-> IF r = p THEN f ELSE IF r = q THEN NoFrame ELSE pageTable[r]]
  BY DEF Miss, f, Unmapped
<1>2. /\ \A g \in Frames \ {f} : frames'[g] = frames[g]
      /\ frames'[f].data = content
  BY <1>1, <1>a DEF IInv, TypeOK
<1>3. f # NoFrame
  BY <1>1 DEF Frames, NoFrame
<1>4. View'[p] = content
  BY <1>a, <1>2, <1>3, ViewOfNext DEF Cached
<1>5. ASSUME NEW r \in Pages, r # p PROVE View'[r] = View[r]
  <2>1. CASE r = q
    <3>1. r \in Cached /\ pageTable[r] = f /\ r \notin Cached'
      BY <1>a, <1>q, <1>5, <2>1, BPAssumption DEF Cached
    <3>2. View[r] = frames[f].data /\ View'[r] = disk'[r]
      BY <3>1, ViewOf, ViewOfNext
    <3> QED BY <1>a, <1>w, <2>1, <3>2
  <2>2. CASE r # q /\ r \in Cached
    <3>1. pageTable[r] \in Frames /\ pageTable[r] # f
      BY <2>2, FrameOfPage
    <3>2. r \in Cached' /\ pageTable'[r] = pageTable[r]
      BY <1>a, <1>5, <2>2 DEF Cached
    <3> QED BY <1>2, <2>2, <3>1, <3>2, ViewOf, ViewOfNext
  <2>3. CASE r # q /\ r \notin Cached
    <3>1. r \notin Cached'
      BY <1>a, <1>5, <2>3 DEF Cached
    <3> QED BY <1>a, <1>w, <2>3, <3>1, ViewOf, ViewOfNext
  <2> QED BY <2>1, <2>2, <2>3
<1>6. View' = [View EXCEPT ![p] = content]
  BY <1>4, <1>5 DEF View
<1>7. ASSUME NEW r \in Pages PROVE disk'[r] \in {disk[r], View[r]}
  <2>1. CASE r = q
    <3>1. View[r] = frames[f].data
      BY <1>q, <2>1, ViewOf DEF BPAssumption
    <3> QED BY <1>a, <1>w, <2>1, <3>1
  <2>2. CASE r # q
    BY <1>a, <1>w, <2>2
  <2> QED BY <2>1, <2>2
<1> QED BY <1>a, <1>6, <1>7, ViewOf

LEMMA ReadFailsView ==
    ASSUME BPAssumption, IInv, CleanIsOnDisk, NEW p \in Pages, ReadFails(p)
    PROVE  View' = View /\ \A r \in Pages : disk'[r] \in {disk[r], View[r]}
<1> DEFINE f == Victim
           q == frames[f].page
<1>1. f \in Frames
  BY VictimReusable DEF ReadFails
<1>w. \A r \in Pages : WrittenBack(f)[r] = IF q = r THEN frames[f].data ELSE disk[r]
  BY WrittenBackPages DEF ReadFails
<1>q. q # NoPage => q \in Cached /\ pageTable[q] = f
  BY <1>1, PageOfFrame DEF FreeFrames
<1> HIDE DEF f
<1>a. /\ disk' = WrittenBack(f)
      /\ frames' = [frames EXCEPT ![f] = EmptyFrame]
      /\ pageTable' = [r \in Pages |-> IF r = q THEN NoFrame ELSE pageTable[r]]
  BY DEF ReadFails, f, Unmapped
<1>2. \A g \in Frames \ {f} : frames'[g] = frames[g]
  BY <1>1, <1>a DEF IInv, TypeOK
<1>3. ASSUME NEW r \in Pages PROVE View'[r] = View[r] /\ disk'[r] \in {disk[r], View[r]}
  <2>1. CASE r = q
    <3>1. r \in Cached /\ pageTable[r] = f /\ r \notin Cached'
      BY <1>a, <1>q, <2>1, BPAssumption DEF Cached
    <3>2. View[r] = frames[f].data /\ View'[r] = disk'[r]
      BY <3>1, ViewOf, ViewOfNext
    <3> QED BY <1>a, <1>w, <2>1, <3>2
  <2>2. CASE r # q /\ r \in Cached
    <3>1. pageTable[r] \in Frames /\ pageTable[r] # f
      BY <1>q, <2>2, FrameOfPage
    <3>2. r \in Cached' /\ pageTable'[r] = pageTable[r]
      BY <1>a, <2>2 DEF Cached
    <3> QED BY <1>a, <1>w, <1>2, <2>2, <3>1, <3>2, ViewOf, ViewOfNext
  <2>3. CASE r # q /\ r \notin Cached
    <3>1. r \notin Cached'
      BY <1>a, <2>3 DEF Cached
    <3> QED BY <1>a, <1>w, <2>3, <3>1, ViewOf, ViewOfNext
  <2> QED BY <2>1, <2>2, <2>3
<1> QED BY <1>3 DEF View

\* A failed write tears bytes of a page that is still in the pool.
LEMMA EvictFailsView ==
    ASSUME BPAssumption, IInv, NEW p \in Pages, EvictFails(p)
    PROVE  View' = View /\ \A r \in Pages : disk'[r] \in {disk[r], Torn}
<1> DEFINE q == frames[Victim].page
<1>1. Victim \in Frames /\ Victim \notin FreeFrames
  BY VictimReusable DEF EvictFails, IInv, CachedOnce
<1>2. q \in Cached
  BY <1>1, PageOfFrame
<1>3. \A r \in Pages : disk'[r] \in {disk[r], Torn} /\ (r # q => disk'[r] = disk[r])
  BY DEF EvictFails, WriteFails, IInv, TypeOK
<1>4. UNCHANGED <<frames, pageTable>>
  BY DEF EvictFails
<1> QED BY <1>2, <1>3, <1>4 DEF View, Cached

LEMMA FlushView ==
    ASSUME BPAssumption, IInv, NEW p \in Cached, FlushFrame(p), UNCHANGED pageTable
    PROVE  View' = View /\ \A r \in Pages : disk'[r] \in {disk[r], View[r], Torn}
<1> DEFINE f == pageTable[p]
<1>0. f = pageTable[p]
  OBVIOUS
<1> HIDE DEF f
<1>1. f \in Frames /\ p \in Pages
  BY <1>0, FlushFacts
<1>2. \A g \in Frames : frames'[g].data = frames[g].data
  BY <1>0, FlushFacts
<1>3. \A r \in Pages \ {p} : disk'[r] = disk[r]
  BY <1>0, FlushFacts
<1>4. disk'[p] \in {disk[p], frames[f].data, Torn}
  BY <1>0, FlushFacts
<1>5. \A r \in Cached : pageTable[r] \in Frames
  BY FrameOfPage
<1>6. View' = View
  BY <1>2, <1>3, <1>5 DEF View, Cached
<1>7. View[p] = frames[f].data
  BY <1>0, <1>1, ViewOf
<1> QED BY <1>3, <1>4, <1>6, <1>7

LEMMA WriteView ==
    ASSUME BPAssumption, IInv, NEW h \in Handles, NEW v \in Values, Write(h, v),
           held[h].page \in Pages
    PROVE  View' = [View EXCEPT ![held[h].page] = v] /\ disk' = disk
<1> DEFINE f == held[h].frame
           p == held[h].page
<1>1. f \in Frames /\ frames[f].page = p /\ frames[f] \in Frame
  BY DEF IInv, TypeOK, PointerValid, Write
<1>2. p \in Cached /\ pageTable[p] = f
  BY <1>1, PageOfFrame DEF FreeFrames, BPAssumption
<1> HIDE DEF f
<1>a. frames' = [frames EXCEPT ![f].data = v] /\ UNCHANGED <<disk, pageTable>>
  BY DEF Write, f
<1>3. frames'[f].data = v /\ \A g \in Frames \ {f} : frames'[g] = frames[g]
  BY <1>1, <1>a DEF IInv, TypeOK, Frame
<1>4. View'[p] = v
  BY <1>2, <1>3, <1>a, ViewOfNext DEF Cached
<1>5. ASSUME NEW r \in Pages, r # p PROVE View'[r] = View[r]
  <2>1. r \in Cached => pageTable[r] \in Frames /\ pageTable[r] # f
    BY <1>1, <1>5, FrameOfPage
  <2>2. Cached' = Cached
    BY <1>a DEF Cached
  <2> QED BY <1>3, <1>a, <2>1, <2>2, ViewOf, ViewOfNext
<1>6. View' = [View EXCEPT ![p] = v]
  BY <1>4, <1>5, ZenonT(60) DEF View
<1> QED BY <1>6, <1>a

LEMMA UnpinView ==
    ASSUME BPAssumption, IInv, NEW h \in Handles, Unpin(h)
    PROVE  View' = View /\ disk' = disk
<1> DEFINE f == held[h].frame
           pins == frames[f].pins - 1
           dirt == DirtyAfter(f, held[h].wrote)
<1>1. f \in Frames /\ frames[f] \in Frame /\ pageTable[held[h].page] = f
  BY UnpinFacts DEF IInv, TypeOK
<1>a. /\ frames' = [frames EXCEPT ![f].pins = pins, ![f].dirty = dirt]
      /\ UNCHANGED <<disk, pageTable>>
  BY <1>1 DEF Unpin
<1> HIDE DEF f, pins, dirt
<1>2. \A g \in Frames : frames'[g].data = frames[g].data
  BY <1>1, <1>a DEF IInv, TypeOK, Frame
<1>3. \A r \in Cached : pageTable[r] \in Frames
  BY FrameOfPage
<1> QED BY <1>2, <1>3, <1>a DEF View, Cached

LEMMA FreePageView ==
    ASSUME BPAssumption, IInv, NEW p \in Pages, FreePage(p)
    PROVE  View' \in {View, [View EXCEPT ![p] = disk[p]]} /\ disk' = disk
<1>1. CASE ~MayDelete(p)
  BY <1>1 DEF FreePage, poolVars, View, Cached
<1>2. CASE MayDelete(p)
  <2> DEFINE f == pageTable[p]
  <2>0. f = pageTable[p]
    OBVIOUS
  <2> HIDE DEF f
  <2>1. /\ f \in Frames /\ frames[f].page = p
        /\ \A g \in Frames \ {f} : frames'[g] = frames[g]
        /\ pageTable' = [pageTable EXCEPT ![p] = NoFrame]
        /\ UNCHANGED disk
    BY <1>2, <2>0, DropFacts
  <2>2. p \notin Cached' /\ \A r \in Pages \ {p} : pageTable'[r] = pageTable[r]
    BY <2>1 DEF Cached, IInv, TypeOK
  <2>3. View'[p] = disk[p]
    BY <2>1, <2>2, ViewOfNext
  <2>4. ASSUME NEW r \in Pages, r # p PROVE View'[r] = View[r]
    <3>1. r \in Cached => pageTable[r] \in Frames /\ pageTable[r] # f
      BY <2>1, <2>4, FrameOfPage
    <3>2. r \in Cached' <=> r \in Cached
      BY <2>2, <2>4 DEF Cached
    <3> QED BY <2>1, <2>2, <2>4, <3>1, <3>2, ViewOf, ViewOfNext
  <2>5. View' = [View EXCEPT ![p] = disk[p]]
    BY <2>3, <2>4 DEF View
  <2> QED BY <2>1, <2>5
<1> QED BY <1>1, <1>2

\* A pool that is destroyed leaves every page it could write.
LEMMA DestroyedView ==
    ASSUME BPAssumption, IInv, KeepInv, Destroyed
    PROVE  View' = disk' /\ disk' = disk /\ \A p \in Pages \ failed : View'[p] = View[p]
<1>1. Cached' = {} /\ disk' = disk
  BY DEF Destroyed, NewPool, NoMapping, Cached
<1>2. View' = disk'
  BY <1>1 DEF View, IInv, TypeOK
<1>3. ASSUME NEW p \in Pages \ failed PROVE View[p] = disk[p]
  <2>1. CASE p \in Cached
    <3>1. ~frames[pageTable[p]].dirty
      BY <1>3, <2>1 DEF KeepInv, CloseScope, Destroyed
    <3>2. Holders(pageTable[p]) = {}
      <4>1. pageTable[p] \in Frames /\ NoFrame \notin Frames
        BY <2>1, FrameOfPage DEF NoFrame, Frames
      <4>2. \A h \in Handles : held[h] = NotHeld
        BY DEF Destroyed, IInv, FlushScope
      <4> QED BY <4>1, <4>2 DEF Holders, NotHeld
    <3>3. frames[pageTable[p]].data = disk[p]
      BY <2>1, <3>1, <3>2 DEF KeepInv, CleanIsOnDisk
    <3> QED BY <2>1, <3>3, ViewOf
  <2>2. CASE p \notin Cached
    BY <2>2, ViewOf
  <2> QED BY <2>1, <2>2
<1> QED BY <1>1, <1>2, <1>3

LEMMA CrashView ==
    ASSUME BPAssumption, IInv, Crash
    PROVE  View' = disk' /\ \A r \in Pages : disk'[r] \in {disk[r], Torn}
<1>1. Cached' = {} /\ disk' \in [Pages -> Contents]
  BY DEF Crash, NewPool, NoMapping, Cached, IInv, TypeOK, Contents
<1>2. View' = disk'
  BY <1>1 DEF View
<1>3. \A r \in Pages : disk'[r] \in {disk[r], Torn}
  BY DEF Crash, IInv, TypeOK
<1> QED BY <1>2, <1>3

-----------------------------------------------------------------------------
(* The pool implements PageStore                                           *)

\* Steps that callers cannot see.
LEMMA UnseenStep ==
    ASSUME IInv', View' = View, UNCHANGED <<live, losses>>,
           \A r \in Pages : disk'[r] \in {disk[r], View[r], Torn}
    PROVE  Store!Next
<1>1. Store!WriteBack
  BY DEF IInv, TypeOK, Contents, Store!WriteBack, Store!Contents
<1> QED BY <1>1 DEF Store!Next

LEMMA StoreStep ==
    ASSUME BPAssumption, ~FreeWhilePinned, IInv, IInv', KeepInv, LiveScope, [Next]_vars
    PROVE  [Store!Next]_(Store!vars)
<1> USE DEF KeepInv
<1>w. ASSUME \A r \in Pages : disk'[r] \in {disk[r], View[r], Torn}
      PROVE  Store!WriteBack
  BY <1>w DEF IInv, TypeOK, Contents, Store!WriteBack, Store!Contents
<1>1. ASSUME NEW h \in Handles, NEW p \in Pages, Fetch(h, p) PROVE Store!Next
  <2>1. CASE Hit(h, p)
    BY <1>1, <2>1, HitView, UnseenStep DEF Fetch
  <2>2. CASE Miss(h, p, disk[p], FALSE)
    <3>1. View' = [View EXCEPT ![p] = View[p]]
      BY <2>2, MissView
    <3>2. View' = View
      BY <3>1 DEF View
    <3> QED BY <1>1, <2>2, <3>2, MissView, UnseenStep DEF Fetch
  <2> QED BY <1>1, <2>1, <2>2 DEF Fetch
<1>2. ASSUME NEW h \in Handles, NEW p \in Pages, NewPage(h, p) PROVE Store!Next
  <2>1. p \notin Cached /\ Miss(h, p, Fresh, NewDirty)
    BY <1>2 DEF NewPage, LiveScope, Hit
  <2>2. Store!Create(p)
    BY <1>2, <2>1, MissView DEF NewPage, Store!Create
  <2>3. Store!WriteBack
    BY <1>w, <2>1, MissView
  <2> QED BY <2>2, <2>3 DEF Store!Next
<1>3. ASSUME NEW p \in Pages, NoFrameLeft(p) \/ EvictFails(p) \/ ReadFails(p) PROVE Store!Next
  <2>1. CASE NoFrameLeft(p)
    BY <2>1, UnseenStep DEF NoFrameLeft, historyVars, View, Cached
  <2>2. CASE EvictFails(p)
    BY <2>2, EvictFailsView, UnseenStep DEF EvictFails
  <2>3. CASE ReadFails(p)
    BY <2>3, ReadFailsView, UnseenStep DEF ReadFails, historyVars
  <2> QED BY <1>3, <2>1, <2>2, <2>3
<1>4. ASSUME NEW h \in Handles, NEW v \in Values, Write(h, v) PROVE Store!Next
  <2>1. held[h].page \in live /\ held[h].page \in Pages
    BY <1>4 DEF Write, LiveScope, IInv, TypeOK
  <2>2. Store!Write(held[h].page, v)
    BY <1>4, <2>1, WriteView DEF Write, historyVars, Store!Write
  <2>3. Store!WriteBack
    BY <1>4, <1>w, <2>1, WriteView
  <2> QED BY <2>1, <2>2, <2>3 DEF Store!Next
<1>5. ASSUME NEW h \in Handles, Unpin(h) PROVE Store!Next
  BY <1>5, UnpinView, UnseenStep DEF Unpin, historyVars
<1>6. ASSUME NEW p \in Pages, FreePage(p) PROVE Store!Next
  <2>1. Store!Free(p)
    BY <1>6, FreePageView DEF FreePage, Store!Free
  <2>2. Store!WriteBack
    BY <1>6, <1>w, FreePageView
  <2> QED BY <2>1, <2>2 DEF Store!Next
<1>7. ASSUME NEW p \in Pages, FlushPage(p) \/ FlushNext(p) PROVE Store!Next
  <2>1. p \in Cached /\ FlushFrame(p) /\ UNCHANGED <<pageTable, live, losses>>
    BY <1>7 DEF FlushPage, FlushNext, IInv, FlushScope
  <2> QED BY <2>1, FlushView, UnseenStep
<1>8. CASE (\E next \in {"flush", "close"} : StartFlush(next)) \/ FlushDone \/ StartDestruct
  BY <1>8, UnseenStep DEF StartFlush, FlushDone, StartDestruct, poolVars, historyVars, View, Cached
<1>9. CASE Destroyed
  <2>1. CASE failed = {}
    <3>1. View' = View
      BY <1>9, <2>1, DestroyedView DEF View
    <3> QED BY <1>9, <2>1, <3>1, DestroyedView, UnseenStep DEF Destroyed
  <2>2. CASE failed # {}
    <3>1. Store!Lose
      BY <1>9, <2>2, DestroyedView DEF Destroyed, Store!Lose
    <3>2. Store!WriteBack
      BY <1>9, <1>w, DestroyedView
    <3> QED BY <3>1, <3>2 DEF Store!Next
  <2> QED BY <2>1, <2>2
<1>10. CASE Crash
  <2>1. Store!Lose
    BY <1>10, CrashView DEF Crash, Store!Lose
  <2>2. Store!WriteBack
    BY <1>10, <1>w, CrashView
  <2> QED BY <2>1, <2>2 DEF Store!Next
<1>11. CASE UNCHANGED vars
  BY <1>11 DEF vars, Store!vars, View, Cached
<1> QED BY <1>1, <1>2, <1>3, <1>4, <1>5, <1>6, <1>7, <1>8, <1>9, <1>10, <1>11 DEF Next

-----------------------------------------------------------------------------
(* Theorems                                                                *)

\* Evicting a frame that is not dirty loses nothing: what evict_frame does not
\* write back is what the file holds.
THEOREM CleanFramesOnDisk == Spec => []CleanIsOnDisk
<1>1. KeepInv => CleanIsOnDisk
  BY DEF KeepInv
<1> QED BY <1>1, KeepInvariant, PTL

\* No path through the pool forgets a frame: an unpinned one is free, in the LRU
\* list, or was left out by an eviction that failed.
THEOREM FramesStayReusable == Spec => []EvictableUnlessFailed
<1>1. KeepInv => EvictableUnlessFailed
  BY DEF KeepInv
<1> QED BY <1>1, KeepInvariant, PTL

\* close_table and the destructor lose only pages whose write failed.
THEOREM CloseLosesNothing == Spec => CloseKeeps
<1>1. IInv /\ KeepInv /\ [Next]_vars => [Destroyed => \A p \in Pages \ failed : View'[p] = View[p]]_vars
  BY BPAssumption, DestroyedView
<1> QED BY <1>1, Inductive, KeepInvariant, PTL DEF Spec, CloseKeeps

\* Where callers unpin a page before they free it, new_page returns what
\* init_page leaves.
THEOREM NewPagesAreFresh ==
    ASSUME ~FreeWhilePinned
    PROVE  Spec => NewPageIsFresh
<1>1. ASSUME IInv, KeepInv, LiveScope, NEW h \in Handles, NEW p \in Pages, NewPage(h, p)
      PROVE  View'[p] = Fresh
  <2>1. Miss(h, p, Fresh, NewDirty)
    BY <1>1 DEF NewPage, LiveScope, Hit
  <2>2. View' = [View EXCEPT ![p] = Fresh]
    BY <1>1, <2>1, MissView, BPAssumption DEF KeepInv
  <2> QED BY <2>2 DEF View
<1>2. IInv /\ KeepInv /\ LiveScope /\ [Next]_vars =>
        [\A h \in Handles, p \in Pages : NewPage(h, p) => View'[p] = Fresh]_vars
  BY <1>1
<1> QED BY <1>2, Inductive, KeepInvariant, LiveInvariant, PTL DEF Spec, NewPageIsFresh

\* Where callers unpin a page before they free it, the pool implements the page
\* store the B+tree is written for, through evictions, failures and crashes.
THEOREM PoolIsPageStore ==
    ASSUME ~FreeWhilePinned
    PROVE  Spec => PageStoreKept
<1>1. Init => Store!Init
  BY DEF Init, NoMapping, View, Cached, Store!Init
<1>2. IInv /\ IInv' /\ KeepInv /\ LiveScope /\ [Next]_vars => [Store!Next]_(Store!vars)
  BY BPAssumption, StoreStep
<1> QED BY <1>1, <1>2, Inductive, KeepInvariant, LiveInvariant, PTL DEF Spec, PageStoreKept, Store!Spec
=============================================================================
