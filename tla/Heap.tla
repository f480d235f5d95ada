-------------------------------- MODULE Heap --------------------------------
(***************************************************************************)
(* The kernel heap, kernel/drivers/mm/mm.c: malloc, free and heap_grow.    *)
(* Addresses and sizes are in words of 4 bytes, counted from HEAP_START;   *)
(* a request is rounded up to words by the code itself.  The free list is  *)
(* the sequence of its blocks.  Requests near 2^32, whose rounding wraps,  *)
(* are outside the model.  The calls come from system calls, which run     *)
(* with interrupts off, so each is one step.                               *)
(***************************************************************************)
EXTENDS Integers, Sequences, SequencesExt

CONSTANTS
  PageWords,    \* words of a page
  GrowPages,    \* HEAP_GROW_PAGES
  Frames,       \* page frames that are free at the start
  Sizes         \* the sizes that clients ask for

Header == 3              \* BLOCK_SZ: size, magic, next

\* A growth has room for a header and more.
ASSUME HeapAssumption ==
  /\ PageWords \in Nat \ {0} /\ GrowPages \in Nat \ {0} /\ Frames \in Nat
  /\ GrowPages * PageWords > Header
  /\ Sizes \subseteq Nat \ {0}

Limit  == Frames * PageWords
Addr   == 0..Limit

VARIABLES
  heap,   \* the allocator's state, see TypeOK
  owned,  \* the blocks that clients hold
  asked,  \* history: the words malloc was asked for when it gave the block out
  hung    \* malloc recurses without end

vars == <<heap, owned, asked, hung>>

Init ==
  /\ heap = [list   |-> <<>>,                     \* free_list
             size   |-> [a \in Addr |-> 0],       \* of the block at a
             magic  |-> [a \in Addr |-> "none"],
             cur    |-> 0,                        \* heap_cur
             max    |-> 0,                        \* heap_max
             frames |-> Frames]                   \* what alloc_frame can give
  /\ owned = {}
  /\ asked = [a \in Addr |-> 0]
  /\ hung = FALSE

\* Mutant of Grow: alloc_frame's failure is not seen.
GrowUnchecked(h) ==
  LET top == h.max + GrowPages * PageWords IN
  [h EXCEPT !.list = <<h.cur>> \o h.list, !.size[h.cur] = top - h.cur,
            !.magic[h.cur] = "free", !.cur = top, !.max = top,
            !.frames = h.frames - GrowPages]

\* heap_grow: one block of GrowPages more pages.  When the frames run out on
\* the way heap_max has moved and the pages are in no block.
Grow(h) ==
  LET top == h.max + GrowPages * PageWords IN
  IF h.frames < GrowPages
    THEN [h EXCEPT !.max = h.max + h.frames * PageWords, !.frames = 0]
    ELSE [list   |-> <<h.cur>> \o h.list,
          size   |-> [h.size EXCEPT ![h.cur] = top - h.cur],
          magic  |-> [h.magic EXCEPT ![h.cur] = "free"],
          cur    |-> top,
          max    |-> top,
          frames |-> h.frames - GrowPages]

\* Mutant of FirstFit: the header is not counted.
FirstFitNoHeader(h, need, i) ==
  /\ i \in DOMAIN h.list
  /\ LET Fits(k) == h.magic[h.list[k]] = "free" /\ h.size[h.list[k]] + Header >= need
     IN  Fits(i) /\ \A k \in 1..(i - 1) : ~ Fits(k)

\* i is the first entry of the free list with room for need words.
FirstFit(h, need, i) ==
  /\ i \in DOMAIN h.list
  /\ LET Fits(k) == h.magic[h.list[k]] = "free" /\ h.size[h.list[k]] >= need
     IN  Fits(i) /\ \A k \in 1..(i - 1) : ~ Fits(k)

\* Mutant of Take: a block that is split keeps its old size.
TakeKeepsSize(h, i, need) ==
  LET b    == h.list[i]
      left == h.size[b] - need
  IN  IF left >= Header + 1
        THEN [h EXCEPT !.list[i] = b + need, !.size[b + need] = left,
                       !.magic = [h.magic EXCEPT ![b + need] = "free", ![b] = "used"]]
        ELSE [h EXCEPT !.list = RemoveAt(h.list, i), !.magic[b] = "used"]

\* The block at entry i of the free list is handed out; what it has too many
\* stays in the list when it is enough for a block.
Take(h, i, need) ==
  LET b    == h.list[i]
      rest == b + need
      left == h.size[b] - need
  IN  IF left >= Header + 1
        THEN [h EXCEPT !.list  = ReplaceAt(h.list, i, rest),
                       !.size  = [h.size EXCEPT ![b] = need, ![rest] = left],
                       !.magic = [h.magic EXCEPT ![rest] = "free", ![b] = "used"]]
        ELSE [h EXCEPT !.list  = RemoveAt(h.list, i),
                       !.magic = [h.magic EXCEPT ![b] = "used"]]

Malloc(n) ==
  LET need == Header + n
      h    == IF heap.list = <<>> THEN Grow(heap) ELSE heap
      g    == Grow(h)
  IN  /\ ~ hung
      /\ \/ /\ h.list = <<>>                     \* nothing to search
            /\ heap' = h
            /\ UNCHANGED <<owned, asked, hung>>
         \/ \E i \in DOMAIN h.list :
              /\ FirstFit(h, need, i)
              /\ heap' = Take(h, i, need)
              /\ owned' = owned \cup {h.list[i]}
              /\ asked' = [asked EXCEPT ![h.list[i]] = n]
              /\ UNCHANGED hung
         \/ /\ h.list # <<>>                     \* grow, then look at heap_max
            /\ \A i \in DOMAIN h.list : ~ FirstFit(h, need, i)
            /\ heap' = g
            /\ hung' = (g.max > g.cur)
            /\ UNCHANGED <<owned, asked>>

\* The block after b is joined to it when it is free.
Joined(h, b) ==
  LET nxt == b + h.size[b] IN
  IF nxt < h.max /\ h.magic[nxt] = "free"
    THEN [h EXCEPT !.list = RemoveFirst(h.list, nxt),
                   !.size = [h.size EXCEPT ![b] = h.size[b] + h.size[nxt]]]
    ELSE h

\* Mutant of Free: the header's magic is not looked at.
FreeUnchecked(b) ==
  /\ ~ hung
  /\ LET h == Joined([heap EXCEPT !.magic[b] = "free"], b)
     IN  heap' = [h EXCEPT !.list = <<b>> \o h.list]
  /\ owned' = owned \ {b}
  /\ asked' = [asked EXCEPT ![b] = 0]
  /\ UNCHANGED hung

\* free of a block that has, or had, a header at b; one that is not in use
\* is left alone.
Free(b) ==
  /\ ~ hung
  /\ IF heap.magic[b] # "used"
       THEN UNCHANGED <<heap, owned, asked>>
       ELSE LET h == Joined([heap EXCEPT !.magic = [heap.magic EXCEPT ![b] = "free"]], b)
            IN  /\ heap' = [h EXCEPT !.list = <<b>> \o h.list]
                /\ owned' = owned \ {b}
                /\ asked' = [asked EXCEPT ![b] = 0]
  /\ UNCHANGED hung

\* Somebody else takes a frame: an address space, a page table.
TakeFrame ==
  /\ ~ hung
  /\ heap.frames > 0
  /\ heap' = [heap EXCEPT !.frames = heap.frames - 1]
  /\ UNCHANGED <<owned, asked, hung>>

\* malloc calls itself for ever: its heap_grow gets no frame, and heap_max
\* is still beyond heap_cur.
Recurse == hung /\ UNCHANGED vars

Headers == {a \in Addr : heap.magic[a] # "none"}

Next ==
  \/ \E n \in Sizes : Malloc(n)
  \/ \E b \in Headers : Free(b)
  \/ TakeFrame
  \/ Recurse

Spec == Init /\ [][Next]_vars

-----------------------------------------------------------------------------
FreeBlocks == {heap.list[i] : i \in DOMAIN heap.list}
Blocks == FreeBlocks \cup owned
EndOf(b) == b + heap.size[b]

TypeOK ==
  /\ heap \in [list : Seq(Addr), size : [Addr -> 0..Limit],
               magic : [Addr -> {"none", "free", "used"}],
               cur : Addr, max : Addr, frames : 0..Frames]
  /\ heap.cur <= heap.max
  /\ heap.max + heap.frames * PageWords <= Limit
  /\ owned \subseteq Addr
  /\ asked \in [Addr -> Sizes \cup {0}]
  /\ hung \in BOOLEAN

(***************************************************************************)
(* Free blocks and blocks in use together tile the heap up to heap_cur: no *)
(* two overlap, and no word is lost by a split, a join or a growth.        *)
(***************************************************************************)
Tiling ==
  /\ \A b \in Blocks : heap.size[b] > Header /\ EndOf(b) \in Blocks \cup {heap.cur}
  /\ \A b, c \in Blocks : b < c => EndOf(b) <= c
  /\ 0 \in Blocks \cup {heap.cur}

(***************************************************************************)
(* The magic of a header says what the block is, and the headers that      *)
(* joins leave behind inside a block never read as in use: that is what    *)
(* free's check against a second free rests on.                            *)
(***************************************************************************)
MagicIsTrue ==
  /\ \A a \in Addr : heap.magic[a] = "used" <=> a \in owned
  /\ \A a \in FreeBlocks : heap.magic[a] = "free"
  /\ \A a \in Addr : a >= heap.cur => heap.magic[a] = "none"
  /\ \A i, j \in DOMAIN heap.list : heap.list[i] = heap.list[j] => i = j

Abstract == INSTANCE Allocator WITH
  held <- {<<b + Header, heap.size[b] - Header, asked[b]>> : b \in owned}

(***************************************************************************)
(* malloc and free keep the promises of Allocator: what malloc(n) returns  *)
(* has n words behind its header, which overlap no block that is held, and *)
(* no other call changes where a held block lies or how long it is         *)
(* (mm.c:40-126).                                                          *)
(***************************************************************************)
ImplementsAllocator == Abstract!Spec

(***************************************************************************)
(* mm.c:33 says that all the space of a growth becomes one free block, and *)
(* mm.c:95 calls malloc again on that ground: a malloc that has extended   *)
(* the heap finds a block or gives up, and returns.                        *)
(***************************************************************************)
MallocReturns == ~ hung
=============================================================================
