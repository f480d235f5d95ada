------------------------------- MODULE Paging -------------------------------
(***************************************************************************)
(* Memory as kernel/drivers/paging/paging.c sets it up: the bitmap of page *)
(* frames and the directories and tables that the CPU walks.  A page is a  *)
(* sequence of Entries words, and a page table or directory is a page, as  *)
(* in the code (PAGE_SIZE is four times PAGE_ENTRIES).  A word that is     *)
(* read as an entry is the number of a frame, and 0 is an entry that is    *)
(* not present; flags are left out, since every process runs in ring 0.    *)
(* The kernel reaches a frame through the virtual address that equals the  *)
(* physical one, so each of its accesses goes through the tables too.      *)
(***************************************************************************)
EXTENDS Integers, FiniteSets

CONSTANTS
  Entries,    \* PAGE_ENTRIES
  Machines,   \* the numbers of page frames that machines have, up to FRAMES_TOTAL
  Kernel,     \* frames below kernel_end
  IdentLimit, \* pages that paging_init maps to themselves, at most
  Fb,         \* the pages of the framebuffer, beyond those
  HeapStart,  \* the page of HEAP_START
  Junk        \* what a word of RAM holds before it is written

Index     == 0..(Entries - 1)
Pages     == 0..(Entries * Entries - 1)
Slot(v)   == v \div Entries     \* dir_idx
Entry(v)  == v % Entries        \* tbl_idx

KernelDir == Kernel             \* the first frame that alloc_frame gives

ASSUME PagingAssumption ==
  /\ Entries \in Nat \ {0} /\ Kernel \in Nat \ {0} /\ IdentLimit \in Nat
  /\ Kernel + Entries < IdentLimit
  /\ Machines \subseteq Nat
  /\ \A t \in Machines : Kernel + Entries < t /\ t <= Entries * Entries
  /\ Fb \subseteq Pages /\ \A v \in Fb : v >= IdentLimit /\ \A t \in Machines : v >= t
  /\ HeapStart \in Nat
  /\ Junk \in Nat /\ \A t \in Machines : Junk >= t

VARIABLES
  total,  \* total_frames
  used,   \* frame_bitmap: the frames that are taken
  mem     \* the words of each frame

Frames == 0..(total - 1)

\* What paging_init maps to itself, and the slots of kernel_dir that this fills.
Ident       == IF total < IdentLimit THEN total ELSE IdentLimit
Identical   == {v \in Pages : v < Ident} \cup Fb
KernelSlots == {Slot(v) : v \in Identical}

-----------------------------------------------------------------------------
\* alloc_frame returns f: the first frame that is free, or 0.
IsNext(u, f) ==
  \/ f = 0 /\ Frames \subseteq u
  \/ f \in Frames \ u /\ \A g \in Frames \ u : f <= g

\* The page that the CPU finds for the virtual page v under the directory cr3.
Walk(m, cr3, v) ==
  IF m[cr3][Slot(v)] \in Frames \ {0} THEN m[m[cr3][Slot(v)]][Entry(v)] ELSE 0

\* What the kernel reads at the address of frame f, and what its writes make
\* of memory; at what is no RAM writes are lost.
Seen(m, cr3, f) ==
  IF Walk(m, cr3, f) \in Frames THEN m[Walk(m, cr3, f)] ELSE [i \in Index |-> Junk]

PutPage(m, cr3, f, page) ==
  IF Walk(m, cr3, f) \in Frames THEN [m EXCEPT ![Walk(m, cr3, f)] = page] ELSE m

PutWord(m, cr3, f, i, w) ==
  PutPage(m, cr3, f, [Seen(m, cr3, f) EXCEPT ![i] = w])

\* Mutant of Reserved: the loop begins behind frame 0.
ReservedFrom1 == 1..(Kernel - 1)

\* reserve_range of the kernel.  The frames of the framebuffer are no RAM.
Reserved == 0..(Kernel - 1)

Zeros == [i \in Index |-> 0]

\* get_physical, of the frame dir taken as a directory.
GetPhysical(m, cr3, dir, v) ==
  LET table == Seen(m, cr3, dir)[Slot(v)]
  IN  IF table = 0 THEN 0 ELSE Seen(m, cr3, table)[Entry(v)]

HasTable(m, cr3, dir, v) == Seen(m, cr3, dir)[Slot(v)] # 0

\* Mutant of MapPage: the table is not cleared.
MapPageDirty(m, cr3, dir, v, f, g) ==
  LET table == Seen(m, cr3, dir)[Slot(v)] IN
  IF table # 0 THEN PutWord(m, cr3, table, Entry(v), f)
  ELSE IF g = 0 THEN m
  ELSE PutWord(PutWord(m, cr3, dir, Slot(v), g), cr3, g, Entry(v), f)

\* map_page of v to f, where g is the frame that alloc_frame has for a table
\* when one is needed.  Without a frame nothing is mapped, and nothing said.
MapPage(m, cr3, dir, v, f, g) ==
  LET table == Seen(m, cr3, dir)[Slot(v)] IN
  IF table # 0 THEN PutWord(m, cr3, table, Entry(v), f)
  ELSE IF g = 0 THEN m
  ELSE PutWord(PutWord(PutPage(m, cr3, g, Zeros), cr3, dir, Slot(v), g),
               cr3, g, Entry(v), f)

\* paging_init, with paging still off: kernel_dir and its tables are the first
\* frames behind the kernel, and the tables come in the order of their slots.
InitPaging ==
  /\ total \in Machines
  /\ \E table \in [KernelSlots -> (Kernel + 1)..(Kernel + Cardinality(KernelSlots))] :
       /\ \A r, s \in KernelSlots : r < s => table[r] < table[s]
       /\ used = Reserved \cup Kernel..(Kernel + Cardinality(KernelSlots))
       /\ mem = [f \in Frames |-> [i \in Index |->
                  IF f = KernelDir THEN IF i \in KernelSlots THEN table[i] ELSE 0
                  ELSE IF f < KernelDir \/ f \notin used THEN Junk
                  ELSE IF \E v \in Identical : table[Slot(v)] = f /\ Entry(v) = i
                    THEN CHOOSE v \in Identical : table[Slot(v)] = f /\ Entry(v) = i
                    ELSE 0]]
=============================================================================
