------------------------------- MODULE Loader -------------------------------
(***************************************************************************)
(* Programs in memory: spawn_elf (kernel/drivers/task/task.c) with         *)
(* elf_load (kernel/drivers/elf/elf.c) over the tables of module Paging,   *)
(* the growth of the heap (kernel/drivers/mm/mm.c), and what the processes *)
(* write.  spawn_elf is a system call with interrupts off: its loops are   *)
(* steps of their own, between which nothing else runs.  No call ever      *)
(* gives a frame back.  That vfs_read finds no program, and the stack,     *)
(* which lies in task_table, are left out.  Addresses are in words.        *)
(***************************************************************************)
EXTENDS Paging, Sequences

CONSTANTS
  MaxTasks,     \* MAX_TASKS, the kernel's own included
  Images,       \* the files that are spawned
  PrivatePage,  \* the page of TASK_PRIVATE_VADDR
  HeapPages,    \* bound of the model: pages by which the heap grows
  Stores,       \* the addresses that programs write
  Written       \* what they write

\* A file: whether it passes elf_check, and its program headers; load says
\* that the header is PT_LOAD, memsz counts words, data is the file part.
NoImage == [elf |-> FALSE, segs |-> <<>>]

StartPage(s) == s.vaddr \div Entries

\* Mutant of EndPage: the end is not rounded up.
EndPageDown(s) == (s.vaddr + s.memsz) \div Entries

EndPage(s) == (s.vaddr + s.memsz + Entries - 1) \div Entries

\* The pages that a file needs, and those that elf_load brings.
Touched(image) ==
  UNION {{a \div Entries : a \in s.vaddr..(s.vaddr + s.memsz - 1)} :
           s \in {t \in {image.segs[k] : k \in DOMAIN image.segs} : t.load}}
Brought(image) ==
  UNION {StartPage(s)..(EndPage(s) - 1) :
           s \in {t \in {image.segs[k] : k \in DOMAIN image.segs} : t.load}}

ProgramPages == {PrivatePage} \cup UNION {Brought(image) : image \in Images}

Segments == [load : BOOLEAN, vaddr : Nat, data : Seq(Nat), memsz : Nat]

\* Programs, and the private page, lie above all RAM (user.ld, paging.h).
ASSUME LoaderAssumption ==
  /\ MaxTasks \in Nat /\ Written \in Nat /\ Stores \subseteq Nat /\ HeapPages \in Nat
  /\ Images \subseteq [elf : BOOLEAN, segs : Seq(Segments)]
  /\ \A image \in Images : \A k \in DOMAIN image.segs :
       Len(image.segs[k].data) <= image.segs[k].memsz
  /\ \A image \in Images : Brought(image) \subseteq Pages \ {PrivatePage}
  /\ PrivatePage \in Pages /\ HeapStart..(HeapStart + HeapPages) \subseteq Pages
  /\ \A t \in Machines : \A v \in ProgramPages : v >= t

VARIABLES
  procs,      \* the processes: the directory and the file of each
  next_pid,
  heap_max,   \* the page at which the heap ends
  job,        \* the spawn_elf that runs: pc, caller's CR3, dir, file, place
  stopped,    \* a page fault in the kernel: the exception handler halts
  use         \* history: what each frame was taken for

vars == <<total, used, mem, procs, next_pid, heap_max, job, stopped, use>>

Idle == [pc |-> "idle", cr3 |-> KernelDir, dir |-> 0, image |-> NoImage,
         seg |-> 0, page |-> 0]

As(what, dir, at) == [as |-> what, dir |-> dir, at |-> at]
Free == As("free", 0, 0)

\* paging_init has made the tables of the heap, since there is RAM beyond 16 MB,
\* and programs lie above what it has mapped.
Layout ==
  /\ \A v \in HeapStart..(HeapStart + HeapPages) : Slot(v) \in KernelSlots
  /\ \A v \in ProgramPages : Slot(v) \notin KernelSlots

Init ==
  /\ InitPaging
  /\ Layout
  /\ procs = [p \in {} |-> Idle] /\ next_pid = 2
  /\ heap_max = HeapStart
  /\ job = Idle
  /\ stopped = FALSE
  /\ use = [f \in Frames |-> IF f \in used THEN As("kernel", 0, 0) ELSE Free]

\* kmain has the kernel's own directory in CR3, a process its own.
Callers == {KernelDir} \cup {procs[p].dir : p \in DOMAIN procs}

Ready == job.pc = "idle" /\ ~ stopped

\* A page fault when one of the frames fs cannot be reached.
Unreachable(cr3, fs) == \E f \in fs \ {0} : Walk(mem, cr3, f) = 0

-----------------------------------------------------------------------------
\* Mutant of Clone: only the slot of the kernel's image is copied.
CloneFirst(m, cr3, f) ==
  PutPage(m, cr3, f, [Zeros EXCEPT ![0] = Seen(m, cr3, KernelDir)[0]])

\* The loop of create_page_directory.
Clone(m, cr3, f) == PutPage(m, cr3, f, Seen(m, cr3, KernelDir))

PageAt(image, k) == IF k \in DOMAIN image.segs THEN StartPage(image.segs[k]) ELSE 0

\* spawn_elf up to elf_check.  Without a frame elf_load takes address 0 for
\* the directory: it fails for want of another frame, or follows what lies there.
SpawnStart(cr3, image) ==
  /\ Ready
  /\ \E f \in Frames :
       /\ IsNext(used, f)
       /\ \/ /\ f = 0
             /\ stopped' \in {FALSE, image.elf}
             /\ UNCHANGED <<used, mem, job, use>>
          \/ /\ f # 0 /\ Unreachable(cr3, {f})
             /\ stopped' = TRUE
             /\ UNCHANGED <<used, mem, job, use>>
          \/ /\ f # 0 /\ ~ Unreachable(cr3, {f})
             /\ used' = used \cup {f}
             /\ mem' = Clone(mem, cr3, f)
             /\ use' = [use EXCEPT ![f] = As("dir", f, 0)]
             /\ job' = IF ~ image.elf THEN Idle
                       ELSE [pc |-> "load", cr3 |-> cr3, dir |-> f, image |-> image,
                             seg |-> 1, page |-> PageAt(image, 1)]
             /\ UNCHANGED stopped
  /\ UNCHANGED <<total, procs, next_pid, heap_max>>

\* A frame f for the page v of dir, with the words of page in it, and a frame
\* for the table when there is none.
NewPage(cr3, dir, v, f, page) ==
  \E g \in Frames :
    /\ IF HasTable(mem, cr3, dir, v) THEN g = 0 ELSE IsNext(used \cup {f}, g)
    /\ IF Unreachable(cr3, {f, g})
         THEN stopped' = TRUE /\ UNCHANGED <<used, mem, use>>
         ELSE /\ used' = used \cup {f, g}
              /\ mem' = MapPage(PutPage(mem, cr3, f, page), cr3, dir, v, f, g)
              /\ use' = [h \in Frames |-> CASE h = f -> As("page", dir, v)
                                            [] h = g /\ g # 0 -> As("table", dir, Slot(v))
                                            [] OTHER -> use[h]]
              /\ UNCHANGED stopped

\* The page v, after the part of the file that belongs into it is copied.
Copied(page, s, v) ==
  LET lo  == IF v * Entries > s.vaddr THEN v * Entries - s.vaddr ELSE 0
      hi  == IF (v + 1) * Entries - s.vaddr < Len(s.data)
               THEN (v + 1) * Entries - s.vaddr ELSE Len(s.data)
      off == IF v * Entries > s.vaddr THEN 0 ELSE s.vaddr - v * Entries
  IN  [i \in Index |-> IF off <= i /\ i < off + hi - lo
                         THEN s.data[lo + i - off + 1] ELSE page[i]]

Segment == job.image.segs[job.seg]

InSegment ==
  /\ job.pc = "load" /\ ~ stopped
  /\ job.seg \in DOMAIN job.image.segs
  /\ Segment.load /\ job.page < EndPage(Segment)

\* The inner loop of elf_load for a page that another segment has brought.
LoadOldPage ==
  /\ InSegment
  /\ \E f \in Frames \ {0} :
       /\ f = GetPhysical(mem, job.cr3, job.dir, job.page)
       /\ mem' = PutPage(mem, job.cr3, f,
                         Copied(Seen(mem, job.cr3, f), Segment, job.page))
  /\ job' = [job EXCEPT !.page = @ + 1]
  /\ UNCHANGED <<total, used, procs, next_pid, heap_max, stopped, use>>

\* Mutant of LoadNewPage: the page is not cleared.
LoadNewPageDirty ==
  /\ InSegment
  /\ GetPhysical(mem, job.cr3, job.dir, job.page) = 0
  /\ \E f \in Frames \ {0} :
       /\ IsNext(used, f)
       /\ NewPage(job.cr3, job.dir, job.page, f, Copied(mem[f], Segment, job.page))
  /\ job' = [job EXCEPT !.page = @ + 1]
  /\ UNCHANGED <<total, procs, next_pid, heap_max>>

\* The same for a page that is not mapped yet.
LoadNewPage ==
  /\ InSegment
  /\ GetPhysical(mem, job.cr3, job.dir, job.page) = 0
  /\ \E f \in Frames \ {0} :
       /\ IsNext(used, f)
       /\ NewPage(job.cr3, job.dir, job.page, f, Copied(Zeros, Segment, job.page))
  /\ job' = [job EXCEPT !.page = @ + 1]
  /\ UNCHANGED <<total, procs, next_pid, heap_max>>

\* elf_load gives up for want of a frame, and spawn_elf with it.
LoadFails ==
  /\ InSegment
  /\ GetPhysical(mem, job.cr3, job.dir, job.page) = 0
  /\ IsNext(used, 0)
  /\ job' = Idle
  /\ UNCHANGED <<total, used, mem, procs, next_pid, heap_max, stopped, use>>

\* The outer loop of elf_load goes on to the next program header.
NextSegment ==
  /\ job.pc = "load" /\ ~ stopped
  /\ job.seg \in DOMAIN job.image.segs
  /\ ~ (Segment.load /\ job.page < EndPage(Segment))
  /\ job' = [job EXCEPT !.seg = @ + 1, !.page = PageAt(job.image, job.seg + 1)]
  /\ UNCHANGED <<total, used, mem, procs, next_pid, heap_max, stopped, use>>

\* task_alloc, and the private page when there is a frame for it.
SpawnEnd ==
  /\ job.pc = "load" /\ ~ stopped
  /\ job.seg \notin DOMAIN job.image.segs
  /\ job' = Idle
  /\ \/ /\ 1 + Cardinality(DOMAIN procs) >= MaxTasks
        /\ UNCHANGED <<used, mem, procs, next_pid, stopped, use>>
     \/ /\ 1 + Cardinality(DOMAIN procs) < MaxTasks
        /\ procs' = [p \in DOMAIN procs \cup {next_pid} |->
                       IF p = next_pid THEN [dir |-> job.dir, image |-> job.image]
                                       ELSE procs[p]]
        /\ next_pid' = next_pid + 1
        /\ \/ /\ IsNext(used, 0)
              /\ UNCHANGED <<used, mem, stopped, use>>
           \/ \E f \in Frames \ {0} :
                /\ IsNext(used, f)
                /\ NewPage(job.cr3, job.dir, PrivatePage, f,
                           [mem[f] EXCEPT ![0] = next_pid, ![1] = 0])
  /\ UNCHANGED <<total, heap_max>>

-----------------------------------------------------------------------------
\* One turn of the loop of heap_grow, for a process or for the kernel: the page
\* is mapped in kernel_dir, whoever calls, in a table that paging_init has made.
GrowHeap(cr3) ==
  /\ Ready
  /\ heap_max < HeapStart + HeapPages
  /\ \E f \in Frames \ {0} :
       /\ IsNext(used, f)
       /\ used' = used \cup {f}
       /\ mem' = MapPage(mem, cr3, KernelDir, heap_max, f, 0)
       /\ use' = [use EXCEPT ![f] = As("page", KernelDir, heap_max)]
  /\ heap_max' = heap_max + 1
  /\ UNCHANGED <<total, procs, next_pid, job, stopped>>

\* The pages that process p takes for its own, and those of the heap.
OwnPages(p) == Touched(procs[p].image) \cup {PrivatePage}
HeapRange   == HeapStart..(heap_max - 1)

\* A process writes to memory of its own, or of the heap; what is not there
\* makes the exception handler halt.
Store(p, a) ==
  /\ Ready
  /\ a \div Entries \in OwnPages(p) \cup HeapRange
  /\ \E at \in {Walk(mem, procs[p].dir, a \div Entries)} :
       IF at = 0 THEN stopped' = TRUE /\ UNCHANGED mem
       ELSE mem' = [mem EXCEPT ![at][a % Entries] = Written] /\ UNCHANGED stopped
  /\ UNCHANGED <<total, used, procs, next_pid, heap_max, job, use>>

\* SYS_EXIT: the frames of the process stay taken.
Exit(p) ==
  /\ Ready
  /\ procs' = [q \in DOMAIN procs \ {p} |-> procs[q]]
  /\ UNCHANGED <<total, used, mem, next_pid, heap_max, job, stopped, use>>

\* The exception handler halts for ever.
Halted == stopped /\ UNCHANGED vars

Next ==
  \/ \E cr3 \in Callers : \E image \in Images : SpawnStart(cr3, image)
  \/ LoadOldPage \/ LoadNewPage \/ LoadFails \/ NextSegment \/ SpawnEnd
  \/ \E cr3 \in Callers : GrowHeap(cr3)
  \/ \E p \in DOMAIN procs : Exit(p) \/ \E a \in Stores : Store(p, a)
  \/ Halted

Spec == Init /\ [][Next]_vars
-----------------------------------------------------------------------------
Dirs == Callers \cup (IF job.pc = "idle" THEN {} ELSE {job.dir})

Uses == [as : {"free", "kernel", "dir", "table", "page"}, dir : Frames, at : Pages]

TypeOK ==
  /\ total \in Machines /\ used \subseteq Frames /\ 0 \in used
  /\ mem \in [Frames -> [Index -> Nat]]
  /\ use \in [Frames -> Uses]
  /\ next_pid \in Nat /\ heap_max \in HeapStart..(HeapStart + HeapPages)
  /\ \A p \in DOMAIN procs : procs[p].dir \in Frames /\ procs[p].image \in Images
  /\ job \in [pc : {"idle", "load"}, cr3 : Frames, dir : Frames,
             image : Images \cup {NoImage}, seg : Nat, page : Nat]
  /\ job.pc = "idle" => job = Idle
  /\ job.pc = "load" => job.image \in Images
  /\ stopped \in BOOLEAN

TakenFor(f, what, dir, at) == f \in Frames /\ use[f] = As(what, dir, at)

UserPages == UNION {{v \in Pages : Slot(v) = s} : s \in Index \ KernelSlots}

(***************************************************************************)
(* A frame serves one purpose: each frame that a directory leads to, as a  *)
(* table or as a page, was taken for that table or that page of that       *)
(* directory and for nothing else, whatever spawns failed half-way.        *)
(***************************************************************************)
FramesHaveOneUse ==
  /\ \A f \in Frames : f \in used <=> use[f].as # "free"
  /\ \A d \in Dirs \ {KernelDir} :
       /\ use[d] = As("dir", d, 0)
       /\ \A s \in Index \ KernelSlots :
            mem[d][s] # 0 => TakenFor(mem[d][s], "table", d, s)
       /\ \A v \in UserPages :
            Walk(mem, d, v) # 0 => TakenFor(Walk(mem, d, v), "page", d, v)

(***************************************************************************)
(* Every directory, also one that is being filled, leads to the same       *)
(* kernel, the same heap and the same framebuffer: what heap_grow maps     *)
(* while one process runs is there for all.                                *)
(***************************************************************************)
KernelIsShared ==
  \A d \in Dirs : \A v \in Pages \ UserPages :
    Walk(mem, d, v) = Walk(mem, KernelDir, v)

(***************************************************************************)
(* map_page says nothing when it has no frame for a table; a process that  *)
(* is nevertheless there lacks a page only when no frame at all is left.   *)
(***************************************************************************)
HolesOnlyWhenFull ==
  ~ stopped => \A p \in DOMAIN procs : \A v \in OwnPages(p) :
    Walk(mem, procs[p].dir, v) = 0 => Frames \subseteq used

(***************************************************************************)
(* paging.c:151 says that virtual and physical addresses are the same: a   *)
(* frame that is taken and lies in the range that is mapped to itself is   *)
(* what the kernel reaches at its address.                                 *)
(***************************************************************************)
IdentityMapped ==
  \A f \in used : f < Ident => Walk(mem, KernelDir, f) = f

-----------------------------------------------------------------------------
\* What a process sees in those of its pages that are mapped, and in the heap.
ViewOf(p) ==
  [v \in {w \in OwnPages(p) : Walk(mem, procs[p].dir, w) # 0} |->
     [i \in IF v = PrivatePage THEN 0..1 ELSE Index |->
        mem[Walk(mem, procs[p].dir, v)][i]]]

HeapView == [v \in HeapRange |-> mem[Walk(mem, KernelDir, v)]]

Abstract == INSTANCE AddressSpaces WITH
  spaces <- [p \in DOMAIN procs |-> ViewOf(p)], heap <- HeapView

(***************************************************************************)
(* What a process finds in memory is what its file says, and it changes by *)
(* its own writes only, whatever is spawned, grown or written elsewhere.   *)
(***************************************************************************)
ImplementsAddressSpaces == Abstract!Spec
=============================================================================
