# A TLA+ model of Deva

Deva (`src/`) is a small i686 kernel with preemptive tasks, paging, an ELF loader, a FAT32 file
system on ATA disks, a keyboard, a terminal and a shell. This directory holds TLA+ modules that
model it, TLC runs that check them on small instances, and TLAPS proofs about the core. Every
definition is translated from the source; `PROJECT.json` (`map`) gives the file and lines of
each.

## The system

| Part | Source | State | Operations | Talks to |
|---|---|---|---|---|
| Process table, scheduler | `drivers/task/task.c`, `arch/i686/context_switch.asm`, process cases of `arch/i686/syscall.c` | `task_table`, the ring `next`, `task_count`, `next_pid`, `current_task`, the saved `esp` of each task | `init_multitasking`, `task_alloc`, `spawn_elf`, `remove_task`, `kill_task`, `schedule`, `unblock_waiter`; SYS_EXIT, SYS_YIELD, SYS_EXEC, SYS_SPAWN, SYS_WAITPID | the timer calls `schedule`; paging supplies `cr3` |
| Kernel heap | `drivers/mm/mm.c` | `free_list`, `heap_cur`, `heap_max`, block headers | `malloc`, `free`, `heap_grow` | takes frames from paging |
| Paging | `drivers/paging/paging.c` | `frame_bitmap`, directories, tables, `current_dir` | `alloc_frame`, `free_frame`, `map_page`, `create_page_directory`, `switch_page_directory` | heap, loader, scheduler |
| ELF loader | `drivers/elf/elf.c` | none of its own | `elf_load` | fills a new directory with frames |
| File system | `drivers/fat32/fat32.c`, `drivers/vfs/vfs.c` | the FAT, directories and files on disk, `fat_cache`, the one `cluster_buf` | read, write, create, delete, delete_recursive, exists, stat, list | ATA |
| ATA driver | `drivers/ata/ata.c` | `drives`, `selected_drive`, the registers of the drive | identify, read and write a sector, by polling | |
| Keyboard | `drivers/kbd/kbd.c` | `shift`, `ctrl`, `extended`, the ring `kbd_buf` | `keyboard_handler` (interrupt), `kbd_get_key` | the terminal's reader |
| Terminal | `drivers/term/*.c` | the cursor | `tty_putchar`, `tty_readline`, `tty_clear` | framebuffer, keyboard |
| Interrupts | `arch/i686/idt.c`, `irq.c`, `isr.c`, `drivers/gdt/gdt.c` | handler tables | `irq_handler_c`, exceptions | scheduler (100 Hz), keyboard |
| Boot | `kmain.c`, `boot/boot_x86.asm` | | three stages, then `spawn_elf("/bin/sh")` with interrupts on | all |
| Framebuffer, text, klib, libc, programs | `drivers/framebuffer`, `drivers/text`, `klib`, `libc`, `programs` | pixels; none | drawing, bytes, wrappers of system calls, the shell | |

What is hard, and what makes each part correct:

* **Tasks.** The timer preempts a program between any two instructions, and the tail of a system
  call after a `context_switch`, which ends in `sti`. `schedule`, SYS_EXIT and SYS_EXEC move
  `current_task`, the saved contexts, `cr3` and the CPU with separate assignments. `task_count`
  is at once the number of tasks and the index of the next free entry, although exits leave
  holes. Correct: whoever runs runs as itself and in its own memory; no live entry is taken; no
  waiter sleeps for ever; nobody starves.
* **Heap.** Splits and joins in any order, second frees, page frames that run out in the middle
  of a growth. Correct: blocks never overlap, no word is lost, and a
  block is as long as its client asked for.
* **File system.** Several writes make one call: the power can go off between them, the disk can
  fill up between them, a cached sector can become stale, one buffer serves several levels of a
  recursion. Correct: chains are disjoint and complete, what is written is what is read, and
  other files stay what they are.
* **Console.** The keyboard's interrupt runs between any two steps of the reader of a line, with
  no lock. Correct: keys come once and in order, one is lost only when the ring is full, none
  waits for ever.
* **Paging, loader.** Frames of dead processes are never given back, `map_page` fails silently,
  a load can fail after any of its pages, and the heap is mapped at virtual addresses from 16 MB
  on, inside the range that is otherwise mapped to itself. Correct: a frame serves one purpose,
  all directories share one kernel, and a process finds in memory what its file says and what it
  wrote.
* **ATA.** Every wait is a loop that counts down, and a drive may answer at its last turn,
  later, with an error, or never. Correct: every call returns, the right drive is written, and a
  sector that reads with success holds what was written last.

## The modules

| Module | Models | Extends or instantiates |
|---|---|---|
| `Tasks` | the process table and one action per kernel entry point | |
| `ShellSystem` | `Tasks` under programs that wait for each child, as `sh.c` does; invariants, fairness, refinement | `Tasks`, `Processes` |
| `AnyProgram` | `Tasks` under programs without that discipline, and SYS_EXEC | `Tasks` |
| `BootRace` | kmain's `spawn_elf`, statement by statement, with the timer on | `Tasks` |
| `Processes` | abstract: live processes, whom each waits for, which one runs | |
| `Paging` | frames, directories and tables as the memory that the CPU walks | |
| `Loader` | `spawn_elf` with `elf_load`, the growth of the heap, the stores of processes | `Paging`, `AddressSpaces` |
| `MCLoader` | values for TLC: two programs and a file that is none | `Loader` |
| `AddressSpaces` | abstract: what each process finds in its pages, and the heap | |
| `Heap` | `malloc`, `free`, `heap_grow` over a limited number of frames | `Allocator` |
| `Allocator` | abstract: disjoint pieces of memory, each as long as its request, held until released | |
| `Fat32` | `fat32.c` as `vfs.c` reaches it | |
| `FatTree` | `Fat32` with the tree that clients see, and the refinement of `Files` | `Fat32`, `Files` |
| `MCFat32` | values for TLC | `FatTree` |
| `Files` | abstract: a tree of files and directories | |
| `Ata` | `ata.c` and the drives it talks to | `SectorStore` |
| `MCAta` | values for TLC: three machines | `Ata` |
| `SectorStore` | abstract: sectors that read back, calls that may fail | |
| `Console` | `kbd.c` and `tty.c`, interrupt by step | `TypeAhead` |
| `MCConsole` | values for TLC | `Console` |
| `TypeAhead` | abstract: a queue of keys that loses one only when it is full, and the hand that takes them | |
| `ShellSystemProofs` | proofs about the tasks | `ShellSystem`, TLAPS |
| `FatCalls`, `FatProofs` | proofs about the file system: chains of clusters, entries, paths and the calls; `delete_recursive`, the invariant and the theorems | `Fat32`, TLAPS; the second extends the first |
| `FatTreeProofs` | proofs about directories without second entries, of the refinement, and of mv | `FatProofs`, `FatTree` |
| `HeapProofs`, `ConsoleProofs`, `AtaProofs`, `LoaderProofs` | proofs | the component, TLAPS |

### Tasks

A `task_t *` is an index of `task_table`; its fields are functions `id`, `state`,
`waiting_for_pid`, `next`, `cr3`. `esp[i]` is not a number but the *context* saved there: whose
it is and where in the program or in a system call it will go on. `cpu` is the context that
runs. `SwitchTo` is `context_switch` with the load of CR3: it saves and loads contexts, so a
switch that saves in the wrong task shows as a process that runs as another. `int 0x80` is an
interrupt gate, so a system call is one step; only SYS_WAITPID has a second one
(`WaitpidReturns`), after the `sti` of `context_switch`. `Walk` is the loop that follows `next`,
a recursive function so that it can be proved about. `create_process`, which nothing calls, is
left out, as is the stack of a task.

`ShellSystem` adds what the shipped programs do: `sh` spawns, then waits for that child, then
goes on. `AnyProgram` drops this discipline; its `ExecSpec` is the part in which programs only
spawn and call SYS_EXEC. In `BootRace` kmain's spawn is three steps between which the timer
fires.

### Heap

Addresses and sizes are words counted from `HEAP_START`; a header is three words. `free_list` is
a sequence; a join takes the one neighbour out of it (`RemoveFirst`), as the code's loop over
the links does. A growth is longer than a header (`HeapAssumption`; 32 KB and 12 bytes in the
code). When the code's recursion after a growth cannot end, `hung` is set, and `Recurse` is the only step left. Clients free what they hold, and may free again what they no longer hold (`magic`
decides). `asked` is a history variable: the size that the caller of `malloc` gave, which the
code does not keep. With it `ImplementsAllocator` says that a grant answers its own request; a
fit test that forgets the header, or is a word short, breaks it. Sizes within 15 bytes of 2^32, whose rounding wraps, are left out.

### Fat32

A cluster is a sequence of rows of 32 bytes, the size of a directory entry; a file's text is
rows too, so sizes and offsets are counted in rows. A path is a sequence of names; `Short` is
what `to_83` makes of a name, so that two names may be one on disk. A call runs with interrupts
off and is one step. It works on a record that holds the disk, the cache and a log of the
writes; crashes are the prefixes of that log. Which sector `fat_cache` holds is
over-approximated by `Load`, which may come at any time. The disk may have fewer clusters than
the FAT has entries: transfers beyond `LastCluster` fail. What a free cluster holds is
forgotten, since the call that takes one writes it before anything is read from it. Three things are coarser than the code: a
cluster is written in one step, not sector by sector; the second copy of the FAT, which the
driver never reads, is left out; and the writes of the FAT itself, whose results `fat_write`
ignores, succeed. A row of text has no name that is looked for, and its bytes, read as a first
cluster, lie beyond FAT_EOC, as ASCII letters do. `.` and `..` in paths and volumes with long
names are left out; so is a call on `/` itself, which no program of the repository makes. The loops of
the code are functions of the number of turns, bounded by the length of the FAT.

`Move` is the program `mv` (`programs/mv.c`): it reads the source, writes the copy and deletes
the source. `MvLosesNothing` says of every reachable disk, and of every two paths of which
neither lies below the other, that the text is found afterwards under the new name if the copy
was written and under the old one if not. Left out of it is one path given twice, or two that
are one on disk: `mv` then deletes the file it has just written. What stood at the target is
lost even if the write fails, and the property does not say otherwise.

### Paging and Loader

A page is `Entries` words, a directory or a table is a page, and an address counts words (1024,
and 4 bytes each, in the code). `mem` is the RAM: what `map_page` writes into a table is what
`Walk`, the CPU, follows. The kernel has no other way to memory: it takes the physical address
of a frame for a virtual one, so `Seen` and `PutPage` go through the tables that are loaded too,
and a frame that they do not map to itself is a page fault (`stopped`) or, in `IdentityMapped`,
somebody else's memory.

| Code | Model |
|---|---|
| `paging_init` | `InitPaging`: kernel, directory and tables in the first frames |
| `create_page_directory`, `elf_check` | `SpawnStart` |
| one turn of `elf_load`'s inner loop | `LoadNewPage`, `LoadOldPage`, `LoadFails` |
| its outer loop | `NextSegment` |
| `task_alloc` and the private page | `SpawnEnd` |
| one turn of `heap_grow`'s loop | `GrowHeap` |
| a program's writes, SYS_EXIT | `Store`, `Exit` |

`spawn_elf` runs with interrupts off, so its loops are steps with nothing of others in between
(`Ready`); they are steps at all because the frames may end at each. `use` is a history
variable: what each frame was taken for. When there is no frame for a directory, `elf_load`
takes address 0 for one; what lies there is the BIOS's, and both outcomes (it fails for want of
another frame, or faults) are allowed.

`FileWord` of `AddressSpaces` lets the last segment that has a word for an address win, as the order
of `elf_load` does; `MCLoader` has two segments that overlap.

`Layout` is what the real layout promises: the tables of the heap exist from the start, as they
do with more than 16 MB of RAM, and programs lie in other slots of the directory. Left out:
`vfs_read` that finds no file (nothing has been taken yet), files longer than the 32767 bytes
that `spawn_elf` reads, the entry point and the stack, flags of entries (all is ring 0), the
TLB, and addresses that wrap at 2^32.

There are two regimes, and each has a run. The heap begins at page 4096, of 8192 that are mapped
to themselves. As long as no frame from 4096 on is taken, the heap's virtual pages collide with
nothing; `MCLoader.cfg` has the heap beyond the frames, which is the same for every access, and
its two machines have all RAM inside the identity mapping, or one frame beyond it. Since a
process's frames are never given back, about ten of them a command, it takes some three hundred
commands until frame 4096 is handed out: `MCLoader_Identity.cfg` is that regime, in which the
kernel reaches the heap where it means a frame.

### Ata

`Driver` is the part of the code: each turn of a polling loop is a step and reads the status
once. `call` says which function runs and where it is: the detection of `ata_identify` at boot,
`ata_select_drive`, `ata_read_sector` or `ata_write_sector`. The drives are external: `Answer`
ends what a drive does at any time, with data, success or an error, or never comes. While a
drive is busy or waits for data it hears nothing that is written to its registers, as in the
emulator that the Makefile starts. A sector is one value, and a transfer of 256 words one step.
What IDENTIFY tells is stored and never read, and is left out.

Four history variables let the properties say when the driver's word counts: `gaveup` (a wait
for data ended while the drive was at work), `deaf` (a register was written that the drive did
not hear), `fault` (a write ended in an error, which `ata_write_sector` does not read), and
`may`, what the caller can know of each sector. A write that failed leaves two values possible
until the sector is read. `DisksAreListed` and `ImplementsSectorStore` speak of the time before
`gaveup` or `deaf`; `WritesStayOnDrive` does not need them. A drive that answers after its
caller has gone leaves the data of one command to the next: that is what the driver does after
`deaf`, and no text of the repository promises more.

### Console

`KeyIrq` is a key going down or up and the first byte of it; `ByteIrq` is the second byte of a
key that sends 0xE0 first. `Handler` is `keyboard_handler`. The reader takes a step for the test
of the ring, one for the copy, one for the advance of `kbd_tail`, one for the event, and two for
the `hlt` (before it, and in it), so that the interrupt comes between any two. `tty_putchar`
touches nothing that the handler touches and is part of its step. A control character is the
pair of the letter and `"ctrl"`, so that Ctrl+J, H and I are the events of Enter, Backspace and
Tab, as in the code. Of the screen, the model keeps what stands to the left of the cursor, and
`cursor_y`. A letter's release does nothing and is no step. There is one reader. `typed` is a
history variable: the event of the last call of `kbd_push_key`, with a bit that every call
turns, so that a key that the ring does not take is a step that `TypeAhead` sees, and allows
only when `Size - 1` keys wait.

## The runs

| Run | Bounds | Shows |
|---|---|---|
| `shell` | 4 tasks, PIDs up to 7 | `TypeOK`, `ContextsAreOwn`, `RingIsTablePrefix`, `NoLostWakeup`, `OwnAddressSpace`, `WokenOnlyByExit`, `ReadyRuns`, `WaiterReturns`, `ImplementsProcesses`, and the inductive invariant `IInv` |
| `count_alive` | 4 tasks, PIDs up to 6 | a parent that exits before its child makes `task_alloc` take the child's entry: `task_count` is not how many live (`task.c:11`) |
| `exec_replaces` | the same as `count_alive` | SYS_EXEC saves the killed caller's context in the new task: the killed program goes on (`syscall.c:113`) |
| `boot_race` | the same as `count_alive` | a tick inside kmain's `spawn_elf` switches to a task that has no context yet |
| `heap` | pages of 4 words, growth of 2 pages, 4 frames, requests of 1, 3 and 6 words | `Tiling` (the blocks and nothing else make up the heap), `MagicIsTrue` (a second free finds no block in use), `ImplementsAllocator` |
| `heap_returns` | pages of 5 words, growth of 2 pages, 5 frames, requests of 1 and 4 words | frames that run out in the middle of `heap_grow` make `malloc` call itself for ever (`mm.c:33`) |
| `fat` | clusters 2 to 5 of two rows, a FAT to 6, two sectors of FAT, three names of which two are one on disk, texts of 0, 1 and 3 rows | `ChainsAreSound`, `EntriesAreFound`, `CacheIsCurrent`, `ReadsTheWindow`, `WriteReadsBack`, `PowerLossKeepsOthers` (of the disk right after the loss, for what lies beside the path of the call), `MvLosesNothing`, `ImplementsFiles` |
| `fat_recursive` | clusters 2 to 5 of four rows | what follows a subdirectory in a directory that is deleted stays allocated (`fat32.c:646`) |
| `loader` | pages of 6 words, 19 or 20 frames of which 6 are taken by the kernel and its tables, three tasks, a heap of up to 2 pages, two programs and a broken file | `FramesHaveOneUse`, `KernelIsShared`, `HolesOnlyWhenFull`, `ImplementsAddressSpaces` |
| `loader_identity` | 22 frames, the heap at page 20 | the kernel's address of a frame is the heap (`paging.c:151`) |
| `ata` | 2 turns of each loop, three machines (two disks; a CD drive and a disk; a drive without a medium), 2 sectors, LBAs 0, 1 and 6 of 2 bits each | `CommandsAreHeard`, `DisksAreListed`, `WritesStayOnDrive`, `ImplementsSectorStore`, `CallsReturn` |
| `console` | a ring of 3, lines of 2 and 3, a screen of 3 columns and 2 rows, eight users with different keys | `ModifiersAreHeld`, `FitsTheBuffer`, `EchoIsTheLine`, `ImplementsTypeAhead`, `KeysAreTaken` |

Why these bounds are enough. With four tasks there is the kernel, a blocked parent, a blocked
child and a running grandchild, and a full table; seven PIDs let each entry be reused. The
heap's sizes make every case of the split and both joins happen, and the second growth runs out
of frames. The disk fills up, a directory grows a second cluster, a text covers two clusters,
and the last entry of the FAT is beyond the disk. Memory has room for two processes, so that
frames run out at every step of a later spawn: at the directory, a page, a table, the private
page; one program has two segments in one page and a header that is not PT_LOAD, the other
begins inside a page and ends, with memory that is not in the file, in the next slot. A loop of
two turns has a turn that is not the last, a last one and the test after it; LBA 6 does not fit
the registers' two bits and falls on sector 2, and LBA 1 is a sector that the disk does not
have. The ring of keys fills up and wraps, a line fills its buffer and wraps around the screen.
`MaxCopies = 1` in `Fat32` keeps `fat32_create` away from an existing empty file, to which it
adds a second entry of the same name; a call for anything else that exists is made, and fails.
With 2, `EntriesAreFound`, `ImplementsFiles` and `MvLosesNothing` fail; the theorems of
`FatProofs` hold for every `MaxCopies`. `Lengths` leaves out a buffer of one byte, in which
Ctrl+L writes two. Both are listed as hazards, and no program of the repository does either.

A run that expects a violation checks one sentence of the repository's comments; the
counterexample is what the code does. They are listed under `findings`.

## Fairness

* `WF_vars(Tick)` in `ShellSystem`: the PIT interrupts 100 times a second for ever, and every
  process runs with interrupts on.
* `SF_vars(WaitpidReturns)`: between the `sti` of `context_switch` and the last assignment of
  SYS_WAITPID there are a few instructions. A tick may fall there once, not in every time slice.
* Programs get no fairness: they may compute for ever.
* `WF_vars(Driver)` in `Ata`: the CPU goes on. Drives and callers get none: a drive may never
  answer, and `CallsReturn` holds because every loop counts down.
* `WF_vars(TimerIrq)` and `WF_vars(Reader)` in `Console`: the timer again, and the scheduler
  that comes back to the reader. Users need not type.

## What is proved

TLAPS proves the following for every value of the constants; the only assumptions are those that
the modules name (`TasksAssumption`, `HeapAssumption`, `ConsoleAssumption`, `AtaAssumption`,
`PagingAssumption`, `LoaderAssumption`, `FatAssumption`), which TLC evaluates in the runs. In each
case an inductive invariant (`IInv`, `FatInv`) is shown to hold at first and to be kept by every
action, one lemma per action, and the properties follow from it.

**Tasks** (`ShellSystemProofs`), for every `MaxTasks > 1` and
every number of PIDs: `TypeCorrectness`; `RunsAsItself` (`ContextsAreOwn`); `RunsInItsMemory`
(`OwnAddressSpace`); `RingStaysCompact` (`RingIsTablePrefix`); `NoWakeupIsLost`; `Refinement`:
`ShellSystem` implements `Processes`; `OnlyExitWakes`. `RingIsTablePrefix` is not inductive: an
exit of any task but the last would leave a hole and break it. It holds because the programs
make the live processes a *chain*: entry `s + 1` holds the child that entry `s` waits for, or is
about to wait for, so only the last entry can spawn or exit. `IInv` says this (`Chained`), with
the ring in table order (`RingInOrder`) and the PIDs ascending (`PidsInOrder`). `schedule`,
`find_task_by_pid` and `remove_task` follow `next`; lemmas say what such a walk over a ring in
order meets, and that the first stop of a search exists. When programs do not keep the
discipline the theorems fail, and the runs over `AnyProgram` show how.

**Heap** (`HeapProofs`), for every size of page, growth, memory and request: `BlocksTile`,
`MagicTells`, `KeepsThePromises` (`Heap` implements `Allocator`: the refinement maps a held
block to its first word, its length and the request in `asked`). `Tiling` needs more than
itself to be kept: the list has no block twice and its headers read as free (`Tells`), so that a
split or a join changes the two blocks it means and no other; sizes have room for a header and a
word; and `heap_max` plus the frames left is within memory, so that a growth stays in bounds.
Each operation on a tiling (growth, split, join) has a lemma of its own about sets and
functions, without the program. The invariant holds after `hung` as well.

**Console** (`ConsoleProofs`), for every size of ring, screen and line: `NoKeySticks`,
`LineFits`, `ScreenShowsTheLine`, `RingIsAQueue` (`Console` implements `TypeAhead`). The
invariant adds where the reader is: what it copied is still in the slot that `kbd_tail` points
to (`Reading`), since the handler never writes that slot; a second byte on the wire finds
`extended` set; the screen to the left of the cursor and the line agree from their ends as far
as both go. The queue of `TypeAhead` is the ring from `kbd_tail` on, and the lemmas about `%`
say how it changes with a push and an advance, and that a ring which takes no event holds
`Size - 1` (`FullArithmetic`).

**Ata** (`AtaProofs`), for every machine, number of polls and set of sectors:
`EveryCommandIsHeard`, `OtherDrivesAreSafe`, `EveryDiskIsListed`, `SectorsReadBack` (`Ata` implements `SectorStore`
until a command is not heard). The invariant says that driver and drives are in step unless the
driver gave up (`InStep`): only the drive that the call waits for is at work, on that command,
except for the end of a write. It says further that a write was sent to the selected drive only
(`WritesAreOurs`), also out of step, since a drive that did not hear the DRIVE register does not
hear the command either; and that what the disk holds, or will hold, is among `may`
(`StoreHolds`). For `DisksAreListed` it says where the detection is: the table holds the disks
among the places tried so far (`Listing`).

**File system** (`FatCalls`, `FatProofs`), for every size of disk, FAT, cluster and
sector, every set of names and paths, and texts of every length: `FatInvHolds`, `TypeCorrect`,
`CacheCurrent`, `ChainsSound` (`ChainsAreSound`), `WindowIsRead` (`ReadsTheWindow`),
`OthersSurvive` (`PowerLossKeepsOthers`) and `WrittenIsRead` (`WriteReadsBack`).
`ChainsAreSound` speaks of the paths that clients name and is not inductive: nothing in it keeps a
lost entry, which no path leads to, from naming a chain in use. `FatInv` speaks of clusters
instead. The FAT is a set of disjoint paths (`Links`: no entry points to a free one or to the root,
and no two to the same). Every entry in a cluster in use has first cluster 0 and size 0, or names
the head of a chain whose readable clusters are enough for its size (`NameHead`); no two entries
name the same chain (`Sound`); `fat_cache` agrees with the FAT. From `Links` alone follows that a
chain ends, is shorter than the FAT and meets no other (`PathLength`, `PathsApart`), and from
`Sound` that a path goes through no directory twice and that two paths that lead to the same
cluster are the same (`WayDistinct`, `PathOnce`).

Each loop of the code is a recursive function over its turns, and `Turns`, `TurnsOnly` and
`SameLoop` say that such a loop goes through the states its turns make; what it computes is then a
lemma by induction over the turns: `FreeChainIs` (`fat_free_chain` frees one chain and nothing
else), `AllocIs`, `FillIs` (each cluster gets its part of the text, or the write fails),
`Skipped` and `Copied` (`fat32_read`). The calls are put together from those lemmas, the ways
they fail included: `WriteFileIs`, `CreateEntryIs`, `DeleteFileIs`. `delete_recursive` is the hard
one: between two steps of it the tree is half gone, one buffer serves all levels, and what it
writes back may be another directory's rows. Its proof keeps a history of the clusters that were read and the rows that were done. The
entries in clusters not yet read (`Live`) stay sound; what the rows of the buffer still name
(`Owes`) and the directories of the calls in progress belong to the deletion alone (`Own`); the
directories on the way to the deleted entry stay what they were (`Kept`); and since every step
adds an event to the history, of which there are finitely many, `DeleteSteps` steps are enough.

What a call leaves alone is said of every single write, so that the power may go off after it.
A guard (`GuardOf`) is the part of the disk that the call on a path must spare (`Spares`): the
clusters of every chain that some path leads to without going through that path, and, of its
directory, all rows that are not free and have another name. Each operation keeps a guard as long
as it takes free clusters and frees chains outside (`GuardFat`, `GuardAdd`, `GuardGone`, ...), and
`PathKept` and `ContentKept` turn a spared disk into the same entries and the same texts.
`WrittenIsRead` adds what the guard leaves open, the directory itself: `Added` says which row
`dir_add_entry` takes, `Hidden` that any entry of that name comes after a row that is free, even
where `fat32_create` made two of them; so the new entry is the one that is found (`AddedFound`),
and its clusters hold the text, page by page (`TextPlaced`).

`PowerLossKeepsOthers` is about the disk right after the loss. The path of the call may then name
a chain that the FAT says is free, which a later call may take; nothing is claimed of that path,
nor of calls after the restart.

`FatTreeProofs` goes on to what clients see, under `MaxCopies = 1`: `TidyInvHolds`,
`EveryEntryIsFound` (`EntriesAreFound`), `FilesImplemented` (`ImplementsFiles`) and
`MvKeepsTheText` (`MvLosesNothing`).
`EntriesAreFound` speaks of the directories that paths lead to, and is not inductive for the
same reason as `ChainsAreSound`; `TidyInv` adds to `FatInv` that *every* chain, a file's or a
lost one's included, has no row before an entry at which the search for that entry would stop
(`Tidy`). Freeing a chain and marking a row can only take entries away (`AllLess`); a new entry
goes into the first row that is free, or into a cluster that was joined to the end of a directory
without such a row (`AddTidy`); and `delete_recursive` writes back no more than what was
there, less some entries, also where it writes the rows of another directory. For the refinement
this gives the direction that a guard does not: what is found after a call was found before it,
unless the call entered it (`StepBack`, `KeptBack`). Below a path that was deleted, overwritten or
just created nothing is found (`NothingBelow`), since a file's clusters hold no entries and a new
directory has none; here `EntryRows` says that a directory's entry has size 0, so that no text is
read as a directory's. With `ContentKept` for the rest of the tree each call maps to `Write`,
`Create` or `Delete` of `Files`, or to no step (`TreeCall`).

`MvKeepsTheText` (`MvLosesNothing`) is about three calls in a row, and about a text that no client
wrote: what mv reads back may hold entries, which a path through the file has put there, and a
copy of them would name chains that have an owner already, so that the disk mv works on need not
satisfy `FatInv`. The proof follows two disks (`Twin`): on the second, zeros are written where
mv writes the text, so that `FatInv` and the lemmas about `fat32_write` and `fat32_delete` hold
of it. The disks have the same FAT and differ in the clusters of the copy alone, as long as every
operation reads and writes beside the copy; that holds of each of them (`TwinFreeChain`,
`TwinDelete`, `TwinAdd`, ...), because on the second disk no path but the new name leads to those
clusters (`CopyBeside`). Then both disks show the same tree but for the copy and what is below it
(`TwinSeen`). In the copy the text stands page by page and is not touched by the deletion of
the source (`CopyKept`, `CopyHasText`); and if the copy fails, its clusters are free again and no
one reads them (`NotMoved`).

**Paging and Loader** (`LoaderProofs`), for every size of page, amount of RAM, set of programs
and number of processes: `TypeCorrectness`; and, as long as no frame is taken in the range of
the heap (`Calm`: the first 16 MB are not used up, the regime of the first run), `OneUse`
(`FramesHaveOneUse`), `SharedKernel` (`KernelIsShared`), `HolesMeanFull` (`HolesOnlyWhenFull`)
and `IdentityBelowTheHeap`: what `loader_identity` refutes holds up to that frame. The
assumptions describe the layout: RAM goes at least one page table's reach beyond the kernel,
programs and the private page lie above all RAM (64 MB at most; `user.ld` begins at 128 MB).
Since the kernel writes tables through the tables that are loaded, "this directory is sound" and
"the kernel reaches what it writes" must be one invariant: `KernelSound` says what kernel_dir
and its tables lead to, `DirSound` that a process's directory has the same kernel part and that
its tables and pages were taken for it, in frames the kernel can reach. `Reach` and `OutOfReach`
turn this into what an access does, and `KernelKeeps` and `DirKeeps` say that both survive any
write that spares directories and tables. A load that is under way is in the invariant too:
`Filled` says that every page up to its place is there, unless all frames are gone. What the proof
rests on besides: nothing calls `free_frame`, and `Store` keeps to the pages that a program owns.

`SpacesAreKept` is the refinement: a behaviour of `Loader` that stays `Calm` is one of
`AddressSpaces` (`ImplementsAddressSpaces`). Its invariant `Kept` adds to `IInv` what is *in* the
pages: processes have PIDs and directories of their own, and a word of the directory that is
being loaded is what the last of the segments copied so far puts there, or zero (`AsLoaded`).
Segments may overlap; `Copies` is the set of those with a word for an address that elf_load has
been through, and `PageCopied`, `HeaderDone` and `NothingCopied` say how it grows with a page,
with a header, and that a page that is not there had no word before, so that clearing it loses
none. All other frames a step writes lie outside the directories, tables and pages of the
processes (`ViewIsKept`, `HeapIsKept`), which is `FramesHaveOneUse` at work; so the loader's steps
are seen by nobody until `SpawnEnd` shows the new process as a whole.

Only model-checked: liveness (`ReadyRuns`, `WaiterReturns`, `KeysAreTaken`, `CallsReturn`),
which is out of the prover's reach. Every invariant and every refinement of the runs is proved.

## Not modelled, and what could come next

Not modelled: segments, framebuffer, text, klib and most wrappers of libc (data without
choices); exceptions other than that they stop the machine; the boot sequence other than its
race; `create_process` and `free_frame`, which nothing calls; what drawing and listing programs
show. Programs other than `sh` and `mv` are sequences of single calls that end in exit, which
`ShellSystem` and `Fat32` allow in any order.

Two behaviours of the code were met that no text of the repository speaks of, and have no run:
`malloc` returns NULL after a growth that was complete but still too small for the request
(`mm.c:94`), and, after SYS_EXIT, `current_task` is the next entry of the ring even if it is
blocked and another one runs (`syscall.c:77`), which the discipline of `ShellSystem` never lets
happen.

What could come next: `Fat32` over `SectorStore` in place of a disk
that always answers, where a FAT sector that cannot be read makes `fat_read` return 0, which
reads as a free cluster.
