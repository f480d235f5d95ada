---------------------------- MODULE LoaderProofs ----------------------------
(***************************************************************************)
(* Proofs about Loader for every layout of memory that its assumptions     *)
(* allow: frames have one use, directories share the kernel, and holes are *)
(* left only when the frames have run out, and processes find in memory    *)
(* what AddressSpaces promises them, as long as no frame is taken whose    *)
(* address is a page of the heap.                                          *)
(***************************************************************************)
EXTENDS Loader, FiniteSetTheorems, TLAPS

\* No frame is taken that the kernel would reach through a page of the heap.
Calm == used \subseteq 0..(HeapStart - 1)

Jobs == [pc : {"idle", "load"}, cr3 : Frames, dir : Frames,
         image : Images \cup {NoImage}, seg : Nat, page : Nat]

\* The program header that elf_load is at begins no later than its page.
JobShape ==
  job.pc = "load" =>
    /\ job.cr3 \in Callers /\ job.seg # 0
    /\ job.seg \in DOMAIN job.image.segs => job.page >= StartPage(Segment)

Accounted ==
  /\ \A f \in Frames : f \in used <=> use[f].as # "free"
  /\ use[KernelDir] = As("kernel", 0, 0)

\* The tables of the kernel, in memory m of frames taken for u, with a heap
\* that ends at top.
Word(m, d, v) == m[m[d][Slot(v)]][Entry(v)]

KernelSound(m, u, top) ==
  /\ \A s \in KernelSlots :
       /\ m[KernelDir][s] \in Frames \ {0, KernelDir} /\ m[KernelDir][s] < Ident
       /\ u[m[KernelDir][s]] = As("kernel", 0, 0)
       /\ \A r \in KernelSlots : m[KernelDir][r] = m[KernelDir][s] => r = s
  /\ \A s \in Index \ KernelSlots : m[KernelDir][s] = 0
  /\ \A v \in Pages : Slot(v) \in KernelSlots =>
       LET w == Word(m, KernelDir, v) IN
       IF v \in HeapStart..(top - 1) THEN w \in Frames \ {0} /\ u[w] = As("page", KernelDir, v)
       ELSE w = IF v \in Identical THEN v ELSE 0

\* The directory d leads to a page for v.
Mapped(m, d, v) == m[d][Slot(v)] # 0 /\ Word(m, d, v) # 0

\* What CR3 needs so that the kernel reaches memory.
Shares(m, d) == \A s \in KernelSlots : m[d][s] = m[KernelDir][s]

\* The directory d of a process, and its tables and pages.
DirSound(m, u, d) ==
  /\ d \in Frames /\ d < Ident /\ u[d] = As("dir", d, 0)
  /\ Shares(m, d)
  /\ \A s \in Index \ KernelSlots : m[d][s] # 0 =>
       m[d][s] \in Frames /\ m[d][s] < Ident /\ u[m[d][s]] = As("table", d, s)
  /\ \A v \in UserPages : Mapped(m, d, v) =>
       /\ Word(m, d, v) \in Frames /\ Word(m, d, v) < Ident /\ v >= total
       /\ u[Word(m, d, v)] = As("page", d, v)

ProcDirs == {procs[p].dir : p \in DOMAIN procs}
Built    == ProcDirs \cup (IF job.pc = "load" THEN {job.dir} ELSE {})

Sound ==
  /\ KernelSound(mem, use, heap_max)
  /\ \A d \in Built : DirSound(mem, use, d)

\* Pages that programs bring, and that are there already.
Present(d, v) == Mapped(mem, d, v) \/ Frames \subseteq used

Filled ==
  ~ stopped =>
    /\ \A p \in DOMAIN procs : \A v \in Brought(procs[p].image) \cup {PrivatePage} :
         Present(procs[p].dir, v)
    /\ job.pc = "load" => \A k \in DOMAIN job.image.segs :
         LET s == job.image.segs[k] IN
         s.load => \A v \in StartPage(s)..(EndPage(s) - 1) :
           k < job.seg \/ (k = job.seg /\ v < job.page) => Present(job.dir, v)

IInv ==
  /\ TypeOK
  /\ Layout
  /\ JobShape
  /\ Accounted
  /\ Calm => Sound /\ Filled

-----------------------------------------------------------------------------
\* Numbers.
LEMMA Numbers ==
  /\ Entries \in Nat \ {0} /\ Kernel \in Nat \ {0} /\ IdentLimit \in Nat /\ HeapStart \in Nat
  /\ HeapPages \in Nat /\ Junk \in Nat /\ Index \subseteq Nat /\ Pages \subseteq Nat
  /\ 0 \in Index /\ 0 \in Pages /\ Index \subseteq Pages
  /\ \A v \in Pages : Slot(v) \in Index /\ Entry(v) \in Index
  /\ \A v, w \in Pages : Slot(v) = Slot(w) /\ Entry(v) = Entry(w) => v = w
<1>1. Entries \in Nat \ {0} /\ Kernel \in Nat \ {0} /\ IdentLimit \in Nat /\ HeapStart \in Nat
      /\ HeapPages \in Nat /\ Junk \in Nat
  BY PagingAssumption, LoaderAssumption
<1>2. \A E \in Nat \ {0} : E * E \in Nat /\ E <= E * E
  OBVIOUS
<1>3. Entries * Entries \in Nat /\ Entries <= Entries * Entries
  BY <1>1, <1>2
<1>4. \A E \in Nat \ {0}, v \in Nat : v \div E \in Nat /\ v % E \in 0..(E - 1)
  OBVIOUS
<1>5. \A E \in Nat \ {0}, v \in Nat : v < E * E => v \div E < E
  OBVIOUS
<1>6. \A E \in Nat \ {0}, v \in Nat, w \in Nat : v \div E = w \div E /\ v % E = w % E => v = w
  OBVIOUS
<1>7. \A v \in Pages : v \in Nat /\ v < Entries * Entries
  BY <1>3 DEF Pages
<1>8. ASSUME NEW v \in Pages PROVE Slot(v) \in Index /\ Entry(v) \in Index
  <2>1. v \in Nat /\ v < Entries * Entries
    BY <1>7
  <2>2. v \div Entries \in Nat /\ v % Entries \in 0..(Entries - 1)
    BY <1>1, <1>4, <2>1
  <2>3. v \div Entries < Entries
    BY <1>1, <1>5, <2>1
  <2> QED
    BY <1>1, <2>2, <2>3 DEF Slot, Entry, Index
<1>9. \A v, w \in Pages : Slot(v) = Slot(w) /\ Entry(v) = Entry(w) => v = w
  BY <1>1, <1>6, <1>7 DEF Slot, Entry
<1>10. Index \subseteq Nat /\ 0 \in Index /\ 0 \in Pages /\ Index \subseteq Pages
  BY <1>1, <1>3 DEF Index, Pages
<1> QED
  BY <1>1, <1>7, <1>8, <1>9, <1>10

\* The sizes of the machine.
LEMMA Sizes ==
  ASSUME total \in Machines
  PROVE  /\ total \in Nat /\ Ident \in Nat /\ Ident <= total
         /\ Kernel + Entries < total /\ Kernel + Entries < Ident
         /\ Frames \subseteq Nat /\ Frames \subseteq Pages /\ 0 \in Frames
         /\ KernelDir \in Frames \ {0} /\ KernelDir < Ident
         /\ \A v \in Pages : v < Ident => v \in Identical
         /\ \A v \in Identical : v \in Pages /\ Slot(v) \in KernelSlots
         /\ \A f \in Frames : f \in Identical => f < Ident
         /\ KernelSlots \subseteq Index
<1>1. total \in Nat /\ Kernel + Entries < total /\ total <= Entries * Entries
  BY PagingAssumption
<1>2. Ident \in Nat /\ Ident <= total /\ Kernel + Entries < Ident /\ Ident <= IdentLimit
  BY <1>1, PagingAssumption DEF Ident
<1>3. Entries * Entries \in Nat
  BY Numbers, <1>1
<1>4. Frames \subseteq Nat /\ Frames \subseteq Pages /\ 0 \in Frames
  BY <1>1, <1>3, Numbers DEF Frames, Pages
<1>5. KernelDir \in Frames \ {0} /\ KernelDir < Ident
  BY <1>1, <1>2, Numbers DEF KernelDir, Frames
<1>6. \A v \in Identical : v \in Pages /\ Slot(v) \in KernelSlots
  BY PagingAssumption DEF Identical, KernelSlots
<1>7. \A f \in Frames : f \in Identical => f < Ident
  BY <1>1, <1>2, PagingAssumption DEF Identical, Frames
<1>8. KernelSlots \subseteq Index
  BY <1>6, Numbers DEF KernelSlots
<1>9. \A v \in Pages : v < Ident => v \in Identical
  BY DEF Identical
<1> QED
  BY <1>1, <1>2, <1>4, <1>5, <1>6, <1>7, <1>8, <1>9

\* What the operators on memory give is memory.
Memory == [Frames -> [Index -> Nat]]
\* Writes to memory keep its words natural numbers.
LEMMA MemoryTypes ==
  ASSUME total \in Machines, NEW m \in Memory, NEW c, NEW f, NEW v, NEW i
  PROVE  /\ Seen(m, c, f) \in [Index -> Nat]
         /\ Zeros \in [Index -> Nat]
         /\ \A page \in [Index -> Nat] : PutPage(m, c, f, page) \in Memory
         /\ \A w \in Nat : PutWord(m, c, f, i, w) \in Memory
<1>1. Seen(m, c, f) \in [Index -> Nat] /\ Zeros \in [Index -> Nat]
  BY Numbers DEF Seen, Memory, Zeros
<1>2. ASSUME NEW page \in [Index -> Nat] PROVE PutPage(m, c, f, page) \in Memory
  BY DEF PutPage, Memory
<1>3. ASSUME NEW w \in Nat PROVE PutWord(m, c, f, i, w) \in Memory
  <2>1. [Seen(m, c, f) EXCEPT ![i] = w] \in [Index -> Nat]
    BY <1>1
  <2> QED
    BY <1>2, <2>1 DEF PutWord
<1> QED
  BY <1>1, <1>2, <1>3

\* So does map_page.
LEMMA MapPageType ==
  ASSUME total \in Machines, NEW m \in Memory, NEW c, NEW d, NEW v, NEW f \in Nat, NEW g \in Nat
  PROVE  MapPage(m, c, d, v, f, g) \in Memory
<1> DEFINE table == Seen(m, c, d)[Slot(v)]
           m1 == PutPage(m, c, g, Zeros)
           m2 == PutWord(m1, c, d, Slot(v), g)
<1>1. PutWord(m, c, table, Entry(v), f) \in Memory
  BY MemoryTypes
<1>2. m1 \in Memory
  BY MemoryTypes
<1>3. m2 \in Memory
  BY <1>2, MemoryTypes
<1>4. PutWord(m2, c, g, Entry(v), f) \in Memory
  BY <1>3, MemoryTypes
<1> QED
  BY <1>1, <1>4 DEF MapPage

-----------------------------------------------------------------------------
(***************************************************************************)
(* What is said of tables stays true when other frames change.             *)
(***************************************************************************)
LEMMA KernelKeeps ==
  ASSUME total \in Machines, NEW m, NEW n, NEW u, NEW w, NEW top,
         KernelSound(m, u, top), n[KernelDir] = m[KernelDir],
         \A h \in Frames : u[h] = As("kernel", 0, 0) => n[h] = m[h],
         \A h \in Frames : u[h].as # "free" => w[h] = u[h]
  PROVE  KernelSound(n, w, top)
<1>1. \A s \in KernelSlots : n[m[KernelDir][s]] = m[m[KernelDir][s]]
  BY DEF KernelSound
<1>2. \A v \in Pages : Slot(v) \in KernelSlots => Word(n, KernelDir, v) = Word(m, KernelDir, v)
  BY <1>1 DEF Word
<1>3. \A h \in Frames : u[h].as \in {"kernel", "page"} => w[h] = u[h]
  OBVIOUS
<1>4. \A x, y : As("kernel", x, y).as = "kernel" /\ As("page", x, y).as = "page"
  BY DEF As
<1> QED
  BY <1>2, <1>3, <1>4 DEF KernelSound

\* A directory stays sound when the frames of directories and tables keep their words.
LEMMA DirKeeps ==
  ASSUME total \in Machines, NEW m, NEW n, NEW u, NEW w, NEW d,
         DirSound(m, u, d), n[KernelDir] = m[KernelDir],
         \A h \in Frames : u[h].as \in {"dir", "table"} => n[h] = m[h],
         \A h \in Frames : u[h].as # "free" => w[h] = u[h]
  PROVE  /\ DirSound(n, w, d)
         /\ \A v \in UserPages : Mapped(m, d, v) => Mapped(n, d, v)
<1>1. \A x, y : /\ As("dir", x, y).as = "dir" /\ As("page", x, y).as = "page"
               /\ As("table", x, y).as = "table"
  BY DEF As
<1>2. n[d] = m[d] /\ w[d] = u[d]
  BY <1>1 DEF DirSound
<1>3. \A s \in Index \ KernelSlots : m[d][s] # 0 => n[m[d][s]] = m[m[d][s]] /\ w[m[d][s]] = u[m[d][s]]
  BY <1>1 DEF DirSound
<1>4. \A v \in UserPages : v \in Pages /\ Slot(v) \in Index \ KernelSlots
  BY DEF UserPages
<1>5. \A v \in UserPages : m[d][Slot(v)] # 0 => Word(n, d, v) = Word(m, d, v)
  BY <1>2, <1>3, <1>4 DEF Word
<1>6. \A v \in UserPages : Mapped(m, d, v) => w[Word(m, d, v)] = u[Word(m, d, v)]
  BY <1>1 DEF DirSound
<1>7. Shares(n, d)
  BY <1>2 DEF DirSound, Shares
<1> QED
  BY <1>2, <1>3, <1>4, <1>5, <1>6, <1>7 DEF DirSound, Mapped

\* The kernel reaches the frame f at its address.
InReach(m, c, f) ==
  /\ Walk(m, c, f) = f
  /\ Seen(m, c, f) = m[f]
  /\ \A page : PutPage(m, c, f, page) = [m EXCEPT ![f] = page]
  /\ \A i, w : PutWord(m, c, f, i, w) = [m EXCEPT ![f] = [m[f] EXCEPT ![i] = w]]

(***************************************************************************)
(* A frame of the range that is mapped to itself is reached at its address *)
(* and another is not reached, as long as the heap is elsewhere.           *)
(***************************************************************************)
LEMMA Reach ==
  ASSUME total \in Machines, NEW m, NEW u, NEW top, NEW c, NEW f \in Frames,
         KernelSound(m, u, top), Shares(m, c), f < HeapStart, f < Ident
  PROVE  InReach(m, c, f)
<1>1. f \in Pages /\ f \in Identical /\ Slot(f) \in KernelSlots /\ f \in Nat
  BY Sizes
<1>2. f \notin HeapStart..(top - 1)
  BY <1>1, Numbers
<1>3. Word(m, KernelDir, f) = f
  BY <1>1, <1>2 DEF KernelSound
<1>4. m[c][Slot(f)] = m[KernelDir][Slot(f)] /\ m[c][Slot(f)] \in Frames \ {0}
  BY <1>1 DEF Shares, KernelSound
<1>5. Walk(m, c, f) = f
  BY <1>3, <1>4 DEF Walk, Word
<1> QED
  BY <1>5 DEF Seen, PutPage, PutWord, InReach

\* A frame below the heap that is not mapped to itself cannot be reached.
LEMMA OutOfReach ==
  ASSUME total \in Machines, NEW m, NEW u, NEW top, NEW c, NEW f \in Frames,
         KernelSound(m, u, top), c # KernelDir => DirSound(m, u, c),
         f < HeapStart, ~ (f < Ident)
  PROVE  Walk(m, c, f) = 0
<1>1. f \in Pages /\ f \notin Identical /\ f \in Nat /\ Slot(f) \in Index
  BY Sizes, Numbers
<1>2. f \notin HeapStart..(top - 1)
  BY <1>1, Numbers
<1>3. f < total
  BY <1>1, Sizes DEF Frames
<1>4. CASE Slot(f) \in KernelSlots
  <2>1. m[c][Slot(f)] = m[KernelDir][Slot(f)]
    BY <1>4 DEF DirSound, Shares
  <2>2. Word(m, KernelDir, f) = 0
    BY <1>1, <1>2, <1>4 DEF KernelSound
  <2> QED
    BY <2>1, <2>2 DEF Walk, Word
<1>5. CASE Slot(f) \notin KernelSlots /\ c = KernelDir
  BY <1>1, <1>5 DEF Walk, KernelSound
<1>6. CASE Slot(f) \notin KernelSlots /\ c # KernelDir
  <2>1. f \in UserPages
    BY <1>1, <1>6 DEF UserPages
  <2>2. m[c][Slot(f)] = 0 \/ Word(m, c, f) = 0
    BY <1>3, <1>6, <2>1, Sizes, <1>1 DEF DirSound, Mapped
  <2> QED
    BY <2>2 DEF Walk, Word
<1> QED
  BY <1>4, <1>5, <1>6

-----------------------------------------------------------------------------
(***************************************************************************)
(* The page v of the directory d gets the frame f, which was free: in a    *)
(* table that is there, and in one in a frame g, which was free too.       *)
(***************************************************************************)
Gets(m, n, u, w, top, d, v) ==
  /\ KernelSound(n, w, top)
  /\ \A c : DirSound(m, u, c) =>
       DirSound(n, w, c) /\ \A x \in UserPages : Mapped(m, c, x) => Mapped(n, c, x)

\* What page v of directory d gets: frame f, with the words of page; no other
\* directory's frames change, and no other page.
Fills(m, n, u, d, v, f, page) ==
  /\ \A h \in Frames :
       u[h].as # "free" /\ (u[h].dir # d \/ u[h].as \in {"kernel", "page"}) => n[h] = m[h]
  /\ \A x \in UserPages : Mapped(n, d, x) =>
       IF x = v THEN Word(n, d, x) = f /\ n[f] = page
       ELSE /\ Mapped(m, d, x) /\ Word(n, d, x) = Word(m, d, x)
            /\ n[Word(m, d, x)] = m[Word(m, d, x)]

\* map_page for a page whose table is there.
LEMMA GetsInTable ==
  ASSUME total \in Machines, NEW m \in Memory, NEW u, NEW top, NEW d, NEW v \in UserPages,
         NEW f \in Frames \ {0}, NEW page \in [Index -> Nat],
         KernelSound(m, u, top), DirSound(m, u, d), u[KernelDir] = As("kernel", 0, 0),
         u[f].as = "free", f < Ident, v >= total, m[d][Slot(v)] # 0,
         NEW n, n = [m EXCEPT ![f] = page,
                              ![m[d][Slot(v)]] = [m[m[d][Slot(v)]] EXCEPT ![Entry(v)] = f]],
         NEW w, w = [h \in Frames |-> IF h = f THEN As("page", d, v) ELSE u[h]]
  PROVE  Gets(m, n, u, w, top, d, v) /\ Mapped(n, d, v) /\ Fills(m, n, u, d, v, f, page)
<1> DEFINE t == m[d][Slot(v)]
<1>1. /\ \A x, y : /\ As("dir", x, y).as = "dir" /\ As("page", x, y).as = "page"
                   /\ As("table", x, y).as = "table" /\ As("kernel", x, y).as = "kernel"
      /\ \A x, y, p, q : As("table", x, y) = As("table", p, q) => x = p /\ y = q
  BY DEF As
<1>2. v \in Pages /\ Slot(v) \in Index \ KernelSlots /\ Entry(v) \in Index
  BY Numbers DEF UserPages
<1>3. t \in Frames /\ u[t] = As("table", d, Slot(v)) /\ t # f
  BY <1>1, <1>2 DEF DirSound
<1>4. \A h \in Frames \ {f, t} : n[h] = m[h]
  BY DEF Memory
<1>5. n[t][Entry(v)] = f /\ \A i \in Index \ {Entry(v)} : n[t][i] = m[t][i]
  BY <1>2, <1>3 DEF Memory
<1>6. \A h \in Frames : u[h].as # "free" => w[h] = u[h]
  OBVIOUS
<1>7. w[f] = As("page", d, v)
  OBVIOUS
<1> HIDE DEF t
<1>8. KernelDir \in Frames /\ n[KernelDir] = m[KernelDir]
  <2>1. u[t].as = "table" /\ u[KernelDir].as = "kernel"
    BY <1>1, <1>3
  <2>2. KernelDir # t /\ KernelDir # f
    BY <2>1
  <2> QED
    BY <1>4, <2>2, Sizes
<1>8a. n[d] = m[d]
  <2>1. d \in Frames /\ u[d].as = "dir"
    BY <1>1 DEF DirSound
  <2>2. u[t].as = "table"
    BY <1>1, <1>3
  <2>3. d # t /\ d # f
    BY <2>1, <2>2
  <2> QED
    BY <1>4, <2>1, <2>3
<1>9. KernelSound(n, w, top)
  <2>1. ASSUME NEW h \in Frames, u[h] = As("kernel", 0, 0) PROVE n[h] = m[h]
    <3>1. u[t].as = "table" /\ u[h].as = "kernel"
      BY <1>1, <1>3, <2>1
    <3>2. h # t /\ h # f
      BY <3>1
    <3> QED
      BY <1>4, <3>2
  <2> QED
    BY <1>6, <1>8, <2>1, KernelKeeps
<1>10. ASSUME NEW c, DirSound(m, u, c)
       PROVE  DirSound(n, w, c) /\ \A x \in UserPages : Mapped(m, c, x) => Mapped(n, c, x)
  <2>1. c \in Frames /\ n[c] = m[c] /\ w[c] = u[c] /\ u[c] = As("dir", c, 0)
    <3>1. c \in Frames /\ u[c] = As("dir", c, 0)
      BY <1>10 DEF DirSound
    <3>2. u[t].as = "table" /\ u[c].as = "dir"
      BY <1>1, <1>3, <3>1
    <3>3. c # t /\ c # f
      BY <3>2
    <3> QED
      BY <1>4, <1>6, <3>1, <3>2, <3>3
  <2>2. Shares(n, c)
    BY <1>8, <1>10, <2>1 DEF DirSound, Shares
  <2>3. \A s \in Index \ KernelSlots : m[c][s] # 0 => w[m[c][s]] = u[m[c][s]]
    BY <1>1, <1>6, <1>10 DEF DirSound
  <2>4. ASSUME NEW x \in UserPages, n[c][Slot(x)] # 0
        PROVE  Word(n, c, x) = Word(m, c, x) \/ (c = d /\ x = v)
    <3>1. x \in Pages /\ Slot(x) \in Index \ KernelSlots /\ Entry(x) \in Index
      BY Numbers DEF UserPages
    <3>2. m[c][Slot(x)] \in Frames /\ u[m[c][Slot(x)]] = As("table", c, Slot(x))
      BY <1>10, <2>1, <2>4, <3>1 DEF DirSound
    <3>3. m[c][Slot(x)] # f
      <4>1. u[m[c][Slot(x)]].as = "table"
        BY <1>1, <3>2
      <4> QED
        BY <4>1
    <3>4. CASE m[c][Slot(x)] = t /\ Entry(x) = Entry(v)
      <4>1. As("table", d, Slot(v)) = As("table", c, Slot(x))
        BY <1>3, <3>2, <3>4
      <4>2. c = d /\ Slot(x) = Slot(v)
        BY <4>1 DEF As
      <4> QED
        BY <1>2, <3>1, <3>4, <4>2, Numbers
    <3>5. CASE ~ (m[c][Slot(x)] = t /\ Entry(x) = Entry(v))
      BY <1>4, <1>5, <2>1, <3>1, <3>2, <3>3, <3>5 DEF Word
    <3> QED
      BY <3>4, <3>5
  <2>5. Word(n, d, v) = f
    BY <1>5, <1>8a DEF Word, t
  <2>6. ASSUME NEW x \in UserPages, Mapped(n, c, x)
        PROVE  /\ Word(n, c, x) \in Frames /\ Word(n, c, x) < Ident /\ x >= total
               /\ w[Word(n, c, x)] = As("page", c, x)
    <3>1. CASE c = d /\ x = v
      BY <1>7, <2>5, <3>1
    <3>2. CASE Word(n, c, x) = Word(m, c, x)
      <4>1. Mapped(m, c, x)
        BY <2>1, <2>6, <3>2 DEF Mapped
      <4>2. u[Word(m, c, x)] = As("page", c, x) /\ Word(m, c, x) \in Frames
        BY <1>10, <4>1 DEF DirSound
      <4>3. w[Word(m, c, x)] = u[Word(m, c, x)]
        BY <1>1, <1>6, <4>2
      <4> QED
        BY <1>10, <3>2, <4>1, <4>3 DEF DirSound
    <3> QED
      BY <2>4, <2>6, <3>1, <3>2 DEF Mapped
  <2>7. ASSUME NEW x \in UserPages, Mapped(m, c, x) PROVE Mapped(n, c, x)
    BY <2>1, <2>4, <2>5, <2>7 DEF Mapped
  <2> QED
    BY <1>10, <2>1, <2>2, <2>3, <2>6, <2>7 DEF DirSound
<1>11. Mapped(n, d, v)
  BY <1>3, <1>5, <1>8a DEF Mapped, Word, t
<1>12. Fills(m, n, u, d, v, f, page)
  <2>1. ASSUME NEW h \in Frames, u[h].as # "free", u[h].dir # d \/ u[h].as \in {"kernel", "page"}
        PROVE  n[h] = m[h]
    <3>1. u[t].dir = d /\ u[t].as = "table"
      BY <1>3 DEF As
    <3> QED
      BY <1>4, <2>1, <3>1
  <2>2. Word(n, d, v) = f /\ n[f] = page
    BY <1>3, <1>5, <1>8a DEF Word, t, Memory
  <2>3. ASSUME NEW x \in UserPages, Mapped(n, d, x), x # v
        PROVE  /\ Mapped(m, d, x) /\ Word(n, d, x) = Word(m, d, x)
               /\ n[Word(m, d, x)] = m[Word(m, d, x)]
    <3>1. x \in Pages /\ Slot(x) \in Index \ KernelSlots /\ Entry(x) \in Index
      BY Numbers DEF UserPages
    <3>2. m[d][Slot(x)] # 0 /\ n[d][Slot(x)] = m[d][Slot(x)]
      BY <1>8a, <2>3 DEF Mapped
    <3>3. m[d][Slot(x)] \in Frames /\ u[m[d][Slot(x)]] = As("table", d, Slot(x))
      BY <3>1, <3>2 DEF DirSound
    <3>4. m[d][Slot(x)] # f
      BY <1>1, <3>3
    <3>5. Word(n, d, x) = Word(m, d, x)
      <4>1. CASE m[d][Slot(x)] = t
        <5>1. Slot(x) = Slot(v)
          BY <1>1, <1>3, <3>3, <4>1
        <5>2. Entry(x) # Entry(v)
          BY <1>2, <2>3, <3>1, <5>1, Numbers
        <5> QED
          BY <1>5, <3>1, <3>2, <4>1, <5>2 DEF Word
      <4>2. CASE m[d][Slot(x)] # t
        BY <1>4, <3>2, <3>3, <3>4, <4>2 DEF Word
      <4> QED
        BY <4>1, <4>2
    <3>6. Mapped(m, d, x)
      BY <2>3, <3>2, <3>5 DEF Mapped
    <3>7. Word(m, d, x) \in Frames /\ u[Word(m, d, x)].as = "page"
      BY <1>1, <3>6 DEF DirSound
    <3>8. Word(m, d, x) # f /\ Word(m, d, x) # t
      <4>1. u[t].as = "table"
        BY <1>1, <1>3
      <4> QED
        BY <3>7, <4>1
    <3> QED
      BY <1>4, <3>5, <3>6, <3>7, <3>8
  <2> QED
    BY <2>1, <2>2, <2>3 DEF Fills
<1> QED
  BY <1>9, <1>10, <1>11, <1>12 DEF Gets

\* map_page for a page that needs a new table.
LEMMA GetsNewTable ==
  ASSUME total \in Machines, NEW m \in Memory, NEW u, NEW top, NEW d, NEW v \in UserPages,
         NEW f \in Frames \ {0}, NEW g \in Frames \ {0, f},
         KernelSound(m, u, top), DirSound(m, u, d), u[KernelDir] = As("kernel", 0, 0),
         u[f].as = "free", f < Ident, u[g].as = "free", g < Ident, v >= total,
         m[d][Slot(v)] = 0,
         NEW n, \A h \in Frames \ {f, g, d} : n[h] = m[h],
         n[d] = [m[d] EXCEPT ![Slot(v)] = g], n[g] = [Zeros EXCEPT ![Entry(v)] = f],
         NEW page, n[f] = page, NEW w, w = [h \in Frames |-> CASE h = f -> As("page", d, v)
                                        [] h = g -> As("table", d, Slot(v))
                                        [] OTHER -> u[h]]
  PROVE  Gets(m, n, u, w, top, d, v) /\ Mapped(n, d, v) /\ Fills(m, n, u, d, v, f, page)
<1>1. \A x, y : /\ As("dir", x, y).as = "dir" /\ As("page", x, y).as = "page"
               /\ As("table", x, y).as = "table" /\ As("kernel", x, y).as = "kernel"
  BY DEF As
<1>2. v \in Pages /\ Slot(v) \in Index \ KernelSlots /\ Entry(v) \in Index
  BY Numbers DEF UserPages
<1>3. d \in Frames /\ u[d].as = "dir" /\ d # f /\ d # g
  BY <1>1 DEF DirSound
<1>4. /\ n[d][Slot(v)] = g /\ \A i \in Index \ {Slot(v)} : n[d][i] = m[d][i]
      /\ n[g][Entry(v)] = f /\ \A i \in Index \ {Entry(v)} : n[g][i] = 0
  BY <1>2, <1>3 DEF Memory, Zeros
<1>5. \A h \in Frames : u[h].as # "free" => w[h] = u[h]
  OBVIOUS
<1>6. w[f] = As("page", d, v) /\ w[g] = As("table", d, Slot(v))
  OBVIOUS
<1>7. KernelDir \in Frames /\ n[KernelDir] = m[KernelDir]
  <2>1. u[KernelDir].as = "kernel"
    BY <1>1
  <2>2. KernelDir \notin {f, g, d}
    BY <1>3, <2>1
  <2> QED
    BY <2>2, Sizes
<1>8. KernelSound(n, w, top)
  <2>1. ASSUME NEW h \in Frames, u[h] = As("kernel", 0, 0) PROVE n[h] = m[h]
    <3>1. u[h].as = "kernel"
      BY <1>1, <2>1
    <3>2. h \notin {f, g, d}
      BY <1>3, <3>1
    <3> QED
      BY <3>2
  <2> QED
    BY <1>5, <1>7, <2>1, KernelKeeps
<1>9. Word(n, d, v) = f /\ Mapped(n, d, v)
  BY <1>4 DEF Word, Mapped
<1>10. ASSUME NEW c, DirSound(m, u, c)
       PROVE  DirSound(n, w, c) /\ \A x \in UserPages : Mapped(m, c, x) => Mapped(n, c, x)
  <2>1. c \in Frames /\ w[c] = u[c] /\ u[c] = As("dir", c, 0) /\ c # f /\ c # g
    <3>1. c \in Frames /\ u[c] = As("dir", c, 0)
      BY <1>10 DEF DirSound
    <3>2. u[c].as = "dir"
      BY <1>1, <3>1
    <3> QED
      BY <1>5, <3>1, <3>2
  <2>2. \A s \in Index : n[c][s] = m[c][s] \/ (c = d /\ s = Slot(v))
    BY <1>4, <2>1
  <2>3. Shares(n, c)
    BY <1>2, <1>7, <1>10, <2>2, Sizes DEF DirSound, Shares
  <2>4. ASSUME NEW s \in Index \ KernelSlots, m[c][s] # 0
        PROVE  /\ m[c][s] \in Frames \ {f, g, d} /\ w[m[c][s]] = u[m[c][s]] /\ n[c][s] = m[c][s]
               /\ n[m[c][s]] = m[m[c][s]]
    <3>1. m[c][s] \in Frames /\ u[m[c][s]] = As("table", c, s)
      BY <1>10, <2>4 DEF DirSound
    <3>2. u[m[c][s]].as = "table"
      BY <1>1, <3>1
    <3>3. m[c][s] \notin {f, g, d}
      BY <1>3, <3>2
    <3> QED
      BY <1>5, <2>2, <2>4, <3>1, <3>2, <3>3
  <2>5. ASSUME NEW s \in Index \ KernelSlots, n[c][s] # 0
        PROVE  n[c][s] \in Frames /\ n[c][s] < Ident /\ w[n[c][s]] = As("table", c, s)
    <3>1. CASE c = d /\ s = Slot(v)
      BY <1>4, <1>6, <3>1
    <3>2. CASE n[c][s] = m[c][s]
      BY <1>10, <2>4, <2>5, <3>2 DEF DirSound
    <3> QED
      BY <2>2, <3>1, <3>2
  <2>6. ASSUME NEW x \in UserPages, Mapped(m, c, x)
        PROVE  Mapped(n, c, x) /\ Word(n, c, x) = Word(m, c, x)
    <3>1. x \in Pages /\ Slot(x) \in Index \ KernelSlots
      BY Numbers DEF UserPages
    <3>2. m[c][Slot(x)] # 0
      BY <2>6 DEF Mapped
    <3> QED
      BY <2>4, <2>6, <3>1, <3>2 DEF Mapped, Word
  <2>7. ASSUME NEW x \in UserPages, Mapped(n, c, x)
        PROVE  Mapped(m, c, x) \/ (c = d /\ x = v)
    <3>1. x \in Pages /\ Slot(x) \in Index \ KernelSlots /\ Entry(x) \in Index
      BY Numbers DEF UserPages
    <3>2. CASE m[c][Slot(x)] # 0
      BY <2>4, <2>7, <3>1, <3>2 DEF Mapped, Word
    <3>3. CASE m[c][Slot(x)] = 0
      <4>1. n[c][Slot(x)] # 0 /\ n[n[c][Slot(x)]][Entry(x)] # 0
        BY <2>7 DEF Mapped, Word
      <4>2. c = d /\ Slot(x) = Slot(v)
        BY <2>2, <3>1, <3>3, <4>1
      <4>3. Entry(x) = Entry(v)
        BY <1>4, <3>1, <4>1, <4>2
      <4> QED
        BY <1>2, <3>1, <4>2, <4>3, Numbers
    <3> QED
      BY <3>2, <3>3
  <2>8. ASSUME NEW x \in UserPages, Mapped(n, c, x)
        PROVE  /\ Word(n, c, x) \in Frames /\ Word(n, c, x) < Ident /\ x >= total
               /\ w[Word(n, c, x)] = As("page", c, x)
    <3>1. CASE c = d /\ x = v
      BY <1>6, <1>9, <3>1
    <3>2. CASE Mapped(m, c, x)
      <4>1. u[Word(m, c, x)] = As("page", c, x) /\ Word(m, c, x) \in Frames
        BY <1>10, <3>2 DEF DirSound
      <4>2. w[Word(m, c, x)] = u[Word(m, c, x)]
        BY <1>1, <1>5, <4>1
      <4> QED
        BY <1>10, <2>6, <3>2, <4>2 DEF DirSound
    <3> QED
      BY <2>7, <2>8, <3>1, <3>2
  <2> QED
    BY <1>10, <2>1, <2>3, <2>5, <2>6, <2>8 DEF DirSound
<1>11. Fills(m, n, u, d, v, f, page)
  <2>1. ASSUME NEW h \in Frames, u[h].as # "free", u[h].dir # d \/ u[h].as \in {"kernel", "page"}
        PROVE  n[h] = m[h]
    <3>1. u[d].dir = d /\ u[d].as = "dir"
      BY DEF DirSound, As
    <3> QED
      BY <2>1, <3>1
  <2>2. ASSUME NEW x \in UserPages, Mapped(n, d, x), x # v
        PROVE  /\ Mapped(m, d, x) /\ Word(n, d, x) = Word(m, d, x)
               /\ n[Word(m, d, x)] = m[Word(m, d, x)]
    <3>1. x \in Pages /\ Slot(x) \in Index \ KernelSlots /\ Entry(x) \in Index
      BY Numbers DEF UserPages
    <3>2. Slot(x) # Slot(v)
      <4> SUFFICES ASSUME Slot(x) = Slot(v) PROVE FALSE
        OBVIOUS
      <4>1. Entry(x) = Entry(v)
        BY <1>4, <2>2, <3>1 DEF Mapped, Word
      <4> QED
        BY <1>2, <2>2, <3>1, <4>1, Numbers
    <3>3. n[d][Slot(x)] = m[d][Slot(x)] /\ m[d][Slot(x)] # 0
      BY <1>4, <2>2, <3>1, <3>2 DEF Mapped
    <3>4. m[d][Slot(x)] \in Frames /\ u[m[d][Slot(x)]].as = "table"
      BY <1>1, <3>1, <3>3 DEF DirSound
    <3>5. Word(n, d, x) = Word(m, d, x)
      BY <1>3, <3>3, <3>4 DEF Word
    <3>6. Mapped(m, d, x)
      BY <2>2, <3>3, <3>5 DEF Mapped
    <3>7. Word(m, d, x) \in Frames /\ u[Word(m, d, x)].as = "page"
      BY <1>1, <3>6 DEF DirSound
    <3> QED
      BY <1>3, <3>5, <3>6, <3>7
  <2> QED
    BY <1>9, <2>1, <2>2 DEF Fills
<1> QED
  BY <1>8, <1>9, <1>10, <1>11 DEF Gets

(***************************************************************************)
(* What NewPage does when no frame is taken beyond HeapStart: a page fault *)
(* of the kernel, or the directory gets the page, or the frames run out.   *)
(***************************************************************************)
LEMMA NewPageSound ==
  ASSUME total \in Machines, mem \in Memory, Accounted, used \subseteq Frames, 0 \in used,
         KernelSound(mem, use, heap_max),
         NEW cr3, Shares(mem, cr3), cr3 # KernelDir => DirSound(mem, use, cr3),
         NEW dir, DirSound(mem, use, dir),
         NEW v \in UserPages, v >= total, NEW f \in Frames \ {0}, f \notin used,
         NEW page \in [Index -> Nat],
         NewPage(cr3, dir, v, f, page), Calm', heap_max' = heap_max
  PROVE  \/ stopped' = TRUE /\ UNCHANGED <<used, mem, use>>
         \/ /\ UNCHANGED stopped
            /\ Gets(mem, mem', use, use', heap_max, dir, v)
            /\ Mapped(mem', dir, v) \/ Frames \subseteq used'
            /\ used \subseteq used'
            /\ Fills(mem, mem', use, dir, v, f, page)
<1> DEFINE m1 == [mem EXCEPT ![f] = page]
<1>1. PICK g \in Frames :
        /\ IF HasTable(mem, cr3, dir, v) THEN g = 0 ELSE IsNext(used \cup {f}, g)
        /\ IF Unreachable(cr3, {f, g})
             THEN stopped' = TRUE /\ UNCHANGED <<used, mem, use>>
             ELSE /\ used' = used \cup {f, g}
                  /\ mem' = MapPage(PutPage(mem, cr3, f, page), cr3, dir, v, f, g)
                  /\ use' = [h \in Frames |-> CASE h = f -> As("page", dir, v)
                                                [] h = g /\ g # 0 -> As("table", dir, Slot(v))
                                                [] OTHER -> use[h]]
                  /\ UNCHANGED stopped
  BY DEF NewPage
<1>2. CASE Unreachable(cr3, {f, g})
  BY <1>1, <1>2
<1>3. CASE ~ Unreachable(cr3, {f, g})
  <2>1. /\ used' = used \cup {f, g}
        /\ mem' = MapPage(PutPage(mem, cr3, f, page), cr3, dir, v, f, g)
        /\ use' = [h \in Frames |-> CASE h = f -> As("page", dir, v)
                                      [] h = g /\ g # 0 -> As("table", dir, Slot(v))
                                      [] OTHER -> use[h]]
        /\ UNCHANGED stopped
    BY <1>1, <1>3
  <2>2. /\ \A x, y : /\ As("dir", x, y).as = "dir" /\ As("page", x, y).as = "page"
                     /\ As("table", x, y).as = "table" /\ As("kernel", x, y).as = "kernel"
        /\ v \in Pages /\ Slot(v) \in Index \ KernelSlots /\ Entry(v) \in Index
    BY Numbers DEF As, UserPages
  <2>3. \A h \in used' : h < HeapStart
    BY Numbers DEF Calm
  <2>4. f < Ident /\ f < HeapStart /\ (g # 0 => g < Ident /\ g < HeapStart)
    <3>1. Walk(mem, cr3, f) # 0 /\ (g # 0 => Walk(mem, cr3, g) # 0)
      BY <1>3 DEF Unreachable
    <3>2. f < HeapStart /\ g < HeapStart
      BY <2>1, <2>3
    <3> QED
      BY <3>1, <3>2, OutOfReach
  <2>5. use[f].as = "free" /\ use[KernelDir] = As("kernel", 0, 0)
    BY DEF Accounted
  <2>6. dir \in Frames /\ use[dir].as = "dir" /\ dir < Ident /\ dir < HeapStart /\ dir # f
    <3>1. dir \in Frames /\ use[dir].as = "dir" /\ dir < Ident
      BY <2>2 DEF DirSound
    <3>2. dir \in used
      BY <3>1 DEF Accounted
    <3> QED
      BY <2>1, <2>3, <3>1, <3>2
  <2>7. HasTable(mem, cr3, dir, v) <=> mem[dir][Slot(v)] # 0
    <3>1. InReach(mem, cr3, dir)
      BY <2>6, Reach
    <3> QED
      BY <3>1 DEF InReach, HasTable
  <2>8. PutPage(mem, cr3, f, page) = m1 /\ m1 \in Memory
    <3>1. InReach(mem, cr3, f)
      BY <2>4, Reach
    <3> QED
      BY <3>1 DEF InReach, Memory
  <2>9. \A h \in Frames : use[h].as # "free" => m1[h] = mem[h]
    BY <2>5 DEF Memory
  <2>9a. m1[f] = page /\ \A h \in Frames \ {f} : m1[h] = mem[h]
    BY DEF Memory
  <2> HIDE DEF m1
  <2>10. KernelDir \in Frames /\ m1[KernelDir] = mem[KernelDir] /\ use[KernelDir].as = "kernel"
    BY <2>2, <2>5, <2>9, Sizes
  <2>11. KernelSound(m1, use, heap_max)
    <3>1. \A h \in Frames : use[h] = As("kernel", 0, 0) => m1[h] = mem[h]
      BY <2>2, <2>9
    <3> QED
      BY <2>10, <3>1, KernelKeeps
  <2>12. \A c : DirSound(mem, use, c) =>
           DirSound(m1, use, c) /\ \A x \in UserPages : Mapped(mem, c, x) => Mapped(m1, c, x)
    <3>1. \A h \in Frames : use[h].as \in {"dir", "table"} => m1[h] = mem[h]
      BY <2>9
    <3>2. \A h \in Frames : use[h].as # "free" => use[h] = use[h]
      OBVIOUS
    <3> QED
      BY <2>10, <3>1, <3>2, DirKeeps
  <2>13. Shares(m1, cr3)
    BY <2>10, <2>12 DEF DirSound, Shares
  <2>14. Seen(m1, cr3, dir) = mem[dir]
    <3>1. Seen(m1, cr3, dir) = m1[dir]
      <4>1. InReach(m1, cr3, dir)
        BY <2>6, <2>11, <2>13, Reach
      <4> QED
        BY <4>1 DEF InReach
    <3> QED
      BY <2>6, <2>9, <3>1
  <2>15. CASE mem[dir][Slot(v)] # 0
    <3> DEFINE t == mem[dir][Slot(v)]
    <3>1. g = 0
      BY <1>1, <2>7, <2>15
    <3>2. t \in Frames /\ t < Ident /\ use[t].as = "table"
      BY <2>2, <2>15 DEF DirSound
    <3>3. t < HeapStart
      <4>1. t \in used
        BY <3>2 DEF Accounted
      <4> QED
        BY <2>1, <2>3, <4>1
    <3>4. mem' = PutWord(m1, cr3, t, Entry(v), f)
      BY <2>1, <2>8, <2>14, <2>15 DEF MapPage
    <3>5. mem' = [m1 EXCEPT ![t] = [m1[t] EXCEPT ![Entry(v)] = f]]
      <4>1. InReach(m1, cr3, t)
        BY <2>11, <2>13, <3>2, <3>3, Reach
      <4> QED
        BY <3>4, <4>1 DEF InReach
    <3>6. mem' = [mem EXCEPT ![f] = page, ![t] = [mem[t] EXCEPT ![Entry(v)] = f]]
      BY <2>9, <3>2, <3>5 DEF m1
    <3>7. use' = [h \in Frames |-> IF h = f THEN As("page", dir, v) ELSE use[h]]
      BY <2>1, <3>1
    <3>8. Gets(mem, mem', use, use', heap_max, dir, v) /\ Mapped(mem', dir, v)
          /\ Fills(mem, mem', use, dir, v, f, page)
      BY <2>4, <2>5, <2>15, <3>6, <3>7, GetsInTable
    <3> QED
      BY <2>1, <3>8
  <2>16. CASE mem[dir][Slot(v)] = 0 /\ g # 0
    <3> DEFINE m2 == [m1 EXCEPT ![g] = Zeros]
               m3 == [m2 EXCEPT ![dir] = [m2[dir] EXCEPT ![Slot(v)] = g]]
    <3>1. g \in Frames \ (used \cup {f})
      BY <1>1, <2>7, <2>16 DEF IsNext
    <3>2. use[g].as = "free" /\ g # f /\ g # dir
      BY <2>6, <3>1 DEF Accounted
    <3>3. PutPage(m1, cr3, g, Zeros) = m2 /\ m2 \in Memory
      <4>1. InReach(m1, cr3, g)
        BY <2>4, <2>11, <2>13, <2>16, Reach
      <4>2. Zeros \in [Index -> Nat]
        BY Numbers DEF Zeros
      <4> QED
        BY <2>8, <4>1, <4>2 DEF InReach, Memory
    <3>4. \A h \in Frames \ {g} : m2[h] = m1[h]
      BY <2>8 DEF Memory
    <3>5. m2[g] = Zeros
      BY <2>8, <2>16 DEF Memory
    <3> HIDE DEF m2
    <3>6. KernelSound(m2, use, heap_max) /\ m2[KernelDir] = mem[KernelDir]
      <4>1. m2[KernelDir] = m1[KernelDir]
        BY <2>10, <3>2, <3>4
      <4>2. \A h \in Frames : use[h] = As("kernel", 0, 0) => m2[h] = m1[h]
        BY <2>2, <3>2, <3>4
      <4> QED
        BY <2>10, <2>11, <4>1, <4>2, KernelKeeps
    <3>7. Shares(m2, cr3)
      <4>1. CASE cr3 = KernelDir
        BY <4>1 DEF Shares
      <4>2. CASE cr3 # KernelDir
        <5>1. cr3 \in Frames /\ use[cr3].as = "dir"
          BY <2>2, <4>2 DEF DirSound
        <5>2. m2[cr3] = mem[cr3]
          BY <2>9, <3>2, <3>4, <5>1
        <5> QED
          BY <3>6, <5>2 DEF Shares
      <4> QED
        BY <4>1, <4>2
    <3>8. PutWord(m2, cr3, dir, Slot(v), g) = m3
      <4>1. InReach(m2, cr3, dir)
        BY <2>6, <3>6, <3>7, Reach
      <4> QED
        BY <4>1 DEF InReach
    <3>9. \A h \in Frames \ {dir} : m3[h] = m2[h]
      BY <3>3 DEF Memory
    <3>10. m3[dir] = [mem[dir] EXCEPT ![Slot(v)] = g]
      BY <2>6, <2>9, <3>2, <3>3, <3>4 DEF Memory
    <3>11. m3 \in Memory
      <4>1. g \in Nat
        BY Sizes
      <4>2. [m2[dir] EXCEPT ![Slot(v)] = g] \in [Index -> Nat]
        BY <2>6, <3>3, <4>1 DEF Memory
      <4> QED
        BY <3>3, <4>2 DEF Memory
    <3> HIDE DEF m3
    <3>12. KernelSound(m3, use, heap_max) /\ m3[KernelDir] = mem[KernelDir]
      <4>1. m3[KernelDir] = m2[KernelDir]
        BY <2>6, <2>10, <3>9
      <4>2. \A h \in Frames : use[h] = As("kernel", 0, 0) => m3[h] = m2[h]
        BY <2>2, <2>6, <3>9
      <4> QED
        BY <3>6, <4>1, <4>2, KernelKeeps
    <3>13. Shares(m3, cr3)
      <4>1. CASE cr3 = KernelDir
        BY <4>1 DEF Shares
      <4>2. CASE cr3 # KernelDir
        <5>1. cr3 \in Frames
          BY <4>2 DEF DirSound
        <5>2. \A s \in KernelSlots : m3[cr3][s] = m2[cr3][s]
          <6>1. CASE cr3 = dir
            <7>1. m2[dir] = mem[dir] /\ mem[dir] \in [Index -> Nat]
              BY <2>6, <2>9, <3>2, <3>4 DEF Memory
            <7> QED
              BY <2>2, <3>10, <6>1, <7>1, Sizes
          <6>2. CASE cr3 # dir
            BY <3>9, <5>1, <6>2
          <6> QED
            BY <6>1, <6>2
        <5> QED
          BY <3>6, <3>7, <3>12, <5>2 DEF Shares
      <4> QED
        BY <4>1, <4>2
    <3>14. mem' = PutWord(m3, cr3, g, Entry(v), f)
      BY <2>1, <2>8, <2>14, <2>16, <3>3, <3>8 DEF MapPage
    <3>15. mem' = [m3 EXCEPT ![g] = [m3[g] EXCEPT ![Entry(v)] = f]]
      <4>1. InReach(m3, cr3, g)
        BY <2>4, <2>16, <3>12, <3>13, Reach
      <4> QED
        BY <3>14, <4>1 DEF InReach
    <3>16. /\ mem'[g] = [Zeros EXCEPT ![Entry(v)] = f]
           /\ mem'[dir] = [mem[dir] EXCEPT ![Slot(v)] = g]
           /\ \A h \in Frames \ {f, g, dir} : mem'[h] = mem[h]
           /\ mem'[f] = page
      <4>1. m3[g] = Zeros
        BY <3>2, <3>5, <3>9
      <4>2. mem'[g] = [m3[g] EXCEPT ![Entry(v)] = f] /\ \A h \in Frames \ {g} : mem'[h] = m3[h]
        BY <3>11, <3>15 DEF Memory
      <4> QED
        BY <2>6, <2>9a, <3>2, <3>4, <3>9, <3>10, <4>1, <4>2
    <3>17. use' = [h \in Frames |-> CASE h = f -> As("page", dir, v)
                                      [] h = g -> As("table", dir, Slot(v))
                                      [] OTHER -> use[h]]
      BY <2>1, <2>16
    <3>18. Gets(mem, mem', use, use', heap_max, dir, v) /\ Mapped(mem', dir, v)
           /\ Fills(mem, mem', use, dir, v, f, page)
      <4>1. g \in Frames \ {0, f}
        BY <2>16, <3>2
      <4> QED
        BY <2>4, <2>5, <2>16, <3>2, <3>16, <3>17, <4>1, GetsNewTable
    <3> QED
      BY <2>1, <3>18
  <2>17. CASE mem[dir][Slot(v)] = 0 /\ g = 0
    <3>1. Frames \subseteq used'
      BY <1>1, <2>1, <2>7, <2>17 DEF IsNext
    <3>2. mem' = m1
      BY <2>1, <2>8, <2>14, <2>17 DEF MapPage
    <3>3. \A h \in Frames : use[h].as # "free" => use'[h] = use[h]
      BY <2>1, <2>5, <2>17
    <3>4. Gets(mem, mem', use, use', heap_max, dir, v)
      <4>1. \A h \in Frames : use[h] = As("kernel", 0, 0) => m1[h] = mem[h]
        BY <2>2, <2>9
      <4>2. KernelSound(m1, use', heap_max)
        BY <2>10, <3>3, <4>1, KernelKeeps
      <4>3. \A c : DirSound(mem, use, c) =>
              DirSound(m1, use', c) /\ \A x \in UserPages : Mapped(mem, c, x) => Mapped(m1, c, x)
        <5>1. \A h \in Frames : use[h].as \in {"dir", "table"} => m1[h] = mem[h]
          BY <2>9
        <5>2. m1[KernelDir] = mem[KernelDir]
          BY <2>10
        <5> QED
          BY <3>3, <5>1, <5>2, DirKeeps
      <4> QED
        BY <3>2, <4>2, <4>3 DEF Gets
    <3>5. Fills(mem, mem', use, dir, v, f, page)
      <4>1. \A h \in Frames : use[h].as # "free" => mem'[h] = mem[h]
        BY <2>9, <3>2
      <4>2. mem'[dir] = mem[dir] /\ mem[dir][Slot(v)] = 0
        BY <2>6, <2>17, <4>1, <2>2
      <4>3. ASSUME NEW x \in UserPages, Mapped(mem', dir, x)
            PROVE  /\ x # v /\ Mapped(mem, dir, x) /\ Word(mem', dir, x) = Word(mem, dir, x)
                   /\ mem'[Word(mem, dir, x)] = mem[Word(mem, dir, x)]
        <5>1. x \in Pages /\ Slot(x) \in Index \ KernelSlots
          BY Numbers DEF UserPages
        <5>2. mem[dir][Slot(x)] # 0 /\ x # v
          BY <4>2, <4>3 DEF Mapped
        <5>3. mem[dir][Slot(x)] \in Frames /\ use[mem[dir][Slot(x)]].as # "free"
          BY <2>2, <5>1, <5>2 DEF DirSound
        <5>4. Word(mem', dir, x) = Word(mem, dir, x)
          BY <4>1, <4>2, <5>3 DEF Word
        <5>5. Mapped(mem, dir, x)
          BY <4>3, <5>2, <5>4 DEF Mapped
        <5>6. Word(mem, dir, x) \in Frames /\ use[Word(mem, dir, x)].as # "free"
          BY <2>2, <5>5 DEF DirSound
        <5> QED
          BY <4>1, <5>2, <5>4, <5>5, <5>6
      <4> QED
        BY <4>1, <4>3 DEF Fills
    <3> QED
      BY <2>1, <3>1, <3>4, <3>5
  <2> QED
    BY <2>15, <2>16, <2>17
<1> QED
  BY <1>2, <1>3

-----------------------------------------------------------------------------
(***************************************************************************)
(* The machine stays what it is.                                           *)
(***************************************************************************)
LEMMA Same ==
  ASSUME total' = total
  PROVE  /\ Frames' = Frames /\ Ident' = Ident /\ Identical' = Identical
         /\ KernelSlots' = KernelSlots /\ UserPages' = UserPages /\ Layout' = Layout
<1>1. Frames' = Frames /\ Ident' = Ident
  BY DEF Frames, Ident
<1>2. Identical' = Identical
  BY <1>1 DEF Identical
<1>3. KernelSlots' = KernelSlots
  BY <1>2 DEF KernelSlots
<1> QED
  BY <1>1, <1>2, <1>3 DEF UserPages, Layout

\* Sound in the next state, spelled out.
LEMMA SoundNext ==
  ASSUME total' = total, KernelSound(mem', use', heap_max'),
         \A d \in Built' : DirSound(mem', use', d)
  PROVE  Sound'
<1>1. KernelSound(mem, use, heap_max)'
  BY Same DEF KernelSound, Word
<1>2. ASSUME NEW d, DirSound(mem', use', d) PROVE DirSound(mem, use, d)'
  BY <1>2, Same DEF DirSound, Shares, Mapped, Word
<1> QED
  BY <1>1, <1>2 DEF Sound

\* Filled in the next state, spelled out.
LEMMA FilledNext ==
  ASSUME total' = total,
         ~ stopped' =>
           /\ \A p \in DOMAIN procs' : \A v \in Brought(procs'[p].image) \cup {PrivatePage} :
                Mapped(mem', procs'[p].dir, v) \/ Frames \subseteq used'
           /\ job'.pc = "load" => \A k \in DOMAIN job'.image.segs :
                job'.image.segs[k].load =>
                  \A v \in StartPage(job'.image.segs[k])..(EndPage(job'.image.segs[k]) - 1) :
                    k < job'.seg \/ (k = job'.seg /\ v < job'.page) =>
                      Mapped(mem', job'.dir, v) \/ Frames \subseteq used'
  PROVE  Filled'
BY Same DEF Filled, Present, Mapped, Word

\* Every page that a program brings is above all RAM, in a slot of its own.
LEMMA ProgramsAbove ==
  ASSUME total \in Machines, Layout, NEW image \in Images,
         NEW v \in Brought(image) \cup {PrivatePage}
  PROVE  v \in Pages /\ v \in UserPages /\ v >= total
<1>1. v \in Pages /\ v >= total
  BY LoaderAssumption DEF ProgramPages
<1>2. Slot(v) \notin KernelSlots
  BY DEF Layout, ProgramPages
<1> QED
  BY <1>1, <1>2, Numbers DEF UserPages

(***************************************************************************)
(* What changes neither memory nor its uses.                               *)
(***************************************************************************)
LEMMA MemoryStays ==
  ASSUME IInv, UNCHANGED <<total, used, mem, use, heap_max>>
  PROVE  /\ Layout' /\ Accounted' /\ Calm' = Calm
         /\ Calm => \A d \in Built : DirSound(mem', use', d)
         /\ Calm /\ Built' \subseteq Built => Sound'
         /\ TypeOK' <=> /\ next_pid' \in Nat
                        /\ \A p \in DOMAIN procs' : procs'[p].dir \in Frames /\ procs'[p].image \in Images
                        /\ job' \in Jobs
                        /\ job'.pc = "idle" => job' = Idle
                        /\ job'.pc = "load" => job'.image \in Images
                        /\ stopped' \in BOOLEAN
<1>1. Layout' /\ Accounted' /\ Calm' = Calm
  BY Same DEF IInv, Accounted, Calm
<1>2. Calm => \A d \in Built : DirSound(mem', use', d)
  BY DEF IInv, Sound
<1>3. Calm => KernelSound(mem', use', heap_max')
  BY DEF IInv, Sound
<1>4. Calm /\ Built' \subseteq Built => Sound'
  BY <1>2, <1>3, SoundNext
<1> QED
  BY <1>1, <1>2, <1>4, Same DEF IInv, TypeOK, Uses, Jobs

\* The pages of a segment.
LEMMA SegmentFacts ==
  ASSUME NEW image \in Images
  PROVE  /\ DOMAIN image.segs \subseteq Nat
         /\ \A k \in DOMAIN image.segs :
              /\ image.segs[k] \in Segments
              /\ StartPage(image.segs[k]) \in Nat /\ EndPage(image.segs[k]) \in Nat
<1>1. image.segs \in Seq(Segments)
  BY LoaderAssumption
<1>2. DOMAIN image.segs = 1..Len(image.segs) /\ \A k \in DOMAIN image.segs : image.segs[k] \in Segments
  BY <1>1
<1>3. \A E \in Nat \ {0}, n \in Nat : n \div E \in Nat
  OBVIOUS
<1>4. ASSUME NEW s \in Segments PROVE StartPage(s) \in Nat /\ EndPage(s) \in Nat
  <2>1. s.vaddr \in Nat /\ s.memsz \in Nat /\ Entries \in Nat \ {0}
    BY Numbers DEF Segments
  <2>2. s.vaddr + s.memsz + Entries - 1 \in Nat
    BY <2>1
  <2> QED
    BY <1>3, <2>1, <2>2 DEF StartPage, EndPage
<1> QED
  BY <1>1, <1>2, <1>4

-----------------------------------------------------------------------------
\* A process ends.
LEMMA ExitStep == ASSUME IInv, NEW p \in DOMAIN procs, Exit(p) PROVE IInv'
<1>1. /\ UNCHANGED <<total, used, mem, use, heap_max>> /\ job' = job /\ stopped' = stopped
      /\ next_pid' = next_pid /\ job.pc = "idle"
      /\ procs' = [q \in DOMAIN procs \ {p} |-> procs[q]]
  BY DEF Exit, Ready
<1>2. DOMAIN procs' \subseteq DOMAIN procs /\ \A q \in DOMAIN procs' : procs'[q] = procs[q]
  BY <1>1
<1>3. Layout' /\ Accounted' /\ Calm' = Calm
  BY <1>1, MemoryStays
<1>4. TypeOK'
  BY <1>1, <1>2, MemoryStays DEF IInv, TypeOK, Jobs
<1>5. JobShape'
  BY <1>1 DEF JobShape
<1>6. ASSUME Calm PROVE Sound' /\ Filled'
  <2>1. Built' \subseteq Built
    BY <1>1, <1>2 DEF Built, ProcDirs
  <2>2. Filled'
    BY <1>1, <1>2, <1>6, FilledNext DEF IInv, Filled, Present
  <2> QED
    BY <1>1, <1>6, <2>1, <2>2, MemoryStays
<1> QED
  BY <1>3, <1>4, <1>5, <1>6 DEF IInv

\* elf_load gives up.
LEMMA LoadFailsStep == ASSUME IInv, LoadFails PROVE IInv'
<1>1. /\ UNCHANGED <<total, used, mem, use, heap_max>> /\ job' = Idle /\ stopped' = stopped
      /\ next_pid' = next_pid /\ procs' = procs
  BY DEF LoadFails
<1>2. Idle \in Jobs /\ Idle.pc = "idle"
  BY Sizes DEF IInv, TypeOK, Idle, Jobs
<1>3. Layout' /\ Accounted' /\ Calm' = Calm
  BY <1>1, MemoryStays
<1>4. TypeOK'
  BY <1>1, <1>2, MemoryStays DEF IInv, TypeOK
<1>5. JobShape'
  BY <1>1, <1>2 DEF JobShape
<1>6. ASSUME Calm PROVE Sound' /\ Filled'
  <2>1. Built' \subseteq Built
    BY <1>1, <1>2 DEF Built, ProcDirs
  <2>2. Filled'
    BY <1>1, <1>2, <1>6, FilledNext DEF IInv, Filled, Present
  <2> QED
    BY <1>1, <1>6, <2>1, <2>2, MemoryStays
<1> QED
  BY <1>3, <1>4, <1>5, <1>6 DEF IInv

\* elf_load goes on to the next header.
LEMMA NextSegmentStep == ASSUME IInv, NextSegment PROVE IInv'
<1> DEFINE k == job.seg
<1>1. /\ UNCHANGED <<total, used, mem, use, heap_max>> /\ stopped' = stopped
      /\ next_pid' = next_pid /\ procs' = procs
      /\ job.pc = "load" /\ k \in DOMAIN job.image.segs
      /\ ~ (job.image.segs[k].load /\ job.page < EndPage(job.image.segs[k]))
      /\ job' = [job EXCEPT !.seg = k + 1, !.page = PageAt(job.image, k + 1)]
  BY DEF NextSegment, Segment
<1>2. job \in Jobs /\ job.image \in Images /\ k \in Nat
  BY <1>1 DEF IInv, TypeOK, Jobs
<1>3. /\ job'.pc = "load" /\ job'.cr3 = job.cr3 /\ job'.dir = job.dir /\ job'.image = job.image
      /\ job'.seg = k + 1 /\ job'.page = PageAt(job.image, k + 1)
  BY <1>1, <1>2 DEF Jobs
<1>4. PageAt(job.image, k + 1) \in Nat
  BY <1>2, SegmentFacts DEF PageAt
<1>5. Layout' /\ Accounted' /\ Calm' = Calm
  BY <1>1, MemoryStays
<1>6. TypeOK'
  <2>1. job' \in Jobs
    <3>1. k + 1 \in Nat
      BY <1>2
    <3> QED
      BY <1>1, <1>2, <1>4, <3>1 DEF Jobs
  <2> QED
    BY <1>1, <1>2, <1>3, <2>1, MemoryStays DEF IInv, TypeOK
<1>7. JobShape'
  <2>1. Callers' = Callers
    BY <1>1 DEF Callers
  <2>2. k + 1 \in DOMAIN job.image.segs => PageAt(job.image, k + 1) >= StartPage(job.image.segs[k + 1])
    BY <1>2, SegmentFacts DEF PageAt
  <2> QED
    BY <1>1, <1>2, <1>3, <2>1, <2>2 DEF IInv, JobShape, Segment
<1>8. ASSUME Calm PROVE Sound' /\ Filled'
  <2>1. Built' \subseteq Built
    BY <1>1, <1>3 DEF Built, ProcDirs
  <2>2. ASSUME ~ stopped, NEW j \in DOMAIN job.image.segs, job.image.segs[j].load,
               NEW v \in StartPage(job.image.segs[j])..(EndPage(job.image.segs[j]) - 1),
               j < k + 1 \/ (j = k + 1 /\ v < PageAt(job.image, k + 1))
        PROVE  Present(job.dir, v)
    <3>1. j \in Nat /\ v \in Nat /\ StartPage(job.image.segs[j]) \in Nat /\ EndPage(job.image.segs[j]) \in Nat
      BY <1>2, SegmentFacts
    <3>2. j < k \/ j = k
      <4>1. j = k + 1 => PageAt(job.image, k + 1) = StartPage(job.image.segs[j])
        BY DEF PageAt
      <4> QED
        BY <1>2, <2>2, <3>1, <4>1
    <3>3. j = k => v < job.page
      BY <1>1, <1>2, <2>2, <3>1 DEF Jobs
    <3> QED
      BY <1>1, <1>8, <2>2, <3>2, <3>3 DEF IInv, Filled
  <2>3. Filled'
    <3>1. ~ stopped' => \A p \in DOMAIN procs' : \A v \in Brought(procs'[p].image) \cup {PrivatePage} :
            Mapped(mem', procs'[p].dir, v) \/ Frames \subseteq used'
      BY <1>1, <1>8 DEF IInv, Filled, Present
    <3>2. ~ stopped' => \A j \in DOMAIN job.image.segs : job.image.segs[j].load =>
            \A v \in StartPage(job.image.segs[j])..(EndPage(job.image.segs[j]) - 1) :
              j < k + 1 \/ (j = k + 1 /\ v < PageAt(job.image, k + 1)) =>
                Mapped(mem', job.dir, v) \/ Frames \subseteq used'
      BY <1>1, <2>2 DEF Present
    <3> QED
      BY <1>1, <1>3, <3>1, <3>2, FilledNext
  <2> QED
    BY <1>1, <1>8, <2>1, <2>3, MemoryStays
<1> QED
  BY <1>5, <1>6, <1>7, <1>8 DEF IInv

(***************************************************************************)
(* The loop of elf_load goes on by a page.                                 *)
(***************************************************************************)
LEMMA CallerFacts ==
  ASSUME IInv, Calm, NEW c \in Callers
  PROVE  Shares(mem, c) /\ (c # KernelDir => DirSound(mem, use, c))
<1>1. c = KernelDir \/ c \in Built
  BY DEF Callers, Built, ProcDirs
<1>2. c \in Built => DirSound(mem, use, c)
  BY DEF IInv, Sound
<1> QED
  BY <1>1, <1>2 DEF DirSound, Shares

\* A frame with a use is taken, and lies below the heap.
LEMMA InUse ==
  ASSUME IInv, Calm, NEW f \in Frames, use[f].as # "free"
  PROVE  f \in used /\ f \in Nat /\ f < HeapStart
<1>1. f \in used
  BY DEF IInv, Accounted
<1> QED
  BY <1>1, Numbers DEF Calm

\* elf_load goes on to the next page of a segment.
LEMMA Advances ==
  ASSUME IInv, InSegment, job' = [job EXCEPT !.page = @ + 1], procs' = procs
  PROVE  /\ job'.pc = "load" /\ job'.cr3 = job.cr3 /\ job'.dir = job.dir
         /\ job'.image = job.image /\ job'.seg = job.seg /\ job'.page = job.page + 1
         /\ job' \in Jobs /\ JobShape' /\ Built' = Built
         /\ job.pc = "load" /\ ~ stopped /\ job.image \in Images /\ Segment \in Segments
         /\ job.dir \in Built /\ job.dir \in Frames /\ job.cr3 \in Callers
         /\ job.page \in Nat /\ job.page \in Pages /\ job.page \in UserPages /\ job.page >= total
         /\ job.page # PrivatePage /\ job.seg \in DOMAIN job.image.segs /\ Segment.load
<1>1. /\ job.pc = "load" /\ ~ stopped /\ job.seg \in DOMAIN job.image.segs
      /\ Segment = job.image.segs[job.seg] /\ Segment.load /\ job.page < EndPage(Segment)
  BY DEF InSegment, Segment
<1>2. job \in Jobs /\ job.image \in Images /\ job.page \in Nat /\ job.dir \in Frames
  BY <1>1 DEF IInv, TypeOK, Jobs
<1>3. job'.pc = "load" /\ job'.cr3 = job.cr3 /\ job'.dir = job.dir /\ job'.image = job.image
      /\ job'.seg = job.seg /\ job'.page = job.page + 1
  BY <1>1, <1>2 DEF Jobs
<1>4. job.page + 1 \in Nat
  BY <1>2
<1>5. job' \in Jobs
  BY <1>2, <1>4 DEF Jobs
<1>6. Segment \in Segments /\ StartPage(Segment) \in Nat /\ EndPage(Segment) \in Nat
  BY <1>1, <1>2, SegmentFacts
<1>7. job.page >= StartPage(Segment) /\ job.cr3 \in Callers /\ job.seg # 0
  BY <1>1 DEF IInv, JobShape
<1>8. Callers' = Callers /\ Built' = Built /\ job.dir \in Built
  BY <1>1, <1>3 DEF Callers, Built, ProcDirs
<1>9. JobShape'
  <2>1. Segment' = Segment
    BY <1>3 DEF Segment
  <2>2. job.page + 1 >= StartPage(Segment)
    BY <1>2, <1>6, <1>7
  <2> QED
    BY <1>3, <1>7, <1>8, <2>1, <2>2 DEF JobShape
<1>10. job.page \in Brought(job.image)
  <2>1. job.page \in StartPage(Segment)..(EndPage(Segment) - 1)
    BY <1>1, <1>2, <1>6, <1>7
  <2> QED
    BY <1>1, <2>1 DEF Brought
<1>11. job.page \in Pages /\ job.page \in UserPages /\ job.page >= total
  BY <1>2, <1>10, ProgramsAbove DEF IInv, TypeOK
<1>12. job.page # PrivatePage
  BY <1>2, <1>10, LoaderAssumption
<1> QED
  BY <1>1, <1>2, <1>3, <1>5, <1>6, <1>7, <1>8, <1>9, <1>11, <1>12

\* When the page that elf_load was at is there, all behind it are.
LEMMA AdvanceFills ==
  ASSUME IInv, Calm, InSegment, job' = [job EXCEPT !.page = @ + 1], procs' = procs, total' = total,
         ~ stopped' =>
           /\ \A d \in Built : \A x \in UserPages : Mapped(mem, d, x) => Mapped(mem', d, x)
           /\ used \subseteq used'
           /\ Mapped(mem', job.dir, job.page) \/ Frames \subseteq used'
  PROVE  Filled'
<1> SUFFICES ASSUME ~ stopped' PROVE Filled'
  BY FilledNext
<1>1. job.pc = "load" /\ ~ stopped /\ job.image \in Images /\ job.dir \in Built /\ job.page \in Nat
      /\ job'.pc = "load" /\ job'.dir = job.dir
      /\ job'.image = job.image /\ job'.seg = job.seg /\ job'.page = job.page + 1
  BY Advances
<1>2. ASSUME NEW d \in Built, NEW x \in UserPages, Present(d, x)
      PROVE  Mapped(mem', d, x) \/ Frames \subseteq used'
  BY <1>2 DEF Present
<1>3. \A image \in Images : \A v \in Brought(image) \cup {PrivatePage} : v \in UserPages
  BY ProgramsAbove DEF IInv, TypeOK
<1>4. ASSUME NEW p \in DOMAIN procs, NEW v \in Brought(procs[p].image) \cup {PrivatePage}
      PROVE  Mapped(mem', procs[p].dir, v) \/ Frames \subseteq used'
  <2>1. procs[p].dir \in Built /\ procs[p].image \in Images
    BY DEF Built, ProcDirs, IInv, TypeOK
  <2>2. Present(procs[p].dir, v)
    BY <1>1 DEF IInv, Filled
  <2> QED
    BY <1>2, <1>3, <2>1, <2>2
<1>5. ASSUME NEW k \in DOMAIN job.image.segs, job.image.segs[k].load,
             NEW v \in StartPage(job.image.segs[k])..(EndPage(job.image.segs[k]) - 1),
             k < job.seg \/ (k = job.seg /\ v < job.page + 1)
      PROVE  Mapped(mem', job.dir, v) \/ Frames \subseteq used'
  <2>1. v \in UserPages
    <3>1. v \in Brought(job.image)
      BY <1>5 DEF Brought
    <3> QED
      BY <1>1, <1>3, <3>1
  <2>2. v \in Nat
    BY <1>1, SegmentFacts
  <2>3. CASE k < job.seg \/ (k = job.seg /\ v < job.page)
    <3>1. Present(job.dir, v)
      BY <1>1, <1>5, <2>3 DEF IInv, Filled
    <3> QED
      BY <1>1, <1>2, <2>1, <3>1
  <2>4. CASE v = job.page
    BY <2>4
  <2> QED
    BY <1>1, <1>5, <2>2, <2>3, <2>4
<1>6. \A p \in DOMAIN procs' : \A v \in Brought(procs'[p].image) \cup {PrivatePage} :
        Mapped(mem', procs'[p].dir, v) \/ Frames \subseteq used'
  BY <1>4
<1>7. \A k \in DOMAIN job.image.segs : job.image.segs[k].load =>
        \A v \in StartPage(job.image.segs[k])..(EndPage(job.image.segs[k]) - 1) :
          k < job.seg \/ (k = job.seg /\ v < job.page + 1) =>
            Mapped(mem', job.dir, v) \/ Frames \subseteq used'
  BY <1>5
<1> QED
  BY <1>1, <1>6, <1>7, FilledNext

\* elf_load copies words.
LEMMA CopiedType ==
  ASSUME NEW page \in [Index -> Nat], NEW s \in Segments, NEW v \in Nat
  PROVE  Copied(page, s, v) \in [Index -> Nat]
<1> DEFINE from == v * Entries
           to   == (v + 1) * Entries
           lo   == IF from > s.vaddr THEN from - s.vaddr ELSE 0
           hi   == IF to - s.vaddr < Len(s.data) THEN to - s.vaddr ELSE Len(s.data)
           off  == IF from > s.vaddr THEN 0 ELSE s.vaddr - from
<1>1. \A x, y \in Nat : x * y \in Nat
  OBVIOUS
<1>2. from \in Nat /\ to \in Nat /\ s.vaddr \in Nat /\ s.data \in Seq(Nat) /\ Len(s.data) \in Nat
  BY <1>1, Numbers DEF Segments
<1> HIDE DEF from, to
<1>3. lo \in Nat /\ off \in Nat /\ hi \in Int /\ hi <= Len(s.data) /\ (lo = 0 \/ off = 0)
  BY <1>2
<1> HIDE DEF lo, hi, off
<1>4. ASSUME NEW i \in Index, off <= i, i < off + hi - lo PROVE s.data[lo + i - off + 1] \in Nat
  <2>1. i \in Nat
    BY Numbers
  <2>2. lo + i - off + 1 \in Int /\ lo + i - off + 1 >= 1
    BY <1>3, <1>4, <2>1
  <2>3. CASE lo + i - off + 1 <= hi
    <3>1. lo + i - off + 1 <= Len(s.data)
      BY <1>2, <1>3, <2>2, <2>3
    <3>2. lo + i - off + 1 \in 1..Len(s.data)
      BY <1>2, <2>2, <3>1
    <3> QED
      BY <1>2, <3>2
  <2> QED
    BY <1>2, <1>3, <1>4, <2>1, <2>3
<1>5. Copied(page, s, v) = [i \in Index |-> IF off <= i /\ i < off + hi - lo
                                              THEN s.data[lo + i - off + 1] ELSE page[i]]
  BY DEF Copied, lo, hi, off, from, to
<1> QED
  BY <1>4, <1>5
-----------------------------------------------------------------------------
(***************************************************************************)
(* What NewPage gives has the right types, and what it takes is accounted. *)
(***************************************************************************)
LEMMA NewPageTypes ==
  ASSUME IInv, total' = total, NEW cr3, NEW dir \in Frames, NEW v \in Pages,
         NEW f \in Frames \ {0}, f \notin used, NEW page \in [Index -> Nat],
         NewPage(cr3, dir, v, f, page)
  PROVE  /\ mem' \in Memory /\ used' \subseteq Frames /\ used \subseteq used'
         /\ use' \in [Frames -> Uses] /\ stopped' \in BOOLEAN
         /\ Accounted'
<1>1. PICK g \in Frames :
        /\ IF HasTable(mem, cr3, dir, v) THEN g = 0 ELSE IsNext(used \cup {f}, g)
        /\ IF Unreachable(cr3, {f, g})
             THEN stopped' = TRUE /\ UNCHANGED <<used, mem, use>>
             ELSE /\ used' = used \cup {f, g}
                  /\ mem' = MapPage(PutPage(mem, cr3, f, page), cr3, dir, v, f, g)
                  /\ use' = [h \in Frames |-> CASE h = f -> As("page", dir, v)
                                                [] h = g /\ g # 0 -> As("table", dir, Slot(v))
                                                [] OTHER -> use[h]]
                  /\ UNCHANGED stopped
  BY DEF NewPage
<1>2. /\ total \in Machines /\ mem \in Memory /\ used \subseteq Frames /\ 0 \in used
      /\ use \in [Frames -> Uses] /\ stopped \in BOOLEAN /\ Accounted
  BY DEF IInv, TypeOK, Memory
<1>3. CASE Unreachable(cr3, {f, g})
  <2>1. stopped' = TRUE /\ UNCHANGED <<used, mem, use>>
    BY <1>1, <1>3
  <2> QED
    BY <1>2, <2>1, Same DEF Accounted
<1>4. CASE ~ Unreachable(cr3, {f, g})
  <2>1. /\ used' = used \cup {f, g}
        /\ mem' = MapPage(PutPage(mem, cr3, f, page), cr3, dir, v, f, g)
        /\ use' = [h \in Frames |-> CASE h = f -> As("page", dir, v)
                                      [] h = g /\ g # 0 -> As("table", dir, Slot(v))
                                      [] OTHER -> use[h]]
        /\ UNCHANGED stopped
    BY <1>1, <1>4
  <2>2. g = 0 \/ g \in Frames \ (used \cup {f})
    BY <1>1 DEF IsNext
  <2>3. mem' \in Memory
    <3>1. f \in Nat /\ g \in Nat
      BY <1>2, Sizes
    <3>2. PutPage(mem, cr3, f, page) \in Memory
      BY <1>2, MemoryTypes
    <3> QED
      BY <1>2, <2>1, <3>1, <3>2, MapPageType
  <2>4. As("page", dir, v) \in Uses /\ As("table", dir, Slot(v)) \in Uses
    BY Numbers DEF As, Uses
  <2>5. use' \in [Frames -> Uses]
    BY <1>2, <2>1, <2>4
  <2>6. \A x, y : As("page", x, y).as = "page" /\ As("table", x, y).as = "table"
                  /\ As("kernel", x, y).as = "kernel"
    BY DEF As
  <2>7. \A h \in Frames : h \in used' <=> use'[h].as # "free"
    <3>1. \A h \in Frames : h \in used <=> use[h].as # "free"
      BY <1>2 DEF Accounted
    <3> QED
      BY <1>2, <2>1, <2>2, <2>6, <3>1
  <2>8. use'[KernelDir] = As("kernel", 0, 0)
    <3>1. KernelDir \in used
      BY <1>2, <2>6, Sizes DEF Accounted
    <3>2. KernelDir # f /\ (g # 0 => KernelDir # g)
      BY <2>2, <3>1
    <3> QED
      BY <1>2, <2>1, <3>2, Sizes DEF Accounted
  <2>9. Accounted'
    BY <2>7, <2>8, Same DEF Accounted
  <2> QED
    BY <1>2, <2>1, <2>3, <2>5, <2>9
<1> QED
  BY <1>3, <1>4

(***************************************************************************)
(* A program header continues on a page that is there.                     *)
(***************************************************************************)
LEMMA LoadOldPageStep == ASSUME IInv, LoadOldPage PROVE IInv'
<1>1. /\ InSegment /\ job' = [job EXCEPT !.page = @ + 1]
      /\ UNCHANGED <<total, used, procs, next_pid, heap_max, stopped, use>>
  BY DEF LoadOldPage
<1>2. PICK f \in Frames \ {0} :
        /\ f = GetPhysical(mem, job.cr3, job.dir, job.page)
        /\ mem' = PutPage(mem, job.cr3, f, Copied(Seen(mem, job.cr3, f), Segment, job.page))
  BY DEF LoadOldPage
<1> DEFINE page == Copied(Seen(mem, job.cr3, f), Segment, job.page)
<1>3. /\ total \in Machines /\ mem \in Memory
  BY DEF IInv, TypeOK, Memory
<1>4. /\ job'.pc = "load" /\ job' \in Jobs /\ JobShape' /\ Built' = Built
      /\ job.image \in Images /\ Segment \in Segments /\ job'.image = job.image
      /\ job.dir \in Built /\ job.dir \in Frames /\ job.cr3 \in Callers
      /\ job.page \in Nat /\ job.page \in Pages /\ job.page \in UserPages
  BY <1>1, Advances
<1>5. page \in [Index -> Nat]
  BY <1>3, <1>4, MemoryTypes, CopiedType
<1> HIDE DEF page
<1>6. TypeOK'
  <2>1. mem' \in Memory
    BY <1>2, <1>3, <1>5, MemoryTypes DEF page
  <2> QED
    BY <1>1, <1>4, <2>1, Same DEF IInv, TypeOK, Jobs, Memory, Uses
<1>7. Layout' /\ Accounted'
  BY <1>1, Same DEF IInv, Accounted
<1>8. ASSUME Calm' PROVE Sound' /\ Filled'
  <2>1. Calm /\ KernelSound(mem, use, heap_max) /\ use[KernelDir] = As("kernel", 0, 0)
    BY <1>1, <1>8 DEF Calm, IInv, Sound, Accounted
  <2>2. Shares(mem, job.cr3) /\ DirSound(mem, use, job.dir)
    BY <1>4, <2>1, CallerFacts DEF IInv, Sound
  <2>3. \A x, y : /\ As("dir", x, y).as = "dir" /\ As("page", x, y).as = "page"
                  /\ As("table", x, y).as = "table" /\ As("kernel", x, y).as = "kernel"
    BY DEF As
  <2>4. job.dir < Ident /\ job.dir < HeapStart
    <3>1. job.dir < Ident /\ use[job.dir].as = "dir"
      BY <2>2, <2>3 DEF DirSound
    <3> QED
      BY <1>4, <2>1, <3>1, InUse
  <2>5. Seen(mem, job.cr3, job.dir) = mem[job.dir]
    <3>1. InReach(mem, job.cr3, job.dir)
      BY <1>3, <1>4, <2>1, <2>2, <2>4, Reach
    <3> QED
      BY <3>1 DEF InReach
  <2> DEFINE t == mem[job.dir][Slot(job.page)]
  <2>6. t # 0 /\ f = Seen(mem, job.cr3, t)[Entry(job.page)]
    BY <1>2, <2>5 DEF GetPhysical
  <2>7. t \in Frames /\ t < Ident /\ use[t].as = "table"
    <3>1. Slot(job.page) \in Index \ KernelSlots
      BY <1>4, Numbers DEF UserPages
    <3> QED
      BY <2>2, <2>3, <2>6, <3>1 DEF DirSound
  <2>8. Seen(mem, job.cr3, t) = mem[t]
    <3>1. t < HeapStart
      BY <2>1, <2>7, InUse
    <3>2. InReach(mem, job.cr3, t)
      BY <1>3, <2>1, <2>2, <2>7, <3>1, Reach
    <3> QED
      BY <3>2 DEF InReach
  <2>9. Word(mem, job.dir, job.page) = f /\ Mapped(mem, job.dir, job.page)
    BY <2>6, <2>8 DEF Word, Mapped
  <2>10. f < Ident /\ use[f].as = "page"
    BY <1>4, <2>2, <2>3, <2>9 DEF DirSound
  <2>11. mem' = [mem EXCEPT ![f] = page]
    <3>1. f < HeapStart
      BY <2>1, <2>10, InUse
    <3>2. InReach(mem, job.cr3, f)
      BY <1>3, <2>1, <2>2, <2>10, <3>1, Reach
    <3> QED
      BY <1>2, <3>2 DEF InReach, page
  <2>12. \A h \in Frames : use[h].as # "page" => mem'[h] = mem[h]
    BY <1>3, <2>10, <2>11 DEF Memory
  <2>13. mem'[KernelDir] = mem[KernelDir]
    BY <1>3, <2>1, <2>3, <2>12, Sizes
  <2>14. KernelSound(mem', use', heap_max')
    <3>1. \A h \in Frames : use[h] = As("kernel", 0, 0) => mem'[h] = mem[h]
      BY <2>3, <2>12
    <3> QED
      BY <1>1, <1>3, <2>1, <2>13, <3>1, KernelKeeps
  <2>15. ASSUME NEW d \in Built
         PROVE  DirSound(mem', use', d) /\ \A x \in UserPages : Mapped(mem, d, x) => Mapped(mem', d, x)
    <3>1. DirSound(mem, use, d)
      BY <2>1 DEF IInv, Sound
    <3> QED
      BY <1>1, <1>3, <2>12, <2>13, <3>1, DirKeeps
  <2>16. Sound'
    BY <1>1, <1>4, <2>14, <2>15, SoundNext
  <2>17. Filled'
    BY <1>1, <1>4, <2>1, <2>9, <2>15, AdvanceFills
  <2> QED
    BY <2>16, <2>17
<1> QED
  BY <1>4, <1>6, <1>7, <1>8 DEF IInv

(***************************************************************************)
(* A program header begins or continues on a page that is not there.       *)
(***************************************************************************)
LEMMA LoadNewPageStep == ASSUME IInv, LoadNewPage PROVE IInv'
<1> DEFINE page == Copied(Zeros, Segment, job.page)
<1>1. /\ InSegment /\ job' = [job EXCEPT !.page = @ + 1]
      /\ UNCHANGED <<total, procs, next_pid, heap_max>>
  BY DEF LoadNewPage
<1>2. PICK f \in Frames \ {0} :
        IsNext(used, f) /\ NewPage(job.cr3, job.dir, job.page, f, page)
  BY DEF LoadNewPage
<1>3. f \notin used
  BY <1>2 DEF IsNext
<1>4. /\ total \in Machines /\ mem \in Memory /\ used \subseteq Frames /\ 0 \in used /\ Accounted
  BY DEF IInv, TypeOK, Memory
<1>5. /\ job'.pc = "load" /\ job' \in Jobs /\ JobShape' /\ Built' = Built /\ ~ stopped
      /\ job.image \in Images /\ Segment \in Segments /\ job'.image = job.image
      /\ job.dir \in Built /\ job.dir \in Frames /\ job.cr3 \in Callers
      /\ job.page \in Nat /\ job.page \in Pages /\ job.page \in UserPages /\ job.page >= total
  BY <1>1, Advances
<1>6. page \in [Index -> Nat]
  BY <1>4, <1>5, MemoryTypes, CopiedType
<1> HIDE DEF page
<1>7. /\ mem' \in Memory /\ used' \subseteq Frames /\ used \subseteq used'
      /\ use' \in [Frames -> Uses] /\ stopped' \in BOOLEAN /\ Accounted'
  BY <1>1, <1>2, <1>3, <1>5, <1>6, NewPageTypes
<1>8. TypeOK'
  BY <1>1, <1>5, <1>7, Same DEF IInv, TypeOK, Jobs, Memory, Uses
<1>9. Layout'
  BY <1>1, Same DEF IInv
<1>10. ASSUME Calm' PROVE Sound' /\ Filled'
  <2>1. Calm /\ KernelSound(mem, use, heap_max)
    BY <1>7, <1>10 DEF Calm, IInv, Sound
  <2>2. Shares(mem, job.cr3) /\ (job.cr3 # KernelDir => DirSound(mem, use, job.cr3))
    BY <1>5, <2>1, CallerFacts
  <2>3. \A d \in Built : DirSound(mem, use, d)
    BY <2>1 DEF IInv, Sound
  <2>4. DirSound(mem, use, job.dir)
    BY <1>5, <2>3
  <2>5. \/ stopped' = TRUE /\ UNCHANGED <<used, mem, use>>
        \/ /\ UNCHANGED stopped
           /\ Gets(mem, mem', use, use', heap_max, job.dir, job.page)
           /\ Mapped(mem', job.dir, job.page) \/ Frames \subseteq used'
           /\ used \subseteq used'
    BY <1>1, <1>2, <1>3, <1>4, <1>5, <1>6, <1>10, <2>1, <2>2, <2>4, NewPageSound
  <2>6. CASE stopped' = TRUE /\ UNCHANGED <<used, mem, use>>
    <3>1. Sound'
      BY <1>1, <1>5, <2>1, <2>3, <2>6, SoundNext
    <3>2. Filled'
      BY <2>6 DEF Filled
    <3> QED
      BY <3>1, <3>2
  <2>7. CASE /\ UNCHANGED stopped
             /\ Gets(mem, mem', use, use', heap_max, job.dir, job.page)
             /\ Mapped(mem', job.dir, job.page) \/ Frames \subseteq used'
             /\ used \subseteq used'
    <3>1. KernelSound(mem', use', heap_max')
      BY <1>1, <2>7 DEF Gets
    <3>2. \A d \in Built : DirSound(mem', use', d)
            /\ \A x \in UserPages : Mapped(mem, d, x) => Mapped(mem', d, x)
      BY <2>3, <2>7 DEF Gets
    <3>3. Sound'
      BY <1>1, <1>5, <3>1, <3>2, SoundNext
    <3>4. Filled'
      BY <1>1, <2>1, <2>7, <3>2, AdvanceFills
    <3> QED
      BY <3>3, <3>4
  <2> QED
    BY <2>5, <2>6, <2>7
<1> QED
  BY <1>5, <1>7, <1>8, <1>9, <1>10 DEF IInv

(***************************************************************************)
(* The process is made: its file is there as far as frames reach, and its  *)
(* private page is, unless the frames have run out.                        *)
(***************************************************************************)
LEMMA SpawnEndStep == ASSUME IInv, SpawnEnd PROVE IInv'
<1>1. /\ job.pc = "load" /\ ~ stopped /\ job.seg \notin DOMAIN job.image.segs /\ job' = Idle
      /\ UNCHANGED <<total, heap_max>>
  BY DEF SpawnEnd
<1>2. /\ total \in Machines /\ mem \in Memory /\ used \subseteq Frames /\ 0 \in used /\ Accounted
      /\ Layout /\ next_pid \in Nat
  BY DEF IInv, TypeOK, Memory
<1>3. job.image \in Images /\ job.dir \in Frames /\ job.dir \in Built /\ job.cr3 \in Callers
      /\ job.seg \in Nat /\ job.seg # 0
  BY <1>1 DEF IInv, TypeOK, JobShape, Built
<1>4. Idle.pc = "idle" /\ Idle \in Jobs
  BY <1>2, Sizes DEF Idle, Jobs
<1>5. PrivatePage \in Pages /\ PrivatePage \in UserPages /\ PrivatePage >= total
  BY <1>2, <1>3, ProgramsAbove
<1>6. Layout' /\ JobShape'
  BY <1>1, <1>2, <1>4, Same DEF JobShape
<1>7. ASSUME Calm, ~ stopped, NEW v \in Brought(job.image)
      PROVE  Present(job.dir, v)
  <2>1. PICK k \in DOMAIN job.image.segs :
          job.image.segs[k].load /\ v \in StartPage(job.image.segs[k])..(EndPage(job.image.segs[k]) - 1)
    BY <1>7 DEF Brought
  <2>2. DOMAIN job.image.segs = 1..Len(job.image.segs) /\ Len(job.image.segs) \in Nat
    <3>1. job.image.segs \in Seq(Segments)
      BY <1>3, LoaderAssumption
    <3> QED
      BY <3>1
  <2>3. k < job.seg
    BY <1>1, <1>3, <2>2
  <2> QED
    BY <1>1, <1>7, <2>1, <2>3 DEF IInv, Filled
<1>8. CASE UNCHANGED <<used, mem, procs, next_pid, stopped, use>>
  <2>1. TypeOK' /\ Accounted' /\ Calm' = Calm
    BY <1>1, <1>4, <1>8, MemoryStays DEF IInv, TypeOK
  <2>2. ASSUME Calm PROVE Sound' /\ Filled'
    <3>1. Built' \subseteq Built
      BY <1>1, <1>4, <1>8 DEF Built, ProcDirs
    <3>2. Sound'
      BY <1>1, <1>8, <2>2, <3>1, MemoryStays
    <3>3. Filled'
      BY <1>1, <1>4, <1>8, <2>2, FilledNext DEF IInv, Filled, Present
    <3> QED
      BY <3>2, <3>3
  <2> QED
    BY <1>6, <2>1, <2>2 DEF IInv
<1>9. CASE /\ procs' = [p \in DOMAIN procs \cup {next_pid} |->
                         IF p = next_pid THEN [dir |-> job.dir, image |-> job.image]
                                         ELSE procs[p]]
           /\ next_pid' = next_pid + 1
           /\ \/ /\ IsNext(used, 0)
                 /\ UNCHANGED <<used, mem, stopped, use>>
              \/ \E f \in Frames \ {0} :
                   /\ IsNext(used, f)
                   /\ NewPage(job.cr3, job.dir, PrivatePage, f,
                              [mem[f] EXCEPT ![0] = next_pid, ![1] = 0])
  <2>1. \A p \in DOMAIN procs' : \/ p \in DOMAIN procs /\ procs'[p] = procs[p]
                                 \/ procs'[p] = [dir |-> job.dir, image |-> job.image]
    BY <1>9
  <2>2. \A p \in DOMAIN procs' : procs'[p].dir \in Frames /\ procs'[p].image \in Images
                                  /\ procs'[p].dir \in Built
    BY <1>3, <2>1 DEF IInv, TypeOK, Built, ProcDirs
  <2>3. Built' \subseteq Built
    BY <1>1, <1>4, <2>2 DEF Built, ProcDirs
  <2>4. next_pid' \in Nat
    BY <1>2, <1>9
  <2>5. ASSUME Calm, NEW p \in DOMAIN procs', NEW v \in Brought(procs'[p].image)
        PROVE  Present(procs'[p].dir, v)
    <3>1. CASE p \in DOMAIN procs /\ procs'[p] = procs[p]
      BY <1>1, <2>5, <3>1 DEF IInv, Filled
    <3>2. CASE procs'[p] = [dir |-> job.dir, image |-> job.image]
      BY <1>1, <1>7, <2>5, <3>2
    <3> QED
      BY <2>1, <3>1, <3>2
  <2>6. ASSUME Calm, NEW p \in DOMAIN procs, procs'[p] = procs[p], p \in DOMAIN procs'
        PROVE  Present(procs'[p].dir, PrivatePage)
    BY <1>1, <2>6 DEF IInv, Filled
  <2>7. ASSUME IsNext(used, 0), UNCHANGED <<used, mem, stopped, use>>
        PROVE  IInv'
    <3>1. TypeOK' /\ Accounted' /\ Calm' = Calm
      BY <1>1, <1>4, <2>2, <2>4, <2>7, MemoryStays DEF IInv, TypeOK
    <3>2. Frames \subseteq used
      BY <1>2, <2>7 DEF IsNext
    <3>3. ASSUME Calm PROVE Sound' /\ Filled'
      <4>1. Sound'
        BY <1>1, <2>3, <2>7, <3>3, MemoryStays
      <4>2. Filled'
        BY <1>1, <1>4, <2>7, <3>2, FilledNext
      <4> QED
        BY <4>1, <4>2
    <3> QED
      BY <1>6, <3>1, <3>3 DEF IInv
  <2>8. ASSUME NEW f \in Frames \ {0}, IsNext(used, f),
               NewPage(job.cr3, job.dir, PrivatePage, f,
                       [mem[f] EXCEPT ![0] = next_pid, ![1] = 0])
        PROVE  IInv'
    <3> DEFINE page == [mem[f] EXCEPT ![0] = next_pid, ![1] = 0]
    <3>1. f \notin used
      BY <2>8 DEF IsNext
    <3>2. page \in [Index -> Nat]
      BY <1>2 DEF Memory
    <3>3. NewPage(job.cr3, job.dir, PrivatePage, f, page)
      BY <2>8
    <3> HIDE DEF page
    <3>4. /\ mem' \in Memory /\ used' \subseteq Frames /\ used \subseteq used'
          /\ use' \in [Frames -> Uses] /\ stopped' \in BOOLEAN /\ Accounted'
      BY <1>1, <1>3, <1>5, <3>1, <3>2, <3>3, NewPageTypes
    <3>5. TypeOK'
      BY <1>1, <1>4, <2>2, <2>4, <3>4, Same DEF IInv, TypeOK, Jobs, Memory, Uses
    <3>6. ASSUME Calm' PROVE Sound' /\ Filled'
      <4>1. Calm /\ KernelSound(mem, use, heap_max)
        BY <3>4, <3>6, <1>1 DEF Calm, IInv, Sound
      <4>2. Shares(mem, job.cr3) /\ (job.cr3 # KernelDir => DirSound(mem, use, job.cr3))
        BY <1>3, <4>1, CallerFacts
      <4>3. \A d \in Built : DirSound(mem, use, d)
        BY <4>1 DEF IInv, Sound
      <4>4. DirSound(mem, use, job.dir)
        BY <1>3, <4>3
      <4>5. \/ stopped' = TRUE /\ UNCHANGED <<used, mem, use>>
            \/ /\ UNCHANGED stopped
               /\ Gets(mem, mem', use, use', heap_max, job.dir, PrivatePage)
               /\ Mapped(mem', job.dir, PrivatePage) \/ Frames \subseteq used'
               /\ used \subseteq used'
        BY <1>1, <1>2, <1>5, <3>1, <3>2, <3>3, <3>6, <4>1, <4>2, <4>4, NewPageSound
      <4>6. CASE stopped' = TRUE /\ UNCHANGED <<used, mem, use>>
        <5>1. Sound'
          BY <1>1, <2>3, <4>1, <4>3, <4>6, SoundNext
        <5>2. Filled'
          BY <4>6 DEF Filled
        <5> QED
          BY <5>1, <5>2
      <4>7. CASE /\ UNCHANGED stopped
                 /\ Gets(mem, mem', use, use', heap_max, job.dir, PrivatePage)
                 /\ Mapped(mem', job.dir, PrivatePage) \/ Frames \subseteq used'
                 /\ used \subseteq used'
        <5>1. KernelSound(mem', use', heap_max')
          BY <1>1, <4>7 DEF Gets
        <5>2. \A d \in Built : DirSound(mem', use', d)
                /\ \A x \in UserPages : Mapped(mem, d, x) => Mapped(mem', d, x)
          BY <4>3, <4>7 DEF Gets
        <5>3. Sound'
          BY <1>1, <2>3, <5>1, <5>2, SoundNext
        <5>4. ASSUME NEW p \in DOMAIN procs', NEW v \in Brought(procs'[p].image) \cup {PrivatePage}
              PROVE  Mapped(mem', procs'[p].dir, v) \/ Frames \subseteq used'
          <6>1. v \in UserPages /\ procs'[p].dir \in Built
            BY <1>2, <2>2, ProgramsAbove
          <6>2. CASE Present(procs'[p].dir, v)
            BY <4>7, <5>2, <6>1, <6>2 DEF Present
          <6>3. CASE v = PrivatePage /\ procs'[p].dir = job.dir
            BY <4>7, <6>3
          <6>4. CASE v = PrivatePage /\ p \in DOMAIN procs /\ procs'[p] = procs[p]
            <7>1. Present(procs'[p].dir, v)
              BY <2>6, <4>1, <6>4
            <7> QED
              BY <6>2, <7>1
          <6> QED
            BY <2>1, <2>5, <4>1, <6>2, <6>3, <6>4
        <5>5. Filled'
          BY <1>1, <1>4, <5>4, FilledNext
        <5> QED
          BY <5>3, <5>5
      <4> QED
        BY <4>5, <4>6, <4>7
    <3> QED
      BY <1>6, <3>4, <3>5, <3>6 DEF IInv
  <2> QED
    BY <1>9, <2>7, <2>8
<1> QED
  BY <1>8, <1>9 DEF SpawnEnd

(***************************************************************************)
(* The heap gets a page, in a table that every directory shares.           *)
(***************************************************************************)
LEMMA GrowHeapStep == ASSUME IInv, NEW cr3 \in Callers, GrowHeap(cr3) PROVE IInv'
<1>1. /\ job.pc = "idle" /\ ~ stopped /\ heap_max < HeapStart + HeapPages
      /\ heap_max' = heap_max + 1
      /\ UNCHANGED <<total, procs, next_pid, job, stopped>>
  BY DEF GrowHeap, Ready
<1>2. PICK f \in Frames \ {0} :
        /\ IsNext(used, f)
        /\ used' = used \cup {f}
        /\ mem' = MapPage(mem, cr3, KernelDir, heap_max, f, 0)
        /\ use' = [use EXCEPT ![f] = As("page", KernelDir, heap_max)]
  BY DEF GrowHeap
<1>3. /\ total \in Machines /\ mem \in Memory /\ used \subseteq Frames /\ 0 \in used /\ Accounted
      /\ Layout /\ use \in [Frames -> Uses] /\ heap_max \in HeapStart..(HeapStart + HeapPages)
  BY DEF IInv, TypeOK, Memory
<1>4. f \notin used
  BY <1>2 DEF IsNext
<1>5. heap_max \in Pages /\ Slot(heap_max) \in KernelSlots /\ heap_max \in Nat
  BY <1>3, LoaderAssumption, Numbers DEF Layout
<1>6. heap_max + 1 \in HeapStart..(HeapStart + HeapPages)
  BY <1>1, <1>3, Numbers
<1>7. TypeOK'
  <2>1. mem' \in Memory
    BY <1>2, <1>3, MapPageType, Sizes
  <2>2. As("page", KernelDir, heap_max) \in Uses
    BY <1>3, <1>5, Sizes DEF As, Uses
  <2>3. use' \in [Frames -> Uses]
    BY <1>2, <1>3, <2>2
  <2> QED
    BY <1>1, <1>2, <1>3, <1>6, <2>1, <2>3, Same DEF IInv, TypeOK, Jobs, Memory, Uses
<1>8. \A x, y : /\ As("dir", x, y).as = "dir" /\ As("page", x, y).as = "page"
                /\ As("table", x, y).as = "table" /\ As("kernel", x, y).as = "kernel"
  BY DEF As
<1>9. use[f].as = "free" /\ use[KernelDir] = As("kernel", 0, 0) /\ KernelDir # f
  BY <1>3, <1>4, <1>8 DEF Accounted
<1>10. Accounted'
  <2>1. \A h \in Frames : h \in used' <=> use'[h].as # "free"
    BY <1>2, <1>3, <1>8 DEF Accounted
  <2>2. use'[KernelDir] = As("kernel", 0, 0)
    BY <1>2, <1>3, <1>9, Sizes
  <2> QED
    BY <1>1, <2>1, <2>2, Same DEF Accounted
<1>11. Layout' /\ JobShape'
  BY <1>1, <1>3, Same DEF JobShape
<1>12. ASSUME Calm' PROVE Sound' /\ Filled'
  <2>1. Calm /\ KernelSound(mem, use, heap_max)
    BY <1>2, <1>12 DEF Calm, IInv, Sound
  <2>2. Shares(mem, cr3)
    BY <2>1, CallerFacts
  <2> DEFINE s == Slot(heap_max)
             t == mem[KernelDir][s]
  <2>3. t \in Frames \ {0, KernelDir} /\ t < Ident /\ use[t] = As("kernel", 0, 0)
        /\ \A r \in KernelSlots : mem[KernelDir][r] = t => r = s
    BY <1>5, <2>1 DEF KernelSound
  <2>4. Seen(mem, cr3, KernelDir) = mem[KernelDir]
    <3>1. KernelDir < HeapStart
      BY <1>3, <1>8, <1>9, <2>1, InUse, Sizes
    <3>2. InReach(mem, cr3, KernelDir)
      BY <1>3, <2>1, <2>2, <3>1, Reach, Sizes
    <3> QED
      BY <3>2 DEF InReach
  <2>5. mem' = [mem EXCEPT ![t] = [mem[t] EXCEPT ![Entry(heap_max)] = f]]
    <3>1. mem' = PutWord(mem, cr3, t, Entry(heap_max), f)
      BY <1>2, <2>3, <2>4 DEF MapPage
    <3>2. t < HeapStart
      BY <1>8, <2>1, <2>3, InUse
    <3>3. InReach(mem, cr3, t)
      BY <1>3, <2>1, <2>2, <2>3, <3>2, Reach
    <3> QED
      BY <3>1, <3>3 DEF InReach
  <2> HIDE DEF t
  <2>6. \A h \in Frames \ {t} : mem'[h] = mem[h]
    BY <1>3, <2>5 DEF Memory
  <2>7. mem'[t][Entry(heap_max)] = f /\ \A i \in Index \ {Entry(heap_max)} : mem'[t][i] = mem[t][i]
    BY <1>3, <1>5, <2>3, <2>5, Numbers DEF Memory
  <2>8. mem'[KernelDir] = mem[KernelDir]
    BY <1>3, <2>3, <2>6, Sizes
  <2>9. \A h \in Frames : use[h].as # "free" => use'[h] = use[h]
    BY <1>2, <1>3, <1>9
  <2>10. use'[f] = As("page", KernelDir, heap_max)
    BY <1>2, <1>3
  <2>11. ASSUME NEW v \in Pages, Slot(v) \in KernelSlots, v # heap_max
         PROVE  Word(mem', KernelDir, v) = Word(mem, KernelDir, v)
    <3>1. Entry(v) \in Index /\ Entry(heap_max) \in Index
      BY <1>5, Numbers
    <3>2. CASE mem[KernelDir][Slot(v)] = t
      <4>1. Slot(v) = Slot(heap_max)
        BY <2>3, <2>11, <3>2
      <4>2. Entry(v) # Entry(heap_max)
        BY <1>5, <2>11, <4>1, Numbers
      <4> QED
        BY <2>7, <2>8, <3>1, <3>2, <4>2 DEF Word
    <3>3. CASE mem[KernelDir][Slot(v)] # t
      <4>1. mem[KernelDir][Slot(v)] \in Frames
        BY <2>1, <2>11 DEF KernelSound
      <4> QED
        BY <2>6, <2>8, <3>3, <4>1 DEF Word
    <3> QED
      BY <3>2, <3>3
  <2>12. Word(mem', KernelDir, heap_max) = f
    BY <2>7, <2>8 DEF Word, t
  <2>13. KernelSound(mem', use', heap_max + 1)
    <3>1. \A r \in KernelSlots : use'[mem[KernelDir][r]] = use[mem[KernelDir][r]]
      BY <1>8, <2>1, <2>9 DEF KernelSound
    <3> DEFINE top == heap_max + 1
    <3> HIDE DEF top
    <3>2. ASSUME NEW v \in Pages, Slot(v) \in KernelSlots
          PROVE  IF v \in HeapStart..(top - 1)
                 THEN Word(mem', KernelDir, v) \in Frames \ {0}
                      /\ use'[Word(mem', KernelDir, v)] = As("page", KernelDir, v)
                 ELSE Word(mem', KernelDir, v) = IF v \in Identical THEN v ELSE 0
      <4>1. v \in Nat /\ (v \in HeapStart..(top - 1) <=> v \in HeapStart..(heap_max - 1) \/ v = heap_max)
        BY <1>3, <1>5, Numbers DEF top
      <4>2. CASE v = heap_max
        BY <2>10, <2>12, <4>1, <4>2
      <4>3. CASE v # heap_max /\ v \in HeapStart..(heap_max - 1)
        <5>1. Word(mem', KernelDir, v) = Word(mem, KernelDir, v)
          BY <2>11, <3>2, <4>3
        <5>2. Word(mem, KernelDir, v) \in Frames \ {0} /\ use[Word(mem, KernelDir, v)] = As("page", KernelDir, v)
          BY <2>1, <3>2, <4>3 DEF KernelSound
        <5>3. use'[Word(mem, KernelDir, v)] = use[Word(mem, KernelDir, v)]
          BY <1>8, <2>9, <5>2
        <5> QED
          BY <4>1, <4>3, <5>1, <5>2, <5>3
      <4>4. CASE v # heap_max /\ v \notin HeapStart..(heap_max - 1)
        <5>1. Word(mem', KernelDir, v) = Word(mem, KernelDir, v)
          BY <2>11, <3>2, <4>4
        <5>2. Word(mem, KernelDir, v) = IF v \in Identical THEN v ELSE 0
          BY <2>1, <3>2, <4>4 DEF KernelSound
        <5> QED
          BY <4>1, <4>4, <5>1, <5>2
      <4> QED
        BY <4>2, <4>3, <4>4
    <3>3. \A r \in KernelSlots :
            /\ mem'[KernelDir][r] \in Frames \ {0, KernelDir} /\ mem'[KernelDir][r] < Ident
            /\ use'[mem'[KernelDir][r]] = As("kernel", 0, 0)
            /\ \A q \in KernelSlots : mem'[KernelDir][q] = mem'[KernelDir][r] => q = r
      BY <2>1, <2>8, <3>1 DEF KernelSound
    <3>4. \A r \in Index \ KernelSlots : mem'[KernelDir][r] = 0
      BY <2>1, <2>8 DEF KernelSound
    <3> HIDE DEF s
    <3>5. KernelSound(mem', use', top)
      BY <3>2, <3>3, <3>4 DEF KernelSound
    <3> QED
      BY <3>5 DEF top
  <2>14. ASSUME NEW d \in Built
         PROVE  DirSound(mem', use', d) /\ \A x \in UserPages : Mapped(mem, d, x) => Mapped(mem', d, x)
    <3>1. DirSound(mem, use, d)
      BY <2>1 DEF IInv, Sound
    <3>2. \A h \in Frames : use[h].as \in {"dir", "table"} => mem'[h] = mem[h]
      BY <1>8, <2>3, <2>6
    <3> QED
      BY <1>3, <2>8, <2>9, <3>1, <3>2, DirKeeps
  <2>15. Built' = Built
    BY <1>1 DEF Built, ProcDirs
  <2>16. Sound'
    BY <1>1, <2>13, <2>14, <2>15, SoundNext
  <2>17. ASSUME NEW p \in DOMAIN procs, NEW v \in Brought(procs[p].image) \cup {PrivatePage}
         PROVE  Mapped(mem', procs[p].dir, v) \/ Frames \subseteq used'
    <3>1. procs[p].dir \in Built /\ procs[p].image \in Images
      BY DEF Built, ProcDirs, IInv, TypeOK
    <3>2. Present(procs[p].dir, v)
      BY <1>1, <2>1 DEF IInv, Filled
    <3>3. v \in UserPages
      BY <1>3, <3>1, ProgramsAbove
    <3> QED
      BY <1>2, <2>14, <3>1, <3>2, <3>3 DEF Present
  <2>18. Filled'
    BY <1>1, <2>17, FilledNext
  <2> QED
    BY <2>16, <2>18
<1> QED
  BY <1>7, <1>10, <1>11, <1>12 DEF IInv

(***************************************************************************)
(* A process writes into a page, never into a directory or a table.        *)
(***************************************************************************)
LEMMA TouchedIsBrought ==
  ASSUME NEW image \in Images
  PROVE  Touched(image) \subseteq Brought(image)
<1>1. \A E \in Nat \ {0} : \A a, b \in Nat : a <= b => a \div E <= b \div E
  OBVIOUS
<1>2. \A E \in Nat \ {0} : \A a \in Nat : (a + E) \div E = a \div E + 1
  OBVIOUS
<1>3. ASSUME NEW k \in DOMAIN image.segs, NEW s, s = image.segs[k],
             NEW a \in s.vaddr..(s.vaddr + s.memsz - 1)
      PROVE  a \div Entries \in StartPage(s)..(EndPage(s) - 1)
  <2>1. s.vaddr \in Nat /\ s.memsz \in Nat /\ Entries \in Nat \ {0}
    BY <1>3, SegmentFacts, Numbers DEF Segments
  <2>2. a \in Nat /\ s.vaddr <= a /\ a + Entries \in Nat
        /\ a + Entries <= s.vaddr + s.memsz + Entries - 1 /\ s.vaddr + s.memsz + Entries - 1 \in Nat
    BY <1>3, <2>1
  <2>3. s.vaddr \div Entries <= a \div Entries
    BY <1>1, <2>1, <2>2
  <2>4. (a + Entries) \div Entries <= (s.vaddr + s.memsz + Entries - 1) \div Entries
    BY <1>1, <2>1, <2>2
  <2>5. (a + Entries) \div Entries = a \div Entries + 1
    BY <1>2, <2>1, <2>2
  <2>6. \A E \in Nat \ {0}, n \in Nat : n \div E \in Nat
    OBVIOUS
  <2>7. a \div Entries \in Nat /\ StartPage(s) \in Nat /\ EndPage(s) \in Nat
    BY <1>3, <2>1, <2>2, <2>6, SegmentFacts
  <2>8. StartPage(s) <= a \div Entries /\ a \div Entries + 1 <= EndPage(s)
    BY <2>3, <2>4, <2>5 DEF StartPage, EndPage
  <2> QED
    BY <2>7, <2>8
<1> QED
  BY <1>3 DEF Touched, Brought

\* A process writes.
LEMMA StoreStep == ASSUME IInv, NEW p \in DOMAIN procs, NEW a \in Stores, Store(p, a) PROVE IInv'
<1> DEFINE v == a \div Entries
           at == Walk(mem, procs[p].dir, v)
<1>1. /\ job.pc = "idle" /\ ~ stopped
      /\ v \in OwnPages(p) \cup HeapRange
      /\ IF at = 0 THEN stopped' = TRUE /\ UNCHANGED mem
         ELSE mem' = [mem EXCEPT ![at][a % Entries] = Written] /\ UNCHANGED stopped
      /\ UNCHANGED <<total, used, procs, next_pid, heap_max, job, use>>
  BY DEF Store, Ready
<1>2. /\ total \in Machines /\ mem \in Memory /\ Accounted /\ stopped \in BOOLEAN
      /\ Layout /\ heap_max \in HeapStart..(HeapStart + HeapPages) /\ procs[p].image \in Images
  BY DEF IInv, TypeOK, Memory
<1>3. mem' \in Memory /\ stopped' \in BOOLEAN
  <2>1. Written \in Nat
    BY LoaderAssumption
  <2>2. [mem EXCEPT ![at][a % Entries] = Written] \in Memory
    BY <1>2, <2>1 DEF Memory
  <2> QED
    BY <1>1, <1>2, <2>2
<1>4. TypeOK'
  BY <1>1, <1>2, <1>3, Same DEF IInv, TypeOK, Jobs, Memory, Uses
<1>5. Accounted' /\ Layout' /\ JobShape'
  BY <1>1, <1>2, Same DEF Accounted, JobShape
<1>6. ASSUME Calm' PROVE Sound' /\ Filled'
  <2>1. Calm /\ KernelSound(mem, use, heap_max)
    BY <1>1, <1>6 DEF Calm, IInv, Sound
  <2>2. \A d \in Built : DirSound(mem, use, d)
    BY <2>1 DEF IInv, Sound
  <2>3. procs[p].dir \in Built /\ Built' = Built
    BY <1>1 DEF Built, ProcDirs
  <2>4. \A x, y : /\ As("dir", x, y).as = "dir" /\ As("page", x, y).as = "page"
                  /\ As("table", x, y).as = "table" /\ As("kernel", x, y).as = "kernel"
    BY DEF As
  <2>5. ASSUME at # 0 PROVE at \in Frames /\ use[at].as = "page"
    <3>1. at = Word(mem, procs[p].dir, v) /\ mem[procs[p].dir][Slot(v)] # 0
      BY <2>5 DEF Walk, Word
    <3>2. CASE v \in OwnPages(p)
      <4>1. v \in UserPages
        <5>1. v \in Brought(procs[p].image) \cup {PrivatePage}
          BY <1>2, <3>2, TouchedIsBrought DEF OwnPages
        <5> QED
          BY <1>2, <5>1, ProgramsAbove
      <4>2. Mapped(mem, procs[p].dir, v)
        BY <2>5, <3>1 DEF Mapped
      <4> QED
        BY <2>2, <2>3, <2>4, <3>1, <4>1, <4>2 DEF DirSound
    <3>3. CASE v \in HeapRange
      <4>1. v \in HeapStart..(heap_max - 1) /\ v \in HeapStart..(HeapStart + HeapPages)
        BY <1>2, <3>3, Numbers DEF HeapRange
      <4>2. v \in Pages /\ Slot(v) \in KernelSlots
        BY <1>2, <4>1, LoaderAssumption DEF Layout
      <4>3. Word(mem, KernelDir, v) = Word(mem, procs[p].dir, v)
        BY <2>2, <2>3, <4>2 DEF DirSound, Shares, Word
      <4> QED
        BY <2>1, <2>4, <3>1, <4>1, <4>2, <4>3 DEF KernelSound
    <3> QED
      BY <1>1, <3>2, <3>3
  <2> HIDE DEF at
  <2>6. \A h \in Frames : use[h].as # "page" => mem'[h] = mem[h]
    BY <1>1, <1>2, <2>5 DEF Memory
  <2>7. mem'[KernelDir] = mem[KernelDir]
    BY <1>2, <2>4, <2>6, Sizes DEF Accounted
  <2>8. KernelSound(mem', use', heap_max')
    <3>1. \A h \in Frames : use[h] = As("kernel", 0, 0) => mem'[h] = mem[h]
      BY <2>4, <2>6
    <3> QED
      BY <1>1, <1>2, <2>1, <2>7, <3>1, KernelKeeps
  <2>9. ASSUME NEW d \in Built
        PROVE  DirSound(mem', use', d) /\ \A x \in UserPages : Mapped(mem, d, x) => Mapped(mem', d, x)
    BY <1>1, <1>2, <2>2, <2>6, <2>7, DirKeeps
  <2>10. Sound'
    BY <1>1, <2>3, <2>8, <2>9, SoundNext
  <2>11. ASSUME NEW q \in DOMAIN procs, NEW x \in Brought(procs[q].image) \cup {PrivatePage}
         PROVE  Mapped(mem', procs[q].dir, x) \/ Frames \subseteq used'
    <3>1. procs[q].dir \in Built /\ procs[q].image \in Images
      BY DEF Built, ProcDirs, IInv, TypeOK
    <3>2. Present(procs[q].dir, x)
      BY <1>1, <2>1 DEF IInv, Filled
    <3>3. x \in UserPages
      BY <1>2, <3>1, ProgramsAbove
    <3> QED
      BY <1>1, <2>9, <3>1, <3>2, <3>3 DEF Present
  <2>12. Filled'
    BY <1>1, <2>11, FilledNext
  <2> QED
    BY <2>10, <2>12
<1> QED
  BY <1>4, <1>5, <1>6 DEF IInv

(***************************************************************************)
(* A directory is cloned: it shares the kernel, and is empty otherwise.    *)
(***************************************************************************)
LEMMA SpawnStartStep ==
  ASSUME IInv, NEW cr3 \in Callers, NEW image \in Images, SpawnStart(cr3, image)
  PROVE  IInv'
<1>1. /\ job.pc = "idle" /\ ~ stopped /\ UNCHANGED <<total, procs, next_pid, heap_max>>
  BY DEF SpawnStart, Ready
<1>2. PICK f \in Frames :
       /\ IsNext(used, f)
       /\ \/ /\ f = 0
             /\ stopped' \in {FALSE, image.elf}
             /\ UNCHANGED <<used, mem, job, use>>
          \/ /\ f # 0 /\ Unreachable(cr3, {f})
             /\ stopped' = TRUE
             /\ UNCHANGED <<used, mem, job, use>>
          \/ /\ f # 0 /\ ~ Unreachable(cr3, {f})
             /\ used' = used \cup {f}
             /\ mem' = Clone(mem, cr3, f)
             /\ use' = [use EXCEPT ![f] = As("dir", f, 0)]
             /\ job' = IF ~ image.elf THEN Idle
                       ELSE [pc |-> "load", cr3 |-> cr3, dir |-> f, image |-> image,
                             seg |-> 1, page |-> PageAt(image, 1)]
             /\ UNCHANGED stopped
  BY DEF SpawnStart
<1>3. /\ total \in Machines /\ mem \in Memory /\ used \subseteq Frames /\ 0 \in used /\ Accounted
      /\ Layout /\ use \in [Frames -> Uses] /\ image.elf \in BOOLEAN
  BY LoaderAssumption DEF IInv, TypeOK, Memory
<1>4. CASE stopped' \in BOOLEAN /\ UNCHANGED <<used, mem, job, use>>
  <2>1. TypeOK' /\ Accounted' /\ Layout' /\ Calm' = Calm
    BY <1>1, <1>4, MemoryStays DEF IInv, TypeOK, Jobs
  <2>2. JobShape'
    BY <1>1, <1>4 DEF JobShape
  <2>3. ASSUME Calm PROVE Sound' /\ Filled'
    <3>1. Built' = Built
      BY <1>1, <1>4 DEF Built, ProcDirs
    <3>2. Sound'
      BY <1>1, <1>4, <2>3, <3>1, MemoryStays
    <3>3. Filled'
      BY <1>1, <1>4, <2>3, FilledNext DEF IInv, Filled, Present
    <3> QED
      BY <3>2, <3>3
  <2> QED
    BY <2>1, <2>2, <2>3 DEF IInv
<1>5. CASE /\ f # 0 /\ ~ Unreachable(cr3, {f})
           /\ used' = used \cup {f}
           /\ mem' = Clone(mem, cr3, f)
           /\ use' = [use EXCEPT ![f] = As("dir", f, 0)]
           /\ job' = IF ~ image.elf THEN Idle
                     ELSE [pc |-> "load", cr3 |-> cr3, dir |-> f, image |-> image,
                           seg |-> 1, page |-> PageAt(image, 1)]
           /\ UNCHANGED stopped
  <2>1. f \in Frames \ {0} /\ f \notin used
    BY <1>2, <1>5 DEF IsNext
  <2>2. PageAt(image, 1) \in Nat /\ cr3 \in Frames
    BY <1>3, SegmentFacts, Sizes DEF PageAt, Callers, IInv, TypeOK
  <2>3. job' \in Jobs /\ (job'.pc = "idle" => job' = Idle) /\ (job'.pc = "load" => job'.image \in Images)
    <3>1. Idle \in Jobs /\ Idle.pc = "idle"
      BY <1>3, Sizes DEF Idle, Jobs
    <3> QED
      BY <1>5, <2>1, <2>2, <3>1 DEF Jobs
  <2>4. TypeOK'
    <3>1. mem' \in Memory
      BY <1>3, <1>5, MemoryTypes DEF Clone
    <3>2. As("dir", f, 0) \in Uses
      BY <1>3, Numbers DEF As, Uses
    <3>3. use' \in [Frames -> Uses]
      BY <1>3, <1>5, <3>2
    <3> QED
      BY <1>1, <1>3, <1>5, <2>3, <3>1, <3>3, Same DEF IInv, TypeOK, Jobs, Memory, Uses
  <2>5. \A x, y : /\ As("dir", x, y).as = "dir" /\ As("page", x, y).as = "page"
                  /\ As("table", x, y).as = "table" /\ As("kernel", x, y).as = "kernel"
    BY DEF As
  <2>6. use[f].as = "free" /\ use[KernelDir] = As("kernel", 0, 0) /\ KernelDir # f
    BY <1>3, <2>1, <2>5 DEF Accounted
  <2>7. Accounted'
    <3>1. \A h \in Frames : h \in used' <=> use'[h].as # "free"
      BY <1>3, <1>5, <2>5 DEF Accounted
    <3>2. use'[KernelDir] = As("kernel", 0, 0)
      BY <1>3, <1>5, <2>6, Sizes
    <3> QED
      BY <1>1, <3>1, <3>2, Same DEF Accounted
  <2>8. JobShape' /\ Layout'
    <3>1. Callers' = Callers /\ Layout'
      BY <1>1, <1>3, Same DEF Callers
    <3>2. 1 \in DOMAIN image.segs => PageAt(image, 1) >= StartPage(image.segs[1])
      BY SegmentFacts DEF PageAt
    <3> QED
      BY <1>5, <3>1, <3>2 DEF JobShape, Segment, Idle
  <2>9. ASSUME Calm' PROVE Sound' /\ Filled'
    <3>1. Calm /\ KernelSound(mem, use, heap_max)
      BY <1>5, <2>9 DEF Calm, IInv, Sound
    <3>2. \A d \in Built : DirSound(mem, use, d)
      BY <3>1 DEF IInv, Sound
    <3>3. Shares(mem, cr3) /\ (cr3 # KernelDir => DirSound(mem, use, cr3))
      BY <3>1, CallerFacts
    <3>4. f < HeapStart /\ f < Ident
      <4>1. f < HeapStart
        BY <1>5, <2>9, Numbers DEF Calm
      <4>2. Walk(mem, cr3, f) # 0
        BY <1>5 DEF Unreachable
      <4> QED
        BY <1>3, <3>1, <3>3, <4>1, <4>2, OutOfReach
    <3>5. KernelDir < HeapStart
      BY <1>3, <2>5, <2>6, <3>1, InUse, Sizes
    <3>6. mem' = [mem EXCEPT ![f] = mem[KernelDir]]
      <4>1. InReach(mem, cr3, KernelDir)
        BY <1>3, <3>1, <3>3, <3>5, Reach, Sizes
      <4>2. InReach(mem, cr3, f)
        BY <1>3, <3>1, <3>3, <3>4, Reach
      <4> QED
        BY <1>5, <4>1, <4>2 DEF InReach, Clone
    <3>7. \A h \in Frames \ {f} : mem'[h] = mem[h] /\ use'[h] = use[h]
      BY <1>3, <1>5, <3>6 DEF Memory
    <3>8. mem'[f] = mem[KernelDir] /\ use'[f] = As("dir", f, 0) /\ mem'[KernelDir] = mem[KernelDir]
      BY <1>3, <1>5, <2>6, <3>6, <3>7, Sizes DEF Memory
    <3>9. \A h \in Frames : use[h].as # "free" => use'[h] = use[h] /\ mem'[h] = mem[h]
      BY <2>6, <3>7
    <3>10. KernelSound(mem', use', heap_max')
      <4>1. \A h \in Frames : use[h] = As("kernel", 0, 0) => mem'[h] = mem[h]
        BY <2>5, <3>9
      <4> QED
        BY <1>1, <1>3, <3>1, <3>8, <3>9, <4>1, KernelKeeps
    <3>11. ASSUME NEW d \in Built
           PROVE  DirSound(mem', use', d) /\ \A x \in UserPages : Mapped(mem, d, x) => Mapped(mem', d, x)
      <4>1. DirSound(mem, use, d)
        BY <3>2
      <4>2. \A h \in Frames : use[h].as \in {"dir", "table"} => mem'[h] = mem[h]
        BY <3>9
      <4> QED
        BY <1>3, <3>8, <3>9, <4>1, <4>2, DirKeeps
    <3>12. DirSound(mem', use', f)
      <4>1. Shares(mem', f)
        BY <3>8 DEF Shares
      <4>2. \A s \in Index \ KernelSlots : mem'[f][s] = 0
        BY <3>1, <3>8 DEF KernelSound
      <4>3. \A v \in UserPages : ~ Mapped(mem', f, v)
        BY <4>2, Numbers DEF UserPages, Mapped
      <4> QED
        BY <3>4, <3>8, <4>1, <4>2, <4>3 DEF DirSound
    <3>13. Built' \subseteq Built \cup {f}
      BY <1>1, <1>5 DEF Built, ProcDirs, Idle
    <3>14. Sound'
      BY <1>1, <3>10, <3>11, <3>12, <3>13, SoundNext
    <3>15. ASSUME NEW p \in DOMAIN procs, NEW v \in Brought(procs[p].image) \cup {PrivatePage}
           PROVE  Mapped(mem', procs[p].dir, v) \/ Frames \subseteq used'
      <4>1. procs[p].dir \in Built /\ procs[p].image \in Images
        BY DEF Built, ProcDirs, IInv, TypeOK
      <4>2. Present(procs[p].dir, v)
        BY <1>1, <3>1 DEF IInv, Filled
      <4>3. v \in UserPages
        BY <1>3, <4>1, ProgramsAbove
      <4> QED
        BY <1>5, <3>11, <4>1, <4>2, <4>3 DEF Present
    <3>16. ASSUME job'.pc = "load", NEW k \in DOMAIN job'.image.segs,
                  NEW v \in StartPage(job'.image.segs[k])..(EndPage(job'.image.segs[k]) - 1)
           PROVE  ~ (k < job'.seg \/ (k = job'.seg /\ v < job'.page))
      <4>1. job'.image = image /\ job'.seg = 1 /\ job'.page = PageAt(image, 1)
        BY <1>5, <3>16 DEF Idle
      <4>2. k \in Nat /\ k >= 1 /\ v \in Nat /\ v >= StartPage(image.segs[k]) /\ StartPage(image.segs[k]) \in Nat
        <5>1. image.segs \in Seq(Segments)
          BY LoaderAssumption
        <5>2. DOMAIN image.segs = 1..Len(image.segs)
          BY <5>1
        <5>3. k \in Nat /\ k >= 1
          BY <3>16, <4>1, <5>1, <5>2
        <5>4. StartPage(image.segs[k]) \in Nat /\ EndPage(image.segs[k]) \in Nat
          BY <3>16, <4>1, SegmentFacts
        <5> QED
          BY <3>16, <4>1, <5>3, <5>4
      <4>3. k = 1 => PageAt(image, 1) = StartPage(image.segs[k])
        BY <3>16, <4>1 DEF PageAt
      <4> QED
        BY <4>1, <4>2, <4>3
    <3>17. \A p \in DOMAIN procs' : \A v \in Brought(procs'[p].image) \cup {PrivatePage} :
             Mapped(mem', procs'[p].dir, v) \/ Frames \subseteq used'
      BY <1>1, <3>15
    <3>18. Filled'
      BY <1>1, <3>16, <3>17, FilledNext
    <3> QED
      BY <3>14, <3>18
  <2> QED
    BY <2>4, <2>7, <2>8, <2>9 DEF IInv
<1> QED
  BY <1>2, <1>3, <1>4, <1>5

-----------------------------------------------------------------------------
(***************************************************************************)
(* What paging_init makes.                                                 *)
(***************************************************************************)
LEMMA SlotCount ==
  ASSUME total \in Machines
  PROVE  Cardinality(KernelSlots) \in Nat /\ Cardinality(KernelSlots) <= Entries
<1>1. IsFiniteSet(Index) /\ Cardinality(Index) = Entries
  <2>1. Index = 0..(Entries - 1) /\ 0 \in Int /\ Entries - 1 \in Int /\ Entries \in Nat \ {0}
    BY Numbers DEF Index
  <2>2. Cardinality(0..(Entries - 1)) = (Entries - 1) - 0 + 1 /\ IsFiniteSet(0..(Entries - 1))
    BY <2>1, FS_Interval
  <2> QED
    BY <2>1, <2>2
<1>2. IsFiniteSet(KernelSlots) /\ Cardinality(KernelSlots) <= Cardinality(Index)
  BY <1>1, Sizes, FS_Subset
<1> QED
  BY <1>1, <1>2, FS_CardinalityType

\* The inductive invariant holds when paging_init is done.
LEMMA InitSound == ASSUME Init PROVE IInv
<1> DEFINE n == Cardinality(KernelSlots)
<1>1. PICK table \in [KernelSlots -> (Kernel + 1)..(Kernel + n)] :
       /\ \A r, s \in KernelSlots : r < s => table[r] < table[s]
       /\ used = Reserved \cup Kernel..(Kernel + n)
       /\ mem = [f \in Frames |-> [i \in Index |->
                  IF f = KernelDir THEN IF i \in KernelSlots THEN table[i] ELSE 0
                  ELSE IF f < KernelDir \/ f \notin used THEN Junk
                  ELSE IF \E v \in Identical : table[Slot(v)] = f /\ Entry(v) = i
                    THEN CHOOSE v \in Identical : table[Slot(v)] = f /\ Entry(v) = i
                    ELSE 0]]
  BY DEF Init, InitPaging
<1>2. /\ total \in Machines /\ Layout /\ next_pid = 2 /\ heap_max = HeapStart /\ job = Idle
      /\ stopped = FALSE /\ procs = [p \in {} |-> Idle]
      /\ use = [f \in Frames |-> IF f \in used THEN As("kernel", 0, 0) ELSE Free]
  BY DEF Init, InitPaging
<1>3. n \in Nat /\ n <= Entries
  BY <1>2, SlotCount
<1> HIDE DEF n
<1>4. Kernel \in Nat \ {0} /\ KernelDir = Kernel /\ total \in Nat /\ Kernel + n < total /\ Kernel + n < Ident
      /\ Ident \in Nat /\ Frames = 0..(total - 1) /\ Frames \subseteq Nat
  BY <1>2, <1>3, Numbers, Sizes DEF KernelDir, Frames
<1>5. /\ used = 0..(Kernel - 1) \cup Kernel..(Kernel + n)
      /\ used \subseteq Frames /\ 0 \in used /\ KernelDir \in used
      /\ \A f \in (Kernel + 1)..(Kernel + n) :
           f \in used /\ f \in Frames \ {0, KernelDir} /\ f < Ident /\ f > KernelDir
  BY <1>1, <1>3, <1>4 DEF Reserved
<1>6. ASSUME NEW r \in KernelSlots, NEW s \in KernelSlots, table[r] = table[s] PROVE r = s
  <2>1. r \in Nat /\ s \in Nat
    BY <1>2, <1>6, Sizes, Numbers
  <2>2. table[r] \in Nat /\ table[s] \in Nat
    BY <1>1, <1>3, <1>4, <1>6
  <2> QED
    BY <1>1, <1>6, <2>1, <2>2
<1>7. \A v \in Identical : v \in Pages /\ Slot(v) \in KernelSlots /\ v \in Nat
  BY <1>2, Sizes, Numbers
<1>8. ASSUME NEW v \in Pages, Slot(v) \in KernelSlots, NEW w \in Identical,
             table[Slot(w)] = table[Slot(v)], Entry(w) = Entry(v)
      PROVE  w = v
  BY <1>6, <1>7, <1>8, Numbers
<1>9. mem \in Memory
  <2>1. ASSUME NEW f \in Frames, NEW i \in Index PROVE mem[f][i] \in Nat
    <3>1. CASE f = KernelDir
      BY <1>1, <1>3, <1>4, <3>1
    <3>2. CASE f # KernelDir /\ (f < KernelDir \/ f \notin used)
      BY <1>1, <3>2, Numbers
    <3>3. CASE f # KernelDir /\ ~ (f < KernelDir \/ f \notin used)
      <4>1. CASE \E v \in Identical : table[Slot(v)] = f /\ Entry(v) = i
        <5>1. mem[f][i] = CHOOSE v \in Identical : table[Slot(v)] = f /\ Entry(v) = i
          BY <1>1, <3>3, <4>1
        <5>2. (CHOOSE v \in Identical : table[Slot(v)] = f /\ Entry(v) = i) \in Identical
          BY <4>1
        <5> QED
          BY <1>7, <5>1, <5>2
      <4>2. CASE ~ \E v \in Identical : table[Slot(v)] = f /\ Entry(v) = i
        BY <1>1, <3>3, <4>2
      <4> QED
        BY <4>1, <4>2
    <3> QED
      BY <3>1, <3>2, <3>3
  <2>2. mem = [f \in Frames |-> mem[f]] /\ \A f \in Frames : mem[f] = [i \in Index |-> mem[f][i]]
    BY <1>1
  <2>3. \A f \in Frames : mem[f] \in [Index -> Nat]
    BY <2>1, <2>2
  <2> QED
    BY <2>2, <2>3 DEF Memory
<1>10. \A x, y : As("kernel", x, y).as = "kernel" /\ Free.as = "free"
  BY DEF As, Free
<1>11. Accounted
  <2>1. \A f \in Frames : f \in used <=> use[f].as # "free"
    BY <1>2, <1>10
  <2>2. use[KernelDir] = As("kernel", 0, 0)
    BY <1>2, <1>5
  <2> QED
    BY <2>1, <2>2 DEF Accounted
<1>12. TypeOK
  <2>1. As("kernel", 0, 0) \in Uses /\ Free \in Uses
    BY <1>2, Sizes, Numbers DEF As, Free, Uses
  <2>2. use \in [Frames -> Uses]
    BY <1>2, <2>1
  <2>3. Idle \in Jobs /\ Idle.pc = "idle"
    BY <1>2, Sizes DEF Idle, Jobs
  <2>4. heap_max \in HeapStart..(HeapStart + HeapPages)
    BY <1>2, Numbers
  <2> QED
    BY <1>2, <1>5, <1>9, <2>2, <2>3, <2>4 DEF TypeOK, Jobs, Memory
<1>13. JobShape
  BY <1>2 DEF JobShape, Idle
<1>14. KernelSound(mem, use, heap_max)
  <2>1. \A i \in KernelSlots : i \in Index /\ mem[KernelDir][i] = table[i]
    BY <1>1, <1>2, <1>5, Sizes
  <2>2. \A i \in Index \ KernelSlots : mem[KernelDir][i] = 0
    BY <1>1, <1>5
  <2>3. ASSUME NEW s \in KernelSlots
        PROVE  /\ mem[KernelDir][s] \in Frames \ {0, KernelDir} /\ mem[KernelDir][s] < Ident
               /\ use[mem[KernelDir][s]] = As("kernel", 0, 0)
               /\ \A r \in KernelSlots : mem[KernelDir][r] = mem[KernelDir][s] => r = s
    BY <1>1, <1>2, <1>5, <1>6, <2>1
  <2>4. ASSUME NEW v \in Pages, Slot(v) \in KernelSlots
        PROVE  Word(mem, KernelDir, v) = IF v \in Identical THEN v ELSE 0
    <3> DEFINE f == table[Slot(v)]
    <3>1. f \in Frames /\ f # KernelDir /\ ~ (f < KernelDir) /\ f \in used
      BY <1>1, <1>4, <1>5, <2>4
    <3>2. Entry(v) \in Index /\ Word(mem, KernelDir, v) = mem[f][Entry(v)]
      BY <2>1, <2>4, Numbers DEF Word
    <3>3. CASE v \in Identical
      <4>1. \E w \in Identical : table[Slot(w)] = f /\ Entry(w) = Entry(v)
        BY <3>3
      <4>2. mem[f][Entry(v)] = CHOOSE w \in Identical : table[Slot(w)] = f /\ Entry(w) = Entry(v)
        BY <1>1, <3>1, <3>2, <4>1
      <4>3. (CHOOSE w \in Identical : table[Slot(w)] = f /\ Entry(w) = Entry(v)) = v
        BY <1>8, <2>4, <4>1
      <4> QED
        BY <3>2, <3>3, <4>2, <4>3
    <3>4. CASE v \notin Identical
      <4>1. ~ \E w \in Identical : table[Slot(w)] = f /\ Entry(w) = Entry(v)
        BY <1>8, <2>4, <3>4
      <4>2. mem[f][Entry(v)] = 0
        BY <1>1, <3>1, <3>2, <4>1
      <4> QED
        BY <3>2, <3>4, <4>2
    <3> QED
      BY <3>3, <3>4
  <2>5. \A v : v \notin HeapStart..(heap_max - 1)
    BY <1>2, Numbers
  <2> QED
    BY <2>2, <2>3, <2>4, <2>5 DEF KernelSound
<1>15. Built = {} /\ DOMAIN procs = {} /\ job.pc = "idle"
  BY <1>2 DEF Built, ProcDirs, Idle
<1>16. Sound /\ Filled
  BY <1>14, <1>15 DEF Sound, Filled
<1> QED
  BY <1>2, <1>11, <1>12, <1>13, <1>16 DEF IInv

-----------------------------------------------------------------------------
\* A step that changes nothing keeps the invariant.
LEMMA StutterStep == ASSUME IInv, UNCHANGED vars PROVE IInv'
<1>1. UNCHANGED <<total, used, mem, procs, next_pid, heap_max, job, stopped, use>>
  BY DEF vars
<1>2. TypeOK' /\ Accounted' /\ Layout' /\ Calm' = Calm
  BY <1>1, MemoryStays DEF IInv, TypeOK, Jobs
<1>3. JobShape' /\ Built' = Built
  BY <1>1 DEF IInv, JobShape, Callers, Segment, Built, ProcDirs
<1>4. ASSUME Calm PROVE Sound' /\ Filled'
  BY <1>1, <1>3, <1>4, MemoryStays, FilledNext DEF IInv, Filled, Present
<1> QED
  BY <1>2, <1>3, <1>4 DEF IInv

\* Every step keeps the invariant.
LEMMA NextKeeps == ASSUME IInv, [Next]_vars PROVE IInv'
<1>1. ASSUME NEW cr3 \in Callers, NEW image \in Images, SpawnStart(cr3, image) PROVE IInv'
  BY <1>1, SpawnStartStep
<1>2. CASE LoadOldPage
  BY <1>2, LoadOldPageStep
<1>3. CASE LoadNewPage
  BY <1>3, LoadNewPageStep
<1>4. CASE LoadFails
  BY <1>4, LoadFailsStep
<1>5. CASE NextSegment
  BY <1>5, NextSegmentStep
<1>6. CASE SpawnEnd
  BY <1>6, SpawnEndStep
<1>7. ASSUME NEW cr3 \in Callers, GrowHeap(cr3) PROVE IInv'
  BY <1>7, GrowHeapStep
<1>8. ASSUME NEW p \in DOMAIN procs, Exit(p) PROVE IInv'
  BY <1>8, ExitStep
<1>9. ASSUME NEW p \in DOMAIN procs, NEW a \in Stores, Store(p, a) PROVE IInv'
  BY <1>9, StoreStep
<1>10. CASE Halted \/ UNCHANGED vars
  BY <1>10, StutterStep DEF Halted
<1> QED
  BY <1>1, <1>2, <1>3, <1>4, <1>5, <1>6, <1>7, <1>8, <1>9, <1>10 DEF Next

(***************************************************************************)
(* The inductive invariant: directories, tables and pages have the frames  *)
(* that were taken for them, the kernel is in every directory, and holes   *)
(* are there only when the frames have run out.                            *)
(***************************************************************************)
THEOREM Invariance == Spec => []IInv
<1>1. Init => IInv
  BY InitSound
<1>2. IInv /\ [Next]_vars => IInv'
  BY NextKeeps
<1> QED
  BY <1>1, <1>2, PTL DEF Spec

(***************************************************************************)
(* spawn_elf, elf_load, map_page, heap_grow and the programs keep the      *)
(* bitmap, the tables and the words of memory what they are meant to be,   *)
(* whatever the kernel reaches at the addresses it uses.                   *)
(***************************************************************************)
THEOREM TypeCorrectness == Spec => []TypeOK
<1>1. IInv => TypeOK
  BY DEF IInv
<1> QED
  BY <1>1, Invariance, PTL

(***************************************************************************)
(* Every frame that a directory leads to was taken for that place and for  *)
(* no other, until a frame is taken that lies in the range of the heap.    *)
(***************************************************************************)
THEOREM OneUse == Spec => [](Calm => FramesHaveOneUse)
<1>1. ASSUME IInv, Calm PROVE FramesHaveOneUse
  <2>1. \A f \in Frames : f \in used <=> use[f].as # "free"
    BY <1>1 DEF IInv, Accounted
  <2>2. ASSUME NEW d \in Dirs \ {KernelDir} PROVE DirSound(mem, use, d)
    <3>1. d \in Built
      BY <1>1 DEF Dirs, Callers, Built, ProcDirs, IInv, TypeOK
    <3> QED
      BY <1>1, <3>1 DEF IInv, Sound
  <2>3. ASSUME NEW d \in Dirs \ {KernelDir}, NEW v \in UserPages, Walk(mem, d, v) # 0
        PROVE  TakenFor(Walk(mem, d, v), "page", d, v)
    <3>1. Walk(mem, d, v) = Word(mem, d, v) /\ Mapped(mem, d, v)
      BY <2>3 DEF Walk, Word, Mapped
    <3> QED
      BY <2>2, <3>1 DEF DirSound, TakenFor
  <2> QED
    BY <2>1, <2>2, <2>3 DEF FramesHaveOneUse, DirSound, TakenFor
<1> QED
  BY <1>1, Invariance, PTL

(***************************************************************************)
(* Whatever directory is in CR3, the kernel, the heap and the framebuffer  *)
(* are where they are for all others.                                      *)
(***************************************************************************)
THEOREM SharedKernel == Spec => [](Calm => KernelIsShared)
<1>1. ASSUME IInv, Calm PROVE KernelIsShared
  <2>1. ASSUME NEW d \in Dirs PROVE Shares(mem, d)
    <3>1. d = KernelDir \/ d \in Built
      BY <1>1 DEF Dirs, Callers, Built, ProcDirs, IInv, TypeOK
    <3> QED
      BY <1>1, <3>1 DEF IInv, Sound, DirSound, Shares
  <2>2. \A v \in Pages \ UserPages : Slot(v) \in KernelSlots
    BY Numbers DEF UserPages
  <2> QED
    BY <2>1, <2>2 DEF KernelIsShared, Shares, Walk
<1> QED
  BY <1>1, Invariance, PTL

(***************************************************************************)
(* map_page fails in silence, yet a process lacks a page of its file only  *)
(* when no frame is left for anybody.                                      *)
(***************************************************************************)
THEOREM HolesMeanFull == Spec => [](Calm => HolesOnlyWhenFull)
<1>1. ASSUME IInv, Calm PROVE HolesOnlyWhenFull
  <2> SUFFICES ASSUME ~ stopped, NEW p \in DOMAIN procs, NEW v \in OwnPages(p),
                      Walk(mem, procs[p].dir, v) = 0
               PROVE  Frames \subseteq used
    BY DEF HolesOnlyWhenFull
  <2>1. total \in Machines /\ Layout /\ procs[p].image \in Images /\ procs[p].dir \in Built
    BY <1>1 DEF IInv, TypeOK, Built, ProcDirs
  <2>2. v \in Brought(procs[p].image) \cup {PrivatePage}
    BY <2>1, TouchedIsBrought DEF OwnPages
  <2>3. v \in UserPages /\ Slot(v) \in Index \ KernelSlots
    BY <2>1, <2>2, ProgramsAbove, Numbers DEF UserPages
  <2>4. Present(procs[p].dir, v)
    BY <1>1, <2>2 DEF IInv, Filled
  <2>5. DirSound(mem, use, procs[p].dir)
    BY <1>1, <2>1 DEF IInv, Sound
  <2>6. ~ Mapped(mem, procs[p].dir, v)
    <3>1. mem[procs[p].dir][Slot(v)] # 0 => mem[procs[p].dir][Slot(v)] \in Frames
      BY <2>3, <2>5 DEF DirSound
    <3> QED
      BY <3>1 DEF Walk, Mapped, Word
  <2> QED
    BY <2>4, <2>6 DEF Present
<1> QED
  BY <1>1, Invariance, PTL

(***************************************************************************)
(* What the comment of paging_init says holds until a frame is taken in    *)
(* the range of the heap.                                                  *)
(***************************************************************************)
THEOREM IdentityBelowTheHeap == Spec => [](Calm => IdentityMapped)
<1>1. ASSUME IInv, Calm PROVE IdentityMapped
  <2> SUFFICES ASSUME NEW f \in used, f < Ident PROVE Walk(mem, KernelDir, f) = f
    BY DEF IdentityMapped
  <2>1. f \in Frames /\ f < HeapStart /\ KernelSound(mem, use, heap_max) /\ total \in Machines
    BY <1>1, Numbers DEF IInv, TypeOK, Calm, Sound
  <2>2. InReach(mem, KernelDir, f)
    BY <2>1, Reach DEF Shares
  <2> QED
    BY <2>2 DEF InReach
<1> QED
  BY <1>1, Invariance, PTL

-----------------------------------------------------------------------------
(***************************************************************************)
(* The words of a process.                                                 *)
(***************************************************************************)
\* The word i of page v, as an address.
At(v, i) == v * Entries + i

\* Segment s of a file has a word for address a.
Holds(s, a) == s.load /\ s.vaddr <= a /\ a < s.vaddr + Len(s.data)

\* The segments with a word for address a that elf_load has copied into page v,
\* and what lies there then.
Copies(image, seg, page, v, a) ==
  {k \in DOMAIN image.segs : Holds(image.segs[k], a) /\ (k < seg \/ (k = seg /\ v < page))}
IsWord(image, here, a, w) ==
  IF here = {} THEN w = 0
  ELSE \E k \in here : /\ \A j \in here : j <= k
                       /\ w = image.segs[k].data[a - image.segs[k].vaddr + 1]

\* What a process with the directory d and a file finds in its pages, and what
\* there is in the heap.
View(m, d, image) ==
  [v \in {w \in Touched(image) \cup {PrivatePage} : Mapped(m, d, w)} |->
     [i \in IF v = PrivatePage THEN 0..1 ELSE Index |-> m[Word(m, d, v)][i]]]
HeapOf(m, top) == [v \in HeapStart..(top - 1) |-> m[Word(m, KernelDir, v)]]

\* Page v of the directory that elf_load fills.
AsLoaded(m, d, v, image, seg, page) ==
  Mapped(m, d, v) =>
    /\ v # PrivatePage
    /\ \A i \in Index : IsWord(image, Copies(image, seg, page, v, At(v, i)), At(v, i),
                               m[Word(m, d, v)][i])

\* Processes are numbered and have directories of their own; the one that is
\* loaded has what was copied and nothing else.
Kept ==
  /\ DOMAIN procs \subseteq Nat /\ \A p \in DOMAIN procs : p < next_pid
  /\ \A p, q \in DOMAIN procs : procs[p].dir = procs[q].dir => p = q
  /\ job.pc = "load" =>
       /\ job.dir \notin ProcDirs
       /\ ~ stopped => \A v \in UserPages :
            AsLoaded(mem, job.dir, v, job.image, job.seg, job.page)

\* Where the words of page v lie.
LEMMA AtFacts ==
  ASSUME NEW v \in Nat, NEW i \in Index
  PROVE  /\ At(v, i) \in Nat /\ At(v, i) \div Entries = v
         /\ At(v, i) = At(v, 0) + i /\ At(v, 0) \in Nat
         /\ v * Entries = At(v, 0) /\ (v + 1) * Entries = At(v, 0) + Entries
<1>1. \A E \in Nat \ {0} : \A x \in Nat : x * E \in Nat /\ (x + 1) * E = x * E + E
  OBVIOUS
<1>2. \A E \in Nat \ {0} : \A x, y \in Nat : x < y => x * E + E <= y * E
  OBVIOUS
<1>3. \A E \in Nat \ {0} : \A a \in Nat :
        a \div E \in Nat /\ (a \div E) * E <= a /\ a < (a \div E) * E + E
  OBVIOUS
<1>4. Entries \in Nat \ {0} /\ i \in Nat /\ i < Entries
  BY Numbers DEF Index
<1> DEFINE from == v * Entries
           q    == (from + i) \div Entries
           z    == q * Entries
<1>5. from \in Nat /\ (v + 1) * Entries = from + Entries
  BY <1>1, <1>4
<1> HIDE DEF from
<1>6. q \in Nat /\ z \in Nat /\ z <= from + i /\ from + i < z + Entries
  BY <1>1, <1>3, <1>4, <1>5
<1> HIDE DEF q
<1>7. (q < v => z + Entries <= from) /\ (v < q => from + Entries <= z)
  BY <1>2, <1>4, <1>6 DEF from
<1> HIDE DEF z
<1>8. q = v
  BY <1>4, <1>5, <1>6, <1>7
<1>9. At(v, i) = from + i /\ At(v, 0) = from
  BY <1>5 DEF At, from
<1> QED
  BY <1>4, <1>5, <1>8, <1>9 DEF q, from

\* A segment has words for its own pages only.
LEMMA HoldsInPages ==
  ASSUME NEW s \in Segments, Len(s.data) <= s.memsz, NEW v \in Nat, NEW i \in Index,
         Holds(s, At(v, i))
  PROVE  s.load /\ StartPage(s) <= v /\ v < EndPage(s)
<1>1. \A E \in Nat \ {0} : \A a, b \in Nat : a <= b => a \div E <= b \div E
  OBVIOUS
<1>2. \A E \in Nat \ {0} : \A a \in Nat : (a + E) \div E = a \div E + 1
  OBVIOUS
<1>3. /\ Entries \in Nat \ {0} /\ s.vaddr \in Nat /\ s.memsz \in Nat /\ Len(s.data) \in Nat
      /\ s.data \in Seq(Nat)
  BY Numbers DEF Segments
<1>4. At(v, i) \in Nat /\ At(v, i) \div Entries = v
  BY AtFacts
<1>5. s.vaddr <= At(v, i) /\ At(v, i) + Entries <= s.vaddr + s.memsz + Entries - 1
  BY <1>3, <1>4 DEF Holds
<1>6. s.vaddr \div Entries <= v
  BY <1>1, <1>3, <1>4, <1>5
<1>7. (At(v, i) + Entries) \div Entries <= (s.vaddr + s.memsz + Entries - 1) \div Entries
  <2>1. At(v, i) + Entries \in Nat /\ s.vaddr + s.memsz + Entries - 1 \in Nat
    BY <1>3, <1>4
  <2> QED
    BY <1>1, <1>3, <1>5, <2>1
<1>8. (At(v, i) + Entries) \div Entries = v + 1
  BY <1>2, <1>3, <1>4
<1>9. \A E \in Nat \ {0}, n \in Nat : n \div E \in Nat
  OBVIOUS
<1>10. (s.vaddr + s.memsz + Entries - 1) \div Entries \in Nat
  <2>1. s.vaddr + s.memsz + Entries - 1 \in Nat
    BY <1>3
  <2> QED
    BY <1>3, <1>9, <2>1
<1> QED
  BY <1>6, <1>7, <1>8, <1>10 DEF Holds, StartPage, EndPage

\* The part of a page that begins at from which lies in the n words at x.
LEMMA PartOfPage ==
  ASSUME NEW from \in Nat, NEW E \in Nat, NEW to, to = from + E,
         NEW x \in Nat, NEW n \in Nat, NEW i \in Nat, i < E,
         NEW lo, lo = IF from > x THEN from - x ELSE 0,
         NEW hi, hi = IF to - x < n THEN to - x ELSE n,
         NEW off, off = IF from > x THEN 0 ELSE x - from
  PROVE  (off <= i /\ i < off + hi - lo) <=> (x <= from + i /\ from + i < x + n)
OBVIOUS

\* What Copied puts at word i of page v.
LEMMA CopiedIs ==
  ASSUME NEW page \in [Index -> Nat], NEW s \in Segments, s.load, NEW v \in Nat, NEW i \in Index
  PROVE  Copied(page, s, v)[i] =
           IF Holds(s, At(v, i)) THEN s.data[At(v, i) - s.vaddr + 1] ELSE page[i]
<1> DEFINE from == v * Entries
           to   == (v + 1) * Entries
           lo   == IF from > s.vaddr THEN from - s.vaddr ELSE 0
           hi   == IF to - s.vaddr < Len(s.data) THEN to - s.vaddr ELSE Len(s.data)
           off  == IF from > s.vaddr THEN 0 ELSE s.vaddr - from
<1>1. Copied(page, s, v) = [j \in Index |-> IF off <= j /\ j < off + hi - lo
                                              THEN s.data[lo + j - off + 1] ELSE page[j]]
  BY DEF Copied, lo, hi, off, from, to
<1>2. from = At(v, 0) /\ to = from + Entries /\ At(v, i) = from + i /\ from \in Nat /\ to \in Nat
  <2>1. At(v, i) = At(v, 0) + i /\ At(v, 0) \in Nat /\ from = At(v, 0) /\ to = At(v, 0) + Entries
    BY AtFacts
  <2> HIDE DEF from, to
  <2> QED
    BY <2>1, Numbers
<1>3. s.vaddr \in Nat /\ Len(s.data) \in Nat /\ i \in Nat /\ i < Entries /\ Entries \in Nat
  BY Numbers DEF Segments, Index
<1> HIDE DEF from, to
<1>4. (off <= i /\ i < off + hi - lo) <=> Holds(s, At(v, i))
  <2>1. (off <= i /\ i < off + hi - lo) <=> (s.vaddr <= from + i /\ from + i < s.vaddr + Len(s.data))
    <3> DEFINE x == s.vaddr
               n == Len(s.data)
    <3>1. x \in Nat /\ n \in Nat
      BY <1>3
    <3>2. /\ from \in Nat /\ Entries \in Nat /\ to = from + Entries
          /\ x \in Nat /\ n \in Nat /\ i \in Nat /\ i < Entries
          /\ lo = IF from > x THEN from - x ELSE 0
          /\ hi = IF to - x < n THEN to - x ELSE n
          /\ off = IF from > x THEN 0 ELSE x - from
      BY <1>2, <1>3, <3>1
    <3> HIDE DEF lo, hi, off, x, n
    <3>3. (off <= i /\ i < off + hi - lo) <=> (x <= from + i /\ from + i < x + n)
      BY ONLY <3>2, PartOfPage
    <3> QED
      BY <3>3 DEF x, n
  <2> QED
    BY <1>2, <2>1 DEF Holds
<1>5. Holds(s, At(v, i)) => lo + i - off + 1 = At(v, i) - s.vaddr + 1
  <2>1. \A f, x, j \in Nat : x <= f + j =>
          (IF f > x THEN f - x ELSE 0) + j - (IF f > x THEN 0 ELSE x - f) + 1 = f + j - x + 1
    OBVIOUS
  <2>2. from \in Nat /\ s.vaddr \in Nat /\ i \in Nat /\ At(v, i) = from + i
    BY <1>2, <1>3
  <2>3. Holds(s, At(v, i)) => s.vaddr <= from + i
    BY <2>2 DEF Holds
  <2> QED
    BY ONLY <2>1, <2>2, <2>3
<1> HIDE DEF lo, hi, off
<1>6. Copied(page, s, v)[i] = IF off <= i /\ i < off + hi - lo
                                THEN s.data[lo + i - off + 1] ELSE page[i]
  BY <1>1
<1> QED
  BY <1>4, <1>5, <1>6

\* A page of a user's slot keeps its place and its words when the frames that
\* were taken for its directory do.
Stays(m, n, d, v) ==
  /\ Mapped(n, d, v) <=> Mapped(m, d, v)
  /\ Mapped(m, d, v) => Word(n, d, v) = Word(m, d, v) /\ n[Word(m, d, v)] = m[Word(m, d, v)]

\* When the frames taken for a directory keep their words, so does a page of it.
LEMMA PageStays ==
  ASSUME NEW m, NEW n, NEW u, NEW d, DirSound(m, u, d), NEW v \in UserPages,
         \A h \in Frames : u[h].as \in {"dir", "table", "page"} /\ u[h].dir = d => n[h] = m[h]
  PROVE  Stays(m, n, d, v)
<1>1. \A x, y : /\ As("dir", x, y).as = "dir" /\ As("page", x, y).as = "page"
                /\ As("table", x, y).as = "table"
                /\ As("dir", x, y).dir = x /\ As("page", x, y).dir = x /\ As("table", x, y).dir = x
  BY DEF As
<1>2. Slot(v) \in Index \ KernelSlots
  BY Numbers DEF UserPages
<1>3. n[d] = m[d]
  BY <1>1 DEF DirSound
<1>4. m[d][Slot(v)] # 0 => n[m[d][Slot(v)]] = m[m[d][Slot(v)]]
  BY <1>1, <1>2 DEF DirSound
<1>5. m[d][Slot(v)] # 0 => Word(n, d, v) = Word(m, d, v)
  BY <1>3, <1>4 DEF Word
<1>6. Mapped(m, d, v) => n[Word(m, d, v)] = m[Word(m, d, v)]
  BY <1>1 DEF DirSound
<1> QED
  BY <1>3, <1>5, <1>6 DEF Stays, Mapped

\* When each page keeps its words, so does the view.
LEMMA ViewStays ==
  ASSUME NEW m, NEW n, NEW d, NEW image,
         \A v \in Touched(image) \cup {PrivatePage} : Stays(m, n, d, v)
  PROVE  View(n, d, image) = View(m, d, image)
<1>1. {w \in Touched(image) \cup {PrivatePage} : Mapped(n, d, w)}
        = {w \in Touched(image) \cup {PrivatePage} : Mapped(m, d, w)}
  BY DEF Stays
<1>2. \A v \in {w \in Touched(image) \cup {PrivatePage} : Mapped(m, d, w)} :
        n[Word(n, d, v)] = m[Word(m, d, v)]
  BY DEF Stays
<1> QED
  BY <1>1, <1>2 DEF View

\* When kernel_dir, the kernel's tables and the pages of the heap stay, so does the heap.
LEMMA HeapStays ==
  ASSUME total \in Machines, Layout, NEW m, NEW n, NEW u,
         NEW top \in HeapStart..(HeapStart + HeapPages), KernelSound(m, u, top),
         u[KernelDir] = As("kernel", 0, 0), n[KernelDir] = m[KernelDir],
         \A v \in HeapStart..(top - 1) : Word(n, KernelDir, v) = Word(m, KernelDir, v),
         \A h \in Frames : u[h].as = "page" /\ u[h].dir = KernelDir => n[h] = m[h]
  PROVE  HeapOf(n, top) = HeapOf(m, top)
<1>1. \A x, y : As("page", x, y).as = "page" /\ As("page", x, y).dir = x
  BY DEF As
<1>2. ASSUME NEW v \in HeapStart..(top - 1)
      PROVE  n[Word(n, KernelDir, v)] = m[Word(m, KernelDir, v)]
  <2>1. v \in Pages /\ Slot(v) \in KernelSlots
    <3>1. v \in HeapStart..(HeapStart + HeapPages)
      BY Numbers
    <3> QED
      BY <3>1, LoaderAssumption DEF Layout
  <2>2. Word(m, KernelDir, v) \in Frames \ {0} /\ u[Word(m, KernelDir, v)] = As("page", KernelDir, v)
    BY <2>1 DEF KernelSound
  <2> QED
    BY <1>1, <2>2
<1> QED
  BY <1>2 DEF HeapOf

-----------------------------------------------------------------------------
(***************************************************************************)
(* elf_load copies one page of one program header after the other.         *)
(***************************************************************************)
\* The page of the program header that is being copied gets its words.
LEMMA PageCopied ==
  ASSUME NEW image \in Images, NEW seg \in DOMAIN image.segs, image.segs[seg].load,
         NEW v \in Nat, NEW i \in Index, NEW old \in [Index -> Nat],
         IsWord(image, Copies(image, seg, v, v, At(v, i)), At(v, i), old[i])
  PROVE  IsWord(image, Copies(image, seg, v + 1, v, At(v, i)), At(v, i),
                Copied(old, image.segs[seg], v)[i])
<1> DEFINE a == At(v, i)
           s == image.segs[seg]
           w == Copied(old, s, v)[i]
           A == Copies(image, seg, v, v, a)
           B == Copies(image, seg, v + 1, v, a)
<1>1. w = IF Holds(s, a) THEN s.data[a - s.vaddr + 1] ELSE old[i]
  BY SegmentFacts, CopiedIs
<1>2. DOMAIN image.segs \subseteq Nat
  BY SegmentFacts
<1> HIDE DEF w
<1>3. B = A \cup (IF Holds(s, a) THEN {seg} ELSE {}) /\ \A k \in A : k <= seg
  BY <1>2 DEF Copies
<1> HIDE DEF A, B, a
<1>4. CASE Holds(s, a)
  <2>1. seg \in B /\ \A j \in B : j <= seg
    BY <1>2, <1>3, <1>4
  <2> QED
    BY <1>1, <1>4, <2>1 DEF IsWord, a, B, w
<1>5. CASE ~ Holds(s, a)
  BY <1>1, <1>3, <1>5 DEF IsWord, a, A, B, w
<1> QED
  BY <1>4, <1>5

\* The other pages keep theirs.
LEMMA OtherPages ==
  ASSUME NEW image \in Images, NEW seg, NEW page \in Nat, NEW v \in Nat, v # page, NEW a
  PROVE  Copies(image, seg, page + 1, v, a) = Copies(image, seg, page, v, a)
BY DEF Copies

\* The program header is done.
LEMMA HeaderDone ==
  ASSUME NEW image \in Images, NEW seg \in DOMAIN image.segs, NEW page \in Nat,
         ~ (image.segs[seg].load /\ page < EndPage(image.segs[seg])),
         NEW v \in Nat, NEW i \in Index
  PROVE  Copies(image, seg + 1, PageAt(image, seg + 1), v, At(v, i))
           = Copies(image, seg, page, v, At(v, i))
<1>1. /\ DOMAIN image.segs \subseteq Nat
      /\ \A k \in DOMAIN image.segs :
           /\ image.segs[k] \in Segments
           /\ StartPage(image.segs[k]) \in Nat /\ EndPage(image.segs[k]) \in Nat
           /\ Len(image.segs[k].data) <= image.segs[k].memsz
  BY SegmentFacts, LoaderAssumption
<1>2. \A k \in DOMAIN image.segs : Holds(image.segs[k], At(v, i)) =>
        image.segs[k].load /\ StartPage(image.segs[k]) <= v /\ v < EndPage(image.segs[k])
  BY <1>1, HoldsInPages
<1>3. seg + 1 \in DOMAIN image.segs => PageAt(image, seg + 1) = StartPage(image.segs[seg + 1])
  BY DEF PageAt
<1>4. ASSUME NEW k \in DOMAIN image.segs, Holds(image.segs[k], At(v, i))
      PROVE  (k < seg + 1 \/ (k = seg + 1 /\ v < PageAt(image, seg + 1)))
               <=> (k < seg \/ (k = seg /\ v < page))
  <2>1. k \in Nat /\ seg \in Nat
    BY <1>1
  <2>2. StartPage(image.segs[k]) \in Nat /\ EndPage(image.segs[k]) \in Nat
        /\ image.segs[k].load /\ StartPage(image.segs[k]) <= v /\ v < EndPage(image.segs[k])
    BY <1>1, <1>2, <1>4
  <2>3. CASE k = seg
    <3>1. page >= EndPage(image.segs[k])
      BY <2>2, <2>3
    <3> QED
      BY <2>1, <2>2, <2>3, <3>1
  <2>4. CASE k = seg + 1
    BY <1>3, <2>1, <2>2, <2>4
  <2>5. CASE k # seg /\ k # seg + 1
    BY <2>1, <2>5
  <2> QED
    BY <2>3, <2>4, <2>5
<1> QED
  BY <1>4 DEF Copies

\* When no program header is left the page is what the file says.
LEMMA AllCopied ==
  ASSUME NEW image \in Images, NEW seg \in Nat, seg # 0, seg \notin DOMAIN image.segs,
         NEW page, NEW v, NEW a, NEW w, IsWord(image, Copies(image, seg, page, v, a), a, w)
  PROVE  w = Abstract!FileWord(image, a)
<1> DEFINE here == {k \in DOMAIN image.segs :
                      LET s == image.segs[k]
                      IN  s.load /\ s.vaddr <= a /\ a < s.vaddr + Len(s.data)}
<1>1. \A k \in DOMAIN image.segs : k \in Nat /\ k < seg
  <2>1. image.segs \in Seq(Segments)
    BY LoaderAssumption
  <2>2. DOMAIN image.segs = 1..Len(image.segs) /\ Len(image.segs) \in Nat
    BY <2>1
  <2> QED
    BY <2>2
<1>2. Copies(image, seg, page, v, a) = here
  BY <1>1 DEF Copies, Holds
<1>3. Abstract!FileWord(image, a) =
        IF here = {} THEN 0
        ELSE image.segs[CHOOSE k \in here : \A j \in here : j <= k].data[
               a - image.segs[CHOOSE k \in here : \A j \in here : j <= k].vaddr + 1]
  BY DEF Abstract!FileWord
<1>4. \A k \in here : k \in Nat
  BY <1>1
<1> HIDE DEF here
<1>5. CASE here = {}
  BY <1>2, <1>3, <1>5 DEF IsWord
<1>6. CASE here # {}
  <2>1. PICK k \in here : /\ \A j \in here : j <= k
                          /\ w = image.segs[k].data[a - image.segs[k].vaddr + 1]
    BY <1>2, <1>6 DEF IsWord
  <2>2. \A x \in here : (\A j \in here : j <= x) => x = k
    BY <1>4, <2>1
  <2>3. (CHOOSE x \in here : \A j \in here : j <= x) = k
    BY <2>1, <2>2
  <2> QED
    BY <1>3, <1>6, <2>1, <2>3
<1> QED
  BY <1>5, <1>6

-----------------------------------------------------------------------------
(***************************************************************************)
(* What each step writes.                                                  *)
(***************************************************************************)
\* As long as the frames of a process's directory stay, so does its view.
LEMMA ViewIsKept ==
  ASSUME IInv, Calm, NEW p \in DOMAIN procs,
         \A h \in Frames : use[h].as \in {"dir", "table", "page"} /\ use[h].dir = procs[p].dir =>
           mem'[h] = mem[h]
  PROVE  View(mem', procs[p].dir, procs[p].image) = View(mem, procs[p].dir, procs[p].image)
<1> DEFINE d == procs[p].dir
           image == procs[p].image
<1>1. d \in ProcDirs /\ d \in Built /\ image \in Images /\ total \in Machines /\ Layout
  BY DEF ProcDirs, Built, IInv, TypeOK
<1>2. \A h \in Frames : use[h].as \in {"dir", "table", "page"} /\ use[h].dir = d => mem'[h] = mem[h]
  OBVIOUS
<1> HIDE DEF d, image
<1>3. DirSound(mem, use, d)
  BY <1>1 DEF IInv, Sound
<1>4. \A v \in Touched(image) \cup {PrivatePage} : v \in UserPages
  BY <1>1, TouchedIsBrought, ProgramsAbove
<1>5. \A v \in Touched(image) \cup {PrivatePage} : Stays(mem, mem', d, v)
  BY <1>2, <1>3, <1>4, PageStays
<1>6. View(mem', d, image) = View(mem, d, image)
  BY <1>5, ViewStays
<1> QED
  BY <1>6 DEF d, image

\* The same for all processes.
LEMMA ViewsStay ==
  ASSUME IInv, Calm,
         \A h \in Frames : use[h].as \in {"dir", "table", "page"} /\ use[h].dir \in ProcDirs =>
           mem'[h] = mem[h]
  PROVE  \A p \in DOMAIN procs :
           View(mem', procs[p].dir, procs[p].image) = View(mem, procs[p].dir, procs[p].image)
<1>1. \A p \in DOMAIN procs : procs[p].dir \in ProcDirs
  BY DEF ProcDirs
<1> QED
  BY <1>1, ViewIsKept

\* As long as the kernel's frames and its pages stay, so does the heap.
LEMMA HeapIsKept ==
  ASSUME IInv, Calm,
         \A h \in Frames : use[h].as = "kernel" \/ (use[h].as = "page" /\ use[h].dir = KernelDir) =>
           mem'[h] = mem[h]
  PROVE  HeapOf(mem', heap_max) = HeapOf(mem, heap_max)
<1>1. /\ total \in Machines /\ Layout /\ heap_max \in HeapStart..(HeapStart + HeapPages)
      /\ KernelSound(mem, use, heap_max) /\ use[KernelDir] = As("kernel", 0, 0)
  BY DEF IInv, TypeOK, Sound, Accounted
<1>2. \A x, y : As("kernel", x, y).as = "kernel"
  BY DEF As
<1>3. mem'[KernelDir] = mem[KernelDir]
  BY <1>1, <1>2, Sizes
<1>4. ASSUME NEW v \in HeapStart..(heap_max - 1)
      PROVE  Word(mem', KernelDir, v) = Word(mem, KernelDir, v)
  <2>1. v \in HeapStart..(HeapStart + HeapPages)
    BY <1>1, Numbers
  <2>2. Slot(v) \in KernelSlots
    BY <1>1, <2>1 DEF Layout
  <2>3. mem'[mem[KernelDir][Slot(v)]] = mem[mem[KernelDir][Slot(v)]]
    BY <1>1, <1>2, <2>2 DEF KernelSound
  <2> QED
    BY <1>3, <2>3 DEF Word
<1>5. \A h \in Frames : use[h].as = "page" /\ use[h].dir = KernelDir => mem'[h] = mem[h]
  OBVIOUS
<1> QED
  BY <1>1, <1>3, <1>4, <1>5, HeapStays

\* get_physical finds what the CPU does, in a page of a user's slot.
LEMMA GetPhysicalIs ==
  ASSUME IInv, Calm, NEW d \in Built, NEW c \in Callers, NEW v \in UserPages
  PROVE  GetPhysical(mem, c, d, v) = IF Mapped(mem, d, v) THEN Word(mem, d, v) ELSE 0
<1>1. /\ total \in Machines /\ KernelSound(mem, use, heap_max)
      /\ Shares(mem, c) /\ DirSound(mem, use, d) /\ Slot(v) \in Index \ KernelSlots
  BY CallerFacts, Numbers DEF IInv, TypeOK, Sound, UserPages
<1>2. \A x, y : As("dir", x, y).as = "dir" /\ As("table", x, y).as = "table"
  BY DEF As
<1>3. Seen(mem, c, d) = mem[d]
  <2>1. d \in Frames /\ d < Ident /\ use[d].as = "dir"
    BY <1>1, <1>2 DEF DirSound
  <2>2. InReach(mem, c, d)
    BY <1>1, <2>1, InUse, Reach
  <2> QED
    BY <2>2 DEF InReach
<1> DEFINE t == mem[d][Slot(v)]
<1>4. CASE t # 0
  <2>1. t \in Frames /\ t < Ident /\ use[t].as = "table"
    BY <1>1, <1>2, <1>4 DEF DirSound
  <2>2. InReach(mem, c, t)
    BY <1>1, <2>1, InUse, Reach
  <2> QED
    BY <1>3, <1>4, <2>2 DEF InReach, GetPhysical, Mapped, Word
<1>5. CASE t = 0
  BY <1>3, <1>5 DEF GetPhysical, Mapped
<1> QED
  BY <1>4, <1>5

\* What elf_load copies into a page that is there.
LEMMA OldPageIs ==
  ASSUME IInv, Calm, LoadOldPage
  PROVE  /\ Mapped(mem, job.dir, job.page)
         /\ Word(mem, job.dir, job.page) \in Frames
         /\ use[Word(mem, job.dir, job.page)] = As("page", job.dir, job.page)
         /\ mem' = [mem EXCEPT ![Word(mem, job.dir, job.page)] =
                      Copied(mem[Word(mem, job.dir, job.page)], Segment, job.page)]
<1>1. InSegment /\ job' = [job EXCEPT !.page = @ + 1] /\ UNCHANGED procs
  BY DEF LoadOldPage
<1>2. PICK f \in Frames \ {0} :
        /\ f = GetPhysical(mem, job.cr3, job.dir, job.page)
        /\ mem' = PutPage(mem, job.cr3, f, Copied(Seen(mem, job.cr3, f), Segment, job.page))
  BY DEF LoadOldPage
<1>3. job.dir \in Built /\ job.cr3 \in Callers /\ job.page \in UserPages
  BY <1>1, Advances
<1>4. /\ total \in Machines /\ KernelSound(mem, use, heap_max)
      /\ Shares(mem, job.cr3) /\ DirSound(mem, use, job.dir)
  BY <1>3, CallerFacts DEF IInv, TypeOK, Sound
<1>5. f = Word(mem, job.dir, job.page) /\ Mapped(mem, job.dir, job.page)
  BY <1>2, <1>3, GetPhysicalIs
<1>6. f < Ident /\ use[f] = As("page", job.dir, job.page)
  BY <1>3, <1>4, <1>5 DEF DirSound
<1>7. InReach(mem, job.cr3, f)
  <2>1. f < HeapStart
    BY <1>6, InUse DEF As
  <2> QED
    BY <1>4, <1>6, <2>1, Reach
<1> QED
  BY <1>2, <1>5, <1>6, <1>7 DEF InReach

\* A page that is not there had no words in the segments before.
LEMMA NothingCopied ==
  ASSUME IInv, Calm, InSegment, job' = [job EXCEPT !.page = @ + 1], procs' = procs,
         ~ Mapped(mem, job.dir, job.page), ~ (Frames \subseteq used), NEW i \in Index
  PROVE  Copies(job.image, job.seg, job.page, job.page, At(job.page, i)) = {}
<1>1. job.image \in Images /\ job.page \in Nat /\ job.pc = "load" /\ ~ stopped
  BY Advances
<1> SUFFICES ASSUME NEW k \in DOMAIN job.image.segs,
                    Holds(job.image.segs[k], At(job.page, i)), k < job.seg
             PROVE  FALSE
  BY <1>1 DEF Copies
<1> DEFINE s == job.image.segs[k]
<1>2. s \in Segments /\ StartPage(s) \in Nat /\ EndPage(s) \in Nat /\ Len(s.data) <= s.memsz
  BY <1>1, SegmentFacts, LoaderAssumption
<1>3. s.load /\ StartPage(s) <= job.page /\ job.page < EndPage(s)
  BY <1>1, <1>2, HoldsInPages
<1>4. job.page \in StartPage(s)..(EndPage(s) - 1)
  BY <1>1, <1>2, <1>3
<1>5. Present(job.dir, job.page)
  BY <1>1, <1>3, <1>4 DEF IInv, Filled
<1> QED
  BY <1>5 DEF Present

\* heap_grow writes one word of a table that paging_init has made.
LEMMA HeapGrows ==
  ASSUME IInv, Calm', NEW cr3 \in Callers, GrowHeap(cr3)
  PROVE  /\ Calm
         /\ \A h \in Frames : use[h].as \in {"dir", "table", "page"} => mem'[h] = mem[h]
         /\ mem'[KernelDir] = mem[KernelDir]
         /\ \A v \in Pages : Slot(v) \in KernelSlots /\ v # heap_max =>
              Word(mem', KernelDir, v) = Word(mem, KernelDir, v)
<1>1. PICK f \in Frames \ {0} :
        /\ used' = used \cup {f}
        /\ mem' = MapPage(mem, cr3, KernelDir, heap_max, f, 0)
  BY DEF GrowHeap
<1>2. /\ total \in Machines /\ mem \in Memory /\ Accounted /\ Calm /\ UNCHANGED total
      /\ Layout /\ heap_max \in HeapStart..(HeapStart + HeapPages)
  BY <1>1 DEF IInv, TypeOK, Memory, Calm, GrowHeap
<1>3. heap_max \in Pages /\ Slot(heap_max) \in KernelSlots
  BY <1>2, LoaderAssumption DEF Layout
<1>4. KernelSound(mem, use, heap_max) /\ Shares(mem, cr3)
  BY <1>2, CallerFacts DEF IInv, Sound
<1>5. \A x, y : As("kernel", x, y).as = "kernel"
  BY DEF As
<1> DEFINE t == mem[KernelDir][Slot(heap_max)]
<1>6. t \in Frames \ {0, KernelDir} /\ t < Ident /\ use[t] = As("kernel", 0, 0)
      /\ \A r \in KernelSlots : mem[KernelDir][r] = t => r = Slot(heap_max)
  BY <1>3, <1>4 DEF KernelSound
<1>7. Seen(mem, cr3, KernelDir) = mem[KernelDir]
  <2>1. KernelDir < HeapStart
    BY <1>2, <1>5, InUse, Sizes DEF Accounted
  <2>2. InReach(mem, cr3, KernelDir)
    BY <1>2, <1>4, <2>1, Reach, Sizes
  <2> QED
    BY <2>2 DEF InReach
<1>8. mem' = [mem EXCEPT ![t] = [mem[t] EXCEPT ![Entry(heap_max)] = f]]
  <2>1. mem' = PutWord(mem, cr3, t, Entry(heap_max), f)
    BY <1>1, <1>6, <1>7 DEF MapPage
  <2>2. t < HeapStart
    BY <1>2, <1>5, <1>6, InUse
  <2>3. InReach(mem, cr3, t)
    BY <1>2, <1>4, <1>6, <2>2, Reach
  <2> QED
    BY <2>1, <2>3 DEF InReach
<1> HIDE DEF t
<1>9. \A h \in Frames \ {t} : mem'[h] = mem[h]
  BY <1>2, <1>8 DEF Memory
<1>10. \A i \in Index \ {Entry(heap_max)} : mem'[t][i] = mem[t][i]
  BY <1>2, <1>3, <1>6, <1>8, Numbers DEF Memory
<1>11. mem'[KernelDir] = mem[KernelDir]
  BY <1>2, <1>6, <1>9, Sizes
<1>12. ASSUME NEW v \in Pages, Slot(v) \in KernelSlots, v # heap_max
       PROVE  Word(mem', KernelDir, v) = Word(mem, KernelDir, v)
  <2>1. Entry(v) \in Index /\ Entry(heap_max) \in Index
    BY <1>3, Numbers
  <2>2. CASE mem[KernelDir][Slot(v)] = t
    <3>1. Slot(v) = Slot(heap_max)
      BY <1>6, <1>12, <2>2
    <3>2. Entry(v) # Entry(heap_max)
      BY <1>3, <1>12, <3>1, Numbers
    <3> QED
      BY <1>10, <1>11, <2>1, <2>2, <3>2 DEF Word
  <2>3. CASE mem[KernelDir][Slot(v)] # t
    <3>1. mem[KernelDir][Slot(v)] \in Frames
      BY <1>4, <1>12 DEF KernelSound
    <3> QED
      BY <1>9, <1>11, <2>3, <3>1 DEF Word
  <2> QED
    BY <2>2, <2>3
<1> QED
  BY <1>2, <1>5, <1>6, <1>9, <1>11, <1>12

\* A process writes a word of a page of its own or of the heap, or nothing.
LEMMA StoreIs ==
  ASSUME IInv, Calm, NEW p \in DOMAIN procs, NEW a \in Stores, Store(p, a),
         NEW v, v = a \div Entries, NEW at, at = Word(mem, procs[p].dir, v)
  PROVE  \/ UNCHANGED mem
         \/ /\ at \in Frames
            /\ mem' = [mem EXCEPT ![at] = [mem[at] EXCEPT ![a % Entries] = Written]]
            /\ \/ v \in OwnPages(p) /\ v \in UserPages /\ Mapped(mem, procs[p].dir, v)
                  /\ use[at] = As("page", procs[p].dir, v)
               \/ v \in HeapRange /\ at = Word(mem, KernelDir, v) /\ use[at] = As("page", KernelDir, v)
<1> DEFINE to == Walk(mem, procs[p].dir, v)
<1>1. /\ v \in OwnPages(p) \cup HeapRange
      /\ \/ UNCHANGED mem
         \/ to # 0 /\ mem' = [mem EXCEPT ![to][a % Entries] = Written]
  BY DEF Store
<1>2. /\ total \in Machines /\ mem \in Memory /\ Layout
      /\ heap_max \in HeapStart..(HeapStart + HeapPages) /\ procs[p].image \in Images
      /\ KernelSound(mem, use, heap_max) /\ DirSound(mem, use, procs[p].dir)
  BY DEF IInv, TypeOK, Memory, Sound, Built, ProcDirs
<1> SUFFICES ASSUME to # 0, mem' = [mem EXCEPT ![to][a % Entries] = Written]
             PROVE  /\ at \in Frames
                    /\ mem' = [mem EXCEPT ![at] = [mem[at] EXCEPT ![a % Entries] = Written]]
                    /\ \/ v \in OwnPages(p) /\ v \in UserPages /\ Mapped(mem, procs[p].dir, v)
                          /\ use[at] = As("page", procs[p].dir, v)
                       \/ v \in HeapRange /\ at = Word(mem, KernelDir, v)
                          /\ use[at] = As("page", KernelDir, v)
  BY <1>1
<1>3. to = at /\ mem[procs[p].dir][Slot(v)] # 0
  BY DEF Walk, Word
<1>4. mem' = [mem EXCEPT ![at] = [mem[at] EXCEPT ![a % Entries] = Written]]
  BY <1>3
<1>5. CASE v \in OwnPages(p)
  <2>1. v \in UserPages
    BY <1>2, <1>5, TouchedIsBrought, ProgramsAbove DEF OwnPages
  <2>2. Mapped(mem, procs[p].dir, v)
    BY <1>3 DEF Mapped
  <2> QED
    BY <1>2, <1>4, <1>5, <2>1, <2>2 DEF DirSound
<1>6. CASE v \in HeapRange
  <2>1. v \in HeapStart..(heap_max - 1) /\ v \in HeapStart..(HeapStart + HeapPages)
    BY <1>2, <1>6, Numbers DEF HeapRange
  <2>2. v \in Pages /\ Slot(v) \in KernelSlots
    BY <1>2, <2>1, LoaderAssumption DEF Layout
  <2>3. Word(mem, KernelDir, v) = at
    BY <1>2, <2>2 DEF DirSound, Shares, Word
  <2> QED
    BY <1>2, <1>4, <1>6, <2>1, <2>2, <2>3 DEF KernelSound
<1> QED
  BY <1>1, <1>5, <1>6

\* spawn_elf begins with a directory in a frame that was free, if there is one.
LEMMA CloneIs ==
  ASSUME IInv, Calm', NEW cr3 \in Callers, NEW image \in Images, SpawnStart(cr3, image)
  PROVE  /\ Calm
         /\ \/ UNCHANGED <<mem, job>>
            \/ \E f \in Frames :
                 /\ use[f].as = "free"
                 /\ mem' = [mem EXCEPT ![f] = mem[KernelDir]]
                 /\ job' = Idle \/ (job'.pc = "load" /\ job'.dir = f)
<1>1. job.pc = "idle" /\ ~ stopped /\ UNCHANGED <<total, procs, next_pid, heap_max>>
  BY DEF SpawnStart, Ready
<1>2. PICK f \in Frames :
       /\ IsNext(used, f)
       /\ \/ UNCHANGED <<used, mem, job>>
          \/ /\ f # 0 /\ ~ Unreachable(cr3, {f})
             /\ used' = used \cup {f}
             /\ mem' = Clone(mem, cr3, f)
             /\ job' = IF ~ image.elf THEN Idle
                       ELSE [pc |-> "load", cr3 |-> cr3, dir |-> f, image |-> image,
                             seg |-> 1, page |-> PageAt(image, 1)]
  BY DEF SpawnStart
<1>3. Calm
  BY <1>2, <1>1 DEF Calm
<1>4. total \in Machines /\ Accounted /\ KernelSound(mem, use, heap_max) /\ Shares(mem, cr3)
      /\ (cr3 # KernelDir => DirSound(mem, use, cr3))
  BY <1>3, CallerFacts DEF IInv, TypeOK, Sound
<1> SUFFICES ASSUME f # 0, ~ Unreachable(cr3, {f}), used' = used \cup {f},
                    mem' = Clone(mem, cr3, f),
                    job' = IF ~ image.elf THEN Idle
                           ELSE [pc |-> "load", cr3 |-> cr3, dir |-> f, image |-> image,
                                 seg |-> 1, page |-> PageAt(image, 1)]
             PROVE  /\ use[f].as = "free"
                    /\ mem' = [mem EXCEPT ![f] = mem[KernelDir]]
                    /\ job' = Idle \/ (job'.pc = "load" /\ job'.dir = f)
  BY <1>2, <1>3
<1>5. use[f].as = "free"
  BY <1>2, <1>4 DEF IsNext, Accounted
<1>6. f < HeapStart /\ f < Ident
  <2>1. f < HeapStart
    BY Numbers DEF Calm
  <2>2. Walk(mem, cr3, f) # 0
    BY DEF Unreachable
  <2> QED
    BY <1>4, <2>1, <2>2, OutOfReach
<1>7. InReach(mem, cr3, KernelDir)
  <2>1. KernelDir < HeapStart
    BY <1>3, <1>4, InUse, Sizes DEF Accounted, As
  <2> QED
    BY <1>4, <2>1, Reach, Sizes
<1>8. InReach(mem, cr3, f)
  BY <1>4, <1>6, Reach
<1>9. mem' = [mem EXCEPT ![f] = mem[KernelDir]]
  BY <1>7, <1>8 DEF InReach, Clone
<1> QED
  BY <1>5, <1>9

-----------------------------------------------------------------------------
(***************************************************************************)
(* What the steps do to the processes' memory.                             *)
(***************************************************************************)
SpacesOf(ps, m) == [p \in DOMAIN ps |-> View(m, ps[p].dir, ps[p].image)]

\* A step that no process sees.
Unseen ==
  /\ SpacesOf(procs', mem') = SpacesOf(procs, mem)
  /\ HeapOf(mem', heap_max') = HeapOf(mem, heap_max)

\* A step that changes no process keeps Kept when what it loads is as it should be.
LEMMA KeptNext ==
  ASSUME Kept, total' = total, UNCHANGED <<procs, next_pid>>,
         job'.pc = "load" => job'.dir \notin ProcDirs,
         job'.pc = "load" /\ ~ stopped' =>
           \A v \in UserPages : AsLoaded(mem', job'.dir, v, job'.image, job'.seg, job'.page)
  PROVE  Kept'
<1>1. UserPages' = UserPages /\ ProcDirs' = ProcDirs
  BY Same DEF ProcDirs
<1> QED
  BY <1>1 DEF Kept, AsLoaded

\* The frames of the directory that is being filled are nobody else's.
LEMMA OwnFrames ==
  ASSUME IInv, Calm, Kept, job.pc = "load"
  PROVE  job.dir \notin ProcDirs /\ job.dir # KernelDir
<1>1. DirSound(mem, use, job.dir)
  BY DEF IInv, Sound, Built
<1> QED
  BY <1>1 DEF Kept, IInv, Accounted, DirSound, As

\* The directory that spawn_elf begins with is nobody's, and leads to no page.
LEMMA SpawnStartKeeps ==
  ASSUME IInv, Kept, Calm', NEW cr3 \in Callers, NEW image \in Images, SpawnStart(cr3, image)
  PROVE  Kept' /\ Unseen
<1>1. job.pc = "idle" /\ ~ stopped /\ UNCHANGED <<total, procs, next_pid, heap_max>>
  BY DEF SpawnStart, Ready
<1>2. Calm
  BY CloneIs
<1>3. CASE UNCHANGED <<mem, job>>
  <2>1. Kept'
    BY <1>1, <1>3, KeptNext
  <2> QED
    BY <1>1, <1>3, <2>1 DEF Unseen, SpacesOf
<1>4. ASSUME NEW f \in Frames, use[f].as = "free",
             mem' = [mem EXCEPT ![f] = mem[KernelDir]],
             job' = Idle \/ (job'.pc = "load" /\ job'.dir = f)
      PROVE  Kept' /\ Unseen
  <2>1. mem \in Memory /\ KernelSound(mem, use, heap_max)
    BY <1>2 DEF IInv, TypeOK, Memory, Sound
  <2>2. \A h \in Frames : use[h].as # "free" => mem'[h] = mem[h]
    BY <1>4, <2>1 DEF Memory
  <2>3. \A s \in Index \ KernelSlots : mem'[f][s] = 0
    BY <1>4, <2>1 DEF Memory, KernelSound
  <2>4. \A v \in UserPages : ~ Mapped(mem', f, v)
    BY <2>3, Numbers DEF UserPages, Mapped
  <2>5. f \notin ProcDirs
    <3>1. \A d \in ProcDirs : use[d] = As("dir", d, 0)
      BY <1>2 DEF IInv, Sound, Built, DirSound
    <3>2. As("dir", f, 0).as = "dir"
      BY DEF As
    <3> QED
      BY <1>4, <3>1, <3>2
  <2>6. Kept'
    <3>1. CASE job' = Idle
      BY <1>1, <3>1, KeptNext DEF Idle
    <3>2. CASE job'.pc = "load" /\ job'.dir = f
      BY <1>1, <2>4, <2>5, <3>2, KeptNext DEF AsLoaded
    <3> QED
      BY <1>4, <3>1, <3>2
  <2>7. \A p \in DOMAIN procs :
          View(mem', procs[p].dir, procs[p].image) = View(mem, procs[p].dir, procs[p].image)
    BY <1>2, <2>2, ViewsStay
  <2>8. HeapOf(mem', heap_max) = HeapOf(mem, heap_max)
    BY <1>2, <2>2, HeapIsKept
  <2> QED
    BY <1>1, <2>6, <2>7, <2>8 DEF Unseen, SpacesOf
<1> QED
  BY <1>3, <1>4, CloneIs

\* What elf_load copies into a page that is there is seen by the new process only.
LEMMA OldPageKeeps ==
  ASSUME IInv, Kept, Calm, LoadOldPage
  PROVE  Kept' /\ Unseen
<1> DEFINE d == job.dir
           v == job.page
           f == Word(mem, d, v)
<1>1. /\ InSegment /\ job' = [job EXCEPT !.page = @ + 1]
      /\ UNCHANGED <<total, used, procs, next_pid, heap_max, stopped, use>>
  BY DEF LoadOldPage
<1>2. /\ job'.pc = "load" /\ job'.dir = d /\ job'.image = job.image
      /\ job'.seg = job.seg /\ job'.page = v + 1 /\ job.pc = "load" /\ ~ stopped
      /\ job.image \in Images /\ d \in Built /\ v \in Nat /\ v \in UserPages
      /\ v # PrivatePage /\ job.seg \in DOMAIN job.image.segs /\ Segment.load
  BY <1>1, Advances
<1>3. /\ f \in Frames /\ use[f] = As("page", d, v)
      /\ mem' = [mem EXCEPT ![f] = Copied(mem[f], Segment, v)] /\ Mapped(mem, d, v)
  BY OldPageIs
<1>4. mem \in Memory /\ DirSound(mem, use, d) /\ total \in Machines
  BY <1>2 DEF IInv, Sound, TypeOK, Memory
<1>5. d \notin ProcDirs /\ d # KernelDir
  BY <1>2, OwnFrames
<1>6. use[f].as = "page" /\ use[f].dir = d /\ use[f].at = v
  BY <1>3 DEF As
<1> HIDE DEF d, v, f
<1>7. mem'[f] = Copied(mem[f], Segment, v) /\ \A h \in Frames \ {f} : mem'[h] = mem[h]
  BY <1>3, <1>4 DEF Memory
<1>8. \A h \in Frames : use[h].as # "free" /\ use[h].dir \in ProcDirs => mem'[h] = mem[h]
  BY <1>5, <1>6, <1>7
<1>9. \A h \in Frames : use[h].as = "kernel" \/ (use[h].as = "page" /\ use[h].dir = KernelDir) =>
        mem'[h] = mem[h]
  BY <1>5, <1>6, <1>7
<1>10. ASSUME NEW x \in UserPages, Mapped(mem', d, x)
       PROVE  Mapped(mem, d, x) /\ Word(mem', d, x) = Word(mem, d, x)
              /\ (x # v => mem'[Word(mem, d, x)] = mem[Word(mem, d, x)])
  <2>1. \A y, z : As("dir", y, z).as = "dir" /\ As("table", y, z).as = "table"
                  /\ As("page", y, z).at = z
    BY DEF As
  <2>2. mem'[d] = mem[d] /\ d \in Frames
    BY <1>4, <1>6, <1>7, <2>1 DEF DirSound
  <2>3. Slot(x) \in Index \ KernelSlots
    BY Numbers DEF UserPages
  <2>4. mem[d][Slot(x)] # 0 /\ mem'[mem[d][Slot(x)]] = mem[mem[d][Slot(x)]]
    BY <1>4, <1>6, <1>7, <1>10, <2>1, <2>2, <2>3 DEF DirSound, Mapped
  <2>5. Word(mem', d, x) = Word(mem, d, x) /\ Mapped(mem, d, x)
    BY <1>10, <2>2, <2>4 DEF Word, Mapped
  <2>6. Word(mem, d, x) \in Frames /\ use[Word(mem, d, x)] = As("page", d, x)
    BY <1>4, <2>5 DEF DirSound
  <2> QED
    BY <1>6, <1>7, <2>1, <2>5, <2>6
<1>11. ASSUME NEW x \in UserPages PROVE AsLoaded(mem', d, x, job.image, job.seg, v + 1)
  <2> SUFFICES ASSUME Mapped(mem', d, x), NEW i \in Index
               PROVE  x # PrivatePage /\ IsWord(job.image, Copies(job.image, job.seg, v + 1, x, At(x, i)),
                                              At(x, i), mem'[Word(mem', d, x)][i])
    BY Numbers DEF AsLoaded
  <2>1. Mapped(mem, d, x) /\ Word(mem', d, x) = Word(mem, d, x)
    BY <1>10
  <2>2. x # PrivatePage /\ IsWord(job.image, Copies(job.image, job.seg, v, x, At(x, i)), At(x, i),
                                  mem[Word(mem, d, x)][i])
    BY <1>2, <2>1 DEF Kept, AsLoaded, d, v
  <2>3. CASE x = v
    <3>1. mem[f] \in [Index -> Nat] /\ Word(mem, d, x) = f
      BY <1>3, <1>4, <2>3 DEF Memory, f
    <3>2. IsWord(job.image, Copies(job.image, job.seg, v + 1, v, At(v, i)), At(v, i),
                 Copied(mem[f], Segment, v)[i])
      BY <1>2, <2>2, <2>3, <3>1, PageCopied DEF Segment
    <3> QED
      BY <1>7, <2>1, <2>2, <2>3, <3>1, <3>2
  <2>4. CASE x # v
    <3>1. x \in Nat
      BY Numbers DEF UserPages
    <3>2. Copies(job.image, job.seg, v + 1, x, At(x, i)) = Copies(job.image, job.seg, v, x, At(x, i))
      BY <1>2, <2>4, <3>1, OtherPages
    <3> QED
      BY <1>10, <2>1, <2>2, <2>4, <3>2
  <2> QED
    BY <2>3, <2>4
<1>12. Kept'
  BY <1>1, <1>2, <1>5, <1>11, KeptNext
<1>13. \A p \in DOMAIN procs :
         View(mem', procs[p].dir, procs[p].image) = View(mem, procs[p].dir, procs[p].image)
  BY <1>8, ViewsStay
<1>14. HeapOf(mem', heap_max) = HeapOf(mem, heap_max)
  BY <1>9, HeapIsKept
<1> QED
  BY <1>1, <1>12, <1>13, <1>14 DEF Unseen, SpacesOf

\* A new page is seen in the directory that is being filled, and nowhere else.
LEMMA NewPageUnseen ==
  ASSUME IInv, Kept, Calm', job.pc = "load", NEW v \in UserPages, v >= total,
         NEW f \in Frames \ {0}, f \notin used, NEW page \in [Index -> Nat],
         NewPage(job.cr3, job.dir, v, f, page), UNCHANGED <<total, heap_max>>
  PROVE  /\ Calm
         /\ \/ stopped' = TRUE /\ UNCHANGED mem
            \/ UNCHANGED stopped /\ Fills(mem, mem', use, job.dir, v, f, page)
         /\ \A p \in DOMAIN procs :
              View(mem', procs[p].dir, procs[p].image) = View(mem, procs[p].dir, procs[p].image)
         /\ HeapOf(mem', heap_max) = HeapOf(mem, heap_max)
<1>1. /\ total \in Machines /\ mem \in Memory /\ Accounted /\ used \subseteq Frames /\ 0 \in used
      /\ job.dir \in Built /\ job.dir \in Frames /\ job.cr3 \in Callers /\ v \in Pages
  BY Numbers DEF IInv, TypeOK, Memory, JobShape, Built, UserPages
<1>2. Calm
  <2>1. used \subseteq used'
    BY <1>1, NewPageTypes
  <2> QED
    BY <2>1 DEF Calm
<1>3. /\ KernelSound(mem, use, heap_max) /\ DirSound(mem, use, job.dir) /\ Shares(mem, job.cr3)
      /\ (job.cr3 # KernelDir => DirSound(mem, use, job.cr3))
  BY <1>1, <1>2, CallerFacts DEF IInv, Sound
<1>4. \/ stopped' = TRUE /\ UNCHANGED mem
      \/ UNCHANGED stopped /\ Fills(mem, mem', use, job.dir, v, f, page)
  BY <1>1, <1>3, NewPageSound
<1>5. job.dir \notin ProcDirs
  BY <1>2, OwnFrames
<1>6. \A h \in Frames :
        use[h].as # "free" /\ (use[h].dir # job.dir \/ use[h].as \in {"kernel", "page"}) => mem'[h] = mem[h]
  BY <1>4 DEF Fills
<1>7. \A p \in DOMAIN procs :
        View(mem', procs[p].dir, procs[p].image) = View(mem, procs[p].dir, procs[p].image)
  BY <1>2, <1>5, <1>6, ViewsStay
<1>8. HeapOf(mem', heap_max) = HeapOf(mem, heap_max)
  BY <1>2, <1>6, HeapIsKept
<1> QED
  BY <1>2, <1>4, <1>7, <1>8

\* A page that elf_load brings holds zeros but for its part of the segment.
LEMMA NewPageKeeps ==
  ASSUME IInv, Kept, Calm', LoadNewPage
  PROVE  Kept' /\ Unseen
<1> DEFINE d == job.dir
           v == job.page
           page == Copied(Zeros, Segment, v)
<1>1. /\ InSegment /\ job' = [job EXCEPT !.page = @ + 1]
      /\ UNCHANGED <<total, procs, next_pid, heap_max>>
      /\ GetPhysical(mem, job.cr3, d, v) = 0
  BY DEF LoadNewPage
<1>2. PICK f \in Frames \ {0} : IsNext(used, f) /\ NewPage(job.cr3, d, v, f, page)
  BY DEF LoadNewPage
<1>3. /\ job'.pc = "load" /\ job'.dir = d /\ job'.image = job.image
      /\ job'.seg = job.seg /\ job'.page = v + 1 /\ job.pc = "load" /\ ~ stopped
      /\ job.image \in Images /\ d \in Built /\ v \in Nat /\ v \in UserPages /\ v >= total
      /\ v # PrivatePage /\ job.seg \in DOMAIN job.image.segs /\ Segment.load
      /\ Segment \in Segments /\ job.cr3 \in Callers
  BY <1>1, Advances
<1>4. Zeros \in [Index -> Nat]
  BY Numbers DEF Zeros
<1>5. page \in [Index -> Nat] /\ f \notin used /\ ~ (Frames \subseteq used)
  BY <1>2, <1>3, <1>4, CopiedType DEF IsNext
<1> HIDE DEF page
<1>6. /\ Calm
      /\ \/ stopped' = TRUE /\ UNCHANGED mem
         \/ UNCHANGED stopped /\ Fills(mem, mem', use, d, v, f, page)
      /\ \A p \in DOMAIN procs :
           View(mem', procs[p].dir, procs[p].image) = View(mem, procs[p].dir, procs[p].image)
      /\ HeapOf(mem', heap_max) = HeapOf(mem, heap_max)
  BY <1>1, <1>2, <1>3, <1>5, NewPageUnseen
<1>7. d \notin ProcDirs /\ ~ Mapped(mem, d, v)
  BY <1>1, <1>3, <1>6, OwnFrames, GetPhysicalIs DEF Mapped
<1>8. ASSUME ~ stopped', NEW x \in UserPages
      PROVE  AsLoaded(mem', d, x, job.image, job.seg, v + 1)
  <2> SUFFICES ASSUME Mapped(mem', d, x), NEW i \in Index
               PROVE  x # PrivatePage /\ IsWord(job.image, Copies(job.image, job.seg, v + 1, x, At(x, i)),
                                              At(x, i), mem'[Word(mem', d, x)][i])
    BY Numbers DEF AsLoaded
  <2>1. Fills(mem, mem', use, d, v, f, page)
    BY <1>6, <1>8
  <2>2. CASE x = v
    <3>1. mem'[Word(mem', d, x)] = page
      BY <2>1, <2>2 DEF Fills
    <3>2. Copies(job.image, job.seg, v, v, At(v, i)) = {}
      BY <1>1, <1>5, <1>6, <1>7, NothingCopied
    <3>3. Zeros[i] = 0
      BY DEF Zeros
    <3>4. IsWord(job.image, Copies(job.image, job.seg, v, v, At(v, i)), At(v, i), Zeros[i])
      BY <3>2, <3>3 DEF IsWord
    <3>5. IsWord(job.image, Copies(job.image, job.seg, v + 1, v, At(v, i)), At(v, i), page[i])
      BY <1>3, <1>4, <3>4, PageCopied DEF Segment, page
    <3> QED
      BY <1>3, <2>2, <3>1, <3>5
  <2>3. CASE x # v
    <3>1. Mapped(mem, d, x) /\ mem'[Word(mem', d, x)] = mem[Word(mem, d, x)]
      BY <2>1, <2>3 DEF Fills
    <3>2. x # PrivatePage /\ IsWord(job.image, Copies(job.image, job.seg, v, x, At(x, i)), At(x, i),
                                    mem[Word(mem, d, x)][i])
      BY <1>3, <3>1 DEF Kept, AsLoaded
    <3>3. x \in Nat
      BY Numbers DEF UserPages
    <3>4. Copies(job.image, job.seg, v + 1, x, At(x, i)) = Copies(job.image, job.seg, v, x, At(x, i))
      BY <1>3, <2>3, <3>3, OtherPages
    <3> QED
      BY <3>1, <3>2, <3>4
  <2> QED
    BY <2>2, <2>3
<1>9. Kept'
  BY <1>1, <1>3, <1>7, <1>8, KeptNext
<1> QED
  BY <1>1, <1>6, <1>9 DEF Unseen, SpacesOf

\* The pages are the same when elf_load goes on to the next header.
LEMMA NextSegmentKeeps ==
  ASSUME IInv, Kept, NextSegment
  PROVE  Kept' /\ Unseen
<1>1. /\ job.pc = "load" /\ ~ stopped /\ job.seg \in DOMAIN job.image.segs
      /\ ~ (Segment.load /\ job.page < EndPage(Segment))
      /\ job' = [job EXCEPT !.seg = @ + 1, !.page = PageAt(job.image, job.seg + 1)]
      /\ UNCHANGED <<total, used, mem, procs, next_pid, heap_max, stopped, use>>
  BY DEF NextSegment
<1>2. job \in Jobs /\ job.image \in Images /\ job.page \in Nat
  BY <1>1 DEF IInv, TypeOK, Jobs
<1>3. /\ job'.pc = "load" /\ job'.dir = job.dir /\ job'.image = job.image
      /\ job'.seg = job.seg + 1 /\ job'.page = PageAt(job.image, job.seg + 1)
  BY <1>1, <1>2 DEF Jobs
<1>4. ASSUME NEW v \in UserPages
      PROVE  AsLoaded(mem, job.dir, v, job.image, job.seg + 1, PageAt(job.image, job.seg + 1))
  <2>1. AsLoaded(mem, job.dir, v, job.image, job.seg, job.page)
    BY <1>1 DEF Kept
  <2>2. v \in Nat
    BY Numbers DEF UserPages
  <2>3. \A i \in Index :
          Copies(job.image, job.seg + 1, PageAt(job.image, job.seg + 1), v, At(v, i))
            = Copies(job.image, job.seg, job.page, v, At(v, i))
    BY <1>1, <1>2, <2>2, HeaderDone DEF Segment
  <2> QED
    BY <2>1, <2>3 DEF AsLoaded
<1>5. Kept'
  BY <1>1, <1>3, <1>4, KeptNext DEF Kept
<1> QED
  BY <1>1, <1>5 DEF Unseen, SpacesOf

\* A load that fails leaves frames that no process sees.
LEMMA LoadFailsKeeps ==
  ASSUME IInv, Kept, LoadFails
  PROVE  Kept' /\ Unseen
<1>1. job' = Idle /\ UNCHANGED <<total, used, mem, procs, next_pid, heap_max, stopped, use>>
  BY DEF LoadFails
<1>2. Kept'
  BY <1>1, KeptNext DEF Idle
<1> QED
  BY <1>1, <1>2 DEF Unseen, SpacesOf

\* Growth of the heap leaves the processes and the old heap as they were.
LEMMA GrowHeapKeeps ==
  ASSUME IInv, Kept, Calm', NEW cr3 \in Callers, GrowHeap(cr3)
  PROVE  /\ Kept' /\ SpacesOf(procs', mem') = SpacesOf(procs, mem)
         /\ heap_max' \in HeapStart..(HeapStart + HeapPages) /\ heap_max' >= heap_max
         /\ \A v \in HeapStart..(heap_max - 1) : HeapOf(mem', heap_max')[v] = HeapOf(mem, heap_max)[v]
<1>1. /\ job.pc = "idle" /\ ~ stopped /\ heap_max < HeapStart + HeapPages
      /\ heap_max' = heap_max + 1
      /\ UNCHANGED <<total, procs, next_pid, job, stopped>>
  BY DEF GrowHeap, Ready
<1>2. /\ Calm
      /\ \A h \in Frames : use[h].as \in {"dir", "table", "page"} => mem'[h] = mem[h]
      /\ mem'[KernelDir] = mem[KernelDir]
      /\ \A v \in Pages : Slot(v) \in KernelSlots /\ v # heap_max =>
           Word(mem', KernelDir, v) = Word(mem, KernelDir, v)
  BY HeapGrows
<1>3. heap_max \in HeapStart..(HeapStart + HeapPages) /\ total \in Machines /\ Layout
      /\ KernelSound(mem, use, heap_max) /\ use \in [Frames -> Uses] /\ use[KernelDir] = As("kernel", 0, 0)
  BY <1>2 DEF IInv, TypeOK, Sound, Accounted
<1>4. Kept'
  BY <1>1, KeptNext
<1>5. \A p \in DOMAIN procs :
        View(mem', procs[p].dir, procs[p].image) = View(mem, procs[p].dir, procs[p].image)
  BY <1>2, ViewsStay
<1>6. SpacesOf(procs', mem') = SpacesOf(procs, mem)
  BY <1>1, <1>5 DEF SpacesOf
<1>7. HeapOf(mem', heap_max) = HeapOf(mem, heap_max)
  <2>1. ASSUME NEW v \in HeapStart..(heap_max - 1)
        PROVE  Word(mem', KernelDir, v) = Word(mem, KernelDir, v)
    <3>1. v \in HeapStart..(HeapStart + HeapPages) /\ v # heap_max
      BY <1>3, Numbers
    <3>2. v \in Pages /\ Slot(v) \in KernelSlots
      BY <1>3, <3>1, LoaderAssumption DEF Layout
    <3> QED
      BY <1>2, <3>1, <3>2
  <2> QED
    BY <1>2, <1>3, <2>1, HeapStays
<1>8. heap_max' \in HeapStart..(HeapStart + HeapPages) /\ heap_max' >= heap_max
  BY <1>1, <1>3, Numbers
<1>9. \A v \in HeapStart..(heap_max - 1) : HeapOf(mem', heap_max')[v] = HeapOf(mem', heap_max)[v]
  BY <1>1, <1>3, Numbers DEF HeapOf
<1> QED
  BY <1>4, <1>6, <1>7, <1>8, <1>9

\* A process that ends changes nothing for the others.
LEMMA ExitKeeps ==
  ASSUME IInv, Kept, NEW p \in DOMAIN procs, Exit(p)
  PROVE  /\ Kept' /\ HeapOf(mem', heap_max') = HeapOf(mem, heap_max)
         /\ SpacesOf(procs', mem') = [q \in DOMAIN procs \ {p} |-> SpacesOf(procs, mem)[q]]
<1>1. /\ job.pc = "idle" /\ procs' = [q \in DOMAIN procs \ {p} |-> procs[q]]
      /\ UNCHANGED <<total, used, mem, next_pid, heap_max, job, stopped, use>>
  BY DEF Exit, Ready
<1>2. Kept'
  BY <1>1 DEF Kept
<1> QED
  BY <1>1, <1>2 DEF SpacesOf

\* A page has a PID and a zero in it (a machine has more frames than one
\* directory of one entry could reach).
LEMMA TwoWords ==
  ASSUME total \in Machines
  PROVE  1 \in Index /\ 0 \in Index /\ 0..1 \subseteq Index
<1>1. Entries # 1
  <2> SUFFICES ASSUME Entries = 1 PROVE FALSE
    OBVIOUS
  <2>1. Kernel + Entries < total /\ total <= Entries * Entries /\ total \in Nat
    BY PagingAssumption
  <2>2. Entries * Entries = 1
    BY <2>1
  <2> QED
    BY <2>1, <2>2, Numbers
<1> QED
  BY <1>1, Numbers DEF Index

\* A process changes one word of its own or of the heap, or nothing.
LEMMA StoreKeeps ==
  ASSUME IInv, Kept, Calm, NEW p \in DOMAIN procs, NEW a \in Stores, Store(p, a)
  PROVE  /\ Kept'
         /\ \/ Unseen
            \/ /\ a \div Entries \in DOMAIN SpacesOf(procs, mem)[p]
               /\ SpacesOf(procs', mem') =
                    [SpacesOf(procs, mem) EXCEPT ![p][a \div Entries][a % Entries] = Written]
               /\ HeapOf(mem', heap_max') = HeapOf(mem, heap_max)
            \/ /\ a \div Entries \in DOMAIN HeapOf(mem, heap_max)
               /\ HeapOf(mem', heap_max') =
                    [HeapOf(mem, heap_max) EXCEPT ![a \div Entries][a % Entries] = Written]
               /\ SpacesOf(procs', mem') = SpacesOf(procs, mem)
<1> DEFINE v  == a \div Entries
           k  == a % Entries
           d  == procs[p].dir
           at == Word(mem, d, v)
<1>1. /\ job.pc = "idle" /\ ~ stopped
      /\ UNCHANGED <<total, used, procs, next_pid, heap_max, job, use>>
  BY DEF Store, Ready
<1>2. Kept'
  BY <1>1, KeptNext
<1>3. /\ total \in Machines /\ mem \in Memory /\ Layout /\ KernelSound(mem, use, heap_max)
      /\ heap_max \in HeapStart..(HeapStart + HeapPages) /\ use[KernelDir] = As("kernel", 0, 0)
      /\ DirSound(mem, use, d) /\ d \in ProcDirs
      /\ \A e \in ProcDirs : DirSound(mem, use, e)
  BY DEF IInv, TypeOK, Memory, Sound, Accounted, Built, ProcDirs
<1>4. \/ UNCHANGED mem
      \/ /\ at \in Frames
         /\ mem' = [mem EXCEPT ![at] = [mem[at] EXCEPT ![k] = Written]]
         /\ \/ v \in OwnPages(p) /\ v \in UserPages /\ Mapped(mem, d, v)
               /\ use[at] = As("page", d, v)
            \/ v \in HeapRange /\ at = Word(mem, KernelDir, v) /\ use[at] = As("page", KernelDir, v)
  BY StoreIs
<1>5. CASE UNCHANGED mem
  BY <1>1, <1>2, <1>5 DEF Unseen, SpacesOf
<1>6. ASSUME at \in Frames, mem' = [mem EXCEPT ![at] = [mem[at] EXCEPT ![k] = Written]]
      PROVE  /\ \A h \in Frames \ {at} : mem'[h] = mem[h]
             /\ \A i \in Index : mem'[at][i] = IF i = k THEN Written ELSE mem[at][i]
  BY <1>3, <1>6 DEF Memory
<1>7. \A x, y : /\ As("page", x, y).as = "page" /\ As("page", x, y).dir = x /\ As("page", x, y).at = y
                /\ As("dir", x, y).as = "dir" /\ As("table", x, y).as = "table"
                /\ As("kernel", x, y).as = "kernel"
  BY DEF As
<1>8. KernelDir \notin ProcDirs
  BY <1>3, <1>7 DEF DirSound
<1>9. \A q \in DOMAIN procs : procs[q].dir = d => q = p
  BY DEF Kept
<1>10. DOMAIN SpacesOf(procs, mem) = DOMAIN procs
  BY DEF SpacesOf
<1> HIDE DEF v, k, d, at
<1>11. ASSUME at \in Frames, mem' = [mem EXCEPT ![at] = [mem[at] EXCEPT ![k] = Written]],
              v \in OwnPages(p), v \in UserPages, Mapped(mem, d, v), use[at] = As("page", d, v)
       PROVE  /\ v \in DOMAIN SpacesOf(procs, mem)[p]
              /\ SpacesOf(procs', mem') = [SpacesOf(procs, mem) EXCEPT ![p][v][k] = Written]
              /\ HeapOf(mem', heap_max') = HeapOf(mem, heap_max)
  <2>1. /\ \A h \in Frames \ {at} : mem'[h] = mem[h]
        /\ \A i \in Index : mem'[at][i] = IF i = k THEN Written ELSE mem[at][i]
    BY <1>6, <1>11
  <2>2. ASSUME NEW q \in DOMAIN procs, q # p
        PROVE  View(mem', procs[q].dir, procs[q].image) = View(mem, procs[q].dir, procs[q].image)
    <3>1. procs[q].dir # d
      BY <1>9, <2>2
    <3>2. \A h \in Frames : use[h].as \in {"dir", "table", "page"} /\ use[h].dir = procs[q].dir =>
            mem'[h] = mem[h]
      BY <1>7, <1>11, <2>1, <3>1
    <3> QED
      BY <2>2, <3>2, ViewIsKept
  <2> DEFINE image == procs[p].image
             Dom(x) == IF x = PrivatePage THEN 0..1 ELSE Index
             own == {w \in Touched(image) \cup {PrivatePage} : Mapped(mem, d, w)}
  <2>3. image \in Images
    BY DEF IInv, TypeOK
  <2>4. \A x \in Touched(image) \cup {PrivatePage} : x \in UserPages
    BY <1>3, <2>3, TouchedIsBrought, ProgramsAbove
  <2>5. v \in own
    BY <1>11 DEF OwnPages
  <2>6. ASSUME NEW x \in UserPages
        PROVE  /\ Mapped(mem', d, x) <=> Mapped(mem, d, x)
               /\ Mapped(mem, d, x) => Word(mem', d, x) = Word(mem, d, x)
    <3>1. mem'[d] = mem[d]
      BY <1>3, <1>7, <1>11, <2>1 DEF DirSound
    <3>2. Slot(x) \in Index \ KernelSlots
      BY Numbers DEF UserPages
    <3>3. mem[d][Slot(x)] # 0 => mem'[mem[d][Slot(x)]] = mem[mem[d][Slot(x)]]
      BY <1>3, <1>7, <1>11, <2>1, <3>2 DEF DirSound
    <3> QED
      BY <3>1, <3>3 DEF Mapped, Word
  <2>7. ASSUME NEW x \in own, x # v PROVE mem'[Word(mem, d, x)] = mem[Word(mem, d, x)]
    <3>1. Word(mem, d, x) \in Frames /\ use[Word(mem, d, x)] = As("page", d, x)
      BY <1>3, <2>4, <2>7 DEF DirSound
    <3> QED
      BY <1>7, <1>11, <2>1, <2>7, <3>1
  <2>8. {w \in Touched(image) \cup {PrivatePage} : Mapped(mem', d, w)} = own
    BY <2>4, <2>6
  <2>9. Dom(v) \subseteq Index
    BY <1>3, TwoWords
  <2> HIDE DEF image, Dom
  <2>10. View(mem, d, image) = [x \in own |-> [i \in Dom(x) |-> mem[Word(mem, d, x)][i]]]
    BY DEF View, Dom
  <2>11. View(mem', d, image) = [x \in own |-> [i \in Dom(x) |-> mem'[Word(mem', d, x)][i]]]
    BY <2>8 DEF View, Dom
  <2>12. \A x \in own : Word(mem', d, x) = Word(mem, d, x)
    BY <2>4, <2>6
  <2> HIDE DEF own
  <2>13. [i \in Dom(v) |-> mem'[at][i]] = [[i \in Dom(v) |-> mem[at][i]] EXCEPT ![k] = Written]
    BY <2>1, <2>9
  <2>14. View(mem', d, image) = [View(mem, d, image) EXCEPT ![v][k] = Written]
    <3> DEFINE V == [View(mem, d, image) EXCEPT ![v] = [@ EXCEPT ![k] = Written]]
    <3>1. DOMAIN V = own
      BY <2>10
    <3>2. ASSUME NEW x \in own PROVE View(mem', d, image)[x] = V[x]
      <4>1. CASE x = v
        <5>1. View(mem', d, image)[x] = [i \in Dom(v) |-> mem'[at][i]]
          BY <2>5, <2>11, <2>12, <4>1 DEF at
        <5>2. V[x] = [View(mem, d, image)[v] EXCEPT ![k] = Written]
          BY <2>5, <2>10, <4>1
        <5>3. View(mem, d, image)[v] = [i \in Dom(v) |-> mem[at][i]]
          BY <2>5, <2>10 DEF at
        <5> QED
          BY <2>13, <5>1, <5>2, <5>3
      <4>2. CASE x # v
        <5>1. V[x] = View(mem, d, image)[x]
          BY <2>10, <4>2
        <5> QED
          BY <2>7, <2>10, <2>11, <2>12, <4>2, <5>1
      <4> QED
        BY <4>1, <4>2
    <3> QED
      BY <2>11, <3>1, <3>2
  <2>15. SpacesOf(procs, mem)[p] = View(mem, d, image)
    BY DEF SpacesOf, d, image
  <2>16. v \in DOMAIN SpacesOf(procs, mem)[p]
    BY <2>5, <2>10, <2>15
  <2>17. SpacesOf(procs', mem') = [SpacesOf(procs, mem) EXCEPT ![p][v][k] = Written]
    <3> DEFINE S == [SpacesOf(procs, mem) EXCEPT ![p][v][k] = Written]
    <3>1. DOMAIN S = DOMAIN procs
      BY <1>10
    <3>2. SpacesOf(procs', mem') = [q \in DOMAIN procs |-> View(mem', procs[q].dir, procs[q].image)]
      BY <1>1 DEF SpacesOf
    <3>3. ASSUME NEW q \in DOMAIN procs PROVE S[q] = View(mem', procs[q].dir, procs[q].image)
      <4>1. CASE q = p
        <5>1. S[p] = [SpacesOf(procs, mem)[p] EXCEPT ![v][k] = Written]
          BY <1>10
        <5> QED
          BY <2>14, <2>15, <4>1, <5>1 DEF d, image
      <4>2. CASE q # p
        <5>1. S[q] = SpacesOf(procs, mem)[q]
          BY <1>10, <4>2
        <5> QED
          BY <2>2, <4>2, <5>1 DEF SpacesOf
      <4> QED
        BY <4>1, <4>2
    <3> QED
      BY <3>1, <3>2, <3>3
  <2>18. HeapOf(mem', heap_max) = HeapOf(mem, heap_max)
    <3>1. d # KernelDir
      BY <1>3, <1>8
    <3>2. \A h \in Frames : use[h].as = "kernel" \/ (use[h].as = "page" /\ use[h].dir = KernelDir) =>
            mem'[h] = mem[h]
      BY <1>7, <1>11, <2>1, <3>1
    <3> QED
      BY <3>2, HeapIsKept
  <2> QED
    BY <1>1, <2>16, <2>17, <2>18
<1>12. ASSUME at \in Frames, mem' = [mem EXCEPT ![at] = [mem[at] EXCEPT ![k] = Written]],
              v \in HeapRange, at = Word(mem, KernelDir, v), use[at] = As("page", KernelDir, v)
       PROVE  /\ v \in DOMAIN HeapOf(mem, heap_max)
              /\ HeapOf(mem', heap_max') = [HeapOf(mem, heap_max) EXCEPT ![v][k] = Written]
              /\ SpacesOf(procs', mem') = SpacesOf(procs, mem)
  <2>1. \A h \in Frames \ {at} : mem'[h] = mem[h]
    BY <1>6, <1>12
  <2>2. \A q \in DOMAIN procs :
          View(mem', procs[q].dir, procs[q].image) = View(mem, procs[q].dir, procs[q].image)
    <3>1. \A h \in Frames : use[h].as \in {"dir", "table", "page"} /\ use[h].dir \in ProcDirs =>
            mem'[h] = mem[h]
      BY <1>7, <1>8, <1>12, <2>1
    <3> QED
      BY <3>1, ViewsStay
  <2> DEFINE R == HeapStart..(heap_max - 1)
  <2>3. ASSUME NEW x \in R
        PROVE  /\ Word(mem', KernelDir, x) = Word(mem, KernelDir, x)
               /\ x # v => mem'[Word(mem, KernelDir, x)] = mem[Word(mem, KernelDir, x)]
    <3>1. x \in HeapStart..(HeapStart + HeapPages)
      BY <1>3, Numbers
    <3>2. x \in Pages /\ Slot(x) \in KernelSlots
      BY <1>3, <3>1, LoaderAssumption DEF Layout
    <3>3. mem'[KernelDir] = mem[KernelDir]
      BY <1>3, <1>7, <1>12, <2>1, Sizes
    <3>4. mem'[mem[KernelDir][Slot(x)]] = mem[mem[KernelDir][Slot(x)]]
      BY <1>3, <1>7, <1>12, <2>1, <3>2 DEF KernelSound
    <3>5. Word(mem, KernelDir, x) \in Frames /\ use[Word(mem, KernelDir, x)] = As("page", KernelDir, x)
      BY <1>3, <2>3, <3>2 DEF KernelSound
    <3>6. Word(mem', KernelDir, x) = Word(mem, KernelDir, x)
      BY <3>3, <3>4 DEF Word
    <3>7. x # v => Word(mem, KernelDir, x) # at
      BY <1>7, <1>12, <3>5
    <3> QED
      BY <2>1, <3>5, <3>6, <3>7
  <2>4. v \in R
    BY <1>12 DEF HeapRange
  <2>5. HeapOf(mem, heap_max) = [x \in R |-> mem[Word(mem, KernelDir, x)]]
        /\ HeapOf(mem', heap_max) = [x \in R |-> mem'[Word(mem', KernelDir, x)]]
    BY DEF HeapOf
  <2> HIDE DEF R
  <2>6. mem'[at] = [mem[at] EXCEPT ![k] = Written]
    BY <1>3, <1>12 DEF Memory
  <2>7. HeapOf(mem', heap_max) = [HeapOf(mem, heap_max) EXCEPT ![v][k] = Written]
    <3> DEFINE H == [HeapOf(mem, heap_max) EXCEPT ![v] = [@ EXCEPT ![k] = Written]]
    <3>1. DOMAIN H = R
      BY <2>5
    <3>2. ASSUME NEW x \in R PROVE H[x] = mem'[Word(mem', KernelDir, x)]
      <4>1. CASE x = v
        <5>1. H[v] = [mem[at] EXCEPT ![k] = Written]
          BY <1>12, <2>4, <2>5
        <5> QED
          BY <1>12, <2>3, <2>6, <4>1, <5>1
      <4>2. CASE x # v
        BY <2>3, <2>5, <4>2
      <4> QED
        BY <4>1, <4>2
    <3> QED
      BY <2>5, <3>1, <3>2
  <2> QED
    BY <1>1, <2>2, <2>4, <2>5, <2>7 DEF SpacesOf
<1> QED
  BY <1>2, <1>4, <1>5, <1>11, <1>12 DEF v, k

\* What a new process finds in its pages.
LEMMA FirstView ==
  ASSUME IInv, Kept, job.pc = "load", ~ stopped, job.seg \notin DOMAIN job.image.segs,
         NEW m, NEW pid, total \in Machines,
         \A x \in UserPages : Mapped(m, job.dir, x) =>
           IF x = PrivatePage
           THEN m[Word(m, job.dir, x)][0] = pid /\ m[Word(m, job.dir, x)][1] = 0
           ELSE Mapped(mem, job.dir, x) /\ m[Word(m, job.dir, x)] = mem[Word(mem, job.dir, x)]
  PROVE  /\ DOMAIN View(m, job.dir, job.image) \subseteq Touched(job.image) \cup {PrivatePage}
         /\ \A v \in DOMAIN View(m, job.dir, job.image) :
              View(m, job.dir, job.image)[v] = Abstract!Fresh(pid, job.image, v)
<1> DEFINE d == job.dir
           image == job.image
           own == {w \in Touched(image) \cup {PrivatePage} : Mapped(m, d, w)}
<1>1. image \in Images /\ job.seg \in Nat /\ job.seg # 0 /\ Layout
  BY DEF IInv, TypeOK, JobShape
<1>2. View(m, d, image) = [v \in own |-> [i \in IF v = PrivatePage THEN 0..1 ELSE Index |->
                                             m[Word(m, d, v)][i]]]
  BY DEF View
<1>3. ASSUME NEW v \in own PROVE View(m, d, image)[v] = Abstract!Fresh(pid, image, v)
  <2>1. v \in UserPages /\ v \in Nat /\ Mapped(m, d, v)
    <3>1. v \in Brought(image) \cup {PrivatePage}
      BY <1>1, <1>3, TouchedIsBrought
    <3> QED
      BY <1>1, <1>3, <3>1, ProgramsAbove, Numbers
  <2>2. CASE v = PrivatePage
    <3>1. View(m, d, image)[v] = [i \in 0..1 |-> m[Word(m, d, v)][i]]
      BY <1>2, <1>3, <2>2
    <3>2. m[Word(m, d, v)][0] = pid /\ m[Word(m, d, v)][1] = 0
      BY <2>1, <2>2
    <3>3. \A i \in 0..1 : m[Word(m, d, v)][i] = IF i = 0 THEN pid ELSE 0
      BY <3>2
    <3>4. Abstract!Fresh(pid, image, v) = [i \in 0..1 |-> IF i = 0 THEN pid ELSE 0]
      BY <2>2 DEF Abstract!Fresh
    <3> QED
      BY <3>1, <3>3, <3>4
  <2>3. CASE v # PrivatePage
    <3>1. View(m, d, image)[v] = [i \in Index |-> m[Word(m, d, v)][i]]
      BY <1>2, <1>3, <2>3
    <3>2. Mapped(mem, d, v) /\ m[Word(m, d, v)] = mem[Word(mem, d, v)]
      BY <2>1, <2>3
    <3>3. AsLoaded(mem, d, v, image, job.seg, job.page)
      BY <2>1 DEF Kept
    <3>4. ASSUME NEW i \in Index PROVE m[Word(m, d, v)][i] = Abstract!FileWord(image, v * Entries + i)
      <4>1. IsWord(image, Copies(image, job.seg, job.page, v, At(v, i)), At(v, i), m[Word(m, d, v)][i])
        BY <3>2, <3>3 DEF AsLoaded
      <4>2. m[Word(m, d, v)][i] = Abstract!FileWord(image, At(v, i))
        BY <1>1, <4>1, AllCopied
      <4> QED
        BY <4>2 DEF At
    <3>5. Abstract!Fresh(pid, image, v) =
            [i \in Index |-> Abstract!FileWord(image, v * Entries + i)]
      BY <2>3 DEF Abstract!Fresh, Index
    <3> QED
      BY <3>1, <3>4, <3>5
  <2> QED
    BY <2>2, <2>3
<1> QED
  BY <1>2, <1>3

\* A new process has a PID of its own and what its file says; nothing else changes.
LEMMA SpawnEndKeeps ==
  ASSUME IInv, Kept, Calm', SpawnEnd
  PROVE  /\ Kept' /\ HeapOf(mem', heap_max') = HeapOf(mem, heap_max)
         /\ \/ Unseen
            \/ \E image \in Images :
                 /\ next_pid \notin DOMAIN procs
                 /\ DOMAIN procs' = DOMAIN procs \cup {next_pid}
                 /\ \A q \in DOMAIN procs :
                      View(mem', procs'[q].dir, procs'[q].image) = View(mem, procs[q].dir, procs[q].image)
                 /\ LET new == View(mem', procs'[next_pid].dir, procs'[next_pid].image)
                    IN  /\ DOMAIN new \subseteq Touched(image) \cup {PrivatePage}
                        /\ \A v \in DOMAIN new : new[v] = Abstract!Fresh(next_pid, image, v)
<1>1. /\ job.pc = "load" /\ ~ stopped /\ job.seg \notin DOMAIN job.image.segs /\ job' = Idle
      /\ UNCHANGED <<total, heap_max>>
  BY DEF SpawnEnd
<1>2. /\ total \in Machines /\ mem \in Memory /\ next_pid \in Nat /\ job.image \in Images
      /\ Layout /\ used \subseteq Frames
  BY <1>1 DEF IInv, TypeOK, Memory
<1>3. CASE UNCHANGED <<used, mem, procs, next_pid, stopped, use>>
  <2>1. Kept'
    BY <1>1, <1>3, KeptNext DEF Idle
  <2> QED
    BY <1>1, <1>3, <2>1 DEF Unseen, SpacesOf
<1>4. CASE /\ procs' = [p \in DOMAIN procs \cup {next_pid} |->
                          IF p = next_pid THEN [dir |-> job.dir, image |-> job.image]
                                          ELSE procs[p]]
           /\ next_pid' = next_pid + 1
           /\ \/ /\ IsNext(used, 0)
                 /\ UNCHANGED <<used, mem, stopped, use>>
              \/ \E f \in Frames \ {0} :
                   /\ IsNext(used, f)
                   /\ NewPage(job.cr3, job.dir, PrivatePage, f,
                              [mem[f] EXCEPT ![0] = next_pid, ![1] = 0])
  <2>1. next_pid \notin DOMAIN procs
    BY <1>2 DEF Kept
  <2>2. /\ DOMAIN procs' = DOMAIN procs \cup {next_pid}
        /\ procs'[next_pid] = [dir |-> job.dir, image |-> job.image]
        /\ \A q \in DOMAIN procs : procs'[q] = procs[q]
    BY <1>4, <2>1
  <2>3. Kept'
    <3>1. DOMAIN procs' \subseteq Nat /\ \A p \in DOMAIN procs' : p < next_pid'
      BY <1>2, <1>4, <2>2 DEF Kept
    <3>2. \A q \in DOMAIN procs : procs[q].dir # job.dir
      BY <1>1 DEF Kept, ProcDirs
    <3>3. \A p, q \in DOMAIN procs' : procs'[p].dir = procs'[q].dir => p = q
      BY <2>2, <3>2 DEF Kept
    <3> QED
      BY <1>1, <3>1, <3>3 DEF Kept, Idle
  <2>4. ASSUME HeapOf(mem', heap_max) = HeapOf(mem, heap_max),
               \A p \in DOMAIN procs :
                 View(mem', procs[p].dir, procs[p].image) = View(mem, procs[p].dir, procs[p].image),
               \A x \in UserPages : Mapped(mem', job.dir, x) =>
                 IF x = PrivatePage
                 THEN mem'[Word(mem', job.dir, x)][0] = next_pid /\ mem'[Word(mem', job.dir, x)][1] = 0
                 ELSE Mapped(mem, job.dir, x)
                      /\ mem'[Word(mem', job.dir, x)] = mem[Word(mem, job.dir, x)]
        PROVE  /\ HeapOf(mem', heap_max') = HeapOf(mem, heap_max)
               /\ \A q \in DOMAIN procs :
                    View(mem', procs'[q].dir, procs'[q].image) = View(mem, procs[q].dir, procs[q].image)
               /\ LET new == View(mem', procs'[next_pid].dir, procs'[next_pid].image)
                  IN  /\ DOMAIN new \subseteq Touched(job.image) \cup {PrivatePage}
                      /\ \A v \in DOMAIN new : new[v] = Abstract!Fresh(next_pid, job.image, v)
    <3>1. /\ DOMAIN View(mem', job.dir, job.image) \subseteq Touched(job.image) \cup {PrivatePage}
          /\ \A v \in DOMAIN View(mem', job.dir, job.image) :
               View(mem', job.dir, job.image)[v] = Abstract!Fresh(next_pid, job.image, v)
      BY <1>1, <1>2, <2>4, FirstView
    <3> QED
      BY <1>1, <2>2, <2>4, <3>1
  <2>5. CASE UNCHANGED mem
    <3>1. \A x \in UserPages : Mapped(mem, job.dir, x) => x # PrivatePage
      BY <1>1 DEF Kept, AsLoaded
    <3> QED
      BY <1>1, <1>2, <2>1, <2>2, <2>3, <2>4, <2>5, <3>1
  <2>6. ASSUME NEW f \in Frames \ {0}, IsNext(used, f),
               NewPage(job.cr3, job.dir, PrivatePage, f,
                       [mem[f] EXCEPT ![0] = next_pid, ![1] = 0]),
               ~ UNCHANGED mem
        PROVE  /\ HeapOf(mem', heap_max') = HeapOf(mem, heap_max)
               /\ \A q \in DOMAIN procs :
                    View(mem', procs'[q].dir, procs'[q].image) = View(mem, procs[q].dir, procs[q].image)
               /\ LET new == View(mem', procs'[next_pid].dir, procs'[next_pid].image)
                  IN  /\ DOMAIN new \subseteq Touched(job.image) \cup {PrivatePage}
                      /\ \A v \in DOMAIN new : new[v] = Abstract!Fresh(next_pid, job.image, v)
    <3> DEFINE page == [mem[f] EXCEPT ![0] = next_pid, ![1] = 0]
    <3>1. f \notin used /\ page \in [Index -> Nat]
      BY <1>2, <2>6 DEF IsNext, Memory
    <3>2. page[0] = next_pid /\ page[1] = 0
      BY <1>2, TwoWords DEF Memory
    <3>3. PrivatePage \in UserPages /\ PrivatePage >= total
      BY <1>2, ProgramsAbove
    <3>4. NewPage(job.cr3, job.dir, PrivatePage, f, page)
      BY <2>6
    <3> HIDE DEF page
    <3>5. /\ Fills(mem, mem', use, job.dir, PrivatePage, f, page)
          /\ \A p \in DOMAIN procs :
               View(mem', procs[p].dir, procs[p].image) = View(mem, procs[p].dir, procs[p].image)
          /\ HeapOf(mem', heap_max) = HeapOf(mem, heap_max)
      BY <1>1, <2>6, <3>1, <3>3, <3>4, NewPageUnseen
    <3>6. \A x \in UserPages : Mapped(mem', job.dir, x) =>
            IF x = PrivatePage
            THEN mem'[Word(mem', job.dir, x)][0] = next_pid /\ mem'[Word(mem', job.dir, x)][1] = 0
            ELSE Mapped(mem, job.dir, x)
                 /\ mem'[Word(mem', job.dir, x)] = mem[Word(mem, job.dir, x)]
      BY <3>2, <3>5 DEF Fills
    <3> QED
      BY <2>4, <3>5, <3>6
  <2> QED
    BY <1>2, <1>4, <2>1, <2>2, <2>3, <2>5, <2>6
<1> QED
  BY <1>3, <1>4 DEF SpawnEnd

-----------------------------------------------------------------------------
(***************************************************************************)
(* Loader implements AddressSpaces.                                        *)
(***************************************************************************)
\* What processes and the heap are seen to hold is what the tables say.
ViewsAre ==
  /\ [p \in DOMAIN procs |-> ViewOf(p)] = SpacesOf(procs, mem)
  /\ HeapView = HeapOf(mem, heap_max)

\* Walk and Word agree on the pages of processes and of the heap.
LEMMA SpacesAre ==
  ASSUME IInv, Calm
  PROVE  ViewsAre
<1>1. total \in Machines /\ Layout /\ Sound /\ TypeOK
  BY DEF IInv, TypeOK
<1>2. ASSUME NEW p \in DOMAIN procs
      PROVE  ViewOf(p) = View(mem, procs[p].dir, procs[p].image)
  <2>1. procs[p].image \in Images /\ procs[p].dir \in Built
    BY <1>1, <1>2 DEF TypeOK, Built, ProcDirs
  <2>2. DirSound(mem, use, procs[p].dir)
    BY <1>1, <2>1 DEF Sound
  <2>3. ASSUME NEW v \in OwnPages(p)
        PROVE  /\ (Walk(mem, procs[p].dir, v) # 0) <=> Mapped(mem, procs[p].dir, v)
               /\ Mapped(mem, procs[p].dir, v) =>
                    Walk(mem, procs[p].dir, v) = Word(mem, procs[p].dir, v)
    <3>1. v \in Brought(procs[p].image) \cup {PrivatePage}
      BY <1>1, <2>1, <2>3, TouchedIsBrought DEF OwnPages
    <3>2. v \in UserPages /\ Slot(v) \in Index \ KernelSlots
      BY <1>1, <2>1, <3>1, ProgramsAbove, Numbers DEF UserPages
    <3>3. mem[procs[p].dir][Slot(v)] # 0 => mem[procs[p].dir][Slot(v)] \in Frames
      BY <2>2, <3>2 DEF DirSound
    <3> QED
      BY <3>3 DEF Walk, Mapped, Word
  <2>4. {w \in OwnPages(p) : Walk(mem, procs[p].dir, w) # 0}
          = {w \in Touched(procs[p].image) \cup {PrivatePage} : Mapped(mem, procs[p].dir, w)}
    BY <2>3 DEF OwnPages
  <2> QED
    BY <2>3, <2>4 DEF ViewOf, View
<1>3. ASSUME NEW v \in HeapRange
      PROVE  Walk(mem, KernelDir, v) = Word(mem, KernelDir, v)
  <2>1. v \in HeapStart..(HeapStart + HeapPages)
    BY <1>1, <1>3, Numbers DEF TypeOK, HeapRange
  <2>2. Slot(v) \in KernelSlots
    BY <1>1, <2>1 DEF Layout
  <2>3. mem[KernelDir][Slot(v)] \in Frames \ {0}
    BY <1>1, <2>2 DEF Sound, KernelSound
  <2> QED
    BY <2>3 DEF Walk, Word
<1>4. HeapView = HeapOf(mem, heap_max)
  BY <1>3 DEF HeapView, HeapOf, HeapRange
<1> QED
  BY <1>2, <1>4 DEF SpacesOf, ViewsAre

\* At the start nothing is loaded.
LEMMA KeptFirst == ASSUME Init PROVE Kept
<1>1. DOMAIN procs = {} /\ job.pc = "idle"
  BY DEF Init, Idle
<1> QED
  BY <1>1 DEF Kept

\* A step that changes nothing.
LEMMA NothingKeeps ==
  ASSUME Kept, UNCHANGED vars
  PROVE  Kept' /\ Unseen
<1>1. UNCHANGED <<total, used, mem, procs, next_pid, heap_max, job, stopped, use>>
  BY DEF vars
<1>2. procs' = procs /\ total' = total /\ next_pid' = next_pid
  BY <1>1
<1>3. Kept'
  <2>1. job.pc = "load" => job.dir \notin ProcDirs
    BY DEF Kept
  <2>2. job'.pc = "load" => job'.dir \notin ProcDirs
    BY <1>1, <2>1
  <2>3. job'.pc = "load" /\ ~ stopped' =>
          \A v \in UserPages : AsLoaded(mem', job'.dir, v, job'.image, job'.seg, job'.page)
    BY <1>1 DEF Kept
  <2> QED
    BY <1>2, <2>2, <2>3, KeptNext
<1>4. Unseen
  BY <1>1 DEF Unseen
<1> QED
  BY <1>3, <1>4


\* The steps of the abstract specification, told by what the tables say.
LEMMA AbstractSteps ==
  ASSUME ViewsAre, ViewsAre'
  PROVE  /\ Unseen => UNCHANGED Abstract!vars
         /\ \A p, a : /\ a \div Entries \in DOMAIN SpacesOf(procs, mem)[p]
                      /\ SpacesOf(procs', mem') =
                           [SpacesOf(procs, mem) EXCEPT ![p][a \div Entries][a % Entries] = Written]
                      /\ HeapOf(mem', heap_max') = HeapOf(mem, heap_max)
                      => Abstract!Store(p, a)
         /\ \A a : /\ a \div Entries \in DOMAIN HeapOf(mem, heap_max)
                   /\ HeapOf(mem', heap_max') =
                        [HeapOf(mem, heap_max) EXCEPT ![a \div Entries][a % Entries] = Written]
                   /\ SpacesOf(procs', mem') = SpacesOf(procs, mem)
                   => Abstract!StoreInHeap(a)
         /\ \A p : /\ SpacesOf(procs', mem') =
                        [q \in DOMAIN SpacesOf(procs, mem) \ {p} |-> SpacesOf(procs, mem)[q]]
                   /\ HeapOf(mem', heap_max') = HeapOf(mem, heap_max)
                   => Abstract!Exit(p)
         /\ /\ DOMAIN HeapOf(mem, heap_max) \subseteq DOMAIN HeapOf(mem', heap_max')
            /\ \A v \in DOMAIN HeapOf(mem, heap_max) :
                 HeapOf(mem', heap_max')[v] = HeapOf(mem, heap_max)[v]
            /\ SpacesOf(procs', mem') = SpacesOf(procs, mem)
            => Abstract!Grow
<1> DEFINE x  == SpacesOf(procs, mem)
           y  == HeapOf(mem, heap_max)
           xx == SpacesOf(procs', mem')
           yy == HeapOf(mem', heap_max')
<1>1. /\ [p \in DOMAIN procs |-> ViewOf(p)] = x /\ HeapView = y
      /\ [p \in DOMAIN procs |-> ViewOf(p)]' = xx /\ HeapView' = yy
  BY DEF ViewsAre
<1>2. Unseen => UNCHANGED Abstract!vars
  BY <1>1 DEF Unseen, Abstract!vars
<1> HIDE DEF x, y, xx, yy
<1>3. ASSUME NEW p, NEW a, a \div Entries \in DOMAIN x[p],
             xx = [x EXCEPT ![p][a \div Entries][a % Entries] = Written], yy = y
      PROVE  Abstract!Store(p, a)
  BY <1>1, <1>3 DEF Abstract!Store
<1>4. ASSUME NEW a, a \div Entries \in DOMAIN y,
             yy = [y EXCEPT ![a \div Entries][a % Entries] = Written], xx = x
      PROVE  Abstract!StoreInHeap(a)
  BY <1>1, <1>4 DEF Abstract!StoreInHeap
<1>5. ASSUME NEW p, xx = [q \in DOMAIN x \ {p} |-> x[q]], yy = y PROVE Abstract!Exit(p)
  BY <1>1, <1>5 DEF Abstract!Exit
<1>6. ASSUME DOMAIN y \subseteq DOMAIN yy, \A v \in DOMAIN y : yy[v] = y[v], xx = x PROVE Abstract!Grow
  BY <1>1, <1>6 DEF Abstract!Grow
<1> QED
  BY <1>2, <1>3, <1>4, <1>5, <1>6 DEF x, y, xx, yy

\* The same for a process that comes.
LEMMA AbstractSpawn ==
  ASSUME ViewsAre, ViewsAre', NEW image \in Images, NEW pid,
         pid \notin DOMAIN procs, DOMAIN procs' = DOMAIN procs \cup {pid},
         HeapOf(mem', heap_max') = HeapOf(mem, heap_max),
         \A q \in DOMAIN procs :
           View(mem', procs'[q].dir, procs'[q].image) = View(mem, procs[q].dir, procs[q].image),
         DOMAIN View(mem', procs'[pid].dir, procs'[pid].image) \subseteq Touched(image) \cup {PrivatePage},
         \A v \in DOMAIN View(mem', procs'[pid].dir, procs'[pid].image) :
           View(mem', procs'[pid].dir, procs'[pid].image)[v] = Abstract!Fresh(pid, image, v)
  PROVE  Abstract!Next
<1> DEFINE x  == SpacesOf(procs, mem)
           y  == HeapOf(mem, heap_max)
           xx == SpacesOf(procs', mem')
           yy == HeapOf(mem', heap_max')
           new == View(mem', procs'[pid].dir, procs'[pid].image)
<1>1. /\ [p \in DOMAIN procs |-> ViewOf(p)] = x /\ HeapView = y
      /\ [p \in DOMAIN procs |-> ViewOf(p)]' = xx /\ HeapView' = yy
  BY DEF ViewsAre
<1>2. /\ DOMAIN x = DOMAIN procs /\ DOMAIN xx = DOMAIN procs \cup {pid} /\ xx[pid] = new
      /\ \A q \in DOMAIN x : xx[q] = x[q]
  BY DEF SpacesOf
<1>3. yy = y /\ Abstract!Touched(image) = Touched(image)
  BY DEF Abstract!Touched, Abstract!Loaded, Touched
<1>4. /\ DOMAIN new \subseteq Touched(image) \cup {PrivatePage}
      /\ \A v \in DOMAIN new : new[v] = Abstract!Fresh(pid, image, v)
  OBVIOUS
<1> HIDE DEF x, y, xx, yy, new
<1>5. pid \notin DOMAIN x /\ pid \in DOMAIN xx
  BY <1>2
<1>6. Abstract!Spawn(pid, image)
  BY <1>1, <1>2, <1>3, <1>4, <1>5 DEF Abstract!Spawn
<1> QED
  BY <1>1, <1>5, <1>6 DEF Abstract!Next

\* Every step is one of AddressSpaces or changes nothing there.
LEMMA StepIsAbstract ==
  ASSUME IInv, Calm, Calm', Kept, ViewsAre, ViewsAre', [Next]_vars
  PROVE  Kept' /\ [Abstract!Next]_(Abstract!vars)
<1>1. Unseen => [Abstract!Next]_(Abstract!vars)
  BY AbstractSteps
<1>2. ASSUME NEW cr3 \in Callers, NEW image \in Images, SpawnStart(cr3, image)
      PROVE  Kept' /\ Unseen
  BY <1>2, SpawnStartKeeps
<1>3. ASSUME LoadOldPage PROVE Kept' /\ Unseen
  BY <1>3, OldPageKeeps
<1>4. ASSUME LoadNewPage PROVE Kept' /\ Unseen
  BY <1>4, NewPageKeeps
<1>5. ASSUME LoadFails PROVE Kept' /\ Unseen
  BY <1>5, LoadFailsKeeps
<1>6. ASSUME NextSegment PROVE Kept' /\ Unseen
  BY <1>6, NextSegmentKeeps
<1>7. ASSUME SpawnEnd PROVE Kept' /\ (Unseen \/ Abstract!Next)
  <2>1. /\ Kept' /\ HeapOf(mem', heap_max') = HeapOf(mem, heap_max)
        /\ \/ Unseen
           \/ \E image \in Images :
                /\ next_pid \notin DOMAIN procs
                /\ DOMAIN procs' = DOMAIN procs \cup {next_pid}
                /\ \A q \in DOMAIN procs :
                     View(mem', procs'[q].dir, procs'[q].image) = View(mem, procs[q].dir, procs[q].image)
                /\ LET new == View(mem', procs'[next_pid].dir, procs'[next_pid].image)
                   IN  /\ DOMAIN new \subseteq Touched(image) \cup {PrivatePage}
                       /\ \A v \in DOMAIN new : new[v] = Abstract!Fresh(next_pid, image, v)
    BY <1>7, SpawnEndKeeps
  <2> QED
    BY <2>1, AbstractSpawn
<1>8. ASSUME NEW cr3 \in Callers, GrowHeap(cr3) PROVE Kept' /\ Abstract!Grow
  <2>1. /\ Kept' /\ SpacesOf(procs', mem') = SpacesOf(procs, mem)
        /\ heap_max' \in HeapStart..(HeapStart + HeapPages) /\ heap_max' >= heap_max
        /\ \A v \in HeapStart..(heap_max - 1) : HeapOf(mem', heap_max')[v] = HeapOf(mem, heap_max)[v]
    BY <1>8, GrowHeapKeeps
  <2>2. heap_max \in HeapStart..(HeapStart + HeapPages) /\ HeapStart \in Nat /\ HeapPages \in Nat
    BY Numbers DEF IInv, TypeOK
  <2>3. HeapStart..(heap_max - 1) \subseteq HeapStart..(heap_max' - 1)
    <3>1. \A a \in Nat, x, y \in Int : y >= x => a..(x - 1) \subseteq a..(y - 1)
      OBVIOUS
    <3>2. HeapStart \in Nat /\ heap_max \in Int /\ heap_max' \in Int /\ heap_max' >= heap_max
      BY ONLY <2>1, <2>2
    <3> QED
      BY ONLY <3>1, <3>2
  <2>4. DOMAIN HeapOf(mem, heap_max) = HeapStart..(heap_max - 1)
        /\ DOMAIN HeapOf(mem', heap_max') = HeapStart..(heap_max' - 1)
    BY DEF HeapOf
  <2> QED
    BY <2>1, <2>3, <2>4, AbstractSteps
<1>9. ASSUME NEW p \in DOMAIN procs, Exit(p) PROVE Kept' /\ Abstract!Exit(p)
  <2>1. /\ Kept' /\ HeapOf(mem', heap_max') = HeapOf(mem, heap_max)
        /\ SpacesOf(procs', mem') = [q \in DOMAIN procs \ {p} |-> SpacesOf(procs, mem)[q]]
    BY <1>9, ExitKeeps
  <2>2. DOMAIN SpacesOf(procs, mem) = DOMAIN procs
    BY DEF SpacesOf
  <2> QED
    BY <2>1, <2>2, AbstractSteps
<1>10. ASSUME NEW p \in DOMAIN procs, NEW a \in Stores, Store(p, a)
       PROVE  Kept' /\ (Unseen \/ Abstract!Store(p, a) \/ Abstract!StoreInHeap(a))
  BY <1>10, StoreKeeps, AbstractSteps
<1>11. ASSUME Halted \/ UNCHANGED vars PROVE Kept' /\ Unseen
  BY <1>11, NothingKeeps DEF Halted
<1>12. \A p \in DOMAIN procs : p \in DOMAIN [q \in DOMAIN procs |-> ViewOf(q)]
  OBVIOUS
<1>13. ASSUME NEW p \in DOMAIN procs, Exit(p) PROVE Abstract!Next
  BY <1>9, <1>12, <1>13 DEF Abstract!Next
<1>14. ASSUME NEW p \in DOMAIN procs, NEW a \in Stores, Store(p, a) PROVE Unseen \/ Abstract!Next
  BY <1>10, <1>12, <1>14 DEF Abstract!Next
<1>15. ASSUME NEW cr3 \in Callers, GrowHeap(cr3) PROVE Abstract!Next
  BY <1>8, <1>15 DEF Abstract!Next
<1> QED
  BY <1>1, <1>2, <1>3, <1>4, <1>5, <1>6, <1>7, <1>8, <1>9, <1>10, <1>11, <1>13, <1>14, <1>15 DEF Next

(***************************************************************************)
(* What a process finds in memory is what its file says and what it has    *)
(* written itself, whatever else the kernel brings in, until a frame is    *)
(* taken that lies in the range of the heap.                               *)
(***************************************************************************)
THEOREM SpacesAreKept == Spec /\ []Calm => ImplementsAddressSpaces
<1>1. Init => Kept
  BY KeptFirst
<1>2. IInv /\ Calm => ViewsAre
  BY SpacesAre
<1>3. IInv /\ Calm /\ Calm' /\ Kept /\ ViewsAre /\ ViewsAre' /\ [Next]_vars
        => Kept' /\ [Abstract!Next]_(Abstract!vars)
  BY StepIsAbstract
<1>4. Init => Abstract!Init
  <2> SUFFICES ASSUME Init PROVE Abstract!Init
    OBVIOUS
  <2>1. DOMAIN procs = {} /\ heap_max = HeapStart /\ HeapStart \in Nat
    BY Numbers DEF Init
  <2>2. HeapRange = {}
    BY <2>1 DEF HeapRange
  <2> QED
    BY <2>1, <2>2 DEF Abstract!Init, HeapView
<1> QED
  BY <1>1, <1>2, <1>3, <1>4, Invariance, PTL DEF Spec, ImplementsAddressSpaces, Abstract!Spec
=============================================================================
