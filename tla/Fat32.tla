------------------------------- MODULE Fat32 -------------------------------
(***************************************************************************)
(* The file system, kernel/drivers/fat32/fat32.c, as the calls of vfs.c    *)
(* reach it.  A cluster is a sequence of 32-byte rows: a row is the unit   *)
(* of a directory and, here, of a file's text too.  A call is a system     *)
(* call, which runs with interrupts off: it is one step, unless the power  *)
(* goes off between two of its writes to the disk.                         *)
(***************************************************************************)
EXTENDS Integers, Sequences, SequencesExt, FiniteSets, FiniteSetsExt

CONSTANTS
  LastCluster,  \* the last cluster of the disk; the first is Root
  FatEnd,       \* the last entry of the FAT, whose last sector may go
                \* beyond the last cluster
  Rows,         \* rows of a cluster
  PerSector,    \* entries of a sector of the FAT
  Short,        \* the 8.3 name of each name (to_83)
  Paths,        \* the paths that clients name, closed under prefixes
  Texts,        \* what clients write
  MaxCopies     \* bound: entries of one name in a directory

Zero == [kind |-> "zero"]       \* a row that was never used

ASSUME FatAssumption ==
  /\ Rows \in Nat \ {0, 1} /\ PerSector \in Nat \ {0}
  /\ LastCluster \in Nat \ {0, 1} /\ FatEnd \in Nat /\ FatEnd >= LastCluster
  /\ \A p \in Paths : /\ p \in Seq(DOMAIN Short) /\ p # <<>>
                      /\ Len(p) > 1 => Front(p) \in Paths
  /\ \A s \in Texts : /\ s \in Seq(ToSet(s))
                      /\ \A r \in ToSet(s) : r = Zero \/ r.kind = "text"

Root    == 2
Entries == 2..FatEnd            \* what fat_find_free looks through
Eoc     == FatEnd + 1           \* FAT_EOC
InChain(c) == c \in Entries     \* !is_eoc(c) && c >= 2
OnDisk(c)  == c <= LastCluster  \* beyond it every transfer fails

\* What else a row can be, an entry apart.  Text is text: read as a directory
\* entry it has no name that is looked for, and a first cluster beyond FAT_EOC.
Gone == [kind |-> "gone"]       \* 0xE5
Dot  == [kind |-> "dot"]        \* . and ..
Blank == [i \in 1..Rows |-> Zero]

VARIABLE disk   \* the FAT, the clusters and fat_cache

Init ==
  disk = [fat   |-> [c \in Entries |-> IF c = Root THEN Eoc ELSE 0],
          data  |-> [c \in 2..LastCluster |-> Blank],
          cache |-> [c \in {} |-> 0]]

-----------------------------------------------------------------------------
(***************************************************************************)
(* A call works on a record d: the disk, the cache, the writes so far and  *)
(* whether the call fails.                                                 *)
(***************************************************************************)
FatRead(d, c) == IF c \in DOMAIN d.cache THEN d.cache[c] ELSE d.fat[c]

Stored(d, fat, data) ==
  [d EXCEPT !.fat = fat, !.data = data, !.log = Append(d.log, <<fat, data>>)]

\* Mutant of FatWrite: fat_cache is left as it is.
FatWriteKeepsCache(d, c, v) == Stored(d, [d.fat EXCEPT ![c] = v], d.data)

\* Mutant of FatWrite: fat_cache is written without a look at its sector.
FatWriteAnyCache(d, c, v) ==
  LET e == Stored(d, [d.fat EXCEPT ![c] = v], d.data)
  IN  [e EXCEPT !.cache = [k \in DOMAIN d.cache |->
                             IF k % PerSector = c % PerSector THEN v ELSE d.cache[k]]]

\* Mutant of FatWrite: the sector is erased before it is written.
FatWriteErases(d, c, v) ==
  LET erased == [k \in Entries |-> IF k \div PerSector = c \div PerSector THEN 0 ELSE d.fat[k]]
      e == Stored(Stored(d, erased, d.data), [d.fat EXCEPT ![c] = v], d.data)
  IN  IF c \in DOMAIN d.cache THEN [e EXCEPT !.cache[c] = v] ELSE e

FatWrite(d, c, v) ==
  LET e == Stored(d, [d.fat EXCEPT ![c] = v], d.data)
  IN  IF c \in DOMAIN d.cache THEN [e EXCEPT !.cache[c] = v] ELSE e

Fails(d) == [d EXCEPT !.ok = FALSE]

WriteCluster(d, c, rows) ==
  IF OnDisk(c) THEN Stored(d, d.fat, [d.data EXCEPT ![c] = rows]) ELSE Fails(d)

\* The clusters met from c on, one more at each step: FatEnd steps are more
\* than there are entries.
Onward(d, c, met) ==
  LET next == IF met = <<>> THEN c ELSE FatRead(d, Last(met))
  IN  IF InChain(next) THEN Append(met, next) ELSE met

Chain(d, c) ==
  LET met[n \in 0..FatEnd] == IF n = 0 THEN <<>> ELSE Onward(d, c, met[n - 1])
  IN  met[FatEnd]

\* 0 when there is none.
FatFindFree(d) ==
  LET free == {c \in Entries : FatRead(d, c) = 0}
  IN  IF free = {} THEN 0 ELSE Min(free)

\* fat_free_chain: the next cluster is read before an entry is cleared.
FreeAll(d, ch) ==
  LET freed[n \in 0..Len(ch)] == IF n = 0 THEN d ELSE FatWrite(freed[n - 1], ch[n], 0)
  IN  freed[Len(ch)]

FatFreeChain(d, c) == FreeAll(d, Chain(d, c))

RowAt(d, place) == d.data[place[1]][place[2]]

\* The clusters of the chain ch up to the first that cannot be read, and their
\* rows as places <<cluster, row>>.
Readable(ch) ==
  LET bad == {k \in DOMAIN ch : ~ OnDisk(ch[k])}
  IN  IF bad = {} THEN ch ELSE SubSeq(ch, 1, Min(bad) - 1)

PlacesOf(ch) == ToSet(ch) \X (1..Rows)

\* The first of the places S that a scan of the clusters ch meets, or <<>>.
FirstIn(c, S) == <<c, Min({i \in 1..Rows : <<c, i>> \in S})>>

FirstOf(ch, S) ==
  LET ks == {k \in DOMAIN ch : \E i \in 1..Rows : <<ch[k], i>> \in S}
  IN  IF ks = {} THEN <<>> ELSE FirstIn(ch[Min(ks)], S)

\* The place of the entry called n in the clusters ch, or <<>>; the search ends
\* at a row that was never used.
IfUsed(d, place) == IF place # <<>> /\ RowAt(d, place) # Zero THEN place ELSE <<>>

FindIn(d, ch, n) ==
  LET Hit(r) == r = Zero \/ (r.kind = "entry" /\ r.name = n)
  IN  IfUsed(d, FirstOf(ch, {pl \in PlacesOf(ch) : Hit(RowAt(d, pl))}))

FindEntry(d, dir, n) == FindIn(d, Readable(Chain(d, dir)), n)

\* resolve_path: the first cluster of what p leads to; 0 when it is not found,
\* and when it is an empty file.
FirstCluster(d, place) == IF place = <<>> THEN 0 ELSE RowAt(d, place).first

Into(d, c, n) == FirstCluster(d, FindEntry(d, c, n))

ResolvePath(d, p) ==
  LET at[n \in 0..Len(p)] == IF n = 0 THEN Root ELSE Into(d, at[n - 1], p[n])
  IN  at[Len(p)]

\* resolve_parent, and the entry of p in its parent; p is a path of 8.3 names.
Parent(d, p)  == ResolvePath(d, Front(p))
EntryOf(d, p) == FindEntry(d, Parent(d, p), Last(p))
Found(d, p)   == EntryOf(d, p) # <<>>

SetRow(d, place, row) ==
  IF OnDisk(place[1])
    THEN WriteCluster(d, place[1], [d.data[place[1]] EXCEPT ![place[2]] = row])
    ELSE Fails(d)

\* find_free_dir_slot takes the first free row, or the cluster new at the end of
\* the directory.
Lengthen(d, ch, new) ==
  WriteCluster(FatWrite(FatWrite(d, new, Eoc), Last(ch), new), new, Blank)

AddRow(d, ch, free, new, entry) ==
  IF free # <<>> THEN SetRow(d, free, entry)
  ELSE IF ch = <<>> \/ Readable(ch) # ch \/ new = 0 THEN Fails(d)
  ELSE SetRow(Lengthen(d, ch, new), <<new, 1>>, entry)

FreeIn(d, ch) == FirstOf(ch, {pl \in PlacesOf(ch) : RowAt(d, pl) \in {Zero, Gone}})

AddTo(d, ch, entry) == AddRow(d, ch, FreeIn(d, Readable(ch)), FatFindFree(d), entry)

\* dir_add_entry
DirAddEntry(d, dir, entry) == AddTo(d, Chain(d, dir), entry)

\* Mutant of DeleteEntry: the row is marked as never used.
DeleteEntryToZero(d, dir, n) ==
  LET place == FindEntry(d, dir, n)
  IN  IF place = <<>> THEN d ELSE SetRow(d, place, Zero)

\* delete_entry_in_dir
DeleteEntry(d, dir, n) ==
  LET place == FindEntry(d, dir, n)
  IN  IF place = <<>> THEN d ELSE SetRow(d, place, Gone)

\* fat_alloc once more, the cluster linked to the one before.
Grow(a) ==
  LET c == FatFindFree(a.d)
      e == FatWrite(a.d, c, Eoc)
  IN  IF a.full \/ c = 0 THEN [a EXCEPT !.full = TRUE]
      ELSE [a EXCEPT !.d = IF a.ch = <<>> THEN e ELSE FatWrite(e, Last(a.ch), c),
                     !.ch = Append(a.ch, c)]

AllocChain(d, n) ==
  LET got[k \in 0..n] == IF k = 0 THEN [d |-> d, ch |-> <<>>, full |-> FALSE]
                                  ELSE Grow(got[k - 1])
  IN  got[n]

FreeAndFail(d, ch) == Fails(IF ch = <<>> THEN d ELSE FatFreeChain(d, ch[1]))

\* Mutant of Page: one row too many is cleared and copied.
PageTooLong(s, k) ==
  [i \in 1..(Rows + 1) |-> IF (k - 1) * Rows + i <= Len(s) THEN s[(k - 1) * Rows + i] ELSE Zero]

\* Mutant of Page: every cluster gets the beginning of the text.
PageFromTheTop(s, k) ==
  [i \in 1..Rows |-> IF i <= Len(s) THEN s[i] ELSE Zero]

\* The text s from the k-th cluster's first row on, padded with zeros.
Page(s, k) ==
  [i \in 1..Rows |-> IF (k - 1) * Rows + i <= Len(s) THEN s[(k - 1) * Rows + i] ELSE Zero]

\* The text s goes into the clusters ch, up to the first that cannot be
\* written.
FillNext(d, ch, s, k) == IF d.ok THEN WriteCluster(d, ch[k], Page(s, k)) ELSE d

Fill(d, ch, s) ==
  LET filled[k \in 0..Len(ch)] == IF k = 0 THEN d ELSE FillNext(filled[k - 1], ch, s, k)
  IN  filled[Len(ch)]

OrFree(d, ch) == IF d.ok THEN d ELSE FreeAndFail(d, ch)

\* The end of fat32_write, once the clusters are filled, and before.
Enter(d, ch, dir, entry) == IF d.ok THEN OrFree(DirAddEntry(d, dir, entry), ch)
                                    ELSE FreeAndFail(d, ch)

WriteText(a, dir, n, s) ==
  IF a.full THEN FreeAndFail(a.d, a.ch)
  ELSE Enter(Fill(a.d, a.ch, s), a.ch, dir,
             [kind |-> "entry", name |-> n, dir |-> FALSE, first |-> a.ch[1], size |-> Len(s)])

\* fat32_write: the old file is gone before the new one is there.
WriteIn(d, dir, p, s) ==
  LET gone == DeleteEntry(FatFreeChain(d, ResolvePath(d, p)), dir, Last(p))
  IN  IF dir = 0 THEN Fails(d)
      ELSE IF s = <<>> THEN gone
      ELSE WriteText(AllocChain(gone, (Len(s) + Rows - 1) \div Rows), dir, Last(p), s)

WriteFile(d, p, s) == WriteIn(d, Parent(d, p), p, s)

\* fat32_create
CreateIn(d, parent, p, dir, c) ==
  LET dots == [i \in 1..Rows |-> IF i <= 2 THEN Dot ELSE Zero]
      made == WriteCluster(FatWrite(d, c, Eoc), c, dots)
      New(first) == [kind |-> "entry", name |-> Last(p), dir |-> dir,
                     first |-> first, size |-> 0]
  IN  IF parent = 0 \/ ResolvePath(d, p) # 0 THEN Fails(d)
      ELSE IF ~ dir THEN DirAddEntry(d, parent, New(0))
      ELSE IF c = 0 THEN Fails(d)
      ELSE IF ~ made.ok THEN FreeAndFail(made, <<c>>)
      ELSE DirAddEntry(made, parent, New(c))

CreateEntry(d, p, dir) == CreateIn(d, Parent(d, p), p, dir, FatFindFree(d))

\* fat32_delete
DeleteFile(d, p) ==
  IF Parent(d, p) = 0 \/ ~ Found(d, p) THEN Fails(d)
  ELSE DeleteEntry(FatFreeChain(d, ResolvePath(d, p)), Parent(d, p), Last(p))

(***************************************************************************)
(* delete_recursive.  Each of the calls in progress is on a directory dir, *)
(* at row number row of cluster at, or about to read that cluster (row 0). *)
(* There is one buffer: what the call on a subdirectory leaves in it is    *)
(* what the scan goes on with, and what is written to dir at the end.      *)
(***************************************************************************)
Scan(dir) == [dir |-> dir, at |-> dir, row |-> 0]

Goto(a, c, i) == [a.calls EXCEPT ![Len(a.calls)] = [@ EXCEPT !.at = c, !.row = i]]

\* The innermost call is over; its caller, or fat32_delete_recursive, frees the
\* chain of its directory.
Back(d, buf, calls, row) ==
  [d |-> d, buf |-> [buf EXCEPT ![row] = Gone],
   calls |-> [calls EXCEPT ![Len(calls)] = [@ EXCEPT !.row = row + 1]]]

Return(a, d) ==
  LET rest == Front(a.calls)
  IN  IF rest = <<>> THEN [a EXCEPT !.d = d, !.calls = <<>>]
                     ELSE Back(d, a.buf, rest, Last(rest).row)

FreeAndReturn(a, d) == Return(a, FatFreeChain(d, Last(a.calls).dir))

\* goto done_del, and the end of the chain.
Finish(a) == FreeAndReturn(a, WriteCluster(a.d, Last(a.calls).dir, a.buf))

NextCluster(a) ==
  LET c == Last(a.calls).at
  IN  IF ~ InChain(c) THEN Finish(a)
      ELSE IF ~ OnDisk(c) THEN FreeAndReturn(a, a.d)
      ELSE [a EXCEPT !.buf = a.d.data[c], !.calls = Goto(a, c, 1)]

\* An entry: a subdirectory is emptied first, what is none is freed at once.
NextEntry(a, c, i) ==
  LET r == a.buf[i]
  IN  IF r.dir /\ r.first >= 2 THEN [a EXCEPT !.calls = Append(a.calls, Scan(r.first))]
      ELSE [d |-> FatFreeChain(a.d, r.first), buf |-> [a.buf EXCEPT ![i] = Gone],
            calls |-> Goto(a, c, i + 1)]

NextRow(a, c, i) ==
  IF i > Rows THEN [a EXCEPT !.calls = Goto(a, FatRead(a.d, c), 0)]
  ELSE IF a.buf[i] = Zero THEN Finish(a)
  ELSE IF a.buf[i] \in {Gone, Dot} THEN [a EXCEPT !.calls = Goto(a, c, i + 1)]
  ELSE IF a.buf[i].kind = "text"
    THEN [a EXCEPT !.buf[i] = Gone, !.calls = Goto(a, c, i + 1)]
  ELSE NextEntry(a, c, i)

DeleteStep(a) ==
  LET top == Last(a.calls)
  IN  IF a.calls = <<>> THEN a
      ELSE IF top.row = 0 THEN NextCluster(a) ELSE NextRow(a, top.at, top.row)

\* No cluster is read twice: each takes a step for itself, one for each row
\* and one to go on, and each call one to return.
DeleteSteps == (Rows + 3) * FatEnd

\* delete_recursive(c) and the fat_free_chain(c) after it.
DeleteTree(d, c) ==
  LET done[n \in 0..DeleteSteps] ==
        IF n = 0 THEN [d |-> d, buf |-> Blank, calls |-> <<Scan(c)>>]
                 ELSE DeleteStep(done[n - 1])
  IN  done[DeleteSteps].d

\* fat32_delete_recursive, which does not look at what delete_recursive returns.
DeleteRecursive(d, p) ==
  LET c == ResolvePath(d, p)
  IN  IF Parent(d, p) = 0 \/ ~ Found(d, p) THEN Fails(d)
      ELSE IF c < 2 THEN DeleteEntry(d, Parent(d, p), Last(p))
      ELSE DeleteEntry([DeleteTree(d, c) EXCEPT !.ok = TRUE], Parent(d, p), Last(p))

Error == <<[kind |-> "error"]>>

\* fat32_read, of at most max rows from row off on: whole clusters are
\* skipped first, then rows are copied cluster by cluster.
SkipCluster(d, a) ==
  IF InChain(a.c) /\ a.skip >= Rows THEN [c |-> FatRead(d, a.c), skip |-> a.skip - Rows] ELSE a

SkipTo(d, c, off) ==
  LET past[n \in 0..FatEnd] == IF n = 0 THEN [c |-> c, skip |-> off]
                                       ELSE SkipCluster(d, past[n - 1])
  IN  past[FatEnd]

\* Mutant of CopyCluster: what was skipped in the first cluster is skipped in
\* every cluster.
CopyClusterSkipping(d, a) ==
  LET n == Min({Rows - a.skip, a.left})
  IN  IF ~ InChain(a.c) \/ a.left = 0 THEN a
      ELSE IF ~ OnDisk(a.c) THEN [a EXCEPT !.c = 0, !.got = Error]
      ELSE [c |-> FatRead(d, a.c), skip |-> a.skip, left |-> a.left - n,
            got |-> a.got \o SubSeq(d.data[a.c], a.skip + 1, a.skip + n)]

CopyCluster(d, a) ==
  LET n == Min({Rows - a.skip, a.left})
  IN  IF ~ InChain(a.c) \/ a.left = 0 THEN a
      ELSE IF ~ OnDisk(a.c) THEN [a EXCEPT !.c = 0, !.got = Error]
      ELSE [c |-> FatRead(d, a.c), skip |-> 0, left |-> a.left - n,
            got |-> a.got \o SubSeq(d.data[a.c], a.skip + 1, a.skip + n)]

CopyFrom(d, c, skip, left) ==
  LET copy[n \in 0..FatEnd] == IF n = 0 THEN [c |-> c, skip |-> skip, left |-> left, got |-> <<>>]
                                       ELSE CopyCluster(d, copy[n - 1])
  IN  copy[FatEnd].got

ReadFile(d, p, max, off) ==
  LET size == RowAt(d, EntryOf(d, p)).size
      from == SkipTo(d, ResolvePath(d, p), off)
  IN  IF ~ Found(d, p) THEN Error
      ELSE IF ResolvePath(d, p) = 0 \/ off >= size THEN <<>>
      ELSE CopyFrom(d, from.c, from.skip, Min({size, max + off}) - off)

\* Mutant of Move: the source is deleted though the write failed.
MoveUnchecked(d, p, q) ==
  LET got == ReadFile(d, p, RowAt(d, EntryOf(d, p)).size, 0) IN
  DeleteFile([WriteFile(d, q, got) EXCEPT !.ok = TRUE], p)

\* The program mv: a source without a text, a directory's too, stops at
\* malloc(0); it is deleted once its copy is written.
Move(d, p, q) ==
  LET size == IF Found(d, p) THEN RowAt(d, EntryOf(d, p)).size ELSE 0
      got  == ReadFile(d, p, size, 0)
      copy == WriteFile(d, q, got)
  IN  IF size = 0 \/ got = Error THEN Fails(d)
      ELSE IF copy.ok THEN DeleteFile(copy, p) ELSE copy

-----------------------------------------------------------------------------
Name83(p) == [i \in DOMAIN p |-> Short[p[i]]]

Calls ==
  [call : {"write"}, path : Paths, text : Texts]
    \cup [call : {"create"}, path : Paths, dir : BOOLEAN]
    \cup [call : {"delete", "delete_rec"}, path : Paths]

Result(d, x) ==
  LET p == Name83(x.path) IN
  CASE x.call = "write"      -> WriteFile(d, p, x.text)
    [] x.call = "create"     -> CreateEntry(d, p, x.dir)
    [] x.call = "delete"     -> DeleteFile(d, p)
    [] x.call = "delete_rec" -> DeleteRecursive(d, p)

Work == [fat |-> disk.fat, data |-> disk.data, cache |-> disk.cache,
         log |-> <<>>, ok |-> TRUE]

\* create finds no cluster for an empty file, and adds a second entry.
Copies(p) ==
  Cardinality({pl \in PlacesOf(Readable(Chain(disk, Parent(disk, p)))) :
                 LET r == RowAt(disk, pl) IN r.kind = "entry" /\ r.name = Last(p)})

\* What is left of d on the disk.  What a free cluster holds is forgotten:
\* the call that takes it writes it before anything is read from it.
Left(d) ==
  [fat   |-> d.fat,
   data  |-> [c \in DOMAIN d.data |-> IF d.fat[c] = 0 THEN Blank ELSE d.data[c]],
   cache |-> d.cache]

Call(x) ==
  /\ x.call = "create" /\ ResolvePath(Work, Name83(x.path)) = 0
        => Copies(Name83(x.path)) < MaxCopies
  /\ disk' = Left(Result(Work, x))

\* Reading the FAT, in this or any other call, leaves some sector in fat_cache.
Load ==
  \E s \in {c \div PerSector : c \in Entries} :
       disk' = [disk EXCEPT !.cache =
                  [c \in {e \in Entries : e \div PerSector = s} |-> disk.fat[c]]]

Next == (\E x \in Calls : Call(x)) \/ Load

Spec == Init /\ [][Next]_disk

-----------------------------------------------------------------------------
Known == {Name83(p) : p \in Paths}
Present == {p \in Known : Found(disk, p)}
EntryAt(d, p) == RowAt(d, EntryOf(d, p))
ChainOf(p) == Chain(disk, IF p = <<>> THEN Root ELSE EntryAt(disk, p).first)

\* The text of a file, row by row.
TextIn(d, ch, size) ==
  [k \in 1..Min({size, Rows * Len(ch)}) |-> d.data[ch[(k - 1) \div Rows + 1]][((k - 1) % Rows) + 1]]

WholeText(d, p) ==
  TextIn(d, Readable(Chain(d, EntryAt(d, p).first)), EntryAt(d, p).size)

Content(d, p) == [dir |-> EntryAt(d, p).dir, text |-> WholeText(d, p)]

IsRow(r) ==
  \/ r \in {Zero, Gone, Dot}
  \/ r.kind = "text"
  \/ /\ r.kind = "entry"
     /\ r.name \in {Short[n] : n \in DOMAIN Short} /\ r.dir \in BOOLEAN
     /\ r.first \in Entries \cup {0} /\ r.size \in Nat

TypeOK ==
  /\ disk.fat \in [Entries -> 0..Eoc]
  /\ DOMAIN disk.data = 2..LastCluster
  /\ \A c \in 2..LastCluster : Len(disk.data[c]) = Rows /\ \A i \in 1..Rows : IsRow(disk.data[c][i])
  /\ DOMAIN disk.cache \subseteq Entries

(***************************************************************************)
(* The chain of every file and directory that can be reached ends with     *)
(* FAT_EOC, is long enough for the size in its entry, and has no cluster   *)
(* in common with another chain: nothing that is freed is still in use.    *)
(***************************************************************************)
ChainsAreSound ==
  /\ \A p \in Present \cup {<<>>} :
       ChainOf(p) # <<>> => disk.fat[Last(ChainOf(p))] = Eoc
  /\ \A p \in Present : EntryAt(disk, p).size <= Rows * Len(ChainOf(p))
  /\ \A p, q \in Present \cup {<<>>} :
       p # q => ToSet(ChainOf(p)) \cap ToSet(ChainOf(q)) = {}

(***************************************************************************)
(* Every entry in a directory is the one that find_entry comes to: none is *)
(* behind another of its name, or behind a row that was never used, where  *)
(* the search ends.                                                        *)
(***************************************************************************)
EntriesAreFound ==
  \A p \in {q \in Present : EntryAt(disk, q).dir} \cup {<<>>} :
    LET ch == Readable(ChainOf(p))
    IN  \A pl \in PlacesOf(ch) :
          RowAt(disk, pl).kind = "entry" => FindIn(disk, ch, RowAt(disk, pl).name) = pl

(***************************************************************************)
(* fat_cache holds what the disk holds: fat_write goes past it to the disk *)
(* and must bring it up to date.                                           *)
(***************************************************************************)
CacheIsCurrent == \A c \in DOMAIN disk.cache : disk.cache[c] = disk.fat[c]

(***************************************************************************)
(* fat32_read returns the part of the text that was asked for, wherever    *)
(* the part begins and ends in a cluster.                                  *)
(***************************************************************************)
ReadsTheWindow ==
  \A p \in Present : \A off \in 0..(2 * Rows), max \in 1..(2 * Rows) :
    ReadFile(disk, p, max, off)
      = SubSeq(WholeText(disk, p), off + 1, Min({off + max, EntryAt(disk, p).size}))

Holds(d, p, s) == d.ok => Found(d, p) /\ ReadFile(d, p, Len(s), 0) = s

(***************************************************************************)
(* A fat32_write of a text that returns success reads back as that text.   *)
(***************************************************************************)
WriteReadsBack ==
  \A p \in Known : \A s \in Texts \ {<<>>} : Holds(WriteFile(Work, p, s), p, s)

\* A path through a file leads into its text, so p and q are apart only when
\* neither goes through the other.
Apart(p, q) == ~ IsPrefix(p, q) /\ ~ IsPrefix(q, p)

KeepsOthers(log, was) ==
  \A k \in 1..(Len(log) - 1) :
    LET after == [fat |-> log[k][1], data |-> log[k][2], cache |-> [c \in {} |-> 0]]
    IN  \A q \in DOMAIN was : Found(after, q) /\ Content(after, q) = was[q]

Others(p) == [q \in {r \in Present : Apart(r, p)} |-> Content(disk, q)]

(***************************************************************************)
(* When the power goes off between two writes of a call, every file and    *)
(* directory that the call is not about is still what it was.              *)
(***************************************************************************)
PowerLossKeepsOthers ==
  \A x \in Calls : KeepsOthers(Result(Work, x).log, Others(Name83(x.path)))

(***************************************************************************)
(* mv leaves the text of a file under its old name or puts it under the    *)
(* new one, on a disk that fills up too, and the rest of the tree is what  *)
(* it was.  (Under one name, or two that to_83 makes one, it is deleted.)  *)
(***************************************************************************)
MvLosesNothing ==
  \A p \in {r \in Present : EntryAt(disk, r).size > 0} :
    \A q \in {r \in Known : Apart(r, p)} :
      LET after == Move(Work, p, q)
          new   == IF after.ok THEN q ELSE p
      IN  /\ Found(after, new) /\ Content(after, new) = Content(disk, p)
          /\ after.ok => ~ Found(after, p)
          /\ \A r \in {x \in Present : Apart(x, p) /\ Apart(x, q)} :
               Found(after, r) /\ Content(after, r) = Content(disk, r)

\* The tree that clients see.
Tree(d) == [p \in {q \in Known : Found(d, q)} |-> Content(d, p)]

(***************************************************************************)
(* fat32.c:646 says that a directory is deleted with all its content: then *)
(* no cluster of anything below it remains allocated.                      *)
(***************************************************************************)
RecursiveDeleteFreesAll ==
  \A p \in Present : EntryAt(disk, p).dir =>
    \A q \in {r \in Present : IsPrefix(p, r)} :
      \A c \in ToSet(ChainOf(q)) : DeleteRecursive(Work, p).fat[c] = 0
=============================================================================
