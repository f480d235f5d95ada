---------------------------- MODULE FatTreeProofs ---------------------------
(***************************************************************************)
(* Proofs about the directories and the tree that clients see, for every   *)
(* size of disk, while no name is entered twice in a directory: every      *)
(* entry is found, and the calls implement Files.                          *)
(***************************************************************************)
EXTENDS FatProofs, FatTree

-----------------------------------------------------------------------------
(***************************************************************************)
(* Directories in which every entry is found: with one entry of a name, and*)
(* none behind a row that was never used.                                  *)
(***************************************************************************)
Tidy(d, r) ==
  \A l \in 1..Len(r), j \in 1..Rows : RowAt(d, <<r[l], j>>).kind = "entry" =>
    \A k \in 1..Len(r), i \in 1..Rows :
      Before(k, i, l, j) => ~ Hit(RowAt(d, <<r[k], i>>), RowAt(d, <<r[l], j>>).name)

\* What a scan reads of the chain from h on.
Rd(d, h) == Readable(ChainIn(d.fat, h))

TidyDisk(d) == \A h : IsHead(d.fat, h) => Tidy(d, Rd(d, h))

NoName(d, r, n) == \A pl \in PlacesOf(r) : ~ (RowAt(d, pl).kind = "entry" /\ RowAt(d, pl).name = n)

Plain(d, r) == \A pl \in PlacesOf(r) : RowAt(d, pl).kind # "entry"

\* What is read from h on is what it was, or less by some entries.
Same(b, d, h) ==
  IsHead(b.fat, h) /\ Rd(d, h) = Rd(b, h) /\ \A pl \in PlacesOf(Rd(b, h)) : RowAt(d, pl) = RowAt(b, pl)

Less(b, d, h) ==
  /\ IsHead(b.fat, h) /\ Rd(d, h) = Rd(b, h)
  /\ \A pl \in PlacesOf(Rd(b, h)) : RowAt(d, pl) = RowAt(b, pl) \/ RowAt(d, pl) = Gone

\* A place of a scan is a row of one of its clusters.
LEMMA PlaceAt ==
  ASSUME NEW T, NEW r \in Seq(T), NEW pl \in PlacesOf(r)
  PROVE  \E k \in 1..Len(r), i \in 1..Rows : pl = <<r[k], i>>
<1>1. ToSet(r) = {r[k] : k \in 1..Len(r)}
  BY ToSetIs
<1>2. PICK c \in ToSet(r), i \in 1..Rows : pl = <<c, i>>
  BY DEF PlacesOf
<1>3. PICK k \in 1..Len(r) : c = r[k]
  BY <1>1, <1>2
<1> QED
  BY <1>2, <1>3

\* A chain is read cluster by cluster, in use.
LEMMA RdIs ==
  ASSUME NEW d, Good(d), Links(d.fat), NEW h, IsHead(d.fat, h)
  PROVE  /\ Rd(d, h) = Readable(Chain(d, h)) /\ Rd(d, h) \in Seq(2..LastCluster)
         /\ \A pl \in PlacesOf(Rd(d, h)) :
              pl \in Places /\ pl \in Used(d.fat) /\ pl[1] \in ClustersOf(d.fat, h)
<1>1. IsDisk(d)
  BY GoodDisk
<1> QED
  BY <1>1, ReadableChain DEF Rd

\* In a tidy directory each entry is the one that is found.
LEMMA TidyFind ==
  ASSUME NEW d, NEW r \in Seq(2..LastCluster), Tidy(d, r), NEW k \in 1..Len(r), NEW i \in 1..Rows,
         RowAt(d, <<r[k], i>>).kind = "entry"
  PROVE  FindIn(d, r, RowAt(d, <<r[k], i>>).name) = <<r[k], i>>
<1> DEFINE pl == <<r[k], i>>
           n  == RowAt(d, pl).name
           S  == Hits(d, r, n)
<1>1. pl \in PlacesOf(r) /\ pl # <<>>
  BY PlaceIn, PlaceIs
<1>2. RowAt(d, pl) # Zero
  BY DEF Zero
<1>3. pl \in S
  BY <1>1 DEF Hits, Hit
<1>4. \A l \in 1..Len(r), j \in 1..Rows : <<r[l], j>> \in S => ~ Before(l, j, k, i)
  <2> SUFFICES ASSUME NEW l \in 1..Len(r), NEW j \in 1..Rows, <<r[l], j>> \in S
               PROVE  ~ Before(l, j, k, i)
    OBVIOUS
  <2>1. Hit(RowAt(d, <<r[l], j>>), n)
    BY DEF Hits
  <2> QED
    BY <2>1 DEF Tidy
<1> HIDE DEF S
<1>5. IsFirst(r, S, k, i)
  <2>1. Len(r) \in Nat /\ Rows \in Nat
    BY EntriesAre
  <2> QED
    BY <1>3, <1>4, <2>1 DEF IsFirst, Before
<1>6. FirstOf(r, S) = <<r[k], i>>
  BY <1>5, FirstOfAt
<1>7. FindIn(d, r, n) = IfUsed(d, pl)
  BY <1>6, FindInHits DEF S
<1> QED
  BY <1>1, <1>2, <1>7 DEF IfUsed

\* What has no entry of a name is not found.
LEMMA NoFind ==
  ASSUME NEW d, Good(d), NEW r \in Seq(2..LastCluster), NEW n, NoName(d, r, n)
  PROVE  FindIn(d, r, n) = <<>>
<1>1. d.data \in Datas
  BY GoodFields
<1>2. FindIn(d, r, n) = <<>> \/ /\ FindIn(d, r, n) \in PlacesOf(r)
                                /\ IsEntry(d.data, FindIn(d, r, n)) /\ RowIn(d.data, FindIn(d, r, n)).name = n
  BY <1>1, FindInIs
<1> QED
  BY <1>2 DEF NoName, IsEntry, RowIn, RowAt

\* With fewer entries a directory stays tidy, and has no more names.
LEMMA TidyFewer ==
  ASSUME NEW d, NEW e, NEW r \in Seq(2..LastCluster),
         \A pl \in PlacesOf(r) : RowAt(e, pl) = RowAt(d, pl) \/ RowAt(e, pl) = Gone
  PROVE  /\ Tidy(d, r) => Tidy(e, r)
         /\ \A n : NoName(d, r, n) => NoName(e, r, n)
         /\ Plain(d, r) => Plain(e, r)
<1>0. Gone.kind # "entry" /\ Gone # Zero
  BY DEF Gone, Zero
<1>1. \A n : NoName(d, r, n) => NoName(e, r, n)
  BY <1>0 DEF NoName
<1>2. Plain(d, r) => Plain(e, r)
  BY <1>0 DEF Plain
<1>3. ASSUME Tidy(d, r) PROVE Tidy(e, r)
  <2> SUFFICES ASSUME NEW l \in 1..Len(r), NEW j \in 1..Rows, RowAt(e, <<r[l], j>>).kind = "entry",
                      NEW k \in 1..Len(r), NEW i \in 1..Rows, Before(k, i, l, j)
               PROVE  ~ Hit(RowAt(e, <<r[k], i>>), RowAt(e, <<r[l], j>>).name)
    BY DEF Tidy
  <2>1. <<r[l], j>> \in PlacesOf(r) /\ <<r[k], i>> \in PlacesOf(r)
    BY PlaceIn
  <2>2. RowAt(e, <<r[l], j>>) = RowAt(d, <<r[l], j>>)
    BY <1>0, <2>1
  <2>3. ~ Hit(RowAt(d, <<r[k], i>>), RowAt(d, <<r[l], j>>).name)
    BY <1>3, <2>2 DEF Tidy
  <2>4. RowAt(e, <<r[k], i>>) = RowAt(d, <<r[k], i>>) \/ RowAt(e, <<r[k], i>>) = Gone
    BY <2>1
  <2> QED
    BY <1>0, <2>2, <2>3, <2>4 DEF Hit
<1> QED
  BY <1>1, <1>2, <1>3

\* Texts are tidy: they have no entry.
LEMMA TidyPlain ==
  ASSUME NEW d, NEW r \in Seq(2..LastCluster), Plain(d, r)
  PROVE  Tidy(d, r) /\ \A n : NoName(d, r, n)
<1>1. \A l \in 1..Len(r), j \in 1..Rows : RowAt(d, <<r[l], j>>).kind # "entry"
  BY PlaceIn DEF Plain
<1> QED
  BY <1>1 DEF Tidy, NoName, Plain

\* An entry of a new name in the first free row keeps a directory tidy.
LEMMA TidyAdd ==
  ASSUME NEW d, NEW r \in Seq(2..LastCluster), NEW e, NEW r2 \in Seq(2..LastCluster), NEW entry,
         entry.kind = "entry", NEW k, NEW i, Added(d, r, e, r2, entry, k, i),
         Tidy(d, r), NoName(d, r, entry.name)
  PROVE  /\ Tidy(e, r2)
         /\ \A pl \in PlacesOf(r2) : RowAt(e, pl).kind = "entry" =>
              IF RowAt(e, pl).name = entry.name THEN RowAt(e, pl) = entry
              ELSE pl \in PlacesOf(r) /\ RowAt(d, pl) = RowAt(e, pl)
<1>0. /\ Begun(r, r2) /\ Len(r2) \in Nat /\ Len(r) \in Nat /\ Len(r) <= Len(r2)
      /\ k \in 1..Len(r2) /\ i \in 1..Rows /\ RowAt(e, <<r2[k], i>>) = entry
      /\ \A l \in 1..Len(r) : l \in 1..Len(r2) /\ r2[l] = r[l]
      /\ \A l \in 1..Len(r2), j \in 1..Rows :
           /\ Before(l, j, k, i) => l <= Len(r) /\ ~ Free(RowAt(d, <<r2[l], j>>))
           /\ l <= Len(r) /\ ~ (l = k /\ j = i) => RowAt(e, <<r2[l], j>>) = RowAt(d, <<r2[l], j>>)
           /\ l > Len(r) /\ ~ (l = k /\ j = i) => RowAt(e, <<r2[l], j>>) = Zero
  BY DEF Added, Begun
<1>1. Zero.kind # "entry" /\ entry # Zero /\ Rows \in Nat
  BY EntriesAre DEF Zero
<1>2. \A l \in 1..Len(r), j \in 1..Rows :
        ~ (RowAt(d, <<r2[l], j>>).kind = "entry" /\ RowAt(d, <<r2[l], j>>).name = entry.name)
  BY <1>0, PlaceIn DEF NoName
<1>3. \A l \in 1..Len(r2), j \in 1..Rows :
        RowAt(e, <<r2[l], j>>).kind = "entry" /\ ~ (l = k /\ j = i) =>
          l \in 1..Len(r) /\ RowAt(e, <<r2[l], j>>) = RowAt(d, <<r[l], j>>)
  <2> TAKE l \in 1..Len(r2), j \in 1..Rows
  <2> HAVE RowAt(e, <<r2[l], j>>).kind = "entry" /\ ~ (l = k /\ j = i)
  <2>1. l <= Len(r)
    BY <1>0, <1>1
  <2>2. l \in 1..Len(r)
    BY <1>0, <2>1
  <2> QED
    BY <1>0, <2>1, <2>2
<1>4. ASSUME NEW l \in 1..Len(r2), NEW j \in 1..Rows, RowAt(e, <<r2[l], j>>).kind = "entry",
             NEW m \in 1..Len(r2), NEW o \in 1..Rows, Before(m, o, l, j)
      PROVE  ~ Hit(RowAt(e, <<r2[m], o>>), RowAt(e, <<r2[l], j>>).name)
  <2>1. CASE l = k /\ j = i
    <3>1. m <= Len(r) /\ ~ Free(RowAt(d, <<r2[m], o>>))
      BY <1>0, <1>4, <2>1
    <3>2. m \in 1..Len(r) /\ ~ (m = k /\ o = i)
      BY <1>0, <1>1, <1>4, <2>1, <3>1 DEF Before
    <3>3. RowAt(e, <<r2[m], o>>) = RowAt(d, <<r2[m], o>>)
      BY <1>0, <3>1, <3>2
    <3>4. RowAt(e, <<r2[l], j>>).name = entry.name
      BY <1>0, <2>1
    <3> QED
      BY <1>2, <3>1, <3>2, <3>3, <3>4 DEF Hit, Free
  <2>2. CASE ~ (l = k /\ j = i)
    <3>1. l \in 1..Len(r) /\ RowAt(e, <<r2[l], j>>) = RowAt(d, <<r[l], j>>)
      BY <1>3, <1>4, <2>2
    <3>2. m \in 1..Len(r)
      BY <1>0, <1>4, <3>1 DEF Before
    <3>3. ~ Hit(RowAt(d, <<r[m], o>>), RowAt(d, <<r[l], j>>).name)
      BY <1>4, <3>1, <3>2 DEF Tidy
    <3>4. CASE m = k /\ o = i
      <4>1. RowAt(e, <<r2[m], o>>) = entry
        BY <1>0, <3>4
      <4>2. RowAt(d, <<r[l], j>>).name # entry.name
        BY <1>0, <1>2, <1>4, <3>1
      <4> QED
        BY <1>1, <3>1, <4>1, <4>2 DEF Hit
    <3>5. CASE ~ (m = k /\ o = i)
      <4>0. m <= Len(r) /\ r2[m] = r[m] /\ m \in 1..Len(r2)
        BY <1>0, <3>2
      <4>1. RowAt(e, <<r2[m], o>>) = RowAt(d, <<r[m], o>>)
        <5>1. RowAt(e, <<r2[m], o>>) = RowAt(d, <<r2[m], o>>)
          BY <1>0, <4>0, <3>5
        <5> QED
          BY <4>0, <5>1
      <4> QED
        BY <3>1, <3>3, <4>1
    <3> QED
      BY <3>4, <3>5
  <2> QED
    BY <2>1, <2>2
<1>5. ASSUME NEW pl \in PlacesOf(r2), RowAt(e, pl).kind = "entry", RowAt(e, pl) # entry
      PROVE  RowAt(e, pl).name # entry.name /\ pl \in PlacesOf(r) /\ RowAt(d, pl) = RowAt(e, pl)
  <2>1. PICK l \in 1..Len(r2), j \in 1..Rows : pl = <<r2[l], j>>
    BY PlaceAt
  <2>2. ~ (l = k /\ j = i)
    BY <1>0, <1>5, <2>1
  <2>3. l \in 1..Len(r) /\ RowAt(e, <<r2[l], j>>) = RowAt(d, <<r[l], j>>)
    BY <1>3, <1>5, <2>1, <2>2
  <2>4. pl = <<r[l], j>>
    BY <1>0, <2>1, <2>3
  <2>5. RowAt(e, pl).name # entry.name
    BY <1>0, <1>2, <1>5, <2>1, <2>3
  <2> QED
    BY <2>1, <2>3, <2>4, <2>5, PlaceIn
<1> QED
  BY <1>4, <1>5 DEF Tidy

-----------------------------------------------------------------------------
(***************************************************************************)
(* What each part of a call leaves of a directory.                         *)
(***************************************************************************)

\* Every entry of the chain from h on is an old one, those called n in dir apart.
From(b, d, h, dir, n) ==
  \A pl \in PlacesOf(Rd(d, h)) :
    RowAt(d, pl).kind = "entry" /\ ~ (h = dir /\ RowAt(d, pl).name = n) =>
      IsHead(b.fat, h) /\ pl \in PlacesOf(Rd(b, h)) /\ RowAt(b, pl) = RowAt(d, pl)

Old(b, d, dir, n) == \A h : IsHead(d.fat, h) => From(b, d, h, dir, n)

AllSame(b, d) == \A h : IsHead(d.fat, h) => Same(b, d, h)
AllLess(b, d) == \A h : IsHead(d.fat, h) => Less(b, d, h)

\* All that begins a chain is as it was, but for c.
Stays(b, d, c) == \A h : IsHead(d.fat, h) => h = c \/ Same(b, d, h)

\* Old entries of old entries are old ones.
LEMMA OldOld ==
  ASSUME NEW b, NEW d, NEW e, NEW dir, NEW n, Old(b, d, dir, n), Old(d, e, dir, n)
  PROVE  Old(b, e, dir, n)
<1> SUFFICES ASSUME NEW h, IsHead(e.fat, h), NEW pl \in PlacesOf(Rd(e, h)),
                    RowAt(e, pl).kind = "entry", ~ (h = dir /\ RowAt(e, pl).name = n)
             PROVE  IsHead(b.fat, h) /\ pl \in PlacesOf(Rd(b, h)) /\ RowAt(b, pl) = RowAt(e, pl)
  BY DEF Old, From
<1>1. IsHead(d.fat, h) /\ pl \in PlacesOf(Rd(d, h)) /\ RowAt(d, pl) = RowAt(e, pl)
  BY DEF Old, From
<1> QED
  BY <1>1 DEF Old, From

\* The relations between what was and what is, from the narrowest on.
LEMMA SameLess ==
  ASSUME NEW b, NEW d
  PROVE  /\ \A h : Same(b, d, h) => Less(b, d, h)
         /\ AllSame(b, d) => AllLess(b, d)
         /\ AllLess(b, d) => \A dir, n : Old(b, d, dir, n)
<1>1. \A h : Same(b, d, h) => Less(b, d, h)
  BY DEF Same, Less
<1>2. ASSUME NEW h, Less(b, d, h), NEW dir, NEW n PROVE From(b, d, h, dir, n)
  <2>1. Gone.kind # "entry"
    BY DEF Gone
  <2> QED
    BY <1>2, <2>1 DEF Less, From
<1> QED
  BY <1>1, <1>2 DEF AllSame, AllLess, Old

\* Same is transitive.
LEMMA SameSame ==
  ASSUME NEW b, NEW d, NEW e, NEW h, Same(b, d, h), Same(d, e, h)
  PROVE  Same(b, e, h)
  BY DEF Same

\* A directory that lost entries only stays tidy.
LEMMA LessTidy ==
  ASSUME NEW b, Good(b), Links(b.fat), NEW d, NEW h, Less(b, d, h)
  PROVE  /\ Tidy(b, Rd(b, h)) => Tidy(d, Rd(d, h))
         /\ \A n : NoName(b, Rd(b, h), n) => NoName(d, Rd(d, h), n)
         /\ Plain(b, Rd(b, h)) => Plain(d, Rd(d, h))
<1>1. IsHead(b.fat, h) /\ Rd(d, h) = Rd(b, h)
  BY DEF Less
<1>2. Rd(b, h) \in Seq(2..LastCluster)
  BY <1>1, RdIs
<1>3. \A pl \in PlacesOf(Rd(b, h)) : RowAt(d, pl) = RowAt(b, pl) \/ RowAt(d, pl) = Gone
  BY DEF Less
<1> QED
  BY <1>1, <1>2, <1>3, TidyFewer

\* A disk that lost entries only is as tidy as it was.
LEMMA AllLessTidy ==
  ASSUME NEW b, Good(b), Links(b.fat), TidyDisk(b), NEW d, AllLess(b, d)
  PROVE  TidyDisk(d)
<1> SUFFICES ASSUME NEW h, IsHead(d.fat, h) PROVE Tidy(d, Rd(d, h))
  BY DEF TidyDisk
<1>1. Less(b, d, h) /\ IsHead(b.fat, h)
  BY DEF AllLess, Less
<1> QED
  BY <1>1, LessTidy DEF TidyDisk

\* A chain that is freed leaves the others.
LEMMA FreedSame ==
  ASSUME NEW d, Good(d), Links(d.fat), NEW c, HeadOrNone(d.fat, c), c # Root,
         NEW e, e = FatFreeChain(d, c)
  PROVE  /\ Good(e) /\ Links(e.fat) /\ e.ok = d.ok /\ AllSame(d, e)
         /\ \A h : IsHead(e.fat, h) => h # c
         /\ \A h : IsHead(d.fat, h) /\ h # c => IsHead(e.fat, h)
<1>1. CASE c \notin Entries
  <2>1. e = d
    BY <1>1, FreeNone
  <2>2. AllSame(d, d)
    BY DEF AllSame, Same
  <2> QED
    BY <1>1, <2>1, <2>2 DEF IsHead
<1>2. CASE c \in Entries
  <2>1. IsHead(d.fat, c)
    BY <1>2 DEF HeadOrNone
  <2>2. Good(e) /\ e.fat = Freed(d.fat, ClustersOf(d.fat, c)) /\ e.data = d.data /\ e.ok = d.ok
    BY <2>1, FreeChainIs
  <2>3. /\ Links(e.fat)
        /\ \A h : IsHead(d.fat, h) /\ h # c => IsHead(e.fat, h) /\ ChainIn(e.fat, h) = ChainIn(d.fat, h)
    BY <2>1, <2>2, FreedLinks
  <2>4. \A h : IsHead(e.fat, h) => h # c /\ IsHead(d.fat, h)
    BY <2>1, <2>2, FreedHeads
  <2>5. AllSame(d, e)
    BY <2>2, <2>3, <2>4 DEF AllSame, Same, Rd, RowAt
  <2> QED
    BY <2>2, <2>3, <2>4, <2>5
<1> QED
  BY <1>1, <1>2

\* An entry that is deleted leaves the rest, and in a tidy directory none of its name.
LEMMA DeletedLess ==
  ASSUME NEW d, Good(d), Links(d.fat), NEW dir, HeadOrNone(d.fat, dir), NEW n,
         NEW e, e = DeleteEntry(d, dir, n)
  PROVE  /\ Good(e) /\ e.fat = d.fat /\ e.ok = d.ok /\ AllLess(d, e)
         /\ IsHead(d.fat, dir) /\ Tidy(d, Rd(d, dir)) => NoName(e, Rd(e, dir), n)
<1> DEFINE was == FindEntry(d, dir, n)
<1>0. IsDisk(d)
  BY GoodDisk
<1>1. was = <<>> \/ EntryPlace(d, dir, n, was)
  BY <1>0, FindEntryIs
<1>2. /\ Good(e) /\ e.fat = d.fat /\ e.ok = d.ok
      /\ was = <<>> => e = d
      /\ was # <<>> => RowIn(e.data, was) = Gone
      /\ \A x \in Places \ {was} : RowIn(e.data, x) = RowIn(d.data, x)
  <2>1. was = <<>> \/ was \in Places
    BY <1>1 DEF EntryPlace
  <2> QED
    BY <2>1, DeleteEntryIs
<1> HIDE DEF was
<1>3. ASSUME NEW pl \in Places
      PROVE  RowAt(e, pl) = RowAt(d, pl) \/ (pl = was /\ RowAt(e, pl) = Gone)
  BY <1>2, <1>3 DEF RowAt, RowIn
<1>4. AllLess(d, e)
  <2> SUFFICES ASSUME NEW h, IsHead(e.fat, h) PROVE Less(d, e, h)
    BY DEF AllLess
  <2>1. IsHead(d.fat, h) /\ Rd(e, h) = Rd(d, h)
    BY <1>2 DEF Rd
  <2>2. \A pl \in PlacesOf(Rd(d, h)) : pl \in Places
    BY <2>1, RdIs
  <2> QED
    BY <1>3, <2>1, <2>2 DEF Less
<1>5. ASSUME IsHead(d.fat, dir), Tidy(d, Rd(d, dir)) PROVE NoName(e, Rd(e, dir), n)
  <2> SUFFICES ASSUME NEW pl \in PlacesOf(Rd(e, dir)), RowAt(e, pl).kind = "entry", RowAt(e, pl).name = n
               PROVE  FALSE
    BY DEF NoName
  <2>1. /\ Rd(e, dir) = Rd(d, dir) /\ Rd(d, dir) = Readable(Chain(d, dir))
        /\ Rd(d, dir) \in Seq(2..LastCluster) /\ pl \in Places
    BY <1>2, <1>5, RdIs DEF Rd
  <2>2. RowAt(e, pl) # Gone
    BY DEF Gone
  <2>3. RowAt(e, pl) = RowAt(d, pl)
    BY <1>3, <2>1, <2>2
  <2>4. PICK k \in 1..Len(Rd(d, dir)), i \in 1..Rows : pl = <<Rd(d, dir)[k], i>>
    BY <2>1, PlaceAt
  <2>5. FindIn(d, Rd(d, dir), n) = pl
    BY <1>5, <2>1, <2>3, <2>4, TidyFind
  <2>6. was = pl /\ was # <<>>
    BY <2>1, <2>4, <2>5 DEF was, FindEntry
  <2> QED
    BY <1>2, <2>1, <2>2, <2>6 DEF RowAt, RowIn
<1> QED
  BY <1>2, <1>4, <1>5

\* What begins a chain, once a cluster is taken or joined to a chain.
LEMMA TakenHeads ==
  ASSUME NEW fat, fat \in Fats, NEW c \in Entries, fat[c] = 0
  PROVE  \A h : IsHead([fat EXCEPT ![c] = Eoc], h) => h = c \/ IsHead(fat, h)
<1> DEFINE fat2 == [fat EXCEPT ![c] = Eoc]
<1> SUFFICES ASSUME NEW h, IsHead(fat2, h), h # c PROVE IsHead(fat, h)
  OBVIOUS
<1>1. \A y \in Entries : y # c => fat2[y] = fat[y]
  BY DEF Fats
<1>2. h \in Entries /\ fat[h] # 0 /\ h # 0
  BY <1>1, EntriesAre DEF IsHead
<1>3. ASSUME NEW y \in Entries PROVE fat[y] # h
  BY <1>1, <1>2 DEF IsHead
<1> QED
  BY <1>2, <1>3 DEF IsHead

\* A cluster joined to a chain begins no chain, and no chain begins at a new place.
LEMMA JoinedHeads ==
  ASSUME NEW fat, Links(fat), NEW c, IsHead(fat, c), NEW n \in Entries
  PROVE  \A h : IsHead(Joined(fat, c, n), h) => h # n /\ IsHead(fat, h)
<1> DEFINE z == Last(ChainIn(fat, c))
           fat2 == [fat EXCEPT ![z] = n]
<1> SUFFICES ASSUME NEW h, IsHead(fat2, h) PROVE h # n /\ IsHead(fat, h)
  BY DEF Joined
<1>1. z \in Entries /\ fat[z] = Eoc
  BY ClustersAre
<1> HIDE DEF z
<1>2. fat2[z] = n /\ \A y \in Entries : y # z => fat2[y] = fat[y]
  BY <1>1 DEF Links, Fats
<1> HIDE DEF fat2
<1>3. h \in Entries /\ h # n /\ fat[h] # 0 /\ h # Eoc
  BY <1>1, <1>2, EntriesAre DEF IsHead
<1>4. ASSUME NEW y \in Entries PROVE fat[y] # h
  BY <1>1, <1>2, <1>3 DEF IsHead
<1> QED
  BY <1>3, <1>4 DEF IsHead

\* A chain that grows begins where free clusters were.
LEMMA GrownSame ==
  ASSUME NEW d, Good(d), Links(d.fat), NEW a \in Makings, Growing(d, a)
  PROVE  IF a.ch = <<>> THEN AllSame(d, a.d) ELSE Stays(d, a.d, a.ch[1])
<1>1. /\ Good(a.d) /\ Links(a.d.fat) /\ a.d.data = d.data
      /\ \A x \in ToSet(a.ch) : d.fat[x] = 0
      /\ \A x \in Entries \ ToSet(a.ch) : a.d.fat[x] = d.fat[x]
      /\ \A h : IsHead(d.fat, h) => IsHead(a.d.fat, h) /\ ChainIn(a.d.fat, h) = ChainIn(d.fat, h)
      /\ a.ch # <<>> => IsHead(a.d.fat, a.ch[1]) /\ ChainIn(a.d.fat, a.ch[1]) = a.ch
  BY DEF Growing
<1>2. a.ch \in Seq(Entries) /\ ToSet(a.ch) = {a.ch[k] : k \in 1..Len(a.ch)}
  BY ToSetIs DEF Makings
<1>3. ASSUME NEW h, IsHead(a.d.fat, h), a.ch = <<>> \/ h # a.ch[1] PROVE Same(d, a.d, h)
  <2>1. h \in Entries /\ h # 0
    BY <1>3, EntriesAre DEF IsHead
  <2>2. h \notin ToSet(a.ch)
    <3> SUFFICES ASSUME h \in ToSet(a.ch) PROVE FALSE
      OBVIOUS
    <3>1. a.ch # <<>>
      BY <1>2
    <3>2. ClustersOf(a.d.fat, a.ch[1]) = ToSet(a.ch) /\ IsHead(a.d.fat, a.ch[1])
      BY <1>1, <3>1 DEF ClustersOf
    <3>3. h \in ClustersOf(a.d.fat, h)
      BY <1>1, <1>3, ClustersAre
    <3> QED
      BY <1>1, <1>3, <3>1, <3>2, <3>3, ClustersApart
  <2>3. d.fat[h] # 0
    BY <1>1, <1>3, <2>1, <2>2 DEF IsHead
  <2>4. ASSUME NEW y \in Entries PROVE d.fat[y] # h
    BY <1>1, <1>3, <2>1 DEF IsHead
  <2>5. IsHead(d.fat, h)
    BY <2>1, <2>3, <2>4 DEF IsHead
  <2> QED
    BY <1>1, <2>5 DEF Same, Rd, RowAt
<1> QED
  BY <1>3 DEF AllSame, Stays

\* The clusters of a text hold no entry, and the others what they held.
LEMMA FilledSame ==
  ASSUME NEW d, Good(d), Links(d.fat), NEW dir, NEW n, NEW s \in Seq(PlainRows),
         NEW a, NEW f, Filled(d, dir, n, s, a, f)
  PROVE  /\ Stays(d, f, a.ch[1]) /\ Links(f.fat)
         /\ f.ok => Plain(f, Rd(f, a.ch[1]))
<1>1. /\ a \in Makings /\ Growing(d, a) /\ a.ch \in Seq(Entries) /\ a.ch # <<>>
      /\ Good(f) /\ f.fat = a.d.fat /\ OnlyIn(a.ch, f, d)
      /\ IsHead(f.fat, a.ch[1]) /\ ChainIn(f.fat, a.ch[1]) = a.ch
      /\ f.ok => \A j \in 1..Len(a.ch) : OnDisk(a.ch[j]) /\ f.data[a.ch[j]] = Page(s, j)
  BY DEF Filled
<1>2. Links(f.fat) /\ ClustersOf(f.fat, a.ch[1]) = ToSet(a.ch)
  BY <1>1 DEF Growing, ClustersOf
<1>3. ASSUME NEW h, IsHead(f.fat, h), h # a.ch[1] PROVE Same(d, f, h)
  <2>1. Same(d, a.d, h)
    BY <1>1, <1>3, GrownSame DEF Stays
  <2>2. IsHead(d.fat, h) /\ Rd(f, h) = Rd(d, h)
    BY <1>1, <2>1 DEF Same, Rd
  <2>3. ASSUME NEW pl \in PlacesOf(Rd(d, h)) PROVE RowAt(f, pl) = RowAt(d, pl)
    <3>1. pl \in Places /\ pl[1] \in ClustersOf(f.fat, h)
      BY <1>1, <1>2, <1>3, <2>2, <2>3, RdIs
    <3>2. pl[1] \notin ToSet(a.ch)
      BY <1>1, <1>2, <1>3, <3>1, ClustersApart
    <3> QED
      BY <1>1, <3>1, <3>2 DEF OnlyIn, RowIn, RowAt
  <2> QED
    BY <2>2, <2>3 DEF Same
<1>4. ASSUME f.ok PROVE Plain(f, Rd(f, a.ch[1]))
  <2> SUFFICES ASSUME NEW pl \in PlacesOf(Rd(f, a.ch[1])) PROVE RowAt(f, pl).kind # "entry"
    BY DEF Plain
  <2>1. pl \in Places /\ pl[1] \in ToSet(a.ch)
    BY <1>1, <1>2, RdIs
  <2>2. PICK j \in 1..Len(a.ch) : pl[1] = a.ch[j]
    BY <1>1, <2>1, ToSetIs
  <2>3. Page(s, j) \in PlainClusters /\ pl[2] \in 1..Rows
    BY <2>1, PageIs, RowKinds DEF Places, PlainClusters
  <2>4. RowAt(f, pl) \in PlainRows
    BY <1>1, <1>4, <2>2, <2>3 DEF RowAt, PlainClusters
  <2> QED
    BY <2>4, RowKinds
<1> QED
  BY <1>2, <1>3, <1>4 DEF Stays

\* What begins a chain once an entry is added began one before.
LEMMA LengthenHeads ==
  ASSUME NEW d, Good(d), Healthy(d), NEW dir, IsHead(d.fat, dir), NEW new \in Entries,
         d.fat[new] = 0, NEW entry \in RowSet, NEW e,
         e = SetRow(Lengthen(d, Chain(d, dir), new), <<new, 1>>, entry)
  PROVE  \A h : IsHead(e.fat, h) => IsHead(d.fat, h)
<1> DEFINE fat1 == [d.fat EXCEPT ![new] = Eoc]
           d1 == FatWrite(d, new, Eoc)
           z  == Last(Chain(d, dir))
           d2 == FatWrite(d1, z, new)
           d3 == WriteCluster(d2, new, Blank)
<1>1. Links(d.fat) /\ IsDisk(d) /\ d.fat \in Fats /\ Chain(d, dir) = ChainIn(d.fat, dir)
  BY HealthyIs, ReadableChain
<1>2. Eoc \in Links0 /\ new \in Links0
  BY DEF Links0
<1>3. /\ Links(fat1) /\ IsHead(fat1, dir) /\ ChainIn(fat1, dir) = ChainIn(d.fat, dir)
  BY <1>1, TakenLinks
<1>4. Good(d1) /\ d1.fat = fat1
  BY <1>2, FatWriteIs
<1>5. \A h : IsHead(fat1, h) => h = new \/ IsHead(d.fat, h)
  BY <1>1, TakenHeads
<1> HIDE DEF fat1, d1
<1>6. z \in Entries
  BY <1>1, <1>3, ClustersAre
<1>7. Good(d2) /\ d2.fat = Joined(fat1, dir, new)
  <2>1. Good(d2) /\ d2.fat = [d1.fat EXCEPT ![z] = new]
    BY <1>2, <1>4, <1>6, FatWriteIs
  <2> QED
    BY <1>1, <1>3, <1>4, <2>1 DEF Joined
<1>8. \A h : IsHead(d2.fat, h) => IsHead(d.fat, h)
  BY <1>3, <1>5, <1>7, JoinedHeads
<1>9. e = SetRow(d3, <<new, 1>>, entry)
  BY DEF Lengthen, d1
<1> HIDE DEF d2, z
<1>10. Good(d3) /\ d3.fat = d2.fat
  BY <1>7, BlankIs, WriteClusterIs
<1> HIDE DEF d3
<1>11. e.fat = d3.fat
  <2>1. CASE OnDisk(new)
    <3>1. new \in 2..LastCluster /\ 1 \in 1..Rows
      BY <2>1, EntriesAre
    <3> QED
      BY <1>9, <1>10, <3>1, SetRowIs
  <2>2. CASE ~ OnDisk(new)
    <3>1. e = Fails(d3)
      BY <1>9, <2>2, SetRowOff
    <3> QED
      BY <1>10, <3>1, FailsIs
  <2> QED
    BY <2>1, <2>2
<1> QED
  BY <1>8, <1>10, <1>11

\* An entry that is added leaves the other directories and, when there is no
\* room, its own.
LEMMA AddSame ==
  ASSUME NEW d, Good(d), Healthy(d), d.ok, NEW dir, HeadOrNone(d.fat, dir), NEW entry \in EntryRows,
         NameHead(d.fat, entry), NamedNowhere(d, entry.first), entry.first # 0 => entry.first # dir,
         NEW e, e = DirAddEntry(d, dir, entry)
  PROVE  /\ \A h : IsHead(e.fat, h) => IsHead(d.fat, h)
         /\ ~ e.ok => AllSame(d, e)
         /\ e.ok => /\ Stays(d, e, dir) /\ IsHead(d.fat, dir) /\ IsHead(e.fat, dir)
                    /\ \E k, i : Added(d, Rd(d, dir), e, Rd(e, dir), entry, k, i)
<1> DEFINE r == Readable(Chain(d, dir))
<1>0. entry \in RowSet
  BY RowKinds
<1>1. /\ Good(e) /\ Healthy(e) /\ HeadsStay(d, e, dir) /\ Links(e.fat) /\ Links(d.fat) /\ IsDisk(d) /\ IsDisk(e)
  BY AddIs, HealthyIs
<1>2. AddedIn(d, r, dir, e, entry)
  BY <1>0, AddAdded
<1>3. \A h : IsHead(e.fat, h) => IsHead(d.fat, h)
  <2> DEFINE ch == Chain(d, dir)
             free == FreeIn(d, Readable(ch))
             new  == FatFindFree(d)
  <2>1. e = IF free # <<>> THEN SetRow(d, free, entry)
            ELSE IF ch = <<>> \/ Readable(ch) # ch \/ new = 0 THEN Fails(d)
            ELSE SetRow(Lengthen(d, ch, new), <<new, 1>>, entry)
    BY DEF DirAddEntry, AddTo, AddRow
  <2>2. new = 0 \/ (new \in Entries /\ d.fat[new] = 0)
    BY FindFreeIs
  <2> HIDE DEF free, new
  <2>3. CASE free # <<>>
    <3>1. e = SetRow(d, free, entry)
      BY <2>1, <2>3
    <3>2. e.fat = d.fat
      <4>1. \A place, row : SetRow(d, place, row).fat = d.fat
        BY DEF SetRow, WriteCluster, Stored, Fails
      <4> QED
        BY <3>1, <4>1
    <3> QED
      BY <3>2
  <2>4. CASE free = <<>> /\ (ch = <<>> \/ Readable(ch) # ch \/ new = 0)
    BY <2>1, <2>4, FailsIs
  <2>5. CASE free = <<>> /\ ~ (ch = <<>> \/ Readable(ch) # ch \/ new = 0)
    <3>1. e = SetRow(Lengthen(d, ch, new), <<new, 1>>, entry) /\ new \in Entries /\ d.fat[new] = 0
      BY <2>1, <2>2, <2>5
    <3>2. IsHead(d.fat, dir)
      BY <2>5, ChainEmpty DEF HeadOrNone
    <3> QED
      BY <1>0, <3>1, <3>2, LengthenHeads
  <2> QED
    BY <2>3, <2>4, <2>5
<1>4. ASSUME NEW h, IsHead(e.fat, h) PROVE Rd(e, h) = Readable(Chain(e, h)) /\ Rd(d, h) = Readable(Chain(d, h))
  BY <1>1, <1>3, <1>4, RdIs
<1>5. ASSUME NEW h, IsHead(e.fat, h), h # dir PROVE Rd(e, h) = Rd(d, h) /\ IsHead(d.fat, h)
  BY <1>1, <1>3, <1>5 DEF HeadsStay, Rd
<1>6. ASSUME ~ e.ok PROVE AllSame(d, e)
  <2>1. e.data = d.data /\ Readable(Chain(e, dir)) = r
    BY <1>2, <1>6 DEF AddedIn
  <2>2. ASSUME NEW h, IsHead(e.fat, h) PROVE Rd(e, h) = Rd(d, h) /\ IsHead(d.fat, h)
    <3>1. CASE h = dir
      BY <1>3, <1>4, <2>1, <2>2, <3>1
    <3>2. CASE h # dir
      BY <1>5, <2>2, <3>2
    <3> QED
      BY <3>1, <3>2
  <2> QED
    BY <2>1, <2>2 DEF AllSame, Same, RowAt
<1>7. ASSUME e.ok
      PROVE  /\ Stays(d, e, dir) /\ IsHead(d.fat, dir) /\ IsHead(e.fat, dir)
             /\ \E k, i : Added(d, Rd(d, dir), e, Rd(e, dir), entry, k, i)
  <2>1. /\ IsHead(d.fat, dir)
        /\ \E k, i : Added(d, r, e, Readable(Chain(e, dir)), entry, k, i)
        /\ \A pl \in Used(d.fat) : pl[1] \notin ClustersOf(d.fat, dir) => RowIn(e.data, pl) = RowIn(d.data, pl)
    BY <1>2, <1>7 DEF AddedIn
  <2>2. IsHead(e.fat, dir)
    BY <1>1, <2>1 DEF HeadsStay
  <2>3. \E k, i : Added(d, Rd(d, dir), e, Rd(e, dir), entry, k, i)
    BY <1>4, <2>1, <2>2
  <2>4. ASSUME NEW h, IsHead(e.fat, h), h # dir PROVE Same(d, e, h)
    <3>1. ASSUME NEW pl \in PlacesOf(Rd(d, h)) PROVE RowAt(e, pl) = RowAt(d, pl)
      <4>1. pl \in Used(d.fat) /\ pl[1] \in ClustersOf(d.fat, h)
        BY <1>1, <1>5, <2>4, <3>1, RdIs
      <4>2. pl[1] \notin ClustersOf(d.fat, dir)
        BY <1>1, <1>5, <2>1, <2>4, <4>1, ClustersApart
      <4> QED
        BY <2>1, <4>1, <4>2 DEF RowIn, RowAt
    <3> QED
      BY <1>5, <2>4, <3>1 DEF Same
  <2> QED
    BY <2>1, <2>2, <2>3, <2>4 DEF Stays
<1> QED
  BY <1>3, <1>6, <1>7

\* A new entry in a tidy directory that has none of its name.
LEMMA AddTidy ==
  ASSUME NEW d, Good(d), Links(d.fat), NEW dir, IsHead(d.fat, dir), NEW e, Good(e), Links(e.fat),
         IsHead(e.fat, dir), NEW entry, entry.kind = "entry", NEW k, NEW i,
         Added(d, Rd(d, dir), e, Rd(e, dir), entry, k, i),
         Tidy(d, Rd(d, dir)), NoName(d, Rd(d, dir), entry.name)
  PROVE  /\ Tidy(e, Rd(e, dir)) /\ From(d, e, dir, dir, entry.name)
         /\ \A pl \in PlacesOf(Rd(e, dir)) :
              RowAt(e, pl).kind = "entry" /\ RowAt(e, pl).name = entry.name => RowAt(e, pl) = entry
<1>1. Rd(d, dir) \in Seq(2..LastCluster) /\ Rd(e, dir) \in Seq(2..LastCluster)
  BY RdIs
<1>2. /\ Tidy(e, Rd(e, dir))
      /\ \A pl \in PlacesOf(Rd(e, dir)) : RowAt(e, pl).kind = "entry" =>
           IF RowAt(e, pl).name = entry.name THEN RowAt(e, pl) = entry
           ELSE pl \in PlacesOf(Rd(d, dir)) /\ RowAt(d, pl) = RowAt(e, pl)
  BY <1>1, TidyAdd
<1> QED
  BY <1>2 DEF From

\* What gives up frees the only chain that was not there.
LEMMA GivesUpSame ==
  ASSUME NEW b, NEW d, Good(d), Links(d.fat), NEW ch, ch = <<>> => AllSame(b, d),
         ch # <<>> => Stays(b, d, ch[1]) /\ IsHead(d.fat, ch[1]) /\ ch[1] # Root
  PROVE  AllSame(b, FreeAndFail(d, ch))
<1>1. \A y : Good(y) => Fails(y).fat = y.fat /\ Fails(y).data = y.data
  BY FailsIs
<1>2. CASE ch = <<>>
  <2>1. FreeAndFail(d, ch) = Fails(d)
    BY <1>2 DEF FreeAndFail
  <2> QED
    BY <1>1, <1>2, <2>1 DEF AllSame, Same, Rd, RowAt
<1>3. CASE ch # <<>>
  <2> DEFINE e == FatFreeChain(d, ch[1])
  <2>1. HeadOrNone(d.fat, ch[1])
    BY <1>3 DEF HeadOrNone
  <2>2. Good(e) /\ AllSame(d, e) /\ \A h : IsHead(e.fat, h) => h # ch[1]
    BY <1>3, <2>1, FreedSame
  <2>3. FreeAndFail(d, ch) = Fails(e)
    BY <1>3 DEF FreeAndFail
  <2> HIDE DEF e
  <2>4. AllSame(b, e)
    <3> SUFFICES ASSUME NEW h, IsHead(e.fat, h) PROVE Same(b, e, h)
      BY DEF AllSame
    <3>1. Same(d, e, h) /\ h # ch[1]
      BY <2>2 DEF AllSame
    <3>2. Same(b, d, h)
      BY <1>3, <3>1 DEF Same, Stays
    <3> QED
      BY <3>1, <3>2, SameSame
  <2>5. Fails(e).fat = e.fat /\ Fails(e).data = e.data
    BY <1>1, <2>2
  <2> QED
    BY <2>3, <2>4, <2>5 DEF AllSame, Same, Rd, RowAt
<1> QED
  BY <1>2, <1>3

\* A path that is emptied: one file less, and no entry of its name.
LEMMA EmptiedTidy ==
  ASSUME NEW d, Good(d), Healthy(d), TidyDisk(d), NEW p \in Seq(ShortNames), p # <<>>,
         NEW e, e = Emptied(d, p)
  PROVE  /\ Good(e) /\ Healthy(e) /\ Links(e.fat) /\ e.ok = d.ok /\ HeadOrNone(e.fat, Parent(d, p))
         /\ AllLess(d, e) /\ TidyDisk(e)
         /\ IsHead(e.fat, Parent(d, p)) => NoName(e, Rd(e, Parent(d, p)), Last(p))
<1> DEFINE c   == ResolvePath(d, p)
           dir == Parent(d, p)
           f   == FatFreeChain(d, c)
<1>1. Good(e) /\ Healthy(e) /\ Links(e.fat) /\ e.ok = d.ok /\ HeadOrNone(e.fat, dir)
  BY FileGone, HealthyIs DEF Emptied
<1>2. Links(d.fat) /\ HeadOrNone(d.fat, c) /\ HeadOrNone(d.fat, dir) /\ c = Into(d, dir, Last(p))
  BY ParentIs, HealthyIs
<1>3. c # Root
  BY <1>2, IntoIs, RootIsHead
<1>4. c # 0 => c # dir
  BY ParentApart
<1>5. e = DeleteEntry(f, dir, Last(p))
  BY DEF Emptied
<1> HIDE DEF c, dir
<1>6. /\ Good(f) /\ Links(f.fat) /\ AllSame(d, f)
      /\ \A h : IsHead(d.fat, h) /\ h # c => IsHead(f.fat, h)
  BY <1>2, <1>3, FreedSame
<1>7. HeadOrNone(f.fat, dir)
  <2>1. dir \in Entries => dir # 0
    BY EntriesAre
  <2>2. dir \in Entries /\ dir = c => c # 0
    BY <2>1
  <2> QED
    BY <1>2, <1>4, <1>6, <2>2 DEF HeadOrNone
<1> HIDE DEF f
<1>8. /\ e.fat = f.fat /\ AllLess(f, e)
      /\ IsHead(f.fat, dir) /\ Tidy(f, Rd(f, dir)) => NoName(e, Rd(e, dir), Last(p))
  BY <1>5, <1>6, <1>7, DeletedLess
<1>9. AllLess(d, f)
  BY <1>6, SameLess
<1>10. TidyDisk(f)
  BY <1>2, <1>9, AllLessTidy
<1>11. TidyDisk(e)
  BY <1>6, <1>8, <1>10, AllLessTidy
<1>12. AllLess(d, e)
  <2> SUFFICES ASSUME NEW h, IsHead(e.fat, h) PROVE Less(d, e, h)
    BY DEF AllLess
  <2>1. Less(f, e, h) /\ Same(d, f, h)
    BY <1>6, <1>8 DEF AllLess, AllSame
  <2> QED
    BY <2>1 DEF Less, Same
<1> QED
  BY <1>1, <1>8, <1>10, <1>11, <1>12 DEF TidyDisk, dir

\* A text that goes into a directory which has none of its name.
LEMMA TextTidy ==
  ASSUME NEW e, Good(e), Healthy(e), TidyDisk(e), NEW dir, HeadOrNone(e.fat, dir),
         NEW n \in ShortNames, IsHead(e.fat, dir) => NoName(e, Rd(e, dir), n),
         NEW s \in Seq(PlainRows), s # <<>>,
         NEW g, g = WriteText(AllocChain(e, Need(s)), dir, n, s)
  PROVE  TidyDisk(g) /\ Old(e, g, dir, n) /\ (~ g.ok => AllSame(e, g))
<1> DEFINE a == AllocChain(e, Need(s))
           f == Fill(a.d, a.ch, s)
           entry == TextEntry(n, s, a.ch[1])
           x == DirAddEntry(f, dir, entry)
<1>1. g = IF a.full THEN FreeAndFail(a.d, a.ch)
          ELSE IF ~ f.ok THEN FreeAndFail(f, a.ch)
          ELSE IF ~ x.ok THEN FreeAndFail(x, a.ch) ELSE x
  BY WriteTextEnds
<1>2. Links(e.fat) /\ IsDisk(e)
  BY HealthyIs
<1>3. a \in Makings /\ Growing(e, a)
  BY <1>2, AllocIs, NeedIs
<1>4. n \in {Short[z] : z \in DOMAIN Short}
  BY DEF ShortNames
<1>5. ~ a.full => Filled(e, dir, n, s, a, f)
  BY <1>4, FilledIs
<1> HIDE DEF a
<1>6. AllSame(e, g) => TidyDisk(g) /\ Old(e, g, dir, n)
  BY <1>2, SameLess, AllLessTidy
<1>7. CASE a.full
  <2>1. g = FreeAndFail(a.d, a.ch)
    BY <1>1, <1>7
  <2>2. Good(a.d) /\ Links(a.d.fat) /\ (a.ch # <<>> => IsHead(a.d.fat, a.ch[1]))
    BY <1>3 DEF Growing
  <2>3. IF a.ch = <<>> THEN AllSame(e, a.d) ELSE Stays(e, a.d, a.ch[1])
    BY <1>2, <1>3, GrownSame
  <2>4. a.ch # <<>> => a.ch[1] # Root
    BY <1>3, GrowingSound
  <2>5. AllSame(e, g)
    BY <2>1, <2>2, <2>3, <2>4, GivesUpSame
  <2> QED
    BY <1>6, <2>5
<1>8. CASE ~ a.full
  <2> DEFINE h == a.ch[1]
  <2>1. /\ a.ch # <<>> /\ Good(f) /\ IsHead(f.fat, h) /\ h # Root
        /\ f.ok => /\ Healthy(f) /\ NamedNowhere(f, h) /\ HeadOrNone(f.fat, dir) /\ h # dir
                   /\ entry \in EntryRows /\ NameHead(f.fat, entry)
    BY <1>5, <1>8 DEF Filled
  <2>2. Stays(e, f, h) /\ Links(f.fat) /\ (f.ok => Plain(f, Rd(f, h)))
    BY <1>2, <1>5, <1>8, FilledSame
  <2> HIDE DEF f
  <2>3. CASE ~ f.ok
    <3>1. g = FreeAndFail(f, a.ch)
      BY <1>1, <1>8, <2>3
    <3>2. AllSame(e, g)
      BY <2>1, <2>2, <3>1, GivesUpSame
    <3> QED
      BY <1>6, <3>2
  <2>4. CASE f.ok
    <3>0. entry.first = h /\ entry.name = n /\ entry.kind = "entry"
      BY DEF TextEntry
    <3>1. /\ Good(x) /\ Healthy(x) /\ HeadsStay(f, x, dir) /\ Links(x.fat)
      BY <2>1, <2>4, <3>0, AddIs, HealthyIs
    <3> HIDE DEF entry
    <3>a. /\ Good(f) /\ Healthy(f) /\ f.ok /\ HeadOrNone(f.fat, dir) /\ entry \in EntryRows
          /\ NameHead(f.fat, entry) /\ NamedNowhere(f, entry.first)
          /\ entry.first # 0 => entry.first # dir
      BY <2>1, <2>4, <3>0
    <3>b. x = DirAddEntry(f, dir, entry)
      OBVIOUS
    <3> HIDE DEF x, h
    <3>2. /\ \A y : IsHead(x.fat, y) => IsHead(f.fat, y)
          /\ ~ x.ok => AllSame(f, x)
          /\ x.ok => /\ Stays(f, x, dir) /\ IsHead(f.fat, dir) /\ IsHead(x.fat, dir)
                     /\ \E k, i : Added(f, Rd(f, dir), x, Rd(x, dir), entry, k, i)
      BY <3>a, <3>b, AddSame
    <3>3. CASE ~ x.ok
      <4>1. g = FreeAndFail(x, a.ch)
        BY <1>1, <1>8, <2>4, <3>3
      <4>2. Stays(e, x, h)
        <5> SUFFICES ASSUME NEW y, IsHead(x.fat, y), y # h PROVE Same(e, x, y)
          BY DEF Stays
        <5>1. Same(f, x, y) /\ IsHead(f.fat, y)
          BY <3>2, <3>3 DEF AllSame
        <5> QED
          BY <2>2, <5>1, SameSame DEF Stays
      <4>3. IsHead(x.fat, h)
        BY <2>1, <3>1 DEF HeadsStay
      <4>4. AllSame(e, g)
        BY <2>1, <3>1, <4>1, <4>2, <4>3, GivesUpSame DEF h
      <4> QED
        BY <1>6, <4>4
    <3>4. CASE x.ok
      <4>1. g = x
        BY <1>1, <1>8, <2>4, <3>4
      <4>2. Same(e, f, dir) /\ IsHead(e.fat, dir)
        BY <2>1, <2>2, <2>4, <3>2, <3>4 DEF Stays, Same
      <4>3. Tidy(f, Rd(f, dir)) /\ NoName(f, Rd(f, dir), n)
        BY <1>2, <4>2, SameLess, LessTidy DEF TidyDisk
      <4>4. PICK k, i : Added(f, Rd(f, dir), x, Rd(x, dir), entry, k, i)
        BY <3>2, <3>4
      <4>5. Tidy(x, Rd(x, dir)) /\ From(f, x, dir, dir, n)
        BY <2>1, <2>2, <3>0, <3>1, <3>2, <3>4, <4>3, <4>4, AddTidy
      <4>6. From(e, x, dir, dir, n)
        BY <4>2, <4>5 DEF From, Same
      <4>7. ASSUME NEW y, IsHead(x.fat, y), y # dir
            PROVE  Tidy(x, Rd(x, y)) /\ From(e, x, y, dir, n)
        <5>1. Same(f, x, y) /\ IsHead(f.fat, y) /\ Less(f, x, y) /\ Rd(x, y) \in Seq(2..LastCluster)
          BY <3>1, <3>2, <3>4, <4>7, SameLess, RdIs DEF Stays
        <5>2. CASE y = h
          <6>1. Plain(x, Rd(x, y))
            BY <2>1, <2>2, <2>4, <5>1, <5>2, LessTidy
          <6> QED
            BY <5>1, <6>1, TidyPlain DEF From, Plain
        <5>3. CASE y # h
          <6>1. Same(e, x, y)
            BY <2>2, <5>1, <5>3, SameSame DEF Stays
          <6>2. Less(e, x, y) /\ IsHead(e.fat, y)
            BY <6>1, SameLess DEF Same
          <6>3. Tidy(x, Rd(x, y))
            BY <1>2, <6>2, LessTidy DEF TidyDisk
          <6> QED
            BY <6>1, <6>3 DEF From, Same
        <5> QED
          BY <5>2, <5>3
      <4> QED
        BY <3>4, <4>1, <4>5, <4>6, <4>7 DEF TidyDisk, Old
    <3> QED
      BY <3>3, <3>4
  <2> QED
    BY <2>3, <2>4
<1> QED
  BY <1>7, <1>8

-----------------------------------------------------------------------------
(***************************************************************************)
(* What a call on p leaves: tidy directories, and no entry that was not    *)
(* there but one of p's name in p's directory.                             *)
(***************************************************************************)
Outcome(d, g, p) == TidyDisk(g) /\ Old(d, g, Parent(d, p), Last(p))

Lacks(d, dir, n) == IsHead(d.fat, dir) => NoName(d, Rd(d, dir), n)

\* Only an empty file or an empty directory has the name.
OnlyEmpty(g, dir, n, isdir) ==
  IsHead(g.fat, dir) =>
    \A pl \in PlacesOf(Rd(g, dir)) : RowAt(g, pl).kind = "entry" /\ RowAt(g, pl).name = n =>
      /\ RowAt(g, pl).dir = isdir /\ RowAt(g, pl).size = 0
      /\ RowAt(g, pl).first \in Entries =>
           IsHead(g.fat, RowAt(g, pl).first) /\ Plain(g, Rd(g, RowAt(g, pl).first))

\* A directory that lacks a name has no entry of it that is not empty.
LEMMA LacksOnly ==
  ASSUME NEW g, NEW dir, NEW n, Lacks(g, dir, n)
  PROVE  \A isdir : OnlyEmpty(g, dir, n, isdir)
  BY DEF Lacks, OnlyEmpty, NoName

\* What is as it was is an outcome.
LEMMA SameOutcome ==
  ASSUME NEW d, Good(d), Links(d.fat), TidyDisk(d), NEW g, AllLess(d, g)
  PROVE  /\ \A p : Outcome(d, g, p)
         /\ \A dir, n : Lacks(d, dir, n) => Lacks(g, dir, n)
<1>1. \A p : Outcome(d, g, p)
  BY AllLessTidy, SameLess DEF Outcome
<1>2. ASSUME NEW dir, NEW n, Lacks(d, dir, n), IsHead(g.fat, dir) PROVE NoName(g, Rd(g, dir), n)
  <2>1. Less(d, g, dir) /\ IsHead(d.fat, dir)
    BY <1>2 DEF AllLess, Less
  <2> QED
    BY <1>2, <2>1, LessTidy DEF Lacks
<1> QED
  BY <1>1, <1>2 DEF Lacks

\* A call that fails at once changes no directory.
LEMMA FailsOutcome ==
  ASSUME NEW d, Good(d), Links(d.fat), TidyDisk(d)
  PROVE  AllSame(d, Fails(d)) /\ \A p : Outcome(d, Fails(d), p)
<1>1. AllSame(d, Fails(d))
  BY FailsIs DEF AllSame, Same, Rd, RowAt
<1> QED
  BY <1>1, SameLess, SameOutcome

\* dir_add_entry of a new name.
LEMMA AddStep ==
  ASSUME NEW d, Good(d), Healthy(d), d.ok, TidyDisk(d), NEW dir, HeadOrNone(d.fat, dir),
         NEW entry \in EntryRows, Lacks(d, dir, entry.name),
         NameHead(d.fat, entry), NamedNowhere(d, entry.first), entry.first # 0 => entry.first # dir,
         NEW e, e = DirAddEntry(d, dir, entry)
  PROVE  /\ TidyDisk(e) /\ Old(d, e, dir, entry.name) /\ Links(e.fat) /\ HeadsStay(d, e, dir)
         /\ ~ e.ok => AllSame(d, e)
         /\ e.ok => Stays(d, e, dir)
         /\ \A pl \in PlacesOf(Rd(e, dir)) : IsHead(e.fat, dir) /\
              RowAt(e, pl).kind = "entry" /\ RowAt(e, pl).name = entry.name => RowAt(e, pl) = entry
<1>1. Good(e) /\ Healthy(e) /\ HeadsStay(d, e, dir) /\ Links(e.fat) /\ Links(d.fat) /\ entry.kind = "entry"
  BY AddIs, HealthyIs, RowKinds
<1>2. /\ \A h : IsHead(e.fat, h) => IsHead(d.fat, h)
      /\ ~ e.ok => AllSame(d, e)
      /\ e.ok => /\ Stays(d, e, dir) /\ IsHead(d.fat, dir) /\ IsHead(e.fat, dir)
                 /\ \E k, i : Added(d, Rd(d, dir), e, Rd(e, dir), entry, k, i)
  BY AddSame
<1>3. CASE ~ e.ok
  <2>1. AllSame(d, e)
    BY <1>2, <1>3
  <2>2. AllLess(d, e)
    BY <2>1, SameLess
  <2>3. Lacks(e, dir, entry.name)
    BY <1>1, <2>2, SameOutcome
  <2> QED
    BY <1>1, <1>3, <2>1, <2>2, <2>3, SameLess, AllLessTidy DEF Lacks, NoName
<1>4. CASE e.ok
  <2>1. PICK k, i : Added(d, Rd(d, dir), e, Rd(e, dir), entry, k, i)
    BY <1>2, <1>4
  <2>2. Tidy(d, Rd(d, dir)) /\ NoName(d, Rd(d, dir), entry.name) /\ IsHead(d.fat, dir) /\ IsHead(e.fat, dir)
    BY <1>2, <1>4 DEF TidyDisk, Lacks
  <2>3. /\ Tidy(e, Rd(e, dir)) /\ From(d, e, dir, dir, entry.name)
        /\ \A pl \in PlacesOf(Rd(e, dir)) :
             RowAt(e, pl).kind = "entry" /\ RowAt(e, pl).name = entry.name => RowAt(e, pl) = entry
    BY <1>1, <2>1, <2>2, AddTidy
  <2>4. ASSUME NEW h, IsHead(e.fat, h), h # dir
        PROVE  Tidy(e, Rd(e, h)) /\ From(d, e, h, dir, entry.name)
    <3>1. Same(d, e, h) /\ Less(d, e, h) /\ IsHead(d.fat, h)
      BY <1>2, <1>4, <2>4, SameLess DEF Stays, Same
    <3>2. Tidy(e, Rd(e, h))
      BY <1>1, <3>1, LessTidy DEF TidyDisk
    <3> QED
      BY <3>1, <3>2 DEF From, Same
  <2> QED
    BY <1>1, <1>2, <1>4, <2>3, <2>4 DEF TidyDisk, Old
<1> QED
  BY <1>3, <1>4

\* A file that is written.
LEMMA WriteOutcome ==
  ASSUME NEW d, Good(d), Healthy(d), TidyDisk(d), NEW p \in Seq(ShortNames), p # <<>>,
         NEW s \in Seq(PlainRows), NEW g, g = WriteFile(d, p, s)
  PROVE  /\ Outcome(d, g, p)
         /\ Parent(d, p) # 0 /\ (~ g.ok \/ s = <<>>) => Lacks(g, Parent(d, p), Last(p))
<1> DEFINE dir == Parent(d, p)
           e   == Emptied(d, p)
<1>1. g = IF dir = 0 THEN Fails(d) ELSE IF s = <<>> THEN e
          ELSE WriteText(AllocChain(e, Need(s)), dir, Last(p), s)
  BY DEF WriteFile, WriteIn, Emptied, Need
<1>2. /\ Good(e) /\ Healthy(e) /\ Links(e.fat) /\ HeadOrNone(e.fat, dir)
      /\ AllLess(d, e) /\ TidyDisk(e) /\ Lacks(e, dir, Last(p))
  BY EmptiedTidy DEF Lacks
<1>3. Last(p) \in ShortNames /\ Links(d.fat)
  BY FrontIs, HealthyIs
<1> HIDE DEF e
<1>4. CASE dir = 0
  BY <1>1, <1>3, <1>4, FailsOutcome
<1>5. CASE dir # 0 /\ s = <<>>
  BY <1>1, <1>2, <1>3, <1>5, SameOutcome
<1>6. CASE dir # 0 /\ s # <<>>
  <2>1. g = WriteText(AllocChain(e, Need(s)), dir, Last(p), s)
    BY <1>1, <1>6
  <2>2. TidyDisk(g) /\ Old(e, g, dir, Last(p)) /\ (~ g.ok => AllSame(e, g))
    BY <1>2, <1>3, <1>6, <2>1, TextTidy DEF Lacks
  <2>3. Old(d, g, dir, Last(p))
    BY <1>2, <2>2, OldOld, SameLess
  <2>4. ~ g.ok => Lacks(g, dir, Last(p))
    BY <1>2, <2>2, SameLess, SameOutcome
  <2> QED
    BY <1>6, <2>2, <2>3, <2>4 DEF Outcome
<1> QED
  BY <1>4, <1>5, <1>6

\* A file that is deleted.
LEMMA DeleteOutcome ==
  ASSUME NEW d, Good(d), Healthy(d), TidyDisk(d), NEW p \in Seq(ShortNames), p # <<>>,
         NEW g, g = DeleteFile(d, p)
  PROVE  /\ Outcome(d, g, p)
         /\ Parent(d, p) # 0 /\ Found(d, p) => Lacks(g, Parent(d, p), Last(p)) /\ g = Emptied(d, p)
         /\ Parent(d, p) = 0 \/ ~ Found(d, p) => g = Fails(d)
<1>1. /\ Good(Emptied(d, p)) /\ AllLess(d, Emptied(d, p)) /\ TidyDisk(Emptied(d, p))
      /\ Lacks(Emptied(d, p), Parent(d, p), Last(p))
  BY EmptiedTidy DEF Lacks
<1>2. g = IF Parent(d, p) = 0 \/ ~ Found(d, p) THEN Fails(d) ELSE Emptied(d, p)
  BY DEF DeleteFile, Emptied
<1>3. Links(d.fat)
  BY HealthyIs
<1> QED
  BY <1>1, <1>2, <1>3, SameOutcome, FailsOutcome

\* fat32_delete_recursive: the tree is gone before the entry is.
TreeGone(d, p, f) ==
  /\ Good(f) /\ Links(f.fat) /\ AllSame(d, f) /\ IsHead(f.fat, Parent(d, p))
  /\ DeleteRecursive(d, p) = DeleteEntry(f, Parent(d, p), Last(p))

\* The parts of DeleteRecursive: the tree below p is freed, then p's entry is marked.
LEMMA TreeDeleted ==
  ASSUME NEW d, Good(d), Healthy(d), d.log = <<>>, NEW p \in Seq(ShortNames), p # <<>>,
         ResolvePath(d, p) # 0
  PROVE  \E f : TreeGone(d, p, f)
<1> DEFINE c == ResolvePath(d, p)
           q == Parent(d, p)
           P == FindEntry(d, q, Last(p))
           g == DeleteTree(d, c)
           f == [g EXCEPT !.ok = TRUE]
           A == Around(d, p)
<1>1. /\ Anchored(d, A, P) /\ q \in A /\ Deleting(d, A, P, Start(d, c), {})
      /\ EntryPlace(d, q, Last(p), P)
  BY Begins
<1>2. c \in Entries \cup {0} /\ P # <<>> /\ q # 0 /\ IsHead(d.fat, q)
  BY <1>1, ParentIs, EntriesAre DEF EntryPlace, IsHead
<1>3. DeleteRecursive(d, p) = DeleteEntry(f, q, Last(p))
  <2>1. ~ (c < 2)
    BY <1>2 DEF Entries
  <2> QED
    BY <1>2, <2>1 DEF DeleteRecursive, Found, EntryOf
<1> HIDE DEF c, q, P, f, g, A
<1>4. Ends(d, A, P, d, c)
  BY <1>1, DeleteTreeEnds
<1>5. PICK a, G : a.d = g /\ a.calls = <<>> /\ Deleting(d, A, P, a, G)
  BY <1>4 DEF Ends, g
<1>6. Base(d, A, P, g, G, {})
  <2>1. Dirs(<<>>) = {}
    BY DEF Dirs
  <2> QED
    BY <1>5, <2>1 DEF Deleting
<1>7. Good(g) /\ Links(g.fat) /\ Kept(d, A, g) /\ Fewer(d, g)
  BY <1>6 DEF Base, Sound
<1>8. Good(f) /\ f.fat = g.fat /\ f.data = g.data
  <2>1. /\ g \in Works /\ g.fat \in Fats /\ g.data \in Datas /\ g.cache \in Caches
        /\ g.log \in Seq(Fats \X Datas)
    BY <1>7, GoodFields
  <2>2. f = [g EXCEPT !.ok = TRUE]
    BY DEF f
  <2>3. f \in Works /\ f.fat = g.fat /\ f.data = g.data /\ f.cache = g.cache
    BY ONLY <2>1, <2>2 DEF Works
  <2>4. f.fat = g.fat /\ f.data = g.data /\ f.cache = g.cache
    BY <2>3
  <2>5. f \in Works
    BY <2>3
  <2> QED
    BY <1>7, <2>4, <2>5 DEF Good, Current
<1>9. IsHead(f.fat, q)
  BY <1>1, <1>7, <1>8 DEF Kept
<1>10. AllSame(d, f)
  <2> SUFFICES ASSUME NEW h, IsHead(f.fat, h) PROVE Same(d, f, h)
    BY DEF AllSame
  <2>1. /\ IsHead(d.fat, h) /\ ChainIn(f.fat, h) = ChainIn(d.fat, h)
        /\ \A pl \in Places : pl[1] \in ClustersOf(d.fat, h) => RowIn(f.data, pl) = RowIn(d.data, pl)
    BY <1>7, <1>8 DEF Fewer
  <2>2. \A pl \in PlacesOf(Rd(d, h)) : pl \in Places /\ pl[1] \in ClustersOf(d.fat, h)
    BY <2>1, RdIs, HealthyIs
  <2> QED
    BY <2>1, <2>2 DEF Same, Rd, RowIn, RowAt
<1> QED
  BY <1>3, <1>7, <1>8, <1>9, <1>10 DEF TreeGone, q

\* What fat32_delete_recursive does to the directories.
LEMMA RecursiveOutcome ==
  ASSUME NEW d, Good(d), Healthy(d), d.log = <<>>, TidyDisk(d), NEW p \in Seq(ShortNames), p # <<>>,
         NEW g, g = DeleteRecursive(d, p)
  PROVE  /\ Outcome(d, g, p)
         /\ Parent(d, p) # 0 /\ Found(d, p) => Lacks(g, Parent(d, p), Last(p))
         /\ Parent(d, p) = 0 \/ ~ Found(d, p) => g = Fails(d)
<1> DEFINE q == Parent(d, p)
<1>1. Links(d.fat) /\ HeadOrNone(d.fat, q) /\ ResolvePath(d, p) \in Entries \cup {0}
  BY HealthyIs, ParentIs
<1>2. CASE q = 0 \/ ~ Found(d, p)
  <2>1. g = Fails(d)
    BY <1>2 DEF DeleteRecursive
  <2> QED
    BY <1>1, <1>2, <2>1, FailsOutcome
<1>3. CASE ~ (q = 0 \/ ~ Found(d, p)) /\ ResolvePath(d, p) = 0
  <2>1. g = DeleteEntry(d, q, Last(p))
    BY <1>3 DEF DeleteRecursive
  <2>2. AllLess(d, g) /\ g.fat = d.fat /\ (IsHead(d.fat, q) => NoName(g, Rd(g, q), Last(p)))
    <3> HIDE DEF q
    <3>1. IsHead(d.fat, q) => Tidy(d, Rd(d, q))
      BY DEF TidyDisk
    <3> QED
      BY <1>1, <2>1, <3>1, DeletedLess
  <2> QED
    BY <1>1, <1>3, <2>2, SameOutcome DEF Lacks
<1>4. CASE ~ (q = 0 \/ ~ Found(d, p)) /\ ResolvePath(d, p) # 0
  <2>1. PICK f : TreeGone(d, p, f)
    BY <1>4, TreeDeleted
  <2>2. /\ Good(f) /\ Links(f.fat) /\ AllSame(d, f) /\ IsHead(f.fat, q)
        /\ g = DeleteEntry(f, q, Last(p))
    BY <2>1 DEF TreeGone
  <2>3. AllLess(d, f) /\ TidyDisk(f)
    BY <1>1, <2>2, SameLess, AllLessTidy
  <2>4. AllLess(f, g) /\ g.fat = f.fat /\ (IsHead(f.fat, q) => NoName(g, Rd(g, q), Last(p)))
    BY <2>2, <2>3, DeletedLess DEF TidyDisk, HeadOrNone
  <2>5. AllLess(d, g)
    <3> SUFFICES ASSUME NEW h, IsHead(g.fat, h) PROVE Less(d, g, h)
      BY DEF AllLess
    <3>1. Same(d, f, h) /\ Less(f, g, h)
      BY <2>2, <2>4 DEF AllSame, AllLess
    <3> QED
      BY <3>1 DEF Same, Less
  <2> QED
    BY <1>1, <1>4, <2>4, <2>5, SameOutcome DEF Lacks
<1> QED
  BY <1>2, <1>3, <1>4

\* A cluster that is taken holds what is written there.
LEMMA MadeSame ==
  ASSUME NEW d, Good(d), Healthy(d), NEW c \in Entries, d.fat[c] = 0, NEW rows \in PlainClusters,
         NEW e, e = WriteCluster(FatWrite(d, c, Eoc), c, rows)
  PROVE  Stays(d, e, c) /\ (e.ok => Plain(e, Rd(e, c)))
<1> DEFINE d1 == FatWrite(d, c, Eoc)
<1>1. Links(d.fat) /\ d.fat \in Fats /\ d.data \in Datas /\ Eoc \in Links0
  BY HealthyIs DEF Links0
<1>2. Good(d1) /\ d1.fat = [d.fat EXCEPT ![c] = Eoc] /\ d1.data = d.data
  BY <1>1, FatWriteIs
<1>3. /\ Good(e) /\ Sound(e.fat, e.data, Used(d.fat))
      /\ IsHead(e.fat, c) /\ ChainIn(e.fat, c) = <<c>>
      /\ \A h : IsHead(d.fat, h) => h # c /\ IsHead(e.fat, h) /\ ChainIn(e.fat, h) = ChainIn(d.fat, h)
  BY MadeIs
<1> HIDE DEF d1
<1> DEFINE w == WriteCluster(d1, c, rows)
<1>4. rows \in Clusters
  BY RowKinds DEF PlainClusters, Clusters
<1>41. /\ Good(w) /\ w.fat = d1.fat
       /\ OnDisk(c) => /\ w.data = [d1.data EXCEPT ![c] = rows] /\ w.ok = d1.ok
                       /\ w.log = Append(d1.log, <<d1.fat, [d1.data EXCEPT ![c] = rows]>>)
       /\ ~ OnDisk(c) => w.data = d1.data /\ w.ok = FALSE /\ w.log = d1.log
  BY <1>2, <1>4, WriteClusterIs
<1>42. e = w
  BY DEF d1
<1> HIDE DEF w
<1>5. /\ e.fat = d1.fat
      /\ OnDisk(c) => e.data = [d.data EXCEPT ![c] = rows]
      /\ ~ OnDisk(c) => e.data = d.data /\ e.ok = FALSE
  BY <1>2, <1>41, <1>42
<1>6. Links(e.fat)
  BY <1>3 DEF Sound
<1>7. ASSUME NEW h, IsHead(e.fat, h), h # c PROVE Same(d, e, h)
  <2>0. IsHead([d.fat EXCEPT ![c] = Eoc], h)
    BY <1>2, <1>5, <1>7
  <2>1. IsHead(d.fat, h) /\ Rd(e, h) = Rd(d, h)
    BY <1>1, <1>3, <1>7, <2>0, TakenHeads DEF Rd
  <2>2. ASSUME NEW pl \in PlacesOf(Rd(d, h)) PROVE RowAt(e, pl) = RowAt(d, pl)
    <3>1. pl \in Places /\ pl \in Used(d.fat) /\ pl[1] \in 2..LastCluster /\ pl[1] # c
      BY <1>1, <2>1, RdIs DEF Used, Places
    <3> QED
      BY <1>1, <1>2, <1>5, <3>1 DEF RowAt, Datas
  <2> QED
    BY <2>1, <2>2 DEF Same
<1>8. ASSUME e.ok, NEW pl \in PlacesOf(Rd(e, c)) PROVE RowAt(e, pl).kind # "entry"
  <2>1. pl \in Places /\ pl[1] \in ClustersOf(e.fat, c) /\ pl[2] \in 1..Rows
    BY <1>3, <1>6, <1>8, RdIs DEF Places
  <2>2. ToSet(<<c>>) = {c}
    BY DEF ToSet
  <2>3. pl[1] = c /\ c \in 2..LastCluster
    BY <1>3, <2>1, <2>2 DEF ClustersOf, Places
  <2>4. OnDisk(c)
    BY <2>3, EntriesAre
  <2>5. e.data[c] = rows
    BY <1>1, <1>5, <2>3, <2>4 DEF Datas
  <2> QED
    BY <2>1, <2>3, <2>5, RowKinds DEF PlainClusters, RowAt
<1> QED
  BY <1>7, <1>8 DEF Stays, Plain

\* A cluster taken for a text or a directory has no entry yet.
LEMMA StaysTidy ==
  ASSUME NEW d, Good(d), Links(d.fat), TidyDisk(d), NEW e, Good(e), Links(e.fat),
         NEW c, Stays(d, e, c), Plain(e, Rd(e, c))
  PROVE  /\ TidyDisk(e) /\ \A dir, n : Old(d, e, dir, n)
         /\ \A dir, n : dir # c /\ Lacks(d, dir, n) => Lacks(e, dir, n)
<1>1. ASSUME NEW h, IsHead(e.fat, h) PROVE Tidy(e, Rd(e, h)) /\ \A dir, n : From(d, e, h, dir, n)
  <2>1. CASE h = c
    <3>1. Rd(e, h) \in Seq(2..LastCluster)
      BY <1>1, RdIs
    <3> QED
      BY <2>1, <3>1, TidyPlain DEF From, Plain
  <2>2. CASE h # c
    <3>1. Same(d, e, h) /\ Less(d, e, h) /\ IsHead(d.fat, h)
      BY <1>1, <2>2, SameLess DEF Stays, Same
    <3>2. Tidy(e, Rd(e, h))
      BY <3>1, LessTidy DEF TidyDisk
    <3> QED
      BY <3>1, <3>2 DEF From, Same
  <2> QED
    BY <2>1, <2>2
<1>2. ASSUME NEW dir, NEW n, dir # c, Lacks(d, dir, n), IsHead(e.fat, dir) PROVE NoName(e, Rd(e, dir), n)
  <2>1. Less(d, e, dir) /\ IsHead(d.fat, dir)
    BY <1>2, SameLess DEF Stays, Same
  <2> QED
    BY <1>2, <2>1, LessTidy DEF Lacks
<1> QED
  BY <1>1, <1>2 DEF TidyDisk, Old, Lacks

NewOne(n, isdir, first) == [kind |-> "entry", name |-> n, dir |-> isdir, first |-> first, size |-> 0]

\* A file or a directory that is created.
LEMMA CreateOutcome ==
  ASSUME NEW d, Good(d), Healthy(d), d.ok, TidyDisk(d), NEW p \in Seq(ShortNames), p # <<>>,
         NEW isdir \in BOOLEAN, Lacks(d, Parent(d, p), Last(p)),
         NEW g, g = CreateEntry(d, p, isdir)
  PROVE  Outcome(d, g, p) /\ OnlyEmpty(g, Parent(d, p), Last(p), isdir)
<1> DEFINE parent == Parent(d, p)
           n      == Last(p)
           c      == FatFindFree(d)
           dots   == [i \in 1..Rows |-> IF i <= 2 THEN Dot ELSE Zero]
           made   == WriteCluster(FatWrite(d, c, Eoc), c, dots)
<1>1. g = IF parent = 0 \/ ResolvePath(d, p) # 0 THEN Fails(d)
          ELSE IF ~ isdir THEN DirAddEntry(d, parent, NewOne(n, isdir, 0))
          ELSE IF c = 0 THEN Fails(d)
          ELSE IF ~ made.ok THEN FreeAndFail(made, <<c>>)
          ELSE DirAddEntry(made, parent, NewOne(n, isdir, c))
  BY DEF CreateEntry, CreateIn, NewOne
<1>2. HeadOrNone(d.fat, parent) /\ n \in ShortNames /\ Links(d.fat)
  BY ParentIs, FrontIs, HealthyIs
<1>3. \A x \in Entries \cup {0} :
        LET r == NewOne(n, isdir, x)
        IN  r \in EntryRows /\ r.first = x /\ r.size = 0 /\ r.name = n /\ r.dir = isdir
  BY <1>2 DEF EntryRows, AnyEntry, ShortNames, NewOne
<1>4. dots \in PlainClusters
  BY RowKinds DEF PlainClusters
<1>5. c = 0 \/ (c \in Entries /\ d.fat[c] = 0)
  BY FindFreeIs
<1>6. Lacks(d, parent, n)
  OBVIOUS
<1> SUFFICES Outcome(d, g, p) /\ OnlyEmpty(g, parent, n, isdir)
  OBVIOUS
<1>7. AllSame(d, g) => Outcome(d, g, p) /\ OnlyEmpty(g, parent, n, isdir)
  BY <1>2, <1>6, SameLess, SameOutcome, LacksOnly
<1>8. Outcome(d, g, p) <=> TidyDisk(g) /\ Old(d, g, parent, n)
  BY DEF Outcome
<1> HIDE DEF c, parent, n, dots
<1>9. CASE g = Fails(d)
  BY <1>2, <1>7, <1>9, FailsOutcome
<1>10. CASE g = DirAddEntry(d, parent, NewOne(n, isdir, 0)) /\ parent # 0
  <2> DEFINE r == NewOne(n, isdir, 0)
  <2>1. r \in EntryRows /\ r.first = 0 /\ r.size = 0 /\ r.name = n /\ r.dir = isdir
    BY <1>3
  <2> HIDE DEF r
  <2>2. NameHead(d.fat, r) /\ NamedNowhere(d, r.first)
    BY <2>1 DEF NameHead, NamedNowhere
  <2>3. g = DirAddEntry(d, parent, r) /\ Lacks(d, parent, r.name)
    BY <1>6, <1>10, <2>1 DEF r
  <2>4. /\ TidyDisk(g) /\ Old(d, g, parent, r.name)
        /\ \A pl \in PlacesOf(Rd(g, parent)) : IsHead(g.fat, parent) /\
             RowAt(g, pl).kind = "entry" /\ RowAt(g, pl).name = r.name => RowAt(g, pl) = r
    BY <1>2, <2>1, <2>2, <2>3, AddStep
  <2> QED
    BY <1>8, <2>1, <2>4, EntriesAre DEF OnlyEmpty
<1>11. CASE c # 0 /\ (g = IF ~ made.ok THEN FreeAndFail(made, <<c>>)
                          ELSE DirAddEntry(made, parent, NewOne(n, isdir, c)))
  <2>0. c \in Entries /\ d.fat[c] = 0
    BY <1>5, <1>11
  <2>1. /\ Good(made) /\ Sound(made.fat, made.data, Used(d.fat))
        /\ IsHead(made.fat, c) /\ ChainIn(made.fat, c) = <<c>> /\ c # Root
        /\ \A h : IsHead(d.fat, h) => h # c /\ IsHead(made.fat, h) /\ ChainIn(made.fat, h) = ChainIn(d.fat, h)
        /\ \A pl \in Used(made.fat) : pl \in Used(d.fat) \/ pl[1] = c
        /\ \A pl \in Used(d.fat) : ~ Names(made.data, pl, c)
        /\ made.ok => d.ok /\ Healthy(made) /\ NamedNowhere(made, c)
    BY <1>4, <2>0, MadeIs
  <2>2. Stays(d, made, c) /\ (made.ok => Plain(made, Rd(made, c)))
    BY <1>4, <2>0, MadeSame
  <2>3. Links(made.fat) /\ parent # c /\ HeadOrNone(made.fat, parent)
    BY <1>2, <2>0, <2>1 DEF Sound, HeadOrNone
  <2> HIDE DEF made
  <2>4. CASE ~ made.ok
    <3> DEFINE ch == <<c>>
    <3>1. ch # <<>> /\ ch[1] = c /\ g = FreeAndFail(made, ch)
      BY <1>11, <2>4
    <3> HIDE DEF ch
    <3>2. AllSame(d, g)
      BY <2>1, <2>2, <2>3, <3>1, GivesUpSame
    <3> QED
      BY <1>7, <3>2
  <2>5. CASE made.ok
    <3> DEFINE r == NewOne(n, isdir, c)
    <3>1. r \in EntryRows /\ r.first = c /\ r.size = 0 /\ r.name = n /\ r.dir = isdir
      BY <1>3, <2>0
    <3> HIDE DEF r
    <3>2. NameHead(made.fat, r) /\ NamedNowhere(made, r.first) /\ Healthy(made) /\ r.first # parent
      <4>1. ChainIn(made.fat, c) \in Seq(Entries)
        <5>1. ChainIn(made.fat, c) = <<c>>
          BY <2>1
        <5> QED
          BY <2>0, <5>1
      <4>2. Room(made.fat, c) \in Nat
        <5>1. Readable(ChainIn(made.fat, c)) \in Seq(2..LastCluster)
          BY <4>1, ReadableIs
        <5>2. Len(Readable(ChainIn(made.fat, c))) \in Nat
          BY <5>1
        <5> QED
          BY <5>2, EntriesAre DEF Room
      <4> QED
        BY <2>1, <2>3, <2>5, <3>1, <4>2, EntriesAre DEF NameHead
    <3>3. TidyDisk(made) /\ Old(d, made, parent, n) /\ Lacks(made, parent, n)
      BY <1>2, <1>6, <2>1, <2>2, <2>3, <2>5, StaysTidy
    <3>4. g = DirAddEntry(made, parent, r) /\ Lacks(made, parent, r.name)
      BY <1>11, <2>5, <3>1, <3>3 DEF r
    <3>5. /\ TidyDisk(g) /\ Old(made, g, parent, r.name) /\ Links(g.fat) /\ HeadsStay(made, g, parent)
          /\ ~ g.ok => AllSame(made, g)
          /\ g.ok => Stays(made, g, parent)
          /\ \A pl \in PlacesOf(Rd(g, parent)) : IsHead(g.fat, parent) /\
               RowAt(g, pl).kind = "entry" /\ RowAt(g, pl).name = r.name => RowAt(g, pl) = r
      <4>1. /\ Good(made) /\ Healthy(made) /\ made.ok /\ TidyDisk(made) /\ HeadOrNone(made.fat, parent)
            /\ r \in EntryRows /\ Lacks(made, parent, r.name)
            /\ NameHead(made.fat, r) /\ NamedNowhere(made, r.first) /\ (r.first # 0 => r.first # parent)
            /\ g = DirAddEntry(made, parent, r)
        BY <2>1, <2>3, <2>5, <3>1, <3>2, <3>3, <3>4
      <4> QED
        BY ONLY <4>1, AddStep
    <3>6. IsHead(g.fat, c)
      BY <2>1, <3>5 DEF HeadsStay
    <3>7. Same(made, g, c)
      BY <2>3, <3>5, <3>6 DEF AllSame, Stays
    <3>8. Plain(g, Rd(g, c))
      BY <2>1, <2>2, <2>3, <2>5, <3>7, SameLess, LessTidy
    <3>9. Old(d, g, parent, n)
      BY <3>1, <3>3, <3>5, OldOld
    <3> QED
      BY <1>8, <3>1, <3>5, <3>6, <3>8, <3>9 DEF OnlyEmpty
  <2> QED
    BY <2>4, <2>5
<1> QED
  BY <1>1, <1>9, <1>10, <1>11

\* What a call does to the entries, the one that it is about apart.
LEMMA ResultOutcome ==
  ASSUME NEW d, Good(d), Healthy(d), d.log = <<>>, d.ok, TidyDisk(d), NEW x \in Calls,
         NEW p, p = Name83(x.path),
         x.call = "create" /\ ResolvePath(d, p) = 0 => Lacks(d, Parent(d, p), Last(p))
  PROVE  Outcome(d, Result(d, x), p)
<1>1. p \in Seq(ShortNames) /\ p # <<>>
  BY NamesAre DEF Calls
<1>2. CASE x.call = "write" /\ x.text \in Texts
  <2>1. Result(d, x) = WriteFile(d, p, x.text)
    BY <1>2 DEF Result
  <2>2. x.text \in Seq(PlainRows)
    BY <1>2, TextsAre
  <2> QED
    BY <1>1, <2>1, <2>2, WriteOutcome
<1>3. CASE x.call = "create" /\ x.dir \in BOOLEAN
  <2>1. Result(d, x) = CreateEntry(d, p, x.dir)
    BY <1>3 DEF Result
  <2>2. CASE ResolvePath(d, p) = 0
    <3>1. Lacks(d, Parent(d, p), Last(p))
      BY <1>3, <2>2
    <3> QED
      BY <1>1, <1>3, <2>1, <3>1, CreateOutcome
  <2>3. CASE ResolvePath(d, p) # 0
    <3>1. CreateEntry(d, p, x.dir) = Fails(d)
      BY <2>3 DEF CreateEntry, CreateIn
    <3>2. Links(d.fat)
      BY HealthyIs
    <3> QED
      BY <2>1, <3>1, <3>2, FailsOutcome
  <2> QED
    BY <2>2, <2>3
<1>4. CASE x.call = "delete"
  <2>1. Result(d, x) = DeleteFile(d, p)
    BY <1>4 DEF Result
  <2> QED
    BY <1>1, <2>1, DeleteOutcome
<1>5. CASE x.call = "delete_rec"
  <2>1. Result(d, x) = DeleteRecursive(d, p)
    BY <1>5 DEF Result
  <2> QED
    BY <1>1, <2>1, RecursiveOutcome
<1> QED
  BY <1>2, <1>3, <1>4, <1>5 DEF Calls

\* The same FAT, and the same rows in all clusters that are in use.
SameUsed(d, e) == e.fat = d.fat /\ \A pl \in Used(d.fat) : RowAt(e, pl) = RowAt(d, pl)

\* Disks that agree in the clusters in use have the same directories.
LEMMA UsedSame ==
  ASSUME NEW d, Good(d), Links(d.fat), NEW e, SameUsed(d, e)
  PROVE  AllSame(d, e)
<1> SUFFICES ASSUME NEW h, IsHead(e.fat, h)
             PROVE  Same(d, e, h)
  BY DEF AllSame
<1>1. e.fat = d.fat /\ IsHead(d.fat, h)
  BY DEF SameUsed
<1>2. Rd(e, h) = Rd(d, h)
  BY <1>1 DEF Rd
<1>3. \A pl \in PlacesOf(Rd(d, h)) : RowAt(e, pl) = RowAt(d, pl)
  BY <1>1, RdIs DEF SameUsed
<1> QED
  BY <1>1, <1>2, <1>3 DEF Same

\* Forgetting what free clusters hold changes nothing of it.
LEMMA LeftUsed ==
  ASSUME NEW d, Good(d)
  PROVE  SameUsed(d, Left(d))
<1>1. d.data \in [2..LastCluster -> Clusters]
  BY GoodFields DEF Datas
<1>2. /\ Left(d).fat = d.fat
      /\ Left(d).data = [c \in DOMAIN d.data |-> IF d.fat[c] = 0 THEN Blank ELSE d.data[c]]
  BY DEF Left
<1> QED
  BY <1>1, <1>2 DEF SameUsed, Used, Places, RowAt

\* Tidy speaks of the FAT and the clusters only.
LEMMA TidySame ==
  ASSUME NEW d, NEW e, e.fat = d.fat, e.data = d.data, TidyDisk(d)
  PROVE  TidyDisk(e)
BY DEF TidyDisk, Tidy, Rd, RowAt

-----------------------------------------------------------------------------
(***************************************************************************)
(* With the bound MaxCopies = 1 no name is entered twice.                  *)
(***************************************************************************)
TidyInv == FatInv /\ TidyDisk(disk)

\* The disk that a call starts from is as sound and as tidy as the disk.
LEMMA TidyWork ==
  ASSUME TidyInv
  PROVE  /\ Good(Work) /\ Healthy(Work) /\ Work.log = <<>> /\ Work.ok /\ TidyDisk(Work)
         /\ Work.fat = disk.fat /\ Work.data = disk.data
<1>1. Work.fat = disk.fat /\ Work.data = disk.data /\ Work.ok
  BY DEF Work
<1>2. TidyDisk(Work)
  BY <1>1, TidySame DEF TidyInv
<1> QED
  BY <1>1, <1>2, WorkIs DEF TidyInv, FatInv

\* What the guard of Call says of the directory.
LEMMA NoCopies ==
  ASSUME TidyInv, NEW p \in Seq(ShortNames), p # <<>>, Copies(p) < 1
  PROVE  Lacks(Work, Parent(Work, p), Last(p))
<1>1. /\ Good(Work) /\ Healthy(Work) /\ Work.log = <<>>
      /\ Work.fat = disk.fat /\ Work.data = disk.data
  BY TidyWork
<1>2. IsDisk(disk) /\ Links(disk.fat)
  BY HealthyIs DEF TidyInv, FatInv
<1> DEFINE dir == Parent(Work, p)
           n == Last(p)
<1> SUFFICES ASSUME IsHead(Work.fat, dir)
             PROVE  NoName(Work, Rd(Work, dir), n)
  BY DEF Lacks
<1>3. dir # 0
  BY EntriesAre DEF IsHead
<1>4. Parent(disk, p) = dir
  <2>1. Spares(GuardOf(Work, p), disk.fat, disk.data)
    BY <1>1 DEF Spares, SameRow, GuardOf
  <2> QED
    BY <1>1, <1>2, <1>3, <2>1, ParentStays
<1> HIDE DEF dir, n
<1> DEFINE r == Readable(Chain(disk, dir))
           S == {pl \in PlacesOf(r) :
                   LET row == RowAt(disk, pl) IN row.kind = "entry" /\ row.name = n}
<1>5. r = Rd(Work, dir) /\ PlacesOf(r) \subseteq Places
  <2>1. IsHead(disk.fat, dir)
    BY <1>1
  <2>2. Chain(disk, dir) = ChainIn(disk.fat, dir)
    BY <1>2, <2>1, ReadableChain
  <2>3. \A pl \in PlacesOf(r) : pl \in Places
    BY <1>2, <2>1, ReadableChain
  <2> QED
    BY <1>1, <2>2, <2>3 DEF Rd
<1>6. Copies(p) = Cardinality(S)
  BY <1>4 DEF Copies, n
<1>7. IsFiniteSet(S)
  <2>1. IsFiniteSet(2..LastCluster) /\ IsFiniteSet(1..Rows)
    <3>1. 1 \in Int /\ 2 \in Int /\ LastCluster \in Int /\ Rows \in Int
      BY EntriesAre
    <3>2. \A a, b \in Int : IsFiniteSet(a..b)
      BY FS_Interval
    <3> QED
      BY ONLY <3>1, <3>2
  <2>2. IsFiniteSet(Places)
    BY <2>1, FS_Product DEF Places
  <2>3. S \subseteq Places
    BY <1>5
  <2> QED
    BY <2>2, <2>3, FS_Subset
<1> HIDE DEF r, S
<1>8. S = {}
  BY <1>6, <1>7, FS_CardinalityType, FS_EmptySet
<1> QED
  BY <1>1, <1>5, <1>8 DEF NoName, S, RowAt

\* The disk after mkfs is tidy.
LEMMA TidyInit == ASSUME Init PROVE TidyInv
<1>1. FatInv
  BY FatInit
<1>2. IsDisk(disk) /\ Links(disk.fat)
  BY <1>1, HealthyIs DEF FatInv
<1>3. disk.data = [c \in 2..LastCluster |-> Blank]
  BY DEF Init
<1>4. ASSUME NEW h, IsHead(disk.fat, h)
      PROVE  Tidy(disk, Rd(disk, h))
  <2> DEFINE r == Rd(disk, h)
  <2>1. r = Readable(Chain(disk, h)) /\ r \in Seq(2..LastCluster) /\ \A pl \in PlacesOf(r) : pl \in Places
    <3>1. Chain(disk, h) = ChainIn(disk.fat, h)
      BY <1>2, <1>4, ReadableChain
    <3> QED
      BY <1>2, <1>4, <3>1, ReadableChain DEF Rd
  <2> HIDE DEF r
  <2>2. \A pl \in PlacesOf(r) : RowAt(disk, pl) = Zero
    BY <1>3, <2>1 DEF RowAt, Places, Blank
  <2>3. Plain(disk, r)
    BY <2>2 DEF Plain, Zero
  <2> QED
    BY <2>1, <2>3, TidyPlain DEF r
<1> QED
  BY <1>1, <1>4 DEF TidyInv, TidyDisk

\* Every call keeps the disk tidy.
LEMMA TidyCall == ASSUME MaxCopies = 1, TidyInv, NEW x \in Calls, Call(x) PROVE TidyInv'
<1> DEFINE p == Name83(x.path)
           g == Result(Work, x)
<1>1. /\ Good(Work) /\ Healthy(Work) /\ Work.log = <<>> /\ Work.ok /\ TidyDisk(Work)
  BY TidyWork
<1>2. FatInv'
  BY FatCall DEF TidyInv
<1>3. p \in Seq(ShortNames) /\ p # <<>>
  BY NamesAre DEF Calls
<1>4. x.call = "create" /\ ResolvePath(Work, p) = 0 => Lacks(Work, Parent(Work, p), Last(p))
  BY <1>3, NoCopies DEF Call
<1>5. Good(g) /\ Healthy(g)
  BY <1>1, ResultIs
<1>6. TidyDisk(g)
  <2> HIDE DEF p
  <2>1. p = Name83(x.path)
    BY DEF p
  <2> QED
    BY <1>1, <1>4, <2>1, ResultOutcome DEF Outcome
<1>7. disk' = Left(g)
  BY DEF Call
<1> HIDE DEF g
<1>8. Links(g.fat) /\ AllSame(g, Left(g))
  BY <1>5, HealthyIs, LeftUsed, UsedSame
<1>9. TidyDisk(Left(g))
  BY <1>5, <1>6, <1>8, SameLess, AllLessTidy
<1> QED
  BY <1>2, <1>7, <1>9 DEF TidyInv

\* Reading the FAT, which only fat_cache shows, keeps the disk tidy.
LEMMA TidyLoad == ASSUME TidyInv, Load PROVE TidyInv'
<1>1. FatInv'
  BY FatLoad DEF TidyInv
<1>2. disk'.fat = disk.fat /\ disk'.data = disk.data
  BY DEF TidyInv, FatInv, Load, Disks
<1>3. TidyDisk(disk')
  BY <1>2, TidySame DEF TidyInv
<1> QED
  BY <1>1, <1>3 DEF TidyInv

(***************************************************************************)
(* While fat32_create is not called for the name of an empty file, no      *)
(* directory has two entries of a name, nor an entry behind a row that was *)
(* never used, where find_entry stops.                                     *)
(***************************************************************************)
THEOREM TidyInvHolds == ASSUME MaxCopies = 1 PROVE Spec => []TidyInv
<1>1. Init => TidyInv
  BY TidyInit
<1>2. TidyInv /\ [Next]_disk => TidyInv'
  <2>1. CASE UNCHANGED disk
    BY <2>1 DEF TidyInv, FatInv
  <2> QED
    BY <2>1, TidyCall, TidyLoad DEF Next
<1> QED
  BY <1>1, <1>2, PTL DEF Spec

\* What begins the chain of a directory.
LEMMA DirHead ==
  ASSUME FatInv, NEW p \in Present \cup {<<>>}
  PROVE  \E h \in Entries \cup {0} : HeadOrNone(disk.fat, h) /\ ChainOf(p) = Chain(disk, h)
<1>1. Healthy(disk)
  BY DEF FatInv
<1>2. CASE p = <<>>
  <2>1. ChainOf(p) = Chain(disk, Root) /\ Root \in Entries
    BY <1>2, EntriesAre DEF ChainOf
  <2>2. HeadOrNone(disk.fat, Root)
    BY <1>1, HealthyIs, RootIsHead DEF HeadOrNone
  <2> QED
    BY <2>1, <2>2
<1>3. CASE p # <<>>
  <2>1. p \in Seq(ShortNames) /\ Found(disk, p)
    BY <1>3, NamesAre DEF Present, Known
  <2>2. /\ ResolvePath(disk, p) = Into(disk, Parent(disk, p), Last(p))
        /\ ResolvePath(disk, p) \in Entries \cup {0} /\ HeadOrNone(disk.fat, ResolvePath(disk, p))
    BY <1>1, <1>3, <2>1, ParentIs
  <2>3. EntryAt(disk, p).first = ResolvePath(disk, p)
    BY <2>1, <2>2 DEF EntryAt, EntryOf, Found, Into, FirstCluster
  <2> QED
    BY <1>3, <2>2, <2>3 DEF ChainOf
<1> QED
  BY <1>2, <1>3

(***************************************************************************)
(* Every entry that is in a directory is found by its name, in directories *)
(* of every length, while fat32_create is not called for an empty file.    *)
(***************************************************************************)
THEOREM EveryEntryIsFound == ASSUME MaxCopies = 1 PROVE Spec => []EntriesAreFound
<1>1. TidyInv => EntriesAreFound
  <2> SUFFICES ASSUME TidyInv, NEW p \in Present \cup {<<>>},
                      NEW pl \in PlacesOf(Readable(ChainOf(p))), RowAt(disk, pl).kind = "entry"
               PROVE  FindIn(disk, Readable(ChainOf(p)), RowAt(disk, pl).name) = pl
    BY DEF EntriesAreFound
  <2>1. FatInv /\ Healthy(disk) /\ IsDisk(disk) /\ Links(disk.fat) /\ TidyDisk(disk)
    BY HealthyIs DEF TidyInv, FatInv
  <2>2. PICK h \in Entries \cup {0} : HeadOrNone(disk.fat, h) /\ ChainOf(p) = Chain(disk, h)
    BY <2>1, DirHead
  <2>3. IsHead(disk.fat, h)
    <3> SUFFICES ASSUME h \notin Entries PROVE FALSE
      BY <2>2 DEF HeadOrNone
    <3>1. Chain(disk, h) = <<>>
      BY <2>1, ChainEmpty
    <3> QED
      BY <2>2, <3>1 DEF Readable, PlacesOf, ToSet
  <2> DEFINE r == Readable(ChainOf(p))
  <2>4. r \in Seq(2..LastCluster) /\ r = Rd(disk, h)
    BY <2>1, <2>2, <2>3, ReadableChain DEF Rd
  <2>5. Tidy(disk, r)
    BY <2>1, <2>3, <2>4 DEF TidyDisk
  <2> HIDE DEF r
  <2>6. pl \in PlacesOf(r)
    BY DEF r
  <2>7. PICK k \in 1..Len(r), i \in 1..Rows : pl = <<r[k], i>>
    BY <2>4, <2>6, PlaceAt
  <2>8. FindIn(disk, r, RowAt(disk, pl).name) = pl
    BY <2>4, <2>5, <2>7, TidyFind
  <2> QED
    BY <2>8 DEF r
<1> QED
  BY <1>1, TidyInvHolds, PTL

-----------------------------------------------------------------------------
(***************************************************************************)
(* The tree that clients see, before a call and after it.                  *)
(***************************************************************************)

\* An entry that is found was there before, unless the call entered it.
LEMMA StepBack ==
  ASSUME NEW d, Good(d), Healthy(d), TidyDisk(d), NEW g, Good(g), Healthy(g),
         NEW dir, NEW m, Old(d, g, dir, m), NEW c, HeadOrNone(g.fat, c), NEW n,
         ~ (c = dir /\ n = m), FindEntry(g, c, n) # <<>>
  PROVE  FindEntry(d, c, n) = FindEntry(g, c, n)
<1> DEFINE pl == FindEntry(g, c, n)
<1>1. IsDisk(d) /\ Links(d.fat) /\ IsDisk(g) /\ Links(g.fat)
  BY HealthyIs
<1>2. EntryPlace(g, c, n, pl)
  BY <1>1, FindEntryIs
<1> HIDE DEF pl
<1>3. IsHead(g.fat, c)
  BY <1>2 DEF EntryPlace
<1>4. pl = FindIn(g, Rd(g, c), n) /\ Rd(g, c) \in Seq(2..LastCluster)
  BY <1>1, <1>3, RdIs DEF pl, FindEntry
<1>5. g.data \in Datas
  BY GoodFields
<1>6. pl \in PlacesOf(Rd(g, c)) /\ IsEntry(g.data, pl) /\ RowIn(g.data, pl).name = n
  BY <1>2, <1>4, <1>5, FindInIs DEF EntryPlace
<1>7. RowAt(g, pl).kind = "entry" /\ RowAt(g, pl).name = n
  BY <1>6 DEF IsEntry, RowIn, RowAt
<1>8. IsHead(d.fat, c) /\ pl \in PlacesOf(Rd(d, c)) /\ RowAt(d, pl) = RowAt(g, pl)
  BY <1>3, <1>6, <1>7 DEF Old, From
<1>9. Rd(d, c) \in Seq(2..LastCluster) /\ FindEntry(d, c, n) = FindIn(d, Rd(d, c), n)
  BY <1>1, <1>8, RdIs DEF FindEntry
<1>10. PICK k \in 1..Len(Rd(d, c)), i \in 1..Rows : pl = <<Rd(d, c)[k], i>>
  BY <1>8, <1>9, PlaceAt
<1>11. Tidy(d, Rd(d, c))
  BY <1>8 DEF TidyDisk
<1>12. FindIn(d, Rd(d, c), RowAt(d, pl).name) = pl
  BY <1>7, <1>8, <1>9, <1>10, <1>11, TidyFind
<1> QED
  BY <1>7, <1>8, <1>9, <1>12 DEF pl

\* A path that is found in d is found in e at the same place.
LEMMA FoundFront ==
  ASSUME NEW d, Healthy(d), NEW T, NEW q \in Seq(T), q # <<>>, Found(d, q)
  PROVE  /\ Parent(d, q) # 0 /\ IsHead(d.fat, Parent(d, q))
         /\ Front(q) # <<>> => Found(d, Front(q))
<1>1. HeadOrNone(d.fat, Parent(d, q)) /\ FindEntry(d, Parent(d, q), Last(q)) # <<>>
  BY ParentIs DEF Found, EntryOf
<1>2. IsHead(d.fat, Parent(d, q)) /\ Parent(d, q) # 0
  BY <1>1, HealthyIs, FindEntryIs, EntriesAre DEF EntryPlace, IsHead
<1>3. ASSUME Front(q) # <<>> PROVE Found(d, Front(q))
  <2> DEFINE f == Front(q)
  <2>1. f \in Seq(T)
    BY FrontIs
  <2>2. f # <<>> /\ ResolvePath(d, f) # 0
    BY <1>2, <1>3 DEF Parent
  <2> HIDE DEF f
  <2>3. ResolvePath(d, f) = Into(d, Parent(d, f), Last(f)) /\ HeadOrNone(d.fat, Parent(d, f))
    BY <2>1, <2>2, ParentIs
  <2>4. FindEntry(d, Parent(d, f), Last(f)) # <<>>
    BY <2>2, <2>3, IntoIs
  <2> QED
    BY <2>4 DEF Found, EntryOf, f
<1> QED
  BY <1>2, <1>3

\* What is found beside p after the call on p was found before it.
LEMMA KeptBack ==
  ASSUME NEW d, Good(d), Healthy(d), TidyDisk(d), NEW p \in Seq(ShortNames), p # <<>>,
         NEW g, Good(g), Healthy(g), Outcome(d, g, p), Spares(GuardOf(d, p), g.fat, g.data)
  PROVE  \A q \in Seq(ShortNames) : q # <<>> /\ ~ Starts(p, q) /\ Found(g, q) => Found(d, q)
<1> DEFINE Q == {q \in Seq(ShortNames) : q # <<>> /\ ~ Starts(p, q) /\ Found(g, q)}
           Holds0(m) == \A q \in Q : Len(q) = m => Found(d, q)
           I == {m \in Nat : Holds0(m)}
<1>1. IsDisk(d) /\ IsDisk(g)
  BY HealthyIs
<1>2. ASSUME NEW q \in Q, Parent(g, q) = Parent(d, q)
      PROVE  Found(d, q)
  <2> DEFINE c == Parent(g, q)
  <2>1. q \in Seq(ShortNames) /\ q # <<>> /\ ~ Starts(p, q) /\ Found(g, q)
    OBVIOUS
  <2> HIDE DEF Q
  <2>2. c # 0 /\ HeadOrNone(g.fat, c) /\ FindEntry(g, c, Last(q)) # <<>>
    BY <2>1, FoundFront DEF Found, EntryOf, HeadOrNone
  <2>3. ~ (c = Parent(d, p) /\ Last(q) = Last(p))
    <3> SUFFICES ASSUME c = Parent(d, p), Last(q) = Last(p) PROVE FALSE
      OBVIOUS
    <3>1. ResolvePath(d, Front(q)) = ResolvePath(d, Front(p)) /\ ResolvePath(d, Front(q)) # 0
      BY <1>2, <2>2 DEF Parent
    <3>2. Front(q) \in Seq(ShortNames) /\ Front(p) \in Seq(ShortNames)
      BY <2>1, StartsIs
    <3>3. Front(q) = Front(p)
      BY <3>1, <3>2, PathOnce
    <3>4. p = q
      BY <2>1, <3>3, SameFront
    <3> QED
      BY <2>1, <3>4, StartsIs
  <2> HIDE DEF c
  <2>4. FindEntry(d, c, Last(q)) = FindEntry(g, c, Last(q))
    BY <2>2, <2>3, StepBack DEF Outcome
  <2> QED
    BY <1>2, <2>2, <2>4 DEF Found, EntryOf, c
<1>3. Holds0(0)
  BY DEF Q
<1>4. ASSUME NEW m \in Nat, Holds0(m)
      PROVE  Holds0(m + 1)
  <2> SUFFICES ASSUME NEW q \in Q, Len(q) = m + 1
               PROVE  Parent(g, q) = Parent(d, q)
    BY <1>2
  <2> DEFINE f == Front(q)
  <2>0. q \in Seq(ShortNames) /\ q # <<>> /\ ~ Starts(p, q) /\ Found(g, q)
    OBVIOUS
  <2>1. f \in Seq(ShortNames) /\ Len(f) = m
    <3> HIDE DEF Q
    <3> QED
      BY <2>0, FrontIs, SMTT(30)
  <2>2. Parent(g, q) = ResolvePath(g, f) /\ Parent(d, q) = ResolvePath(d, f)
    BY DEF Parent
  <2>3. CASE f = <<>>
    <3>1. ResolvePath(g, <<>>) = Root /\ ResolvePath(d, <<>>) = Root
      BY <1>1, <2>1, <2>3, ResolveStep
    <3> QED
      BY <2>2, <2>3, <3>1
  <2>4. CASE f # <<>>
    <3>1. ~ Starts(p, f)
      BY <2>0, StartsIs
    <3>2. Found(g, f)
      BY <2>0, <2>4, FoundFront
    <3>3. f \in Q
      BY <2>1, <2>4, <3>1, <3>2
    <3>4. Found(d, f)
      BY <1>4, <2>1, <3>3
    <3> HIDE DEF f
    <3>5. SameEntry(d, g, f)
      BY <1>1, <2>1, <2>4, <3>1, <3>4, PathKept
    <3> QED
      BY <2>2, <3>5 DEF SameEntry
  <2> QED
    BY <2>3, <2>4
<1> HIDE DEF Holds0, Q
<1>5. \A m \in Nat : m \in I
  <2>1. 0 \in I /\ \A m \in Nat : m \in I => m + 1 \in I
    BY <1>3, <1>4
  <2> HIDE DEF I
  <2> QED
    BY <2>1, NatInd
<1>6. \A q \in Q : Len(q) \in Nat
  BY DEF Q
<1>7. \A q \in Q : Found(d, q)
  BY <1>5, <1>6 DEF Holds0
<1> QED
  BY <1>7 DEF Q

\* What is found at the place c, which is no directory, is nothing.
LEMMA NothingThere ==
  ASSUME NEW d, IsDisk(d), Links(d.fat), NEW c, c \notin Entries, NEW n
  PROVE  FindEntry(d, c, n) = <<>>
<1>1. HeadOrNone(d.fat, c)
  BY DEF HeadOrNone
<1> QED
  BY <1>1, FindEntryIs DEF EntryPlace, IsHead

\* With the same clusters in use, and the same in them, a scan finds the same.
LEMMA ScanSame ==
  ASSUME NEW d, Healthy(d), NEW e, IsDisk(e), SameUsed(d, e), NEW c, HeadOrNone(d.fat, c), NEW n
  PROVE  /\ FindEntry(e, c, n) = FindEntry(d, c, n) /\ Into(e, c, n) = Into(d, c, n)
         /\ FindEntry(d, c, n) # <<>> => RowAt(e, FindEntry(d, c, n)) = RowAt(d, FindEntry(d, c, n))
<1>1. IsDisk(d) /\ Links(d.fat) /\ e.fat = d.fat /\ Links(e.fat)
  BY HealthyIs DEF SameUsed
<1>2. FindEntry(e, c, n) = FindEntry(d, c, n)
  <2>1. CASE c \notin Entries
    BY <1>1, <2>1, NothingThere
  <2>2. CASE c \in Entries
    <3>1. IsHead(d.fat, c) /\ IsHead(e.fat, c)
      BY <1>1, <2>2 DEF HeadOrNone
    <3> DEFINE r == Readable(Chain(d, c))
    <3>2. r = Readable(Chain(e, c)) /\ r \in Seq(2..LastCluster) /\ PlacesOf(r) \subseteq Used(d.fat)
      <4>1. Chain(d, c) = ChainIn(d.fat, c) /\ Chain(e, c) = ChainIn(e.fat, c)
        BY <1>1, <3>1, ReadableChain
      <4> QED
        BY <1>1, <3>1, <4>1, ReadableChain
    <3> HIDE DEF r
    <3>3. \A pl \in PlacesOf(r) : RowAt(e, pl) = RowAt(d, pl)
      BY <3>2 DEF SameUsed
    <3>4. FindIn(e, r, n) = FindIn(d, r, n)
      BY <3>2, <3>3, FindInSame
    <3> QED
      BY <3>2, <3>4 DEF FindEntry, r
  <2> QED
    BY <2>1, <2>2
<1>3. FindEntry(d, c, n) # <<>> => RowAt(e, FindEntry(d, c, n)) = RowAt(d, FindEntry(d, c, n))
  BY <1>1, FindEntryIs DEF EntryPlace, SameUsed
<1> QED
  BY <1>2, <1>3 DEF Into, FirstCluster

\* On disks that agree in the clusters in use a path leads to the same place.
LEMMA WaySame ==
  ASSUME NEW d, Healthy(d), NEW e, IsDisk(e), SameUsed(d, e), NEW T
  PROVE  \A q \in Seq(T) : ResolvePath(e, q) = ResolvePath(d, q)
<1> DEFINE Holds0(m) == \A q \in Seq(T) : Len(q) = m => ResolvePath(e, q) = ResolvePath(d, q)
           I == {m \in Nat : Holds0(m)}
<1>1. IsDisk(d)
  BY HealthyIs
<1>2. Holds0(0)
  <2>1. \A q \in Seq(T) : Len(q) = 0 => q = <<>>
    OBVIOUS
  <2> QED
    BY <1>1, <2>1, ResolveStep
<1>3. ASSUME NEW m \in Nat, Holds0(m) PROVE Holds0(m + 1)
  <2> SUFFICES ASSUME NEW q \in Seq(T), Len(q) = m + 1
               PROVE  ResolvePath(e, q) = ResolvePath(d, q)
    OBVIOUS
  <2>1. q # <<>>
    OBVIOUS
  <2>2. Front(q) \in Seq(T) /\ Len(Front(q)) = m
    BY <2>1, FrontIs
  <2>3. ResolvePath(e, Front(q)) = ResolvePath(d, Front(q))
    BY <1>3, <2>2
  <2>4. /\ ResolvePath(e, q) = Into(e, ResolvePath(e, Front(q)), Last(q))
        /\ ResolvePath(d, q) = Into(d, ResolvePath(d, Front(q)), Last(q))
    BY <1>1, <2>1, ResolveStep
  <2>5. HeadOrNone(d.fat, ResolvePath(d, Front(q)))
    BY <2>1, ParentIs DEF Parent
  <2> HIDE DEF Holds0
  <2>6. Into(e, ResolvePath(d, Front(q)), Last(q)) = Into(d, ResolvePath(d, Front(q)), Last(q))
    BY <2>5, ScanSame
  <2> QED
    BY <2>3, <2>4, <2>6
<1> HIDE DEF Holds0
<1>4. \A m \in Nat : m \in I
  <2>1. 0 \in I /\ \A m \in Nat : m \in I => m + 1 \in I
    BY <1>2, <1>3
  <2> HIDE DEF I
  <2> QED
    BY <2>1, NatInd
<1>5. \A q \in Seq(T) : Len(q) \in Nat
  OBVIOUS
<1> QED
  BY <1>4, <1>5 DEF Holds0

\* What clients see of q.
SameSeen(d, e, q) == (Found(e, q) <=> Found(d, q)) /\ (Found(d, q) => Content(e, q) = Content(d, q))

\* Disks that agree in the clusters in use have the same files, with the same contents.
LEMMA TreeSame ==
  ASSUME NEW d, Healthy(d), NEW e, IsDisk(e), SameUsed(d, e), NEW T, NEW q \in Seq(T), q # <<>>
  PROVE  SameSeen(d, e, q) /\ Parent(e, q) = Parent(d, q) /\ ResolvePath(e, q) = ResolvePath(d, q)
<1>1. ResolvePath(e, q) = ResolvePath(d, q) /\ Parent(e, q) = Parent(d, q)
  <2>1. Front(q) \in Seq(T)
    BY FrontIs
  <2> QED
    BY <2>1, WaySame DEF Parent
<1>2. HeadOrNone(d.fat, Parent(d, q))
  BY ParentIs
<1>3. EntryOf(e, q) = EntryOf(d, q)
  BY <1>1, <1>2, ScanSame DEF EntryOf
<1>4. ASSUME Found(d, q) PROVE Content(e, q) = Content(d, q)
  <2> DEFINE row == EntryAt(d, q)
             c   == ResolvePath(d, q)
  <2>1. FindEntry(d, Parent(d, q), Last(q)) # <<>>
    BY <1>4 DEF Found, EntryOf
  <2>2. EntryAt(e, q) = row
    BY <1>1, <1>2, <1>3, <2>1, ScanSame DEF EntryAt, EntryOf
  <2>3. row.first = c /\ row.size \in Nat
    <3>1. c = Into(d, Parent(d, q), Last(q)) /\ row = RowIn(d.data, FindEntry(d, Parent(d, q), Last(q)))
      BY ParentIs DEF EntryOf, EntryAt, RowAt, RowIn
    <3>2. EntryPlace(d, Parent(d, q), Last(q), FindEntry(d, Parent(d, q), Last(q))) /\ c = row.first
      BY <1>2, <2>1, <3>1, IntoIs
    <3> QED
      BY <3>1, <3>2, HealthyIs, RowInIs DEF EntryPlace
  <2>4. HeadOrNone(d.fat, c)
    BY ParentIs
  <2> HIDE DEF row, c
  <2>5. TextIn(e, Readable(Chain(e, c)), row.size) = TextIn(d, Readable(Chain(d, c)), row.size)
    <3>1. CASE c \notin Entries
      BY <2>3, <3>1, TextNone
    <3>2. CASE c \in Entries
      <4>1. IsHead(d.fat, c) /\ e.fat = d.fat /\ IsDisk(d) /\ Links(d.fat)
        BY <2>4, <3>2, HealthyIs DEF HeadOrNone, SameUsed
      <4>2. Chain(d, c) = ChainIn(d.fat, c) /\ Chain(e, c) = ChainIn(d.fat, c)
        BY <4>1, ReadableChain
      <4>3. Readable(Chain(d, c)) \in Seq(2..LastCluster) /\ PlacesOf(Readable(Chain(d, c))) \subseteq Used(d.fat)
        BY <4>1, ReadableChain
      <4>4. \A pl \in PlacesOf(Readable(Chain(d, c))) : RowAt(e, pl) = RowAt(d, pl)
        BY <4>3 DEF SameUsed
      <4> QED
        BY <2>3, <4>2, <4>3, <4>4, TextSame
    <3> QED
      BY <3>1, <3>2
  <2>6. WholeText(e, q) = WholeText(d, q)
    BY <2>2, <2>3, <2>5 DEF WholeText, row
  <2> QED
    BY <2>2, <2>6 DEF Content, row
<1> QED
  BY <1>1, <1>3, <1>4 DEF SameSeen, Found

\* Nothing has an entry in what p leads to.
Barren(d, p) == \A n : FindEntry(d, ResolvePath(d, p), n) = <<>>

\* Nothing is found below a path that is not there, is a file of no cluster, or has no entries.
LEMMA BarrenIs ==
  ASSUME NEW d, Good(d), Healthy(d), NEW T, NEW p \in Seq(T), p # <<>>,
         \/ ~ Found(d, p) \/ ResolvePath(d, p) \notin Entries
         \/ Plain(d, Rd(d, ResolvePath(d, p)))
  PROVE  Barren(d, p)
<1> DEFINE c == ResolvePath(d, p)
<1>1. IsDisk(d) /\ Links(d.fat) /\ HeadOrNone(d.fat, c) /\ 0 \notin Entries
  BY HealthyIs, ParentIs, EntriesAre
<1>2. ~ Found(d, p) => c \notin Entries
  <2> SUFFICES ASSUME ~ Found(d, p) PROVE c = 0
    BY <1>1
  <2>1. c = Into(d, Parent(d, p), Last(p)) /\ HeadOrNone(d.fat, Parent(d, p))
    BY ParentIs
  <2>2. FindEntry(d, Parent(d, p), Last(p)) = <<>>
    BY DEF Found, EntryOf
  <2> QED
    BY <2>1, <2>2, IntoIs
<1> SUFFICES ASSUME NEW n PROVE FindEntry(d, c, n) = <<>>
  BY DEF Barren
<1>3. CASE c \notin Entries
  BY <1>1, <1>3, NothingThere
<1>4. CASE c \in Entries
  <2>1. IsHead(d.fat, c) /\ Plain(d, Rd(d, c))
    BY <1>1, <1>2, <1>4 DEF HeadOrNone
  <2> HIDE DEF c
  <2>2. Rd(d, c) = Readable(Chain(d, c)) /\ Rd(d, c) \in Seq(2..LastCluster)
    BY <1>1, <2>1, RdIs
  <2>3. NoName(d, Rd(d, c), n)
    BY <2>1, <2>2, TidyPlain
  <2> QED
    BY <2>2, <2>3, NoFind DEF FindEntry
<1> QED
  BY <1>3, <1>4

\* Then nothing below p is found.
LEMMA NothingBelow ==
  ASSUME NEW d, Healthy(d), NEW T, NEW p \in Seq(T), p # <<>>, Barren(d, p)
  PROVE  \A q \in Seq(T) : Starts(p, q) /\ q # p => ~ Found(d, q)
<1> DEFINE Holds0(m) == \A q \in Seq(T) : Len(q) = m /\ Starts(p, q) /\ q # p => ~ Found(d, q)
           I == {m \in Nat : Holds0(m)}
<1>1. ASSUME NEW q \in Seq(T), Starts(p, q), q # p
      PROVE  q # <<>> /\ Front(q) \in Seq(T) /\ Len(Front(q)) = Len(q) - 1 /\ Starts(p, Front(q)) /\ Front(q) # <<>>
  <2>1. Len(p) \in Nat /\ Len(q) \in Nat /\ Len(p) <= Len(q) /\ \A n \in 1..Len(p) : p[n] = q[n]
    BY <1>1 DEF Starts
  <2>2. Len(p) # Len(q)
    BY <1>1, <2>1, SeqEqual
  <2>3. Len(p) # 0
    OBVIOUS
  <2>4. q # <<>>
    BY <2>1, <2>2
  <2>5. Front(q) \in Seq(T) /\ Len(Front(q)) = Len(q) - 1 /\ \A n \in 1..(Len(q) - 1) : Front(q)[n] = q[n]
    BY <2>4, FrontIs
  <2>6. Starts(p, Front(q))
    BY <2>1, <2>2, <2>5 DEF Starts
  <2> QED
    BY <2>1, <2>2, <2>3, <2>4, <2>5, <2>6
<1>2. Holds0(0)
  <2>1. \A q \in Seq(T) : Len(q) = 0 => q = <<>>
    OBVIOUS
  <2> QED
    BY <1>1, <2>1
<1>3. ASSUME NEW m \in Nat, Holds0(m) PROVE Holds0(m + 1)
  <2> SUFFICES ASSUME NEW q \in Seq(T), Len(q) = m + 1, Starts(p, q), q # p, Found(d, q)
               PROVE  FALSE
    OBVIOUS
  <2>1. q # <<>> /\ Front(q) \in Seq(T) /\ Len(Front(q)) = m /\ Starts(p, Front(q)) /\ Front(q) # <<>>
    BY <1>1
  <2>2. Found(d, Front(q))
    BY <2>1, FoundFront
  <2>3. Front(q) = p
    BY <1>3, <2>1, <2>2
  <2>4. FindEntry(d, ResolvePath(d, p), Last(q)) # <<>>
    BY <2>3 DEF Found, EntryOf, Parent
  <2> QED
    BY <2>4 DEF Barren
<1> HIDE DEF Holds0
<1>4. \A m \in Nat : m \in I
  <2>1. 0 \in I /\ \A m \in Nat : m \in I => m + 1 \in I
    BY <1>2, <1>3
  <2> HIDE DEF I
  <2> QED
    BY <2>1, NatInd
<1>5. \A q \in Seq(T) : Len(q) \in Nat
  OBVIOUS
<1> QED
  BY <1>4, <1>5 DEF Holds0

\* A directory without an entry of a name finds none.
LEMMA LacksNone ==
  ASSUME NEW g, Good(g), Healthy(g), NEW c, HeadOrNone(g.fat, c), NEW n, Lacks(g, c, n)
  PROVE  FindEntry(g, c, n) = <<>>
<1>1. IsDisk(g) /\ Links(g.fat)
  BY HealthyIs
<1>2. CASE c \notin Entries
  BY <1>1, <1>2, NothingThere
<1>3. CASE c \in Entries
  <2>1. IsHead(g.fat, c)
    BY <1>3 DEF HeadOrNone
  <2>2. Rd(g, c) = Readable(Chain(g, c)) /\ Rd(g, c) \in Seq(2..LastCluster)
    BY <1>1, <2>1, RdIs
  <2>3. NoName(g, Rd(g, c), n)
    BY <2>1 DEF Lacks
  <2> QED
    BY <2>2, <2>3, NoFind DEF FindEntry
<1> QED
  BY <1>2, <1>3

\* A file of size 0 has no text.
LEMMA TextZero == ASSUME NEW d, NEW r \in Seq(2..LastCluster) PROVE TextIn(d, r, 0) = <<>>
<1>1. Rows * Len(r) \in Nat
  BY EntriesAre, RowsTimes
<1> DEFINE y == Rows * Len(r)
<1> HIDE DEF y
<1>2. Min({0, y}) = 0
  BY <1>1, MinTwo DEF y
<1>3. Min({0, Rows * Len(r)}) = 0
  BY <1>2 DEF y
<1>4. TextIn(d, r, 0) = [k \in 1..0 |-> d.data[r[(k - 1) \div Rows + 1]][((k - 1) % Rows) + 1]]
  BY <1>3, Zenon DEF TextIn
<1> QED
  BY <1>4

\* An entry of size 0 has no text; that of a directory has size 0.
LEMMA NoText ==
  ASSUME NEW d, Healthy(d), NEW q, EntryAt(d, q).size = 0
  PROVE  WholeText(d, q) = <<>>
<1>1. Readable(Chain(d, EntryAt(d, q).first)) \in Seq(2..LastCluster)
  BY ChainType
<1> QED
  BY <1>1, TextZero DEF WholeText

\* What clients read of a directory is empty.
LEMMA DirNoText ==
  ASSUME NEW d, Healthy(d), NEW T, NEW q \in Seq(T), q # <<>>, Found(d, q), EntryAt(d, q).dir
  PROVE  WholeText(d, q) = <<>>
<1> DEFINE pl == FindEntry(d, Parent(d, q), Last(q))
<1>1. HeadOrNone(d.fat, Parent(d, q)) /\ pl # <<>> /\ EntryAt(d, q) = RowIn(d.data, pl)
  BY ParentIs DEF Found, EntryOf, EntryAt, RowAt, RowIn
<1>2. EntryPlace(d, Parent(d, q), Last(q), pl)
  BY <1>1, HealthyIs, FindEntryIs
<1> HIDE DEF pl
<1>3. pl \in Places /\ IsEntry(d.data, pl) /\ d.data \in Datas
  BY <1>2, HealthyIs DEF EntryPlace
<1>4. RowIn(d.data, pl) \in EntryRows
  BY <1>3, RowInIs, RowKinds DEF IsEntry
<1>5. EntryAt(d, q).size = 0
  BY <1>1, <1>4 DEF EntryRows
<1> QED
  BY <1>5, NoText

\* A call on p concerns p, what is below it, and the rows of what it goes through.
Concern(d, g, p) ==
  \A q \in Seq(ShortNames) : q # <<>> /\ ~ Starts(p, q) =>
    /\ Found(g, q) <=> Found(d, q)
    /\ Found(d, q) /\ (~ Starts(q, p) \/ EntryAt(d, q).dir) => Content(g, q) = Content(d, q)

\* A call on p that leaves alone what GuardOf names keeps every other file and its contents.
LEMMA ConcernIs ==
  ASSUME NEW d, Good(d), Healthy(d), TidyDisk(d), NEW p \in Seq(ShortNames), p # <<>>,
         NEW g, Good(g), Healthy(g), Outcome(d, g, p), Spares(GuardOf(d, p), g.fat, g.data)
  PROVE  Concern(d, g, p)
<1> SUFFICES ASSUME NEW q \in Seq(ShortNames), q # <<>>, ~ Starts(p, q)
             PROVE  /\ Found(g, q) <=> Found(d, q)
                    /\ Found(d, q) /\ (~ Starts(q, p) \/ EntryAt(d, q).dir) => Content(g, q) = Content(d, q)
  BY DEF Concern
<1>1. IsDisk(g)
  BY HealthyIs
<1>2. Found(g, q) => Found(d, q)
  BY KeptBack
<1>3. ASSUME Found(d, q)
      PROVE  Found(g, q) /\ EntryAt(g, q) = EntryAt(d, q)
  <2>1. SameEntry(d, g, q)
    BY <1>1, <1>3, PathKept
  <2> QED
    BY <1>3, <2>1 DEF SameEntry, Found, EntryAt
<1>4. ASSUME Found(d, q), ~ Starts(q, p)
      PROVE  Content(g, q) = Content(d, q)
  BY <1>1, <1>4, ContentKept
<1>5. ASSUME Found(d, q), EntryAt(d, q).dir
      PROVE  Content(g, q) = Content(d, q)
  <2>1. WholeText(d, q) = <<>> /\ WholeText(g, q) = <<>>
    BY <1>3, <1>5, DirNoText
  <2> QED
    BY <1>3, <1>5, <2>1 DEF Content
<1> QED
  BY <1>2, <1>3, <1>4, <1>5

\* A call that fails at once.
LEMMA FailsSeen ==
  ASSUME NEW d, Good(d), Healthy(d), NEW p \in Seq(ShortNames), p # <<>>, NEW g, g = Fails(d),
         Parent(d, p) = 0 \/ ~ Found(d, p)
  PROVE  ~ Found(g, p) /\ Good(g) /\ Healthy(g)
<1>1. Good(g) /\ Healthy(g) /\ IsDisk(g)
  BY FailsHealthy, HealthyIs
<1>2. SameUsed(d, g)
  BY FailsIs DEF SameUsed, RowAt
<1>3. ~ Found(d, p)
  BY FoundFront
<1> QED
  BY <1>1, <1>2, <1>3, TreeSame DEF SameSeen

\* When p's directory lacks p's name after a call, p is not found.
LEMMA LacksSeen ==
  ASSUME NEW d, Good(d), Healthy(d), d.log = <<>>, NEW p \in Seq(ShortNames), p # <<>>,
         Parent(d, p) # 0, NEW g, Good(g), Healthy(g), Spares(GuardOf(d, p), g.fat, g.data),
         Lacks(g, Parent(d, p), Last(p))
  PROVE  ~ Found(g, p)
<1>1. Parent(g, p) = Parent(d, p)
  BY HealthyIs, ParentStays
<1>2. HeadOrNone(g.fat, Parent(g, p))
  BY ParentIs
<1>3. FindEntry(g, Parent(g, p), Last(p)) = <<>>
  BY <1>1, <1>2, LacksNone
<1> QED
  BY <1>3 DEF Found, EntryOf

\* Neither delete nor delete_recursive leaves p to be found.
LEMMA DeleteSeen ==
  ASSUME NEW d, Good(d), Healthy(d), d.log = <<>>, TidyDisk(d), NEW p \in Seq(ShortNames), p # <<>>
  PROVE  ~ Found(DeleteFile(d, p), p) /\ ~ Found(DeleteRecursive(d, p), p)
<1>1. GuardPath(GuardOf(d, p), d, p)
  BY GuardOfIs
<1> DEFINE g == DeleteFile(d, p)
           e == DeleteRecursive(d, p)
<1>2. Good(g) /\ Healthy(g) /\ Spares(GuardOf(d, p), g.fat, g.data)
  BY <1>1, DeleteFileIs, GuardDeleteFile DEF Guards
<1>3. Good(e) /\ Healthy(e) /\ Spares(GuardOf(d, p), e.fat, e.data)
  BY DeleteRecursiveIs DEF Guards
<1>4. ~ Found(g, p)
  <2>1. /\ Parent(d, p) # 0 /\ Found(d, p) => Lacks(g, Parent(d, p), Last(p))
        /\ Parent(d, p) = 0 \/ ~ Found(d, p) => g = Fails(d)
    BY DeleteOutcome
  <2> HIDE DEF g
  <2> QED
    BY <1>2, <2>1, FailsSeen, LacksSeen
<1>5. ~ Found(e, p)
  <2>1. /\ Parent(d, p) # 0 /\ Found(d, p) => Lacks(e, Parent(d, p), Last(p))
        /\ Parent(d, p) = 0 \/ ~ Found(d, p) => e = Fails(d)
    BY RecursiveOutcome
  <2> HIDE DEF e
  <2> QED
    BY <1>3, <2>1, FailsSeen, LacksSeen
<1> QED
  BY <1>4, <1>5

\* The clusters of a text that was written hold text only.
LEMMA WrittenPlain ==
  ASSUME NEW d, Good(d), Healthy(d), d.log = <<>>, TidyDisk(d), NEW p \in Seq(ShortNames), p # <<>>,
         NEW s \in Seq(PlainRows), s # <<>>, NEW g, g = WriteFile(d, p, s), g.ok
  PROVE  Plain(g, Rd(g, ResolvePath(g, p)))
<1> DEFINE e == Emptied(d, p)
           a == Taken(d, p, s)
           f == Copy(d, p, s)
           entry == NewEntry(d, p, s)
           dir == Parent(d, p)
           h == a.ch[1]
<1>1. Entered(d, p, s, g)
  BY WriteEnters
<1>2. /\ dir # 0 /\ f.ok /\ Filled(e, dir, Last(p), s, a, f) /\ g.ok
      /\ g = DirAddEntry(f, dir, entry) /\ Good(g) /\ Healthy(g) /\ HeadsStay(f, g, dir)
  BY <1>1 DEF Entered
<1>3. Placed(d, p, s, g)
  BY <1>1, IsPlaced
<1>4. Spares(GuardOf(d, p), g.fat, g.data)
  BY GuardOfIs, GuardWrite DEF Guards
<1>5. Parent(g, p) = dir
  BY <1>2, <1>4, HealthyIs, ParentStays
<1>6. entry = TextEntry(Last(p), s, h) /\ entry.first = h
  BY DEF NewEntry, TextEntry
<1>7. ResolvePath(g, p) = h
  <2>1. ResolvePath(g, p) = Into(g, dir, Last(p))
    BY <1>2, <1>5, ParentIs
  <2> QED
    BY <1>3, <1>6, <2>1 DEF Placed, Into, FirstCluster
<1>8. Good(e) /\ Links(e.fat)
  BY EmptiedTidy
<1> HIDE DEF e, a, f, entry, dir, h
<1>9. /\ Good(f) /\ IsHead(f.fat, h) /\ Healthy(f) /\ NamedNowhere(f, h) /\ HeadOrNone(f.fat, dir) /\ h # dir
      /\ entry \in EntryRows /\ NameHead(f.fat, entry)
  BY <1>2, <1>6 DEF Filled, h
<1>10. Links(f.fat) /\ Plain(f, Rd(f, h))
  BY <1>2, <1>8, FilledSame DEF h
<1>11. Stays(f, g, dir)
  <2>1. /\ Good(f) /\ Healthy(f) /\ f.ok /\ HeadOrNone(f.fat, dir) /\ entry \in EntryRows
        /\ NameHead(f.fat, entry) /\ NamedNowhere(f, entry.first)
        /\ entry.first # 0 => entry.first # dir
    BY <1>2, <1>6, <1>9
  <2>2. g = DirAddEntry(f, dir, entry)
    BY <1>2
  <2>3. /\ \A y : IsHead(g.fat, y) => IsHead(f.fat, y)
        /\ ~ g.ok => AllSame(f, g)
        /\ g.ok => /\ Stays(f, g, dir) /\ IsHead(f.fat, dir) /\ IsHead(g.fat, dir)
                   /\ \E k, i : Added(f, Rd(f, dir), g, Rd(g, dir), entry, k, i)
    BY ONLY <2>1, <2>2, AddSame
  <2> QED
    BY <2>3
<1>12. IsHead(g.fat, h)
  BY <1>2, <1>9 DEF HeadsStay
<1>13. Same(f, g, h)
  BY <1>9, <1>11, <1>12 DEF Stays
<1>14. Plain(g, Rd(g, h))
  BY <1>9, <1>10, <1>13, SameLess, LessTidy
<1> QED
  BY <1>7, <1>14

\* What clients find where they wrote.
LEMMA WriteSeen ==
  ASSUME NEW d, Good(d), Healthy(d), d.log = <<>>, TidyDisk(d), NEW p \in Seq(ShortNames), p # <<>>,
         NEW s \in Seq(PlainRows), NEW g, g = WriteFile(d, p, s)
  PROVE  /\ Found(g, p) => s # <<>> /\ Content(g, p) = [dir |-> FALSE, text |-> s]
         /\ Barren(g, p)
<1>1. Good(g) /\ Healthy(g)
  BY WriteFileIs
<1>2. Spares(GuardOf(d, p), g.fat, g.data)
  BY GuardOfIs, GuardWrite DEF Guards
<1>3. CASE Parent(d, p) = 0
  <2>1. g = Fails(d)
    BY <1>3 DEF WriteFile, WriteIn
  <2>2. ~ Found(g, p)
    BY <1>3, <2>1, FailsSeen
  <2> QED
    BY <1>1, <2>2, BarrenIs
<1>4. CASE Parent(d, p) # 0 /\ (~ g.ok \/ s = <<>>)
  <2>1. Lacks(g, Parent(d, p), Last(p))
    BY <1>4, WriteOutcome
  <2>2. ~ Found(g, p)
    BY <1>1, <1>2, <1>4, <2>1, LacksSeen
  <2> QED
    BY <1>1, <2>2, BarrenIs
<1>5. CASE g.ok /\ s # <<>>
  <2>1. Content(g, p) = [dir |-> FALSE, text |-> s]
    BY <1>5, WrittenIs
  <2>2. Plain(g, Rd(g, ResolvePath(g, p)))
    BY <1>5, WrittenPlain
  <2> QED
    BY <1>1, <1>5, <2>1, <2>2, BarrenIs
<1> QED
  BY <1>3, <1>4, <1>5

\* What clients find that they made.
LEMMA CreateSeen ==
  ASSUME NEW d, Good(d), Healthy(d), d.log = <<>>, d.ok, TidyDisk(d), NEW p \in Seq(ShortNames), p # <<>>,
         NEW isdir \in BOOLEAN, Lacks(d, Parent(d, p), Last(p)), NEW g, g = CreateEntry(d, p, isdir)
  PROVE  /\ ~ Found(d, p)
         /\ Found(g, p) => Content(g, p) = [dir |-> isdir, text |-> <<>>]
         /\ Barren(g, p)
<1>1. Good(g) /\ Healthy(g) /\ IsDisk(g) /\ Links(g.fat)
  BY CreateEntryIs, HealthyIs
<1>2. Spares(GuardOf(d, p), g.fat, g.data)
  BY GuardOfIs, GuardCreate DEF Guards
<1>3. ~ Found(d, p)
  <2>1. HeadOrNone(d.fat, Parent(d, p))
    BY ParentIs
  <2> QED
    BY <2>1, LacksNone DEF Found, EntryOf
<1>4. OnlyEmpty(g, Parent(d, p), Last(p), isdir)
  BY CreateOutcome
<1>5. CASE ~ Found(g, p)
  BY <1>1, <1>3, <1>5, BarrenIs
<1>6. CASE Found(g, p)
  <2>1. Parent(d, p) # 0
    <3> SUFFICES ASSUME Parent(d, p) = 0 PROVE FALSE
      OBVIOUS
    <3>1. g = Fails(d)
      BY DEF CreateEntry, CreateIn
    <3> QED
      BY <1>6, <3>1, FailsSeen
  <2>2. Parent(g, p) = Parent(d, p)
    BY <1>1, <1>2, <2>1, ParentStays
  <2> DEFINE c  == Parent(g, p)
             n  == Last(p)
             pl == FindEntry(g, c, n)
  <2>3. IsHead(g.fat, c)
    BY <1>1, <1>6, FoundFront
  <2>4. pl # <<>> /\ EntryAt(g, p) = RowAt(g, pl)
    BY <1>6 DEF Found, EntryOf, EntryAt
  <2>5. ResolvePath(g, p) = EntryAt(g, p).first
    <3>1. ResolvePath(g, p) = Into(g, c, n)
      BY <1>1, ParentIs
    <3> QED
      BY <2>4, <3>1 DEF Into, FirstCluster
  <2> HIDE DEF c, n, pl
  <2>6. pl = FindIn(g, Rd(g, c), n) /\ Rd(g, c) \in Seq(2..LastCluster) /\ g.data \in Datas
    BY <1>1, <2>3, RdIs, GoodFields DEF pl, FindEntry
  <2>7. pl \in PlacesOf(Rd(g, c)) /\ RowAt(g, pl).kind = "entry" /\ RowAt(g, pl).name = n
    BY <2>4, <2>6, FindInIs DEF IsEntry, RowIn, RowAt
  <2>8. /\ RowAt(g, pl).dir = isdir /\ RowAt(g, pl).size = 0
        /\ RowAt(g, pl).first \in Entries => Plain(g, Rd(g, RowAt(g, pl).first))
    BY <1>4, <2>2, <2>3, <2>7 DEF OnlyEmpty, c, n
  <2>9. WholeText(g, p) = <<>>
    BY <1>1, <2>4, <2>8, NoText
  <2>10. Content(g, p) = [dir |-> isdir, text |-> <<>>]
    BY <2>4, <2>8, <2>9 DEF Content
  <2>11. Barren(g, p)
    BY <1>1, <2>4, <2>5, <2>8, BarrenIs
  <2> QED
    BY <1>3, <2>10, <2>11
<1> QED
  BY <1>5, <1>6

-----------------------------------------------------------------------------
\* IsPrefix of the community modules is Starts, and of two sequences one begins with the other only.
LEMMA PrefixIs ==
  ASSUME NEW T, NEW s \in Seq(T), NEW t \in Seq(T)
  PROVE  /\ IsPrefix(s, t) <=> Starts(s, t)
         /\ Starts(s, t) /\ s # t => ~ Starts(t, s)
<1>0. Len(s) \in Nat /\ Len(t) \in Nat
  OBVIOUS
<1>1. ASSUME Starts(s, t) PROVE IsPrefix(s, t)
  <2>1. Len(s) <= Len(t) /\ \A k \in 1..Len(s) : s[k] = t[k]
    BY <1>1 DEF Starts
  <2>2. SubSeq(s, 1, Len(s)) = SubSeq(t, 1, Len(s))
    BY <2>1
  <2> QED
    BY <2>1, <2>2 DEF IsPrefix
<1>2. ASSUME IsPrefix(s, t) PROVE Starts(s, t)
  <2>1. Len(s) <= Len(t) /\ SubSeq(s, 1, Len(s)) = SubSeq(t, 1, Len(s))
    BY <1>2 DEF IsPrefix
  <2>2. ASSUME NEW k \in 1..Len(s) PROVE s[k] = t[k]
    <3>1. SubSeq(s, 1, Len(s))[k] = s[k] /\ SubSeq(t, 1, Len(s))[k] = t[k]
      BY <2>1
    <3> QED
      BY <2>1, <3>1
  <2> QED
    BY <1>0, <2>1, <2>2 DEF Starts
<1>3. ASSUME Starts(s, t), Starts(t, s) PROVE s = t
  <2>1. Len(s) = Len(t) /\ \A k \in 1..Len(s) : s[k] = t[k]
    BY <1>3 DEF Starts
  <2> QED
    BY <2>1, SeqEqual
<1> QED
  BY <1>1, <1>2, <1>3

\* t is the tree that clients see of d.
Shows(d, t) == DOMAIN t = {q \in Known : Found(d, q)} /\ \A q \in DOMAIN t : t[q] = Content(d, q)

\* Disks that agree in the clusters in use show the same tree.
LEMMA TreeShows ==
  ASSUME NEW d, Healthy(d), NEW e, IsDisk(e), SameUsed(d, e)
  PROVE  Shows(d, Tree(e)) /\ Shows(e, Tree(e))
<1>1. \A q \in Known : q \in Seq(ShortNames) /\ q # <<>>
  BY NamesAre DEF Known
<1>2. \A q \in Known : SameSeen(d, e, q)
  BY <1>1, TreeSame
<1>3. DOMAIN Tree(e) = {q \in Known : Found(e, q)} /\ \A q \in DOMAIN Tree(e) : Tree(e)[q] = Content(e, q)
  BY DEF Tree
<1> QED
  BY <1>2, <1>3 DEF Shows, SameSeen

\* The trees before and after a call on p.
LEMMA TreeConcern ==
  ASSUME NEW d, NEW g, NEW p \in Known, Concern(d, g, p), Shows(d, tree), Shows(g, tree')
  PROVE  F!Concerns(p)
<1>1. \A q \in Known : q \in Seq(ShortNames) /\ q # <<>>
  BY NamesAre DEF Known
<1>2. \A q \in Known : /\ F!IsStrictPrefix(p, q) <=> Starts(p, q) /\ p # q
                       /\ F!IsStrictPrefix(q, p) <=> Starts(q, p) /\ p # q
                       /\ Starts(q, p) /\ p # q => ~ Starts(p, q)
  BY <1>1, PrefixIs DEF F!IsStrictPrefix, F!IsPrefix, IsPrefix
<1>3. ASSUME NEW q \in Known \ (F!Below(p) \cup F!OnTheWay(p) \cup {p})
      PROVE  F!Keeps(q)
  <2>1. q \in Known /\ ~ Starts(p, q) /\ ~ Starts(q, p)
    BY <1>2 DEF F!Below, F!OnTheWay
  <2>2. (Found(g, q) <=> Found(d, q)) /\ (Found(d, q) => Content(g, q) = Content(d, q))
    BY <1>1, <2>1 DEF Concern
  <2>3. /\ q \in DOMAIN tree <=> Found(d, q)
        /\ q \in DOMAIN tree' <=> Found(g, q)
        /\ q \in DOMAIN tree => tree[q] = Content(d, q)
        /\ q \in DOMAIN tree' => tree'[q] = Content(g, q)
    BY <2>1 DEF Shows
  <2> QED
    BY <2>2, <2>3 DEF F!Keeps
<1>4. ASSUME NEW q \in F!OnTheWay(p)
      PROVE  F!Serves(q)
  <2>1. q \in Known /\ Starts(q, p) /\ ~ Starts(p, q)
    BY <1>2 DEF F!OnTheWay
  <2>2. /\ Found(g, q) <=> Found(d, q)
        /\ Found(d, q) /\ EntryAt(d, q).dir => Content(g, q) = Content(d, q)
    BY <1>1, <2>1 DEF Concern
  <2>3. /\ q \in DOMAIN tree <=> Found(d, q)
        /\ q \in DOMAIN tree' <=> Found(g, q)
        /\ q \in DOMAIN tree => tree[q] = Content(d, q)
        /\ q \in DOMAIN tree' => tree'[q] = Content(g, q)
    BY <2>1 DEF Shows
  <2>4. Content(d, q).dir = EntryAt(d, q).dir
    BY DEF Content
  <2> QED
    BY <2>2, <2>3, <2>4 DEF F!Serves
<1> QED
  BY <1>3, <1>4 DEF F!Concerns

\* Where nothing is found in p, the tree has nothing below p.
LEMMA TreeBelow ==
  ASSUME NEW g, Healthy(g), NEW p \in Known, Barren(g, p), Shows(g, tree')
  PROVE  F!Below(p) \cap DOMAIN tree' = {}
<1>1. \A q \in Known : q \in Seq(ShortNames) /\ q # <<>>
  BY NamesAre DEF Known
<1>2. \A q \in F!Below(p) : q \in Known /\ Starts(p, q) /\ q # p
  BY <1>1, PrefixIs DEF F!Below, F!IsStrictPrefix, F!IsPrefix, IsPrefix
<1>3. \A q \in F!Below(p) : ~ Found(g, q)
  BY <1>1, <1>2, NothingBelow
<1> QED
  BY <1>3 DEF Shows

\* A call is a step of Files.
LEMMA TreeCall ==
  ASSUME MaxCopies = 1, TidyInv, tree = Tree(disk), NEW x \in Calls, Call(x), tree' = Tree(disk')
  PROVE  [F!Next]_tree
<1> DEFINE p == Name83(x.path)
           d == Work
           g == Result(Work, x)
<1>1. /\ Good(d) /\ Healthy(d) /\ d.log = <<>> /\ d.ok /\ TidyDisk(d)
      /\ d.fat = disk.fat /\ d.data = disk.data
  BY TidyWork
<1>2. p \in Seq(ShortNames) /\ p # <<>> /\ p \in Known
  BY NamesAre DEF Calls, Known
<1>3. x.call = "create" /\ ResolvePath(d, p) = 0 => Lacks(d, Parent(d, p), Last(p))
  BY <1>2, NoCopies DEF Call
<1>4. Good(g) /\ Healthy(g) /\ Spares(GuardOf(d, p), g.fat, g.data)
  BY <1>1, ResultIs DEF Guards
<1>5. disk' = Left(g)
  BY DEF Call
<1>6. p = Name83(x.path) /\ g = Result(d, x)
  OBVIOUS
<1> HIDE DEF p, g, d
<1>7. Outcome(d, g, p)
  BY <1>1, <1>3, <1>6, ResultOutcome
<1>8. Concern(d, g, p)
  BY <1>1, <1>2, <1>4, <1>7, ConcernIs
<1>9. Shows(d, tree)
  <2>1. IsDisk(disk) /\ SameUsed(d, disk)
    BY <1>1, HealthyIs DEF TidyInv, FatInv, SameUsed, RowAt
  <2> QED
    BY <1>1, <2>1, TreeShows
<1>10. Shows(g, tree')
  <2>1. IsDisk(Left(g)) /\ SameUsed(g, Left(g))
    BY <1>4, LeftIs, LeftUsed, HealthyIs
  <2> QED
    BY <1>4, <1>5, <2>1, TreeShows
<1>11. F!Concerns(p)
  BY <1>2, <1>8, <1>9, <1>10, TreeConcern
<1>12. /\ p \in DOMAIN tree <=> Found(d, p)
       /\ p \in DOMAIN tree' <=> Found(g, p)
       /\ p \in DOMAIN tree' => tree'[p] = Content(g, p)
  BY <1>2, <1>9, <1>10 DEF Shows
<1>13. Barren(g, p) => F!Below(p) \cap DOMAIN tree' = {}
  BY <1>2, <1>4, <1>10, TreeBelow
<1>14. CASE x.call = "write" /\ x.text \in Texts
  <2>1. g = WriteFile(d, p, x.text) /\ x.text \in Seq(PlainRows)
    BY <1>6, <1>14, TextsAre DEF Result
  <2>2. /\ Found(g, p) => x.text # <<>> /\ Content(g, p) = [dir |-> FALSE, text |-> x.text]
        /\ Barren(g, p)
    BY <1>1, <1>2, <2>1, WriteSeen
  <2>3. F!Write(p, x.text)
    BY <1>11, <1>12, <1>13, <2>2 DEF F!Write
  <2> QED
    BY <1>2, <1>14, <2>3 DEF F!Next
<1>15. CASE x.call = "create" /\ x.dir \in BOOLEAN /\ ResolvePath(d, p) # 0
  <2>1. g = Fails(d)
    BY <1>6, <1>15 DEF Result, CreateEntry, CreateIn
  <2>2. IsDisk(Left(g)) /\ SameUsed(g, Left(g))
    BY <1>4, LeftIs, LeftUsed, HealthyIs
  <2>3. SameUsed(d, Left(g))
    <3>1. g.fat = d.fat /\ g.data = d.data
      BY <1>1, <2>1, FailsIs
    <3> QED
      BY <2>2, <3>1 DEF SameUsed, RowAt
  <2>4. Shows(d, tree')
    BY <1>1, <1>5, <2>2, <2>3, TreeShows
  <2>5. tree' = tree
    <3>1. tree = Tree(disk) /\ tree' = Tree(disk')
      OBVIOUS
    <3>2. /\ tree = [q \in {r \in Known : Found(d, r)} |-> Content(d, q)]
          /\ tree' = [q \in {r \in Known : Found(d, r)} |-> Content(d, q)]
      BY <1>9, <2>4, <3>1 DEF Shows, Tree
    <3> QED
      BY <3>2
  <2> QED
    BY <2>5
<1>17. CASE x.call = "create" /\ x.dir \in BOOLEAN /\ ResolvePath(d, p) = 0
  <2>1. g = CreateEntry(d, p, x.dir)
    BY <1>6, <1>17 DEF Result
  <2>2. Lacks(d, Parent(d, p), Last(p))
    BY <1>3, <1>17
  <2>3. /\ ~ Found(d, p)
        /\ Found(g, p) => Content(g, p) = [dir |-> x.dir, text |-> <<>>]
        /\ Barren(g, p)
    BY <1>1, <1>2, <1>17, <2>1, <2>2, CreateSeen
  <2>4. F!Create(p, x.dir)
    BY <1>11, <1>12, <1>13, <2>3 DEF F!Create
  <2> QED
    BY <1>2, <1>17, <2>4 DEF F!Next
<1>16. CASE x.call \in {"delete", "delete_rec"}
  <2>1. g = DeleteFile(d, p) \/ g = DeleteRecursive(d, p)
    BY <1>6, <1>16 DEF Result
  <2>2. ~ Found(g, p)
    BY <1>1, <1>2, <2>1, DeleteSeen
  <2>3. Barren(g, p)
    BY <1>2, <1>4, <2>2, BarrenIs
  <2>4. F!Delete(p)
    BY <1>11, <1>12, <1>13, <2>2, <2>3 DEF F!Delete, F!Gone
  <2> QED
    BY <1>2, <2>4 DEF F!Next
<1> QED
  BY <1>14, <1>15, <1>16, <1>17 DEF Calls

\* Filling fat_cache is none.
LEMMA TreeLoad ==
  ASSUME TidyInv, tree = Tree(disk), Load, tree' = Tree(disk')
  PROVE  tree' = tree
<1>1. Healthy(disk) /\ IsDisk(disk')
  BY TidyLoad, HealthyIs DEF TidyInv, FatInv
<1>2. disk'.fat = disk.fat /\ disk'.data = disk.data
  BY DEF TidyInv, FatInv, Load, Disks
<1>3. SameUsed(disk, disk')
  BY <1>2 DEF SameUsed, RowAt
<1>4. Shows(disk, tree') /\ tree' = Tree(disk')
  BY <1>1, <1>3, TreeShows
<1>5. tree' = [q \in {r \in Known : Found(disk, r)} |-> Content(disk, q)]
  BY <1>4 DEF Shows, Tree
<1> QED
  BY <1>5 DEF Tree

\* The disk after mkfs shows an empty tree.
LEMMA TreeBegins == ASSUME TreeInit PROVE F!Init
<1>1. TidyInv /\ tree = Tree(disk)
  BY TidyInit DEF TreeInit
<1>2. IsDisk(disk) /\ Links(disk.fat) /\ Healthy(disk)
  BY <1>1, HealthyIs DEF TidyInv, FatInv
<1>3. \A pl \in Places : ~ IsEntry(disk.data, pl)
  <2>1. disk.data = [c \in 2..LastCluster |-> Blank]
    BY DEF TreeInit, Init
  <2>2. \A pl \in Places : RowIn(disk.data, pl) = Zero
    BY <2>1 DEF Places, RowIn, Blank
  <2> QED
    BY <2>2 DEF IsEntry, Zero
<1>4. \A q \in Known : ~ Found(disk, q)
  <2> SUFFICES ASSUME NEW q \in Known PROVE FindEntry(disk, Parent(disk, q), Last(q)) = <<>>
    BY DEF Found, EntryOf
  <2>1. q \in Seq(ShortNames) /\ q # <<>>
    BY NamesAre DEF Known
  <2>2. HeadOrNone(disk.fat, Parent(disk, q))
    BY <1>2, <2>1, ParentIs
  <2> QED
    BY <1>2, <1>3, <2>2, FindEntryIs DEF EntryPlace
<1>5. {q \in Known : Found(disk, q)} = {}
  BY <1>4
<1> QED
  BY <1>1, <1>5 DEF F!Init, F!NoFiles, Tree

(***************************************************************************)
(* While no name is made a second time, fat32.c implements Files: a call   *)
(* is a step of the tree that changes what it names and nothing else.      *)
(***************************************************************************)
THEOREM FilesImplemented == ASSUME MaxCopies = 1 PROVE TreeSpec => ImplementsFiles
<1> DEFINE I == TidyInv /\ tree = Tree(disk)
<1>1. TreeInit => I /\ F!Init
  BY TidyInit, TreeBegins DEF TreeInit
<1>2. I /\ [TreeNext]_<<disk, tree>> => I' /\ [F!Next]_tree
  <2> SUFFICES ASSUME I, [TreeNext]_<<disk, tree>> PROVE I' /\ [F!Next]_tree
    OBVIOUS
  <2>1. CASE UNCHANGED <<disk, tree>>
    BY <2>1 DEF TidyInv, FatInv
  <2>2. CASE TreeNext
    <3>1. tree' = Tree(disk')
      BY <2>2 DEF TreeNext
    <3>2. CASE Load
      BY <3>1, <3>2, TidyLoad, TreeLoad
    <3>3. CASE \E x \in Calls : Call(x)
      <4>1. PICK x \in Calls : Call(x)
        BY <3>3
      <4> QED
        BY <3>1, <4>1, TidyCall, TreeCall
    <3> QED
      BY <2>2, <3>2, <3>3 DEF TreeNext, Next
  <2> QED
    BY <2>1, <2>2
<1> QED
  BY <1>1, <1>2, PTL DEF TreeSpec, ImplementsFiles, F!Spec

-----------------------------------------------------------------------------
(***************************************************************************)
(* mv copies a text that is read from the disk, and what a file's clusters *)
(* hold may be an entry, which a path through the file has put there.  So  *)
(* that the disk stays healthy a call is followed on two disks: the one mv *)
(* works on, and its twin, on which zeros were written in the text's place *)
(* and which differs in the clusters S of the copy alone, X there.         *)
(***************************************************************************)
Twin(x, y, S, X) ==
  /\ Good(x) /\ Good(y) /\ x.fat = y.fat /\ x.ok = y.ok
  /\ \A pl \in Places :
       RowIn(x.data, pl) = IF pl[1] \in S THEN RowIn(X, pl) ELSE RowIn(y.data, pl)

\* Twins have the same FAT and both caches are current: they read the same.
LEMMA TwinReads ==
  ASSUME NEW x, NEW y, NEW S, NEW X, Twin(x, y, S, X)
  PROVE  \A c : FatRead(x, c) = FatRead(y, c)
<1>1. Current(x) /\ Current(y) /\ x.fat = y.fat
  BY GoodFields DEF Twin
<1> QED
  BY <1>1, ReadIs

\* A call finds the same free cluster on both.
LEMMA TwinFree ==
  ASSUME NEW x, NEW y, NEW S, NEW X, Twin(x, y, S, X)
  PROVE  FatFindFree(x) = FatFindFree(y)
<1>1. {c \in Entries : FatRead(x, c) = 0} = {c \in Entries : FatRead(y, c) = 0}
  BY TwinReads
<1> QED
  BY <1>1, Zenon DEF FatFindFree

\* fat_write on both.
LEMMA TwinFat ==
  ASSUME NEW x, NEW y, NEW S, NEW X, Twin(x, y, S, X), NEW c \in Entries, NEW v \in Links0
  PROVE  Twin(FatWrite(x, c, v), FatWrite(y, c, v), S, X)
<1> DEFINE u == FatWrite(x, c, v)
           w == FatWrite(y, c, v)
<1>1. Good(u) /\ u.fat = [x.fat EXCEPT ![c] = v] /\ u.data = x.data /\ u.ok = x.ok
  BY FatWriteIs DEF Twin
<1>2. Good(w) /\ w.fat = [y.fat EXCEPT ![c] = v] /\ w.data = y.data /\ w.ok = y.ok
  BY FatWriteIs DEF Twin
<1> HIDE DEF u, w
<1>3. Twin(u, w, S, X)
  BY <1>1, <1>2 DEF Twin
<1> QED
  BY <1>3 DEF u, w

\* A failure of both.
LEMMA TwinFails ==
  ASSUME NEW x, NEW y, NEW S, NEW X, Twin(x, y, S, X)
  PROVE  Twin(Fails(x), Fails(y), S, X)
<1> DEFINE u == Fails(x)
           w == Fails(y)
<1>1. Good(u) /\ u.fat = x.fat /\ u.data = x.data /\ u.ok = FALSE
  BY FailsIs DEF Twin
<1>2. Good(w) /\ w.fat = y.fat /\ w.data = y.data /\ w.ok = FALSE
  BY FailsIs DEF Twin
<1> HIDE DEF u, w
<1>3. Twin(u, w, S, X)
  BY <1>1, <1>2 DEF Twin
<1> QED
  BY <1>3 DEF u, w

\* A cluster beside the copy is written on both.
LEMMA TwinCluster ==
  ASSUME NEW x, NEW y, NEW S, NEW X, Twin(x, y, S, X), NEW c \in Entries, c \notin S,
         NEW rows \in Clusters
  PROVE  Twin(WriteCluster(x, c, rows), WriteCluster(y, c, rows), S, X)
<1> DEFINE u == WriteCluster(x, c, rows)
           w == WriteCluster(y, c, rows)
<1>1. /\ Good(u) /\ u.fat = x.fat
      /\ OnDisk(c) => /\ u.data = [x.data EXCEPT ![c] = rows] /\ u.ok = x.ok
                      /\ u.log = Append(x.log, <<x.fat, [x.data EXCEPT ![c] = rows]>>)
      /\ ~ OnDisk(c) => u.data = x.data /\ u.ok = FALSE /\ u.log = x.log
  BY WriteClusterIs DEF Twin
<1>2. /\ Good(w) /\ w.fat = y.fat
      /\ OnDisk(c) => /\ w.data = [y.data EXCEPT ![c] = rows] /\ w.ok = y.ok
                      /\ w.log = Append(y.log, <<y.fat, [y.data EXCEPT ![c] = rows]>>)
      /\ ~ OnDisk(c) => w.data = y.data /\ w.ok = FALSE /\ w.log = y.log
  BY WriteClusterIs DEF Twin
<1>3. x.data \in Datas /\ y.data \in Datas
  BY GoodFields DEF Twin
<1> HIDE DEF u, w
<1>4. CASE ~ OnDisk(c)
  BY <1>1, <1>2, <1>4 DEF Twin, u, w
<1>5. CASE OnDisk(c)
  <2>1. c \in 2..LastCluster
    BY <1>5, EntriesAre
  <2>2. \A pl \in Places : /\ RowIn(u.data, pl) = IF pl[1] = c THEN rows[pl[2]] ELSE RowIn(x.data, pl)
                           /\ RowIn(w.data, pl) = IF pl[1] = c THEN rows[pl[2]] ELSE RowIn(y.data, pl)
    <3>1. \A b \in 2..LastCluster : /\ u.data[b] = IF b = c THEN rows ELSE x.data[b]
                                    /\ w.data[b] = IF b = c THEN rows ELSE y.data[b]
      BY <1>1, <1>2, <1>3, <1>5, <2>1 DEF Datas
    <3>2. \A pl \in Places : pl[1] \in 2..LastCluster
      BY DEF Places
    <3> QED
      BY <3>1, <3>2 DEF RowIn
  <2>3. Twin(u, w, S, X)
    BY <1>1, <1>2, <1>5, <2>2 DEF Twin
  <2> QED
    BY <2>3 DEF u, w
<1> QED
  BY <1>4, <1>5

\* A row beside the copy is written on both.
LEMMA TwinRow ==
  ASSUME NEW x, NEW y, NEW S, NEW X, Twin(x, y, S, X), NEW pl \in Places, pl[1] \notin S,
         NEW row \in RowSet
  PROVE  Twin(SetRow(x, pl, row), SetRow(y, pl, row), S, X)
<1> DEFINE u == SetRow(x, pl, row)
           w == SetRow(y, pl, row)
<1>1. /\ Good(u) /\ u.fat = x.fat /\ u.ok = x.ok /\ RowIn(u.data, pl) = row
      /\ \A k \in Places \ {pl} : RowIn(u.data, k) = RowIn(x.data, k)
  BY SetRowRow DEF Twin
<1>2. /\ Good(w) /\ w.fat = y.fat /\ w.ok = y.ok /\ RowIn(w.data, pl) = row
      /\ \A k \in Places \ {pl} : RowIn(w.data, k) = RowIn(y.data, k)
  BY SetRowRow DEF Twin
<1> HIDE DEF u, w
<1>3. Twin(u, w, S, X)
  BY <1>1, <1>2 DEF Twin
<1> QED
  BY <1>3 DEF u, w

\* fat_free_chain on both.
LEMMA TwinFreeChain ==
  ASSUME NEW x, NEW y, NEW S, NEW X, Twin(x, y, S, X), Links(y.fat), NEW c, HeadOrNone(y.fat, c)
  PROVE  Twin(FatFreeChain(x, c), FatFreeChain(y, c), S, X)
<1> DEFINE u == FatFreeChain(x, c)
           w == FatFreeChain(y, c)
<1>1. CASE c \notin Entries
  BY <1>1, FreeNone DEF Twin
<1>2. CASE c \in Entries
  <2>1. IsHead(y.fat, c) /\ x.fat = y.fat /\ Good(x) /\ Good(y)
    BY <1>2 DEF HeadOrNone, Twin
  <2>2. Good(u) /\ u.fat = Freed(x.fat, ClustersOf(x.fat, c)) /\ u.data = x.data /\ u.ok = x.ok
    BY <2>1, FreeChainIs
  <2>3. Good(w) /\ w.fat = Freed(y.fat, ClustersOf(y.fat, c)) /\ w.data = y.data /\ w.ok = y.ok
    BY <2>1, FreeChainIs
  <2> HIDE DEF u, w
  <2>4. Twin(u, w, S, X)
    BY <2>1, <2>2, <2>3 DEF Twin
  <2> QED
    BY <2>4 DEF u, w
<1> QED
  BY <1>1, <1>2

\* The end of a call that has no room, on both.
LEMMA TwinGivesUp ==
  ASSUME NEW x, NEW y, NEW S, NEW X, Twin(x, y, S, X), Links(y.fat), NEW ch,
         ch # <<>> => IsHead(y.fat, ch[1])
  PROVE  Twin(FreeAndFail(x, ch), FreeAndFail(y, ch), S, X)
<1>1. CASE ch = <<>>
  BY <1>1, TwinFails DEF FreeAndFail
<1>2. CASE ch # <<>>
  <2>1. HeadOrNone(y.fat, ch[1])
    BY <1>2 DEF HeadOrNone
  <2>2. Twin(FatFreeChain(x, ch[1]), FatFreeChain(y, ch[1]), S, X)
    BY <2>1, TwinFreeChain
  <2> QED
    BY <1>2, <2>2, TwinFails DEF FreeAndFail
<1> QED
  BY <1>1, <1>2

\* What a scan reads of the directory c on both, when the copy is elsewhere.
Beside(y, S, c) == HeadOrNone(y.fat, c) /\ (IsHead(y.fat, c) => ClustersOf(y.fat, c) \cap S = {})

\* A chain beside the copy is the same on both disks, and so are its rows.
LEMMA TwinChain ==
  ASSUME NEW x, NEW y, NEW S, NEW X, Twin(x, y, S, X), Links(y.fat), NEW c, Beside(y, S, c)
  PROVE  /\ Chain(x, c) = Chain(y, c) /\ Readable(Chain(y, c)) \in Seq(2..LastCluster)
         /\ \A pl \in PlacesOf(Readable(Chain(y, c))) :
              pl \in Places /\ pl[1] \notin S /\ RowAt(x, pl) = RowAt(y, pl)
<1>1. IsDisk(x) /\ IsDisk(y) /\ x.fat = y.fat
  BY GoodDisk DEF Twin
<1>2. Readable(Chain(y, c)) \in Seq(2..LastCluster)
  BY ChainType
<1>3. CASE c \notin Entries
  <2>1. Chain(x, c) = <<>> /\ Chain(y, c) = <<>>
    BY <1>3, ChainEmpty
  <2>2. <<>> \in Seq(Entries) /\ ToSet(<<>>) = {}
    BY ToSetEmpty
  <2>3. ToSet(Readable(<<>>)) = {}
    BY <2>2, ReadableIs
  <2>4. PlacesOf(Readable(Chain(y, c))) = {}
    BY <2>1, <2>3 DEF PlacesOf
  <2> QED
    BY <1>2, <2>1, <2>4
<1>4. CASE c \in Entries
  <2>1. IsHead(y.fat, c) /\ ClustersOf(y.fat, c) \cap S = {}
    BY <1>4 DEF Beside, HeadOrNone
  <2>2. Chain(x, c) = ChainIn(x.fat, c)
    BY <1>1, <2>1, ReadableChain
  <2>3. /\ Chain(y, c) = ChainIn(y.fat, c)
        /\ \A pl \in PlacesOf(Readable(Chain(y, c))) : pl \in Places /\ pl[1] \in ClustersOf(y.fat, c)
    BY <1>1, <2>1, ReadableChain
  <2>4. \A pl \in PlacesOf(Readable(Chain(y, c))) : pl \in Places /\ pl[1] \notin S
    BY <2>1, <2>3
  <2>5. \A pl \in PlacesOf(Readable(Chain(y, c))) : RowAt(x, pl) = RowAt(y, pl)
    BY <2>4 DEF Twin, RowIn, RowAt
  <2> QED
    BY <1>1, <1>2, <2>2, <2>3, <2>4, <2>5
<1> QED
  BY <1>3, <1>4

\* find_entry on both.
LEMMA TwinFind ==
  ASSUME NEW x, NEW y, NEW S, NEW X, Twin(x, y, S, X), Links(y.fat), NEW c, Beside(y, S, c), NEW n
  PROVE  /\ FindEntry(x, c, n) = FindEntry(y, c, n) /\ Into(x, c, n) = Into(y, c, n)
         /\ FindEntry(y, c, n) # <<>> => RowAt(x, FindEntry(y, c, n)) = RowAt(y, FindEntry(y, c, n))
<1>1. /\ Chain(x, c) = Chain(y, c) /\ Readable(Chain(y, c)) \in Seq(2..LastCluster)
      /\ \A pl \in PlacesOf(Readable(Chain(y, c))) :
           pl \in Places /\ pl[1] \notin S /\ RowAt(x, pl) = RowAt(y, pl)
  BY TwinChain
<1>2. FindEntry(x, c, n) = FindEntry(y, c, n)
  <2> DEFINE r == Readable(Chain(y, c))
  <2>1. r \in Seq(2..LastCluster) /\ \A pl \in PlacesOf(r) : RowAt(x, pl) = RowAt(y, pl)
    BY <1>1
  <2>2. FindEntry(x, c, n) = FindIn(x, r, n) /\ FindEntry(y, c, n) = FindIn(y, r, n)
    BY <1>1 DEF FindEntry
  <2> HIDE DEF r
  <2> QED
    BY <2>1, <2>2, FindInSame
<1>3. FindEntry(y, c, n) # <<>> => RowAt(x, FindEntry(y, c, n)) = RowAt(y, FindEntry(y, c, n))
  <2>1. y.data \in Datas
    BY GoodFields DEF Twin
  <2>2. FindEntry(y, c, n) # <<>> => FindEntry(y, c, n) \in PlacesOf(Readable(Chain(y, c)))
    BY <1>1, <2>1, FindInIs DEF FindEntry
  <2> QED
    BY <1>1, <2>2
<1> QED
  BY <1>2, <1>3 DEF Into, FirstCluster

\* delete_entry_in_dir on both.
LEMMA TwinDelete ==
  ASSUME NEW x, NEW y, NEW S, NEW X, Twin(x, y, S, X), Links(y.fat), NEW dir, Beside(y, S, dir), NEW n
  PROVE  Twin(DeleteEntry(x, dir, n), DeleteEntry(y, dir, n), S, X)
<1> DEFINE pl == FindEntry(y, dir, n)
<1>1. FindEntry(x, dir, n) = pl
  BY TwinFind
<1>2. pl = <<>> \/ (pl \in Places /\ pl[1] \notin S)
  <2>1. y.data \in Datas
    BY GoodFields DEF Twin
  <2>2. pl = <<>> \/ pl \in PlacesOf(Readable(Chain(y, dir)))
    BY <2>1, ChainType, FindInIs DEF FindEntry
  <2> HIDE DEF pl
  <2> QED
    BY <2>2, TwinChain
<1>3. /\ DeleteEntry(x, dir, n) = IF pl = <<>> THEN x ELSE SetRow(x, pl, Gone)
      /\ DeleteEntry(y, dir, n) = IF pl = <<>> THEN y ELSE SetRow(y, pl, Gone)
  BY <1>1 DEF DeleteEntry
<1> HIDE DEF pl
<1>4. Gone \in RowSet
  BY RowKinds
<1> QED
  BY <1>2, <1>3, <1>4, TwinRow


\* dir_add_entry on both: the row it takes is beside the copy, or in a new cluster.
LEMMA TwinAdd ==
  ASSUME NEW x, NEW y, NEW S, NEW X, Twin(x, y, S, X), Links(y.fat), NEW dir, Beside(y, S, dir),
         \A c \in S : y.fat[c] # 0, NEW entry \in EntryRows
  PROVE  Twin(DirAddEntry(x, dir, entry), DirAddEntry(y, dir, entry), S, X)
<1> DEFINE ch   == Chain(y, dir)
           r    == Readable(ch)
           free == FreeIn(y, r)
           new  == FatFindFree(y)
<1>1. /\ Chain(x, dir) = ch /\ r \in Seq(2..LastCluster)
      /\ \A pl \in PlacesOf(r) : pl \in Places /\ pl[1] \notin S /\ RowAt(x, pl) = RowAt(y, pl)
  BY TwinChain
<1>2. FreeIn(x, r) = free /\ FatFindFree(x) = new
  <2>1. {pl \in PlacesOf(r) : RowAt(x, pl) \in {Zero, Gone}} = {pl \in PlacesOf(r) : RowAt(y, pl) \in {Zero, Gone}}
    BY <1>1
  <2> HIDE DEF r
  <2>2. FreeIn(x, r) = FreeIn(y, r)
    BY <2>1, Zenon DEF FreeIn
  <2> QED
    BY <2>2, TwinFree
<1>3. \A z : /\ z = x \/ z = y
             => DirAddEntry(z, dir, entry)
                  = IF free # <<>> THEN SetRow(z, free, entry)
                    ELSE IF ch = <<>> \/ Readable(ch) # ch \/ new = 0 THEN Fails(z)
                    ELSE SetRow(Lengthen(z, ch, new), <<new, 1>>, entry)
  BY <1>1, <1>2 DEF DirAddEntry, AddTo, AddRow
<1>4. free = <<>> \/ (free \in Places /\ free[1] \notin S)
  <2> DEFINE F0 == {pl \in PlacesOf(r) : RowAt(y, pl) \in {Zero, Gone}}
  <2>1. free = FirstOf(r, F0)
    BY DEF FreeIn
  <2>2. \A z \in F0 : z \in PlacesOf(r)
    OBVIOUS
  <2> HIDE DEF F0, r, free
  <2>3. free = <<>> \/ free \in F0
    BY <1>1, <2>1, FirstOfIs
  <2> QED
    BY <1>1, <2>2, <2>3
<1>5. entry \in RowSet /\ Good(y)
  BY RowKinds DEF Twin
<1>6. new = 0 \/ (new \in Entries /\ y.fat[new] = 0)
  BY <1>5, FindFreeIs
<1>7. dir \notin Entries => ch = <<>>
  BY ChainEmpty
<1>8. dir \in Entries => IsHead(y.fat, dir) /\ ch = ChainIn(y.fat, dir)
  BY <1>5, GoodDisk, ReadableChain DEF Beside, HeadOrNone
<1> HIDE DEF free, new, ch, r
<1>9. CASE free # <<>>
  <2>1. Twin(SetRow(x, free, entry), SetRow(y, free, entry), S, X)
    BY <1>4, <1>5, <1>9, TwinRow
  <2> QED
    BY <1>3, <1>9, <2>1
<1>10. CASE free = <<>> /\ (ch = <<>> \/ Readable(ch) # ch \/ new = 0)
  BY <1>3, <1>10, TwinFails
<1>11. CASE free = <<>> /\ ~ (ch = <<>> \/ Readable(ch) # ch \/ new = 0)
  <2> DEFINE z == Last(ch)
             d1(d) == FatWrite(d, new, Eoc)
             d2(d) == FatWrite(d1(d), z, new)
             d3(d) == WriteCluster(d2(d), new, Blank)
             d4(d) == SetRow(d3(d), <<new, 1>>, entry)
  <2>1. new \in Entries /\ new \notin S
    BY <1>6, <1>11
  <2>2. z \in Entries
    BY <1>7, <1>8, <1>11, ClustersAre
  <2>3. Eoc \in Links0 /\ new \in Links0
    BY <2>1 DEF Links0
  <2>4. DirAddEntry(x, dir, entry) = d4(x) /\ DirAddEntry(y, dir, entry) = d4(y)
    BY <1>3, <1>11 DEF Lengthen
  <2> HIDE DEF z
  <2>5. Twin(d1(x), d1(y), S, X)
    BY <2>1, <2>3, TwinFat
  <2> HIDE DEF d1
  <2>6. Twin(d2(x), d2(y), S, X)
    BY <2>2, <2>3, <2>5, TwinFat
  <2> HIDE DEF d2
  <2>7. Twin(d3(x), d3(y), S, X)
    BY <2>1, <2>6, BlankIs, TwinCluster
  <2> HIDE DEF d3
  <2>8. CASE OnDisk(new)
    <3>1. <<new, 1>> \in Places /\ <<new, 1>>[1] = new
      BY <2>1, <2>8, EntriesAre DEF Places
    <3>2. Twin(d4(x), d4(y), S, X)
      BY <1>5, <2>1, <2>7, <3>1, TwinRow
    <3> QED
      BY <2>4, <3>2
  <2>9. CASE ~ OnDisk(new)
    <3>1. d4(x) = Fails(d3(x)) /\ d4(y) = Fails(d3(y))
      BY <2>9, SetRowOff
    <3> HIDE DEF d4
    <3> QED
      BY <2>4, <2>7, <3>1, TwinFails
  <2> QED
    BY <2>8, <2>9
<1> QED
  BY <1>9, <1>10, <1>11

\* The zeros that the twin has for the text s.
Zeros(s) == [k \in 1..Len(s) |-> Zero]

\* Zeros are plain text of the same length.
LEMMA ZerosAre ==
  ASSUME NEW T, NEW s \in Seq(T)
  PROVE  Zeros(s) \in Seq(PlainRows) /\ Len(Zeros(s)) = Len(s) /\ (s # <<>> => Zeros(s) # <<>>)
<1>1. Len(s) \in Nat /\ Zero \in PlainRows
  BY RowKinds
<1>2. Zeros(s) \in [1..Len(s) -> PlainRows]
  BY <1>1 DEF Zeros
<1>3. Zeros(s) \in Seq(PlainRows) /\ Len(Zeros(s)) = Len(s)
  BY <1>1, <1>2
<1>4. s # <<>> => Len(s) # 0
  OBVIOUS
<1> QED
  BY <1>3, <1>4

\* The clusters of the copy are filled: with the text on one disk, with zeros on the other.
LEMMA TwinFill ==
  ASSUME NEW d, Good(d), NEW ch \in Seq(Entries), \A i, j \in 1..Len(ch) : ch[i] = ch[j] => i = j,
         NEW s \in Seq(RowSet), NEW t \in Seq(RowSet), NEW u, u = Fill(d, ch, s), NEW w, w = Fill(d, ch, t)
  PROVE  /\ Twin(u, w, ToSet(ch), u.data)
         /\ u.ok => \A j \in 1..Len(ch) : OnDisk(ch[j]) /\ u.data[ch[j]] = Page(s, j)
<1>1. /\ Good(u) /\ u.fat = d.fat /\ OnlyIn(ch, u, d)
      /\ u.ok => d.ok /\ \A j \in 1..Len(ch) : OnDisk(ch[j]) /\ u.data[ch[j]] = Page(s, j)
      /\ d.ok /\ (\A j \in 1..Len(ch) : OnDisk(ch[j])) => u.ok
  <2> DEFINE e == Fill(d, ch, s)
  <2>1. /\ Good(e) /\ e.fat = d.fat /\ OnlyIn(ch, e, d)
        /\ e.ok => d.ok /\ \A j \in 1..Len(ch) : OnDisk(ch[j]) /\ e.data[ch[j]] = Page(s, j)
        /\ d.ok /\ (\A j \in 1..Len(ch) : OnDisk(ch[j])) => e.ok
    BY FillIs, SMTT(30)
  <2> HIDE DEF e
  <2>2. u = e
    BY DEF e
  <2> QED
    BY <2>1, <2>2
<1>2. /\ Good(w) /\ w.fat = d.fat /\ OnlyIn(ch, w, d)
      /\ w.ok => d.ok /\ \A j \in 1..Len(ch) : OnDisk(ch[j]) /\ w.data[ch[j]] = Page(t, j)
      /\ d.ok /\ (\A j \in 1..Len(ch) : OnDisk(ch[j])) => w.ok
  <2> DEFINE e == Fill(d, ch, t)
  <2>1. /\ Good(e) /\ e.fat = d.fat /\ OnlyIn(ch, e, d)
        /\ e.ok => d.ok /\ \A j \in 1..Len(ch) : OnDisk(ch[j]) /\ e.data[ch[j]] = Page(t, j)
        /\ d.ok /\ (\A j \in 1..Len(ch) : OnDisk(ch[j])) => e.ok
    BY FillIs, SMTT(30)
  <2> HIDE DEF e
  <2>2. w = e
    BY DEF e
  <2> QED
    BY <2>1, <2>2
<1>3. u.ok = w.ok
  <2>1. u.ok <=> w.ok
    BY <1>1, <1>2
  <2>2. u.ok \in BOOLEAN /\ w.ok \in BOOLEAN
    BY <1>1, <1>2, GoodFields
  <2> QED
    BY <2>1, <2>2
<1>4. \A pl \in Places : RowIn(u.data, pl) = IF pl[1] \in ToSet(ch) THEN RowIn(u.data, pl) ELSE RowIn(w.data, pl)
  BY <1>1, <1>2 DEF OnlyIn
<1> QED
  BY <1>1, <1>2, <1>3, <1>4 DEF Twin


\* A call that has no room frees the clusters of the copy.
LEMMA FreedAll ==
  ASSUME NEW w, Good(w), Links(w.fat), NEW ch, ch # <<>>, IsHead(w.fat, ch[1]), ChainIn(w.fat, ch[1]) = ch
  PROVE  FreeAndFail(w, ch).ok = FALSE /\ \A c \in ToSet(ch) : FreeAndFail(w, ch).fat[c] = 0
<1> DEFINE e == FatFreeChain(w, ch[1])
<1>1. Good(e) /\ e.fat = Freed(w.fat, ClustersOf(w.fat, ch[1])) /\ e.data = w.data /\ e.ok = w.ok
  BY FreeChainIs
<1>2. ClustersOf(w.fat, ch[1]) = ToSet(ch) /\ ClustersOf(w.fat, ch[1]) \subseteq Entries
  BY ClustersAre DEF ClustersOf
<1>3. FreeAndFail(w, ch) = Fails(e)
  BY DEF FreeAndFail
<1> HIDE DEF e
<1>4. Fails(e).fat = e.fat /\ Fails(e).ok = FALSE
  BY <1>1, FailsIs
<1>5. \A c \in ToSet(ch) : e.fat[c] = 0
  BY <1>1, <1>2 DEF Freed
<1> QED
  BY <1>3, <1>4, <1>5

\* What fat32_write leaves on the disk and on its twin: when it fails what the copy
\* took is free again, when it succeeds the copy has the text, page by page.
Written(d, q, s, g, g2) ==
  \E S, X :
    /\ Twin(g, g2, S, X)
    /\ ~ g2.ok => \A c \in S : g2.fat[c] = 0
    /\ g2.ok => LET ch == Taken(d, q, Zeros(s)).ch
                IN  S = ToSet(ch) /\ \A j \in 1..Len(ch) : X[ch[j]] = Page(s, j)

\* The end of fat32_write, once the clusters are filled.
LEMMA TwinEnter ==
  ASSUME NEW e, NEW dir, NEW n, NEW t, NEW a, NEW w, Filled(e, dir, n, t, a, w), HeadOrNone(e.fat, dir),
         NEW u, Twin(u, w, ToSet(a.ch), u.data), NEW entry, entry = TextEntry(n, t, a.ch[1]), w.ok,
         NEW x, x = DirAddEntry(u, dir, entry), NEW y, y = DirAddEntry(w, dir, entry)
  PROVE  /\ Twin(x, y, ToSet(a.ch), u.data) /\ Good(y) /\ Links(y.fat)
         /\ IsHead(y.fat, a.ch[1]) /\ ChainIn(y.fat, a.ch[1]) = a.ch
<1> DEFINE ch == a.ch
           h  == ch[1]
           S  == ToSet(ch)
<1>1. /\ Good(w) /\ Healthy(w) /\ IsHead(w.fat, h) /\ ChainIn(w.fat, h) = ch /\ HeadOrNone(w.fat, dir)
      /\ h # dir /\ entry \in EntryRows /\ NameHead(w.fat, entry) /\ NamedNowhere(w, h)
  BY DEF Filled
<1>2. entry.first = h
  BY DEF TextEntry
<1> HIDE DEF h
<1>3. Links(w.fat)
  BY <1>1, HealthyIs
<1>4. S = ClustersOf(w.fat, h)
  BY <1>1 DEF ClustersOf
<1>5. Beside(w, S, dir)
  BY <1>1, <1>3, <1>4, ClustersApart DEF Beside
<1>6. \A c \in S : w.fat[c] # 0
  BY <1>1, <1>3, <1>4, ClustersAre
<1> HIDE DEF S
<1>7. Twin(x, y, S, u.data)
  BY <1>1, <1>3, <1>5, <1>6, TwinAdd DEF S
<1>8. Good(y) /\ Healthy(y) /\ HeadsStay(w, y, dir)
  <2> DEFINE z == DirAddEntry(w, dir, entry)
  <2>1. /\ Good(z) /\ Healthy(z) /\ (z.ok => w.ok) /\ HeadsStay(w, z, dir)
        /\ w.ok /\ ~ z.ok => NamedNowhere(z, entry.first)
    BY <1>1, <1>2, AddIs
  <2> HIDE DEF z
  <2>2. y = z
    BY DEF z
  <2> QED
    BY <2>1, <2>2
<1>9. IsHead(y.fat, h) /\ ChainIn(y.fat, h) = ch /\ Links(y.fat)
  BY <1>1, <1>8, HealthyIs DEF HeadsStay
<1> QED
  BY <1>7, <1>8, <1>9 DEF S, h

\* fat32_write of the text, and of zeros on the twin.
LEMMA TwinWrite ==
  ASSUME NEW d, Good(d), Healthy(d), NEW q \in Seq(ShortNames), q # <<>>,
         NEW s \in Seq(RowSet), s # <<>>, NEW g, g = WriteFile(d, q, s),
         NEW g2, g2 = WriteFile(d, q, Zeros(s))
  PROVE  Written(d, q, s, g, g2)
<1> DEFINE t   == Zeros(s)
           dir == Parent(d, q)
           n   == Last(q)
           e   == Emptied(d, q)
           a   == Taken(d, q, t)
           ch  == a.ch
           entry == TextEntry(n, t, ch[1])
           u   == Fill(a.d, ch, s)
           w   == Fill(a.d, ch, t)
           x   == DirAddEntry(u, dir, entry)
           y   == DirAddEntry(w, dir, entry)
<1>1. Good(e) /\ Healthy(e) /\ HeadOrNone(e.fat, dir) /\ Links(e.fat)
  BY FileGone, HealthyIs DEF Emptied
<1>2. n \in {Short[z] : z \in DOMAIN Short}
  BY FrontIs DEF ShortNames
<1>3. t \in Seq(PlainRows) /\ Len(t) = Len(s) /\ t # <<>> /\ t \in Seq(RowSet)
  BY ZerosAre, PlainText
<1> HIDE DEF t
<1>4. Need(t) = Need(s) /\ TextEntry(n, s, ch[1]) = entry
  BY <1>3 DEF Need, TextEntry
<1>5. Good(g2)
  BY <1>3, WriteFileIs DEF t
<1>6. CASE dir = 0
  <2>1. g = Fails(d) /\ g2 = Fails(d)
    BY <1>6 DEF WriteFile, WriteIn
  <2>2. Twin(g, g2, {}, d.data) /\ ~ g2.ok
    BY <1>5, <2>1, FailsIs DEF Twin
  <2> QED
    BY <2>2 DEF Written
<1>7. CASE dir # 0
  <2>1. g = WriteText(a, dir, n, s) /\ g2 = WriteText(a, dir, n, t)
    BY <1>3, <1>4, <1>7 DEF WriteFile, WriteIn, Taken, Emptied, Need, t
  <2>2. /\ g = IF a.full THEN FreeAndFail(a.d, ch)
               ELSE IF ~ u.ok THEN FreeAndFail(u, ch)
               ELSE IF ~ x.ok THEN FreeAndFail(x, ch) ELSE x
        /\ g2 = IF a.full THEN FreeAndFail(a.d, ch)
                ELSE IF ~ w.ok THEN FreeAndFail(w, ch)
                ELSE IF ~ y.ok THEN FreeAndFail(y, ch) ELSE y
    BY <1>4, <2>1, WriteTextEnds
  <2>3. Need(t) \in Nat /\ a = AllocChain(e, Need(t))
    BY <1>3, NeedIs DEF Taken
  <2>4. a \in Makings /\ Growing(e, a)
    BY <1>1, <2>3, AllocIs
  <2> HIDE DEF u, w, x, y, entry, e, a
  <2>5. CASE a.full
    <3>1. ch # <<>> => Links(a.d.fat) /\ IsHead(a.d.fat, ch[1])
      BY <2>4 DEF Growing
    <3>2. FreeAndFail(a.d, ch).ok = FALSE
      BY <2>4, <3>1, GivesUp, ZenonT(60) DEF Growing
    <3>3. g = g2 /\ ~ g2.ok
      BY <2>2, <2>5, <3>2
    <3>4. Twin(g, g2, {}, d.data)
      BY <1>5, <3>3 DEF Twin
    <3> QED
      BY <3>3, <3>4 DEF Written
  <2>6. CASE ~ a.full
    <3>1. Filled(e, dir, n, t, a, w)
      BY <1>1, <1>2, <1>3, <2>3, <2>6, FilledIs DEF w
    <3>2. /\ Good(a.d) /\ Links(a.d.fat) /\ ch \in Seq(Entries) /\ ch # <<>>
          /\ IsHead(a.d.fat, ch[1]) /\ ChainIn(a.d.fat, ch[1]) = ch
      BY <2>4, <3>1 DEF Growing, Filled
    <3>3. \A i, j \in 1..Len(ch) : ch[i] = ch[j] => i = j
      <4>1. IsChain(a.d.fat, ch[1], ch)
        BY <3>2, HeadChain
      <4> QED
        BY <3>2, <4>1, PathDistinct DEF IsChain
    <3>4. /\ Twin(u, w, ToSet(ch), u.data)
          /\ u.ok => \A j \in 1..Len(ch) : OnDisk(ch[j]) /\ u.data[ch[j]] = Page(s, j)
      BY <1>3, <3>2, <3>3, TwinFill DEF u, w
    <3>5. u.ok = w.ok
      BY <3>4 DEF Twin
    <3>6. Good(w) /\ Links(w.fat) /\ IsHead(w.fat, ch[1]) /\ ChainIn(w.fat, ch[1]) = ch
      BY <3>1 DEF Filled, Sound
    <3>7. CASE ~ w.ok
      <4>1. g = FreeAndFail(u, ch) /\ g2 = FreeAndFail(w, ch)
        BY <2>2, <2>6, <3>5, <3>7
      <4>2. Twin(g, g2, ToSet(ch), u.data)
        BY <3>4, <3>6, <4>1, TwinGivesUp
      <4>3. g2.ok = FALSE /\ \A c \in ToSet(ch) : g2.fat[c] = 0
        <5>1. Good(w) /\ Links(w.fat) /\ ch # <<>> /\ IsHead(w.fat, ch[1]) /\ ChainIn(w.fat, ch[1]) = ch
          BY <3>2, <3>6
        <5>2. FreeAndFail(w, ch).ok = FALSE /\ \A c \in ToSet(ch) : FreeAndFail(w, ch).fat[c] = 0
          BY ONLY <5>1, FreedAll
        <5> QED
          BY <4>1, <5>2
      <4> QED
        BY <4>2, <4>3 DEF Written
    <3>8. CASE w.ok
      <4>1. /\ Twin(x, y, ToSet(ch), u.data) /\ Good(y) /\ Links(y.fat)
            /\ IsHead(y.fat, ch[1]) /\ ChainIn(y.fat, ch[1]) = ch
        BY <1>1, <3>1, <3>4, <3>8, TwinEnter DEF x, y, entry
      <4>2. x.ok = y.ok
        BY <4>1 DEF Twin
      <4>3. CASE ~ y.ok
        <5>1. g = FreeAndFail(x, ch) /\ g2 = FreeAndFail(y, ch)
          BY <2>2, <2>6, <3>5, <3>8, <4>2, <4>3
        <5>2. Twin(g, g2, ToSet(ch), u.data)
          BY <4>1, <5>1, TwinGivesUp
        <5>3. g2.ok = FALSE /\ \A c \in ToSet(ch) : g2.fat[c] = 0
          <6>1. Good(y) /\ Links(y.fat) /\ ch # <<>> /\ IsHead(y.fat, ch[1]) /\ ChainIn(y.fat, ch[1]) = ch
            BY <3>2, <4>1
          <6>2. FreeAndFail(y, ch).ok = FALSE /\ \A c \in ToSet(ch) : FreeAndFail(y, ch).fat[c] = 0
            BY ONLY <6>1, FreedAll
          <6> QED
            BY <5>1, <6>2
        <5> QED
          BY <5>2, <5>3 DEF Written
      <4>4. CASE y.ok
        <5>1. g = x /\ g2 = y
          BY <2>2, <2>6, <3>5, <3>8, <4>2, <4>4
        <5>2. \A j \in 1..Len(ch) : u.data[ch[j]] = Page(s, j)
          BY <3>4, <3>5, <3>8
        <5> QED
          BY <4>1, <4>4, <5>1, <5>2 DEF Written, a, t
      <4> QED
        BY <4>3, <4>4
    <3> QED
      BY <3>7, <3>8
  <2> QED
    BY <2>5, <2>6
<1> QED
  BY <1>6, <1>7


-----------------------------------------------------------------------------
(***************************************************************************)
(* The twins show the same tree, but for the copy at q and what is below   *)
(* it.                                                                     *)
(***************************************************************************)
HoldsCopy(y, q, S) == IsHead(y.fat, ResolvePath(y, q)) /\ S = ClustersOf(y.fat, ResolvePath(y, q))

\* No other path leads to the clusters of the copy.
LEMMA CopyBeside ==
  ASSUME NEW y, Healthy(y), NEW T, NEW q \in Seq(T), NEW S, HoldsCopy(y, q, S),
         NEW r \in Seq(T), r # q
  PROVE  Beside(y, S, ResolvePath(y, r))
<1>1. Links(y.fat) /\ IsHead(y.fat, ResolvePath(y, q))
  BY HealthyIs DEF HoldsCopy
<1>2. ResolvePath(y, q) # 0
  BY <1>1, EntriesAre DEF IsHead
<1>3. ResolvePath(y, r) # ResolvePath(y, q)
  BY <1>2, PathOnce
<1>4. HeadOrNone(y.fat, ResolvePath(y, r))
  <2>1. CASE r = <<>>
    BY <1>1, <2>1, ResolveRoot, RootIsHead DEF HeadOrNone
  <2>2. CASE r # <<>>
    BY <2>2, ParentIs
  <2> QED
    BY <2>1, <2>2
<1> QED
  BY <1>1, <1>3, <1>4, ClustersApart DEF Beside, HoldsCopy

\* A path that does not go through q leads to the same place on both.
LEMMA TwinWay ==
  ASSUME NEW x, NEW y, NEW S, NEW X, Twin(x, y, S, X), Healthy(y),
         NEW T, NEW q \in Seq(T), q # <<>>, HoldsCopy(y, q, S)
  PROVE  \A r \in Seq(T) : ~ Starts(q, r) => ResolvePath(x, r) = ResolvePath(y, r)
<1> DEFINE Holds0(m) == \A r \in Seq(T) : Len(r) = m /\ ~ Starts(q, r) => ResolvePath(x, r) = ResolvePath(y, r)
           I == {m \in Nat : Holds0(m)}
<1>1. IsDisk(x) /\ IsDisk(y) /\ Links(y.fat)
  BY GoodDisk, HealthyIs DEF Twin
<1>2. Holds0(0)
  <2>1. \A r \in Seq(T) : Len(r) = 0 => r = <<>>
    OBVIOUS
  <2> QED
    BY <1>1, <2>1, ResolveStep
<1>3. ASSUME NEW m \in Nat, Holds0(m) PROVE Holds0(m + 1)
  <2> SUFFICES ASSUME NEW r \in Seq(T), Len(r) = m + 1, ~ Starts(q, r)
               PROVE  ResolvePath(x, r) = ResolvePath(y, r)
    OBVIOUS
  <2>1. r # <<>>
    OBVIOUS
  <2>2. Front(r) \in Seq(T) /\ Len(Front(r)) = m
    BY <2>1, FrontIs
  <2>3. ~ Starts(q, Front(r)) /\ Front(r) # q
    BY <2>1, <2>2, StartsIs
  <2>4. ResolvePath(x, Front(r)) = ResolvePath(y, Front(r))
    BY <1>3, <2>2, <2>3
  <2>5. /\ ResolvePath(x, r) = Into(x, ResolvePath(x, Front(r)), Last(r))
        /\ ResolvePath(y, r) = Into(y, ResolvePath(y, Front(r)), Last(r))
    BY <1>1, <2>1, ResolveStep
  <2>6. Beside(y, S, ResolvePath(y, Front(r)))
    BY <2>2, <2>3, CopyBeside
  <2> HIDE DEF Holds0
  <2>7. Into(x, ResolvePath(y, Front(r)), Last(r)) = Into(y, ResolvePath(y, Front(r)), Last(r))
    BY <1>1, <2>6, TwinFind
  <2> QED
    BY <2>4, <2>5, <2>7
<1> HIDE DEF Holds0
<1>4. \A m \in Nat : m \in I
  <2>1. 0 \in I /\ \A m \in Nat : m \in I => m + 1 \in I
    BY <1>2, <1>3
  <2> HIDE DEF I
  <2> QED
    BY <2>1, NatInd
<1>5. \A r \in Seq(T) : Len(r) \in Nat
  OBVIOUS
<1> QED
  BY <1>4, <1>5 DEF Holds0

\* r has the same entry on both.
SameRecord(x, y, r) ==
  /\ Parent(x, r) = Parent(y, r) /\ ResolvePath(x, r) = ResolvePath(y, r)
  /\ EntryOf(x, r) = EntryOf(y, r) /\ (Found(x, r) <=> Found(y, r))
  /\ Found(y, r) => EntryAt(x, r) = EntryAt(y, r)

\* An entry on a way that does not go through the copy is the same on both disks.
LEMMA TwinEntry ==
  ASSUME NEW x, NEW y, NEW S, NEW X, Twin(x, y, S, X), Healthy(y),
         NEW T, NEW q \in Seq(T), q # <<>>, HoldsCopy(y, q, S),
         NEW r \in Seq(T), r # <<>>, ~ Starts(q, Front(r))
  PROVE  SameRecord(x, y, r)
<1> DEFINE c == Parent(y, r)
           n == Last(r)
<1>1. IsDisk(x) /\ IsDisk(y) /\ Links(y.fat)
  BY GoodDisk, HealthyIs DEF Twin
<1>2. Front(r) \in Seq(T) /\ Front(r) # q
  BY FrontIs, StartsIs
<1>3. Parent(x, r) = c
  BY <1>2, TwinWay DEF Parent
<1>4. Beside(y, S, c)
  BY <1>2, CopyBeside DEF Parent
<1>5. ResolvePath(x, r) = Into(x, Parent(x, r), n) /\ ResolvePath(y, r) = Into(y, c, n)
  BY <1>1, ResolveStep DEF Parent
<1> HIDE DEF c
<1>6. /\ FindEntry(x, c, n) = FindEntry(y, c, n) /\ Into(x, c, n) = Into(y, c, n)
      /\ FindEntry(y, c, n) # <<>> => RowAt(x, FindEntry(y, c, n)) = RowAt(y, FindEntry(y, c, n))
  BY <1>1, <1>4, TwinFind
<1>7. EntryOf(x, r) = FindEntry(x, c, n) /\ EntryOf(y, r) = FindEntry(y, c, n)
  BY <1>3 DEF EntryOf, c
<1> QED
  BY <1>3, <1>5, <1>6, <1>7 DEF SameRecord, Found, EntryAt, c

\* The entry of a file leads to its clusters.
LEMMA EntryLeads ==
  ASSUME NEW y, Healthy(y), NEW T, NEW r \in Seq(T), r # <<>>, Found(y, r)
  PROVE  /\ EntryAt(y, r).first = ResolvePath(y, r) /\ EntryAt(y, r).size \in Nat
         /\ HeadOrNone(y.fat, ResolvePath(y, r))
         /\ IsHead(y.fat, ResolvePath(y, r)) => EntryAt(y, r).size <= Room(y.fat, ResolvePath(y, r))
<1> DEFINE row == EntryAt(y, r)
           c   == ResolvePath(y, r)
           pl  == FindEntry(y, Parent(y, r), Last(r))
<1>1. /\ c = Into(y, Parent(y, r), Last(r)) /\ row = RowIn(y.data, pl) /\ pl # <<>>
      /\ HeadOrNone(y.fat, Parent(y, r)) /\ HeadOrNone(y.fat, c)
  BY ParentIs DEF EntryOf, EntryAt, RowAt, RowIn, Found
<1>2. EntryPlace(y, Parent(y, r), Last(r), pl) /\ c = row.first
  BY <1>1, IntoIs
<1>3. row.size \in Nat
  BY <1>1, <1>2, HealthyIs, RowInIs DEF EntryPlace
<1>4. NameHead(y.fat, row)
  BY <1>1, <1>2, HealthyIs DEF Sound, EntryPlace
<1> HIDE DEF row, c, pl
<1>5. IsHead(y.fat, c) => row.size <= Room(y.fat, c)
  BY <1>2, <1>4, EntriesAre DEF NameHead, IsHead
<1> QED
  BY <1>1, <1>2, <1>3, <1>5 DEF row, c

\* What is not below q, nor q, is the same on both.
LEMMA TwinSeen ==
  ASSUME NEW x, NEW y, NEW S, NEW X, Twin(x, y, S, X), Healthy(y),
         NEW T, NEW q \in Seq(T), q # <<>>, HoldsCopy(y, q, S),
         NEW r \in Seq(T), r # <<>>, ~ Starts(q, r)
  PROVE  SameRecord(x, y, r) /\ SameSeen(y, x, r)
<1>1. ~ Starts(q, Front(r)) /\ r # q
  BY FrontIs, StartsIs
<1>2. SameRecord(x, y, r)
  BY <1>1, TwinEntry
<1>3. ASSUME Found(y, r) PROVE Content(x, r) = Content(y, r)
  <2> DEFINE row == EntryAt(y, r)
             c   == ResolvePath(y, r)
  <2>1. row.first = c /\ row.size \in Nat
    BY <1>3, EntryLeads
  <2>2. EntryAt(x, r) = row
    BY <1>2, <1>3 DEF SameRecord
  <2>3. Beside(y, S, c) /\ Links(y.fat)
    BY <1>1, CopyBeside, HealthyIs
  <2> HIDE DEF row, c
  <2>4. /\ Chain(x, c) = Chain(y, c) /\ Readable(Chain(y, c)) \in Seq(2..LastCluster)
        /\ \A pl \in PlacesOf(Readable(Chain(y, c))) : RowAt(x, pl) = RowAt(y, pl)
    BY <2>3, TwinChain
  <2>5. TextIn(x, Readable(Chain(x, c)), row.size) = TextIn(y, Readable(Chain(y, c)), row.size)
    BY <2>1, <2>4, TextSame
  <2>6. WholeText(x, r) = WholeText(y, r)
    BY <2>1, <2>2, <2>5 DEF WholeText, row
  <2> QED
    BY <2>2, <2>6 DEF Content, row
<1> QED
  BY <1>2, <1>3 DEF SameSeen, SameRecord

\* fat32_delete of p on both, when q is neither p nor before p.
LEMMA TwinDeleteFile ==
  ASSUME NEW x, NEW y, NEW S, NEW X, Twin(x, y, S, X), Healthy(y),
         NEW T, NEW q \in Seq(T), q # <<>>, HoldsCopy(y, q, S),
         NEW p \in Seq(T), p # <<>>, ~ Starts(q, p)
  PROVE  Twin(DeleteFile(x, p), DeleteFile(y, p), S, X)
<1> DEFINE dir == Parent(y, p)
           c   == ResolvePath(y, p)
           n   == Last(p)
           u   == FatFreeChain(x, c)
           w   == FatFreeChain(y, c)
<1>1. SameRecord(x, y, p)
  BY TwinSeen
<1>2. /\ DeleteFile(x, p) = IF dir = 0 \/ ~ Found(y, p) THEN Fails(x) ELSE DeleteEntry(u, dir, n)
      /\ DeleteFile(y, p) = IF dir = 0 \/ ~ Found(y, p) THEN Fails(y) ELSE DeleteEntry(w, dir, n)
  BY <1>1 DEF DeleteFile, SameRecord
<1>3. CASE dir = 0 \/ ~ Found(y, p)
  BY <1>2, <1>3, TwinFails
<1>4. CASE dir # 0 /\ Found(y, p)
  <2>1. Links(y.fat) /\ HeadOrNone(y.fat, c) /\ Good(y)
    BY HealthyIs, ParentIs DEF Twin
  <2>2. Twin(u, w, S, X)
    BY <2>1, TwinFreeChain
  <2>3. Front(p) \in Seq(T) /\ Front(p) # q
    BY FrontIs, StartsIs
  <2>4. Beside(y, S, dir)
    BY <2>3, CopyBeside DEF Parent
  <2>5. IsHead(y.fat, dir)
    BY <1>4, FoundFront
  <2>6. Links(w.fat) /\ Beside(w, S, dir)
    <3>1. CASE c \notin Entries
      BY <2>1, <2>4, <3>1, FreeNone
    <3>2. CASE c \in Entries
      <4>1. c # 0 /\ IsHead(y.fat, c) /\ c # Root
        <5>1. c # 0 /\ IsHead(y.fat, c)
          BY <2>1, <3>2, EntriesAre DEF HeadOrNone
        <5>2. c = Into(y, dir, n) /\ HeadOrNone(y.fat, dir)
          BY ParentIs
        <5> HIDE DEF c
        <5> QED
          BY <5>1, <5>2, IntoIs
      <4>2. c # dir
        BY <4>1, ParentApart
      <4> HIDE DEF dir, c
      <4>3. w.fat = Freed(y.fat, ClustersOf(y.fat, c))
        <5> DEFINE z == FatFreeChain(y, c)
        <5>1. Good(z) /\ z.fat = Freed(y.fat, ClustersOf(y.fat, c)) /\ z.data = y.data /\ z.ok = y.ok
          BY <2>1, <4>1, FreeChainIs
        <5> QED
          BY <5>1
      <4> DEFINE fat2 == Freed(y.fat, ClustersOf(y.fat, c))
      <4>4. /\ Links(fat2)
            /\ \A h : IsHead(y.fat, h) /\ h # c =>
                 /\ IsHead(fat2, h) /\ ChainIn(fat2, h) = ChainIn(y.fat, h)
                 /\ ClustersOf(fat2, h) = ClustersOf(y.fat, h)
        BY <2>1, <4>1, FreedLinks
      <4> HIDE DEF fat2, w
      <4> QED
        BY <2>4, <2>5, <4>2, <4>3, <4>4 DEF Beside, HeadOrNone, fat2
    <3> QED
      BY <3>1, <3>2
  <2> HIDE DEF u, w, dir
  <2>7. Twin(DeleteEntry(u, dir, n), DeleteEntry(w, dir, n), S, X)
    BY <2>2, <2>6, TwinDelete
  <2> QED
    BY <1>2, <1>4, <2>7 DEF dir
<1> QED
  BY <1>3, <1>4


\* Where fat32_write puts a text, when it succeeds.
CopyIn(g, q, t, ch) ==
  /\ ch \in Seq(Entries) /\ Found(g, q) /\ ResolvePath(g, q) = ch[1]
  /\ IsHead(g.fat, ch[1]) /\ ChainIn(g.fat, ch[1]) = ch
  /\ EntryAt(g, q).size = Len(t) /\ EntryAt(g, q).dir = FALSE
  /\ Fits(t, Len(ch)) /\ \A j \in 1..Len(ch) : OnDisk(ch[j])

\* The text is in the chain that was taken for it, and the path leads there.
LEMMA CopyTaken ==
  ASSUME NEW d, Good(d), Healthy(d), d.log = <<>>, NEW q \in Seq(ShortNames), q # <<>>,
         NEW t \in Seq(PlainRows), t # <<>>, NEW g, g = WriteFile(d, q, t), g.ok
  PROVE  CopyIn(g, q, t, Taken(d, q, t).ch)
<1> DEFINE a     == Taken(d, q, t)
           f     == Copy(d, q, t)
           entry == NewEntry(d, q, t)
           dir   == Parent(d, q)
           ch    == a.ch
           h     == ch[1]
<1>1. Entered(d, q, t, g)
  BY WriteEnters
<1>2. /\ f.ok /\ Filled(Emptied(d, q), dir, Last(q), t, a, f)
      /\ Good(g) /\ Healthy(g) /\ HeadsStay(f, g, dir)
  BY <1>1 DEF Entered
<1>3. /\ ch \in Seq(Entries) /\ Fits(t, Len(ch)) /\ h # dir
      /\ IsHead(f.fat, h) /\ ChainIn(f.fat, h) = ch
      /\ \A j \in 1..Len(ch) : OnDisk(ch[j])
  BY <1>2 DEF Filled
<1>4. Placed(d, q, t, g)
  BY <1>1, IsPlaced
<1>5. Spares(GuardOf(d, q), g.fat, g.data)
  BY GuardOfIs, GuardWrite DEF Guards
<1>6. dir # 0
  BY <1>1 DEF Entered
<1>7. Parent(g, q) = dir
  BY <1>2, <1>5, <1>6, HealthyIs, ParentStays
<1>8. entry.first = h /\ entry.dir = FALSE /\ entry.size = Len(t)
  BY DEF NewEntry, TextEntry
<1> HIDE DEF a, f, entry, dir, ch, h
<1>9. ResolvePath(g, q) = h
  <2>1. ResolvePath(g, q) = Into(g, dir, Last(q))
    BY <1>2, <1>7, ParentIs
  <2> QED
    BY <1>4, <1>8, <2>1 DEF Placed, Into, FirstCluster, dir, entry
<1>10. IsHead(g.fat, h) /\ ChainIn(g.fat, h) = ch
  BY <1>2, <1>3 DEF HeadsStay
<1>11. Found(g, q) /\ EntryAt(g, q) = entry
  BY <1>4, <1>7 DEF Placed, Found, EntryOf, EntryAt, dir, entry
<1>12. CopyIn(g, q, t, ch)
  BY <1>3, <1>8, <1>9, <1>10, <1>11 DEF CopyIn, h
<1> QED
  BY <1>12 DEF ch, a

\* The next call begins with an empty log.
LEMMA Reopened ==
  ASSUME NEW y, Good(y), Healthy(y), TidyDisk(y), NEW z, z = [y EXCEPT !.log = <<>>]
  PROVE  /\ Good(z) /\ Healthy(z) /\ TidyDisk(z) /\ z.log = <<>>
         /\ z.fat = y.fat /\ z.data = y.data /\ z.ok = y.ok /\ SameUsed(y, z)
<1> DEFINE logs == Seq(Fats \X Datas)
<1>1. y \in [fat : Fats, data : Datas, cache : Caches, log : logs, ok : BOOLEAN] /\ Current(y)
  BY GoodFields DEF Works
<1>2. /\ z \in Works /\ z.log = <<>> /\ z.fat = y.fat /\ z.data = y.data /\ z.ok = y.ok
      /\ z.cache = y.cache
  <2>1. <<>> \in logs
    OBVIOUS
  <2> HIDE DEF logs
  <2>2. /\ z \in [fat : Fats, data : Datas, cache : Caches, log : logs, ok : BOOLEAN]
        /\ z.log = <<>> /\ z.fat = y.fat /\ z.data = y.data /\ z.ok = y.ok /\ z.cache = y.cache
    BY <1>1, <2>1
  <2> QED
    BY <2>2 DEF Works, logs
<1>3. Good(z)
  BY <1>1, <1>2 DEF Good, Current
<1>4. Healthy(z)
  BY <1>2, <1>3, GoodDisk DEF Healthy
<1>5. TidyDisk(z)
  BY <1>2, TidySame
<1>6. SameUsed(y, z)
  BY <1>2 DEF SameUsed, RowAt
<1> QED
  BY <1>2, <1>3, <1>4, <1>5, <1>6

\* fat32_delete of p leaves what another path leads to.
LEMMA CopyKept ==
  ASSUME NEW y, Healthy(y), NEW p \in Seq(ShortNames), p # <<>>, NEW z, Good(z), Healthy(z),
         Spares(GuardOf(y, p), z.fat, z.data), NEW q \in Seq(ShortNames), q # <<>>,
         ~ Starts(p, q), ~ Starts(q, p), Found(y, q), IsHead(y.fat, ResolvePath(y, q))
  PROVE  /\ Found(z, q) /\ ResolvePath(z, q) = ResolvePath(y, q) /\ EntryAt(z, q) = EntryAt(y, q)
         /\ IsHead(z.fat, ResolvePath(y, q))
         /\ ChainIn(z.fat, ResolvePath(y, q)) = ChainIn(y.fat, ResolvePath(y, q))
<1> DEFINE c == ResolvePath(y, q)
<1>1. IsDisk(z) /\ IsDisk(y) /\ Links(y.fat) /\ Links(z.fat)
  BY HealthyIs
<1>2. SameEntry(y, z, q)
  BY <1>1, PathKept
<1>3. Found(z, q) /\ ResolvePath(z, q) = c /\ EntryAt(z, q) = EntryAt(y, q)
  BY <1>2 DEF SameEntry, Found, EntryAt
<1>4. c # 0 /\ c \in Entries
  BY EntriesAre DEF IsHead
<1>5. c # Parent(y, p)
  <2>1. SUFFICES ASSUME c = Parent(y, p) PROVE FALSE
    OBVIOUS
  <2>2. Front(p) \in Seq(ShortNames) /\ Starts(Front(p), p)
    BY StartsIs
  <2>3. q = Front(p)
    BY <1>4, <2>1, <2>2, PathOnce DEF Parent
  <2> QED
    BY <2>2, <2>3
<1>6. c \in Away(y, p)
  BY <1>4, <1>5, AwayIs
<1>7. Chain(z, c) = Chain(y, c)
  BY <1>1, <1>6, AwayKept
<1>8. IsHead(z.fat, c)
  <2>1. HeadOrNone(z.fat, ResolvePath(z, q))
    BY ParentIs
  <2> QED
    BY <1>3, <1>4, <2>1 DEF HeadOrNone
<1>9. ChainIn(z.fat, c) = ChainIn(y.fat, c)
  BY <1>1, <1>7, <1>8, ReadableChain
<1> QED
  BY <1>3, <1>8, <1>9

\* The copy has the text, on the disk whose twin has zeros there.
LEMMA CopyHasText ==
  ASSUME NEW x, NEW y, NEW S, NEW X, Twin(x, y, S, X), Healthy(y),
         NEW q \in Seq(ShortNames), q # <<>>, NEW T, NEW s \in Seq(T), NEW t, Len(t) = Len(s), NEW ch,
         CopyIn(y, q, t, ch), S = ToSet(ch), \A j \in 1..Len(ch) : X[ch[j]] = Page(s, j)
  PROVE  Found(x, q) /\ Content(x, q) = [dir |-> FALSE, text |-> s]
<1>1. /\ ch \in Seq(Entries) /\ Found(y, q) /\ ResolvePath(y, q) = ch[1]
      /\ IsHead(y.fat, ch[1]) /\ ChainIn(y.fat, ch[1]) = ch
      /\ EntryAt(y, q).size = Len(s) /\ EntryAt(y, q).dir = FALSE
      /\ Fits(s, Len(ch)) /\ \A j \in 1..Len(ch) : OnDisk(ch[j])
  BY DEF CopyIn, Fits
<1>2. HoldsCopy(y, q, S)
  BY <1>1 DEF HoldsCopy, ClustersOf
<1>3. ~ Starts(q, Front(q))
  BY FrontIs DEF Starts
<1>4. SameRecord(x, y, q)
  BY <1>2, <1>3, TwinEntry
<1>5. Found(x, q) /\ EntryAt(x, q) = EntryAt(y, q)
  BY <1>1, <1>4 DEF SameRecord
<1>6. EntryAt(y, q).first = ch[1] /\ EntryAt(y, q).size <= Room(y.fat, ch[1])
  BY <1>1, EntryLeads
<1>7. IsDisk(x) /\ Links(x.fat) /\ x.fat = y.fat
  BY GoodDisk, HealthyIs DEF Twin
<1>8. Paged(x.data, ch, s)
  <2> SUFFICES ASSUME NEW j \in 1..Len(ch), NEW i \in 1..Rows
               PROVE  x.data[ch[j]][i] = Page(s, j)[i]
    BY DEF Paged
  <2> DEFINE pl == <<ch[j], i>>
  <2>1. ch[j] \in ToSet(ch) /\ ch[j] \in Entries
    BY <1>1, ToSetIs
  <2>2. ch[j] \in 2..LastCluster
    BY <1>1, <2>1, EntriesAre
  <2>3. pl \in Places /\ pl[1] = ch[j] /\ pl[2] = i
    BY <2>2 DEF Places
  <2> HIDE DEF pl
  <2>4. RowIn(x.data, pl) = RowIn(X, pl)
    BY <2>1, <2>3 DEF Twin
  <2> QED
    BY <2>3, <2>4 DEF RowIn
<1>9. TextIn(x, Readable(Chain(x, ch[1])), Len(s)) = s
  BY <1>1, <1>6, <1>7, <1>8, TextBack
<1>10. WholeText(x, q) = s
  BY <1>1, <1>5, <1>6, <1>9 DEF WholeText
<1> QED
  BY <1>1, <1>5, <1>10 DEF Content


\* What mv reads: the whole text of the file.
Source(d, p, s) ==
  /\ Found(d, p) /\ EntryAt(d, p).size = Len(s) /\ EntryAt(d, p).dir = FALSE /\ WholeText(d, p) = s
  /\ s # <<>> /\ s # Error /\ ReadFile(d, p, Len(s), 0) = s

\* A file with a size is read as a whole, and what is read is no error.
LEMMA SourceIs ==
  ASSUME NEW d, Good(d), Healthy(d), NEW p \in Seq(ShortNames), p # <<>>, Found(d, p), EntryAt(d, p).size > 0
  PROVE  \E s \in Seq(RowSet) : Source(d, p, s)
<1> DEFINE row  == EntryAt(d, p)
           c    == ResolvePath(d, p)
           s    == WholeText(d, p)
           size == row.size
<1>1. /\ row.first = c /\ size \in Nat /\ HeadOrNone(d.fat, c)
      /\ IsHead(d.fat, c) => size <= Room(d.fat, c)
  BY EntryLeads
<1>2. IsDisk(d) /\ Links(d.fat) /\ size > 0
  BY HealthyIs
<1>3. /\ c = Into(d, Parent(d, p), Last(p)) /\ HeadOrNone(d.fat, Parent(d, p))
      /\ row = RowIn(d.data, FindEntry(d, Parent(d, p), Last(p)))
      /\ FindEntry(d, Parent(d, p), Last(p)) # <<>>
  BY ParentIs DEF EntryOf, EntryAt, RowAt, RowIn, Found
<1>4. EntryPlace(d, Parent(d, p), Last(p), FindEntry(d, Parent(d, p), Last(p)))
  BY <1>3, IntoIs
<1>5. row \in EntryRows /\ NameHead(d.fat, row)
  <2>1. row \in RowSet /\ row.kind = "entry"
    BY <1>3, <1>4, HealthyIs, RowInIs DEF EntryPlace, IsEntry
  <2>2. NameHead(d.fat, row)
    BY <1>3, <1>4, HealthyIs DEF EntryPlace, Sound
  <2> HIDE DEF row
  <2> QED
    BY <2>1, <2>2, RowKinds
<1> HIDE DEF row, c
<1>6. row.dir = FALSE
  <2>1. row.dir \in BOOLEAN /\ (row.dir => row.size = 0)
    BY <1>5 DEF EntryRows, AnyEntry
  <2> QED
    BY <1>1, <1>2, <2>1
<1>7. IsHead(d.fat, c)
  BY <1>1, <1>2, <1>5 DEF NameHead
<1>8. s \in Seq(RowSet) /\ Len(s) = size
  <2>1. Chain(d, c) = ChainIn(d.fat, c)
    BY <1>2, <1>7, ReadableChain
  <2>2. s = TextIn(d, Readable(ChainIn(d.fat, c)), size)
    BY <1>1, <2>1 DEF WholeText, row
  <2> HIDE DEF s, size
  <2>3. size <= Room(d.fat, c) /\ size \in Nat
    BY <1>1, <1>7
  <2> QED
    BY <1>2, <1>7, <2>2, <2>3, TextIs
<1>9. s # <<>> /\ Len(s) \in Nat \ {0}
  BY <1>1, <1>2, <1>8
<1>10. s # Error
  <2>1. SUFFICES ASSUME s = Error PROVE FALSE
    OBVIOUS
  <2>2. [kind |-> "error"] \in RowSet
    BY <1>8, <2>1 DEF Error
  <2>3. [kind |-> "error"] \notin PlainRows
    BY DEF PlainRows, TextRows, Zero, Gone, Dot
  <2>4. [kind |-> "error"] \notin EntryRows
    BY RowKinds
  <2> QED
    BY <2>2, <2>3, <2>4 DEF RowSet
<1>11. ReadFile(d, p, Len(s), 0) = s
  <2>1. ReadFile(d, p, Len(s), 0) = SubSeq(s, 0 + 1, Min({0 + Len(s), EntryAt(d, p).size}))
    BY <1>9, ReadFileIs
  <2> HIDE DEF s
  <2>2. Min({0 + Len(s), EntryAt(d, p).size}) = Len(s)
    BY <1>8, <1>9, MinTwo DEF row
  <2>3. SubSeq(s, 0 + 1, Len(s)) = s
    BY <1>8
  <2> QED
    BY <2>1, <2>2, <2>3, Zenon
<1>12. Source(d, p, s)
  <2> HIDE DEF s
  <2>1. s = WholeText(d, p)
    BY DEF s
  <2> QED
    BY <1>6, <1>8, <1>9, <1>10, <1>11, <2>1 DEF Source, row
<1> HIDE DEF s
<1> QED
  BY <1>8, <1>12

\* mv leaves s under one of the names, and everything else as it was.
Aside(p, q, r) == r # <<>> /\ ~ Starts(p, r) /\ ~ Starts(r, p) /\ ~ Starts(q, r) /\ ~ Starts(r, q)

Moved(d, after, p, q, s) ==
  LET new == IF after.ok THEN q ELSE p
  IN  /\ Found(after, new) /\ Content(after, new) = [dir |-> FALSE, text |-> s]
      /\ after.ok => ~ Found(after, p)
      /\ \A r \in Seq(ShortNames) : Aside(p, q, r) /\ Found(d, r) =>
           Found(after, r) /\ Content(after, r) = Content(d, r)

\* What fat32_write of zeros at q does to the rest.
LEMMA ZerosConcern ==
  ASSUME NEW d, Good(d), Healthy(d), d.log = <<>>, TidyDisk(d), NEW q \in Seq(ShortNames), q # <<>>,
         NEW t \in Seq(PlainRows), NEW g, g = WriteFile(d, q, t)
  PROVE  Good(g) /\ Healthy(g) /\ TidyDisk(g) /\ Concern(d, g, q)
<1>1. Good(g) /\ Healthy(g)
  BY WriteFileIs
<1>2. Outcome(d, g, q)
  BY WriteOutcome
<1>3. Spares(GuardOf(d, q), g.fat, g.data)
  BY GuardOfIs, GuardWrite DEF Guards
<1> QED
  BY <1>1, <1>2, <1>3, ConcernIs DEF Outcome

\* The copy cannot be made: what it took is free again.
LEMMA NotMoved ==
  ASSUME NEW d, NEW y, Healthy(y), NEW x, NEW S, NEW X, Twin(x, y, S, X), ~ y.ok,
         \A c \in S : y.fat[c] = 0, NEW p \in Seq(ShortNames), p # <<>>,
         NEW q \in Seq(ShortNames), ~ Starts(p, q), ~ Starts(q, p), Concern(d, y, q),
         NEW s, Source(d, p, s)
  PROVE  Moved(d, x, p, q, s)
<1>1. SameUsed(y, x) /\ IsDisk(x) /\ ~ x.ok
  <2>1. \A pl \in Used(y.fat) : pl \in Places /\ pl[1] \notin S
    BY DEF Used
  <2>2. \A pl \in Used(y.fat) : RowIn(x.data, pl) = RowIn(y.data, pl)
    BY <2>1 DEF Twin
  <2>3. x.fat = y.fat /\ IsDisk(x) /\ ~ x.ok
    BY GoodDisk DEF Twin
  <2> QED
    BY <2>2, <2>3 DEF SameUsed, RowAt, RowIn
<1>2. \A r \in Seq(ShortNames) : r # <<>> => SameSeen(y, x, r)
  BY <1>1, TreeSame
<1>3. \A r \in Seq(ShortNames) : r # <<>> /\ ~ Starts(q, r) /\ ~ Starts(r, q) /\ Found(d, r) =>
        Found(x, r) /\ Content(x, r) = Content(d, r)
  BY <1>2 DEF Concern, SameSeen
<1>4. Found(d, p) /\ Content(d, p) = [dir |-> FALSE, text |-> s]
  BY DEF Source, Content
<1> QED
  BY <1>1, <1>3, <1>4 DEF Moved, Aside


\* The copy is made, and the source deleted on both disks.
LEMMA DeletedSource ==
  ASSUME NEW x, NEW y, NEW S, NEW X, Twin(x, y, S, X), Good(y), Healthy(y), TidyDisk(y), y.log = <<>>,
         NEW p \in Seq(ShortNames), p # <<>>, NEW q \in Seq(ShortNames), q # <<>>,
         ~ Starts(p, q), ~ Starts(q, p), Found(y, p),
         NEW t, NEW ch, CopyIn(y, q, t, ch), S = ToSet(ch),
         NEW u, u = DeleteFile(x, p), NEW w, w = DeleteFile(y, p)
  PROVE  /\ Twin(u, w, S, X) /\ Healthy(w) /\ w.ok = y.ok /\ Concern(y, w, p)
         /\ CopyIn(w, q, t, ch) /\ HoldsCopy(w, q, S) /\ ~ Found(w, p)
<1>1. IsHead(y.fat, ResolvePath(y, q)) /\ ResolvePath(y, q) = ch[1] /\ ChainIn(y.fat, ch[1]) = ch
      /\ Found(y, q)
  BY DEF CopyIn
<1>2. HoldsCopy(y, q, S)
  BY <1>1 DEF HoldsCopy, ClustersOf
<1>3. Twin(u, w, S, X)
  BY <1>2, TwinDeleteFile
<1>4. Good(w) /\ Healthy(w)
  BY DeleteFileIs
<1>5. Spares(GuardOf(y, p), w.fat, w.data)
  BY GuardOfIs, GuardDeleteFile DEF Guards
<1>6. /\ Outcome(y, w, p)
      /\ Parent(y, p) # 0 /\ Found(y, p) => Lacks(w, Parent(y, p), Last(p)) /\ w = Emptied(y, p)
  BY DeleteOutcome
<1>7. w.ok = y.ok
  <2>1. w = Emptied(y, p)
    BY <1>6, FoundFront
  <2> QED
    BY <2>1, EmptiedTidy
<1>8. Concern(y, w, p)
  BY <1>4, <1>5, <1>6, ConcernIs
<1>9. ~ Found(w, p)
  BY DeleteSeen
<1>10. /\ Found(w, q) /\ ResolvePath(w, q) = ResolvePath(y, q) /\ EntryAt(w, q) = EntryAt(y, q)
       /\ IsHead(w.fat, ResolvePath(y, q))
       /\ ChainIn(w.fat, ResolvePath(y, q)) = ChainIn(y.fat, ResolvePath(y, q))
  BY <1>1, <1>4, <1>5, CopyKept
<1>11. CopyIn(w, q, t, ch)
  BY <1>1, <1>10 DEF CopyIn
<1>12. HoldsCopy(w, q, S)
  BY <1>1, <1>10 DEF HoldsCopy, ClustersOf
<1> QED
  BY <1>3, <1>4, <1>7, <1>8, <1>9, <1>11, <1>12

\* The source is gone on both disks, and the copy has the text.
LEMMA IsMoved ==
  ASSUME NEW d, NEW y, Healthy(y), NEW x, NEW S, NEW X, Twin(x, y, S, X), y.ok,
         NEW p \in Seq(ShortNames), p # <<>>, NEW q \in Seq(ShortNames), q # <<>>,
         ~ Starts(p, q), ~ Starts(q, p), ~ Found(y, p),
         NEW s \in Seq(RowSet), NEW t, Len(t) = Len(s), NEW ch, CopyIn(y, q, t, ch),
         HoldsCopy(y, q, S), S = ToSet(ch), \A j \in 1..Len(ch) : X[ch[j]] = Page(s, j),
         \A r \in Seq(ShortNames) : Aside(p, q, r) /\ Found(d, r) =>
           Found(y, r) /\ Content(y, r) = Content(d, r)
  PROVE  Moved(d, x, p, q, s)
<1>1. x.ok
  BY DEF Twin
<1>2. Found(x, q) /\ Content(x, q) = [dir |-> FALSE, text |-> s]
  BY CopyHasText
<1>3. \A r \in Seq(ShortNames) : r # <<>> /\ ~ Starts(q, r) => SameSeen(y, x, r)
  BY TwinSeen
<1>4. ~ Found(x, p)
  BY <1>3 DEF SameSeen
<1>5. \A r \in Seq(ShortNames) : Aside(p, q, r) /\ Found(d, r) =>
        Found(x, r) /\ Content(x, r) = Content(d, r)
  BY <1>3 DEF SameSeen, Aside
<1> QED
  BY <1>1, <1>2, <1>4, <1>5 DEF Moved

\* mv, from the name p to the name q.
LEMMA MoveIs ==
  ASSUME NEW d, Good(d), Healthy(d), d.log = <<>>, TidyDisk(d),
         NEW p \in Seq(ShortNames), p # <<>>, NEW q \in Seq(ShortNames), q # <<>>,
         ~ Starts(p, q), ~ Starts(q, p), NEW s \in Seq(RowSet), Source(d, p, s)
  PROVE  Moved(d, Move(d, p, q), p, q, s)
<1> DEFINE t  == Zeros(s)
           g  == WriteFile(d, q, s)
           g2 == WriteFile(d, q, t)
           ch == Taken(d, q, t).ch
<1>1. t \in Seq(PlainRows) /\ Len(t) = Len(s) /\ t # <<>> /\ s # <<>> /\ Len(s) # 0
  BY ZerosAre DEF Source
<1>2. Move(d, p, q) = IF g.ok THEN DeleteFile(g, p) ELSE g
  <2>1. /\ Found(d, p) /\ RowAt(d, EntryOf(d, p)).size = Len(s) /\ ReadFile(d, p, Len(s), 0) = s
        /\ s # Error
    BY DEF Source, EntryAt
  <2> QED
    BY <1>1, <2>1 DEF Move
<1>3. Written(d, q, s, g, g2)
  BY <1>1, TwinWrite
<1>4. Good(g2) /\ Healthy(g2) /\ TidyDisk(g2) /\ Concern(d, g2, q)
  BY <1>1, ZerosConcern
<1>5. g2.ok => CopyIn(g2, q, t, ch)
  <2>1. ASSUME g2.ok PROVE CopyIn(g2, q, Zeros(s), Taken(d, q, Zeros(s)).ch)
    BY <1>1, <2>1, CopyTaken
  <2> QED
    BY <2>1
<1>6. PICK S, X :
        /\ Twin(g, g2, S, X)
        /\ ~ g2.ok => \A c \in S : g2.fat[c] = 0
        /\ g2.ok => S = ToSet(ch) /\ \A j \in 1..Len(ch) : X[ch[j]] = Page(s, j)
  BY <1>3 DEF Written
<1> HIDE DEF t, g, g2, ch
<1>7. g.ok = g2.ok
  BY <1>6 DEF Twin
<1>8. CASE ~ g2.ok
  <2>1. Moved(d, g, p, q, s)
    BY <1>4, <1>6, <1>8, NotMoved
  <2> QED
    BY <1>2, <1>7, <1>8, <2>1
<1>9. CASE g2.ok
  <2> DEFINE y == [g2 EXCEPT !.log = <<>>]
             u == DeleteFile(g, p)
             w == DeleteFile(y, p)
  <2>1. /\ Good(y) /\ Healthy(y) /\ TidyDisk(y) /\ y.log = <<>>
        /\ y.fat = g2.fat /\ y.data = g2.data /\ y.ok = g2.ok /\ SameUsed(g2, y)
    BY <1>4, Reopened
  <2>2. CopyIn(g2, q, t, ch) /\ S = ToSet(ch) /\ \A j \in 1..Len(ch) : X[ch[j]] = Page(s, j)
    BY <1>5, <1>6, <1>9
  <2> HIDE DEF y
  <2>3. Twin(g, y, S, X)
    BY <1>6, <2>1 DEF Twin
  <2>4. IsDisk(y)
    BY <2>1, HealthyIs
  <2>5. \A r \in Seq(ShortNames) : r # <<>> => SameSeen(g2, y, r)
    BY <1>4, <2>1, <2>4, TreeSame
  <2>6. Found(y, p)
    <3>1. Found(g2, p)
      BY <1>4 DEF Concern, Source
    <3> QED
      BY <2>5, <3>1 DEF SameSeen
  <2>7. CopyIn(y, q, t, ch)
    <3>1. Found(g2, q)
      BY <2>2 DEF CopyIn
    <3>2. Spares(GuardOf(g2, p), y.fat, y.data)
      BY <2>1 DEF Spares, SameRow, GuardOf
    <3>3. SameEntry(g2, y, q)
      BY <1>4, <2>4, <3>1, <3>2, PathKept
    <3>4. Found(y, q) /\ ResolvePath(y, q) = ResolvePath(g2, q) /\ EntryAt(y, q) = EntryAt(g2, q)
      BY <3>1, <3>3 DEF SameEntry, Found, EntryAt
    <3> QED
      BY <2>1, <2>2, <3>4 DEF CopyIn
  <2>8. /\ Twin(u, w, S, X) /\ Healthy(w) /\ w.ok = y.ok /\ Concern(y, w, p)
        /\ CopyIn(w, q, t, ch) /\ HoldsCopy(w, q, S) /\ ~ Found(w, p)
    BY <2>1, <2>2, <2>3, <2>6, <2>7, DeletedSource
  <2> HIDE DEF u, w
  <2>9. \A r \in Seq(ShortNames) : Aside(p, q, r) /\ Found(d, r) =>
          Found(w, r) /\ Content(w, r) = Content(d, r)
    <3> SUFFICES ASSUME NEW r \in Seq(ShortNames), Aside(p, q, r), Found(d, r)
                 PROVE  Found(w, r) /\ Content(w, r) = Content(d, r)
      OBVIOUS
    <3>1. r # <<>> /\ ~ Starts(p, r) /\ ~ Starts(r, p) /\ ~ Starts(q, r) /\ ~ Starts(r, q)
      BY DEF Aside
    <3>2. Found(g2, r) /\ Content(g2, r) = Content(d, r)
      BY <1>4, <3>1 DEF Concern
    <3>3. Found(y, r) /\ Content(y, r) = Content(d, r)
      BY <2>5, <3>1, <3>2 DEF SameSeen
    <3> QED
      BY <2>8, <3>1, <3>3 DEF Concern
  <2>10. Moved(d, u, p, q, s)
    <3>1. /\ Healthy(w) /\ Twin(u, w, S, X) /\ w.ok /\ p \in Seq(ShortNames) /\ p # <<>>
          /\ q \in Seq(ShortNames) /\ q # <<>> /\ ~ Starts(p, q) /\ ~ Starts(q, p) /\ ~ Found(w, p)
          /\ s \in Seq(RowSet) /\ Len(t) = Len(s) /\ CopyIn(w, q, t, ch) /\ HoldsCopy(w, q, S)
          /\ S = ToSet(ch) /\ \A j \in 1..Len(ch) : X[ch[j]] = Page(s, j)
      BY <1>1, <1>9, <2>1, <2>2, <2>8
    <3> QED
      BY ONLY <2>9, <3>1, IsMoved
  <2> QED
    BY <1>2, <1>7, <1>9, <2>10 DEF u
<1> QED
  BY <1>8, <1>9

\* MvLosesNothing follows from the invariant.
LEMMA MvIs == ASSUME TidyInv PROVE MvLosesNothing
<1> SUFFICES ASSUME NEW p \in {r \in Present : EntryAt(disk, r).size > 0},
                    NEW q \in {r \in Known : Apart(r, p)}
             PROVE  LET after == Move(Work, p, q)
                        new   == IF after.ok THEN q ELSE p
                    IN  /\ Found(after, new) /\ Content(after, new) = Content(disk, p)
                        /\ after.ok => ~ Found(after, p)
                        /\ \A r \in {x \in Present : Apart(x, p) /\ Apart(x, q)} :
                             Found(after, r) /\ Content(after, r) = Content(disk, r)
  BY DEF MvLosesNothing
<1> DEFINE d     == Work
           after == Move(d, p, q)
<1>1. Good(d) /\ Healthy(d) /\ d.log = <<>> /\ TidyDisk(d) /\ d.fat = disk.fat /\ d.data = disk.data
  BY TidyWork
<1>2. p \in Present /\ p \in Seq(ShortNames) /\ p # <<>> /\ Found(disk, p)
  BY PresentIs
<1>3. q \in Seq(ShortNames) /\ q # <<>>
  BY NamesAre DEF Known
<1>4. Apart(q, p) /\ Apart(p, q)
  BY DEF Apart
<1>5. ~ Starts(p, q) /\ ~ Starts(q, p)
  BY <1>2, <1>3, <1>4, ApartIs
<1>6. \A r \in Present : Apart(r, q) => Found(d, r) /\ Content(d, r) = Content(disk, r)
  BY <1>3, WorkTree DEF TidyInv
<1>7. EntryAt(d, p).size > 0
  <2>1. Healthy(disk) /\ IsDisk(d)
    BY <1>1, HealthyIs DEF TidyInv, FatInv
  <2>2. Spares(GuardOf(disk, q), d.fat, d.data)
    BY <1>1 DEF Spares, SameRow, GuardOf
  <2>3. SameEntry(disk, d, p)
    BY <1>2, <1>3, <1>5, <2>1, <2>2, PathKept
  <2>4. EntryAt(d, p) = EntryAt(disk, p)
    BY <2>3 DEF SameEntry, EntryAt
  <2> QED
    BY <2>4
<1> HIDE DEF d
<1>8. PICK s \in Seq(RowSet) : Source(d, p, s)
  BY <1>1, <1>2, <1>4, <1>6, <1>7, SourceIs
<1>9. Moved(d, after, p, q, s)
  BY <1>1, <1>2, <1>3, <1>5, <1>8, MoveIs
<1> HIDE DEF after
<1>10. Content(disk, p) = [dir |-> FALSE, text |-> s]
  <2>1. Content(d, p) = [dir |-> FALSE, text |-> s]
    BY <1>8 DEF Source, Content
  <2> QED
    BY <1>2, <1>4, <1>6, <2>1
<1>11. \A r \in {x \in Present : Apart(x, p) /\ Apart(x, q)} :
         Found(after, r) /\ Content(after, r) = Content(disk, r)
  <2> SUFFICES ASSUME NEW r \in Present, Apart(r, p), Apart(r, q)
               PROVE  Found(after, r) /\ Content(after, r) = Content(disk, r)
    OBVIOUS
  <2>1. r \in Seq(ShortNames) /\ r # <<>>
    BY PresentIs
  <2>2. Aside(p, q, r)
    BY <1>2, <1>3, <2>1, ApartIs DEF Aside
  <2> QED
    BY <1>6, <1>9, <2>1, <2>2 DEF Moved
<1>12. LET new == IF after.ok THEN q ELSE p
       IN  /\ Found(after, new) /\ Content(after, new) = Content(disk, p)
           /\ after.ok => ~ Found(after, p)
  BY <1>9, <1>10 DEF Moved
<1> QED
  BY <1>11, <1>12 DEF after, d

(***************************************************************************)
(* In every state mv leaves the text under the old name or puts it under   *)
(* the new one, whatever the text was, and the rest of the tree as it was: *)
(* fat32_write and fat32_delete of fat32.c, one after the other.           *)
(***************************************************************************)
THEOREM MvKeepsTheText == ASSUME MaxCopies = 1 PROVE Spec => []MvLosesNothing
<1>1. TidyInv => MvLosesNothing
  BY MvIs
<1> QED
  BY <1>1, TidyInvHolds, PTL
=============================================================================
