----------------------------- MODULE FatProofs -----------------------------
(***************************************************************************)
(* Proofs about Fat32 for every size of disk, cluster and sector, and every*)
(* set of names, paths and texts: what every call leaves alone,            *)
(* fat32_delete_recursive, the inductive invariant FatInv, what a write    *)
(* leaves, and the safety properties that follow.                          *)
(***************************************************************************)
EXTENDS FatCalls

(***************************************************************************)
(* What a call on p leaves alone: the clusters of every file and directory *)
(* whose path does not go through p, the directory of p apart.             *)
(***************************************************************************)
Away(d, p) ==
  {h \in Entries : h # Parent(d, p) /\ \E q \in Seq(ShortNames) : ~ Starts(p, q) /\ ResolvePath(d, q) = h}

GuardOf(d, p) ==
  [fat |-> d.fat, data |-> d.data, name |-> Last(p),
   dir |-> IF IsHead(d.fat, Parent(d, p)) THEN ClustersOf(d.fat, Parent(d, p)) ELSE {},
   whole |-> UNION {ClustersOf(d.fat, h) : h \in Away(d, p)}]

\* A path goes through itself and its beginnings.
LEMMA StartsIs ==
  ASSUME NEW T, NEW p \in Seq(T)
  PROVE  /\ Starts(p, p) /\ Len(p) \in Nat
         /\ p # <<>> => /\ Front(p) \in Seq(T) /\ Starts(Front(p), p)
                        /\ \A q \in Seq(T) : Starts(q, Front(p)) => Starts(q, p)
<1>1. Starts(p, p) /\ Len(p) \in Nat
  BY DEF Starts
<1>2. ASSUME p # <<>>
      PROVE  /\ Front(p) \in Seq(T) /\ Starts(Front(p), p)
             /\ \A q \in Seq(T) : Starts(q, Front(p)) => Starts(q, p)
  <2>1. /\ Len(p) \in Nat \ {0} /\ Front(p) \in Seq(T) /\ Len(Front(p)) = Len(p) - 1
        /\ \A n \in 1..(Len(p) - 1) : Front(p)[n] = p[n]
    BY <1>2, FrontIs
  <2> QED
    BY <2>1 DEF Starts
<1> QED
  BY <1>1, <1>2

\* The same directory and the same name make the same path.
LEMMA SameFront ==
  ASSUME NEW T, NEW p \in Seq(T), p # <<>>, NEW q \in Seq(T), q # <<>>,
         Front(p) = Front(q), Last(p) = Last(q)
  PROVE  p = q
<1>1. /\ Len(p) \in Nat \ {0} /\ Len(Front(p)) = Len(p) - 1
      /\ \A n \in 1..(Len(p) - 1) : Front(p)[n] = p[n]
      /\ Last(p) = p[Len(p)]
  BY FrontIs
<1>2. /\ Len(q) \in Nat \ {0} /\ Len(Front(q)) = Len(q) - 1
      /\ \A n \in 1..(Len(q) - 1) : Front(q)[n] = q[n]
      /\ Last(q) = q[Len(q)]
  BY FrontIs
<1>3. Len(p) = Len(q)
  BY <1>1, <1>2
<1>4. \A n \in 1..Len(p) : p[n] = q[n]
  <2> TAKE n \in 1..Len(p)
  <2>1. n \in 1..(Len(p) - 1) \/ n = Len(p)
    BY <1>1
  <2> QED
    BY <1>1, <1>2, <1>3, <2>1
<1> QED
  BY <1>3, <1>4

\* The heads of what is left alone.
LEMMA AwayIs ==
  ASSUME NEW d, Healthy(d), NEW p \in Seq(ShortNames), p # <<>>
  PROVE  /\ \A h \in Away(d, p) : IsHead(d.fat, h) /\ h # Parent(d, p)
         /\ ResolvePath(d, p) \notin Away(d, p)
         /\ \A q \in Seq(ShortNames) :
              ~ Starts(p, q) /\ ResolvePath(d, q) # 0 /\ ResolvePath(d, q) # Parent(d, p) =>
                ResolvePath(d, q) \in Away(d, p)
<1>1. ASSUME NEW q \in Seq(ShortNames), ResolvePath(d, q) # 0
      PROVE  IsHead(d.fat, ResolvePath(d, q))
  <2>1. CASE q = <<>>
    BY <2>1, ResolveRoot, RootIsHead, HealthyIs
  <2>2. CASE q # <<>>
    BY <1>1, <2>2, ParentIs DEF HeadOrNone
  <2> QED
    BY <2>1, <2>2
<1>2. \A h \in Away(d, p) : IsHead(d.fat, h) /\ h # Parent(d, p)
  BY <1>1, EntriesAre DEF Away
<1>3. ResolvePath(d, p) \notin Away(d, p)
  <2> SUFFICES ASSUME NEW q \in Seq(ShortNames), ~ Starts(p, q), ResolvePath(d, q) = ResolvePath(d, p),
                      ResolvePath(d, p) \in Entries
               PROVE  FALSE
    BY DEF Away
  <2>1. q = p
    BY EntriesAre, PathOnce
  <2> QED
    BY <2>1, StartsIs
<1>4. ASSUME NEW q \in Seq(ShortNames), ~ Starts(p, q), ResolvePath(d, q) # 0, ResolvePath(d, q) # Parent(d, p)
      PROVE  ResolvePath(d, q) \in Away(d, p)
  BY <1>1, <1>4 DEF Away, IsHead
<1> QED
  BY <1>2, <1>3, <1>4

\* They are a guard of the call.
LEMMA GuardOfIs ==
  ASSUME NEW d, Good(d), Healthy(d), d.log = <<>>, NEW p \in Seq(ShortNames), p # <<>>
  PROVE  GuardPath(GuardOf(d, p), d, p)
<1> DEFINE g   == GuardOf(d, p)
           dir == Parent(d, p)
           c   == ResolvePath(d, p)
           X   == Away(d, p)
<1>1. Links(d.fat) /\ HeadOrNone(d.fat, dir) /\ HeadOrNone(d.fat, c) /\ c \in Entries \cup {0}
  BY HealthyIs, ParentIs
<1>2. (\A h \in X : IsHead(d.fat, h) /\ h # dir) /\ c \notin X
  BY AwayIs
<1>3. c # 0 => c # dir
  BY ParentApart
<1>4. /\ g.fat = d.fat /\ g.data = d.data /\ g.name = Last(p)
      /\ g.dir = (IF IsHead(d.fat, dir) THEN ClustersOf(d.fat, dir) ELSE {})
      /\ g.whole = UNION {ClustersOf(d.fat, h) : h \in X}
  BY DEF GuardOf
<1> HIDE DEF g, dir, c, X
<1>5. \A y \in g.whole : \E h \in X : y \in ClustersOf(d.fat, h)
  BY <1>4
<1>6. \A y \in g.dir : IsHead(d.fat, dir) /\ y \in ClustersOf(d.fat, dir)
  BY <1>4
<1>7. \A h : IsHead(d.fat, h) => ClustersOf(d.fat, h) \subseteq Entries /\ \A x \in ClustersOf(d.fat, h) : d.fat[x] # 0
  BY <1>1, ClustersAre
<1>8. IsGuard(g)
  <2>1. \A y \in g.whole : y \in Entries /\ d.fat[y] # 0
    BY <1>2, <1>5, <1>7
  <2>2. \A y \in g.dir : y \in Entries /\ d.fat[y] # 0
    BY <1>6, <1>7
  <2>3. \A y \in g.whole : y \notin g.dir
    <3> TAKE y \in g.whole
    <3>1. PICK h \in X : y \in ClustersOf(d.fat, h)
      BY <1>5
    <3>2. IsHead(d.fat, h) /\ h # dir
      BY <1>2
    <3> QED
      BY <1>1, <1>6, <3>1, <3>2, ClustersApart
  <2> QED
    BY <1>4, <2>1, <2>2, <2>3 DEF IsGuard
<1>9. Guards(g, d)
  <2>1. Spares(g, d.fat, d.data)
    BY <1>4 DEF Spares, SameRow
  <2>2. Len(d.log) = 0
    OBVIOUS
  <2>3. LogSpares(g, d.log)
    BY <2>2 DEF LogSpares
  <2> QED
    BY <2>1, <2>3 DEF Guards
<1>10. GuardDir(g, d.fat, dir)
  BY <1>1, <1>4 DEF GuardDir
<1>11. IsHead(d.fat, c) => \A x \in ClustersOf(d.fat, c) : Outside(g, x)
  <2> HAVE IsHead(d.fat, c)
  <2> TAKE x \in ClustersOf(d.fat, c)
  <2>0. c # 0
    BY EntriesAre DEF IsHead
  <2>1. x \notin g.dir
    BY <1>1, <1>3, <1>6, <2>0, ClustersApart
  <2>2. x \notin g.whole
    <3> SUFFICES ASSUME x \in g.whole PROVE FALSE
      OBVIOUS
    <3>1. PICK h \in X : x \in ClustersOf(d.fat, h)
      BY <1>5
    <3>2. IsHead(d.fat, h) /\ h # c
      BY <1>2
    <3> QED
      BY <1>1, <3>1, <3>2, ClustersApart
  <2> QED
    BY <2>1, <2>2 DEF Outside
<1> QED
  BY <1>4, <1>8, <1>9, <1>10, <1>11 DEF GuardPath, g, dir, c

\* The chain of a head that is left alone, and the rows in it.
LEMMA AwayKept ==
  ASSUME NEW d, Healthy(d), NEW p \in Seq(ShortNames), p # <<>>,
         NEW e, IsDisk(e), Spares(GuardOf(d, p), e.fat, e.data),
         NEW h \in Away(d, p)
  PROVE  /\ Chain(e, h) = Chain(d, h)
         /\ \A pl \in PlacesOf(Readable(Chain(d, h))) : RowAt(e, pl) = RowAt(d, pl)
<1> DEFINE g == GuardOf(d, p)
           s == ChainIn(d.fat, h)
           r == Readable(s)
<1>1. IsDisk(d) /\ Links(d.fat)
  BY HealthyIs
<1>4. IsHead(d.fat, h)
  BY AwayIs
<1>5. /\ g.fat = d.fat /\ g.data = d.data
      /\ g.whole = UNION {ClustersOf(d.fat, x) : x \in Away(d, p)}
  BY DEF GuardOf
<1> HIDE DEF g
<1>6. Chain(d, h) = s
  BY <1>1, <1>4, ReadableChain
<1>7. /\ s \in Seq(Entries) /\ r \in Seq(2..LastCluster)
      /\ \A pl \in PlacesOf(r) : pl \in Places /\ pl[1] \in ClustersOf(d.fat, h)
  BY <1>1, <1>4, <1>6, ReadableChain
<1>8. IsPath(d.fat, h, s) /\ s # <<>> /\ d.fat[s[Len(s)]] = Eoc /\ Len(s) <= FatEnd
  <2>1. IsChain(d.fat, h, s)
    BY <1>1, <1>4, HeadChain
  <2>2. IsPath(d.fat, h, s)
    BY <2>1 DEF IsChain
  <2> HIDE DEF s
  <2>3. Len(s) < FatEnd
    BY <1>1, <1>4, <2>2, PathLength
  <2>4. Len(s) \in Nat
    BY <1>7
  <2> QED
    BY <2>1, <2>2, <2>3, <2>4, EntriesAre DEF IsChain
<1>9. Current(e) /\ h \in Entries
  BY <1>4 DEF IsDisk, IsHead
<1>11. \A i \in 1..Len(s) : s[i] \in Entries /\ s[i] \in ClustersOf(d.fat, h)
  BY <1>1, <1>4, <1>7, InClusters
<1> HIDE DEF s, r
<1>12. ClustersOf(d.fat, h) \subseteq g.whole
  BY <1>5
<1>13. \A i \in 1..Len(s) : e.fat[s[i]] = d.fat[s[i]]
  BY <1>5, <1>11, <1>12 DEF Spares, g
<1>14. IsPath(e.fat, h, s) /\ e.fat[s[Len(s)]] \notin Entries
  <2>1. Len(s) \in 1..Len(s) /\ \A i \in 1..(Len(s) - 1) : i \in 1..Len(s)
    BY <1>7, <1>8
  <2> QED
    BY <1>8, <1>13, <2>1, EntriesAre DEF IsPath
<1>15. Chain(e, h) = s
  BY <1>8, <1>9, <1>14, ChainBegins
<1>16. \A pl \in PlacesOf(r) : RowAt(e, pl) = RowAt(d, pl)
  BY <1>5, <1>7, <1>12 DEF Spares, SameRow, RowAt, RowIn, g
<1> QED
  BY <1>6, <1>15, <1>16 DEF r

\* What a call for p leaves alone is found where it was: here, in the directory
\* that a path leads to.
LEMMA EntryKept ==
  ASSUME NEW d, Healthy(d), NEW p \in Seq(ShortNames), p # <<>>,
         NEW e, IsDisk(e), Spares(GuardOf(d, p), e.fat, e.data),
         NEW q \in Seq(ShortNames), q # <<>>, ~ Starts(p, q), Found(d, q)
  PROVE  /\ FindEntry(e, Parent(d, q), Last(q)) = EntryOf(d, q)
         /\ RowAt(e, EntryOf(d, q)) = RowAt(d, EntryOf(d, q))
<1> DEFINE g == GuardOf(d, p)
           h == Parent(d, q)
           n == Last(q)
           s == ChainIn(d.fat, h)
           r == Readable(s)
           ch == Chain(e, h)
<1>1. IsDisk(d) /\ Links(d.fat)
  BY HealthyIs
<1>2. HeadOrNone(d.fat, h)
  BY ParentIs
<1>3. EntryOf(d, q) = FindEntry(d, h, n) /\ FindEntry(d, h, n) # <<>>
  BY DEF EntryOf, Found
<1>4. IsHead(d.fat, h)
  <2> HIDE DEF h, n
  <2> QED
    BY <1>1, <1>2, <1>3, FindEntryIs DEF EntryPlace
<1>5. /\ g.fat = d.fat /\ g.data = d.data /\ g.name = Last(p)
      /\ g.dir = (IF IsHead(d.fat, Parent(d, p)) THEN ClustersOf(d.fat, Parent(d, p)) ELSE {})
      /\ g.whole = UNION {ClustersOf(d.fat, x) : x \in Away(d, p)}
  BY DEF GuardOf
<1> HIDE DEF g
<1>6. Chain(d, h) = s /\ FindEntry(d, h, n) = FindIn(d, r, n)
  <2>1. Chain(d, h) = s
    BY <1>1, <1>4, ReadableChain
  <2> QED
    BY <2>1 DEF FindEntry
<1>7. /\ s \in Seq(Entries) /\ r \in Seq(2..LastCluster)
      /\ \A pl \in PlacesOf(r) : pl \in Places /\ pl[1] \in ClustersOf(d.fat, h)
  BY <1>1, <1>4, <1>6, ReadableChain
<1>8. IsPath(d.fat, h, s) /\ s # <<>> /\ d.fat[s[Len(s)]] = Eoc /\ Len(s) <= FatEnd
  <2>1. IsChain(d.fat, h, s)
    BY <1>1, <1>4, HeadChain
  <2>2. IsPath(d.fat, h, s)
    BY <2>1 DEF IsChain
  <2> HIDE DEF s, h
  <2>3. Len(s) < FatEnd
    BY <1>1, <1>4, <2>2, PathLength
  <2>4. Len(s) \in Nat
    BY <1>7
  <2> QED
    BY <2>1, <2>2, <2>3, <2>4, EntriesAre DEF IsChain
<1>9. Current(e)
  BY DEF IsDisk
<1>10. h \in Entries /\ h # 0
  BY <1>4, EntriesAre DEF IsHead
<1>11. \A i \in 1..Len(s) : s[i] \in Entries /\ s[i] \in ClustersOf(d.fat, h)
  <2> HIDE DEF h
  <2> QED
    BY <1>1, <1>4, <1>7, InClusters
<1> HIDE DEF h, n, s, r, ch
<1>12. CASE h # Parent(d, p)
  <2>1. h \in Away(d, p)
    <3>1. Front(q) \in Seq(ShortNames) /\ ~ Starts(p, Front(q))
      BY StartsIs
    <3>2. ResolvePath(d, Front(q)) = h
      BY DEF h, Parent
    <3> QED
      BY <1>10, <1>12, <3>1, <3>2, AwayIs
  <2>2. Chain(e, h) = Chain(d, h) /\ \A pl \in PlacesOf(Readable(Chain(d, h))) : RowAt(e, pl) = RowAt(d, pl)
    BY <2>1, AwayKept DEF g
  <2>6. \A pl \in PlacesOf(r) : RowAt(e, pl) = RowAt(d, pl)
    BY <1>6, <2>2 DEF r
  <2>7. FindEntry(e, h, n) = FindIn(e, r, n)
    BY <1>6, <2>2 DEF FindEntry, ch, r
  <2>8. FindIn(e, r, n) = FindIn(d, r, n)
    BY <1>7, <2>6, FindInSame
  <2>9. FindIn(d, r, n) \in PlacesOf(r)
    BY <1>1, <1>3, <1>6, <1>7, HealthyIs, FindInIs
  <2> QED
    BY <1>3, <1>6, <2>6, <2>7, <2>8, <2>9 DEF h, n
<1>13. CASE h = Parent(d, p)
  <2>1. n # g.name
    <3> SUFFICES ASSUME n = g.name PROVE FALSE
      OBVIOUS
    <3>1. ResolvePath(d, Front(q)) = h /\ ResolvePath(d, Front(p)) = h
      BY <1>13 DEF h, Parent
    <3>2. Front(q) \in Seq(ShortNames) /\ Front(p) \in Seq(ShortNames)
      BY StartsIs
    <3>3. Front(q) = Front(p)
      BY <1>10, <3>1, <3>2, PathOnce
    <3>4. p = q
      BY <1>5, <3>3, SameFront DEF n
    <3> QED
      BY <3>4, StartsIs
  <2>2. g.dir = ClustersOf(d.fat, h)
    BY <1>4, <1>5, <1>13
  <2>3. \A i \in 1..Len(s) : e.fat[s[i]] = d.fat[s[i]] \/ d.fat[s[i]] = Eoc
    BY <1>5, <1>11, <2>2 DEF Spares, g
  <2>4. IsPath(e.fat, h, s)
    <3>1. \A i \in 1..(Len(s) - 1) : i \in 1..Len(s) /\ i + 1 \in 1..Len(s)
      BY <1>7
    <3>2. \A i \in 1..(Len(s) - 1) : d.fat[s[i]] = s[i + 1] /\ s[i + 1] \in Entries
      BY <1>8, <1>11, <3>1 DEF IsPath
    <3> QED
      BY <1>8, <2>3, <3>1, <3>2, EntriesAre DEF IsPath
  <2>5. ch \in Seq(Entries) /\ Begun(s, ch)
    BY <1>8, <1>9, <1>10, <2>4, ChainBegins DEF ch
  <2>6. Begun(r, Readable(ch))
    BY <1>7, <2>5, ReadableBegins DEF r
  <2>7. Readable(ch) \in Seq(2..LastCluster)
    BY ChainType DEF ch
  <2>8. \A pl \in PlacesOf(r) : SameRow(g, e.data, pl) \/ NewRow(g, e.data, pl)
    BY <1>7, <2>2 DEF Spares, g
  <2>9. FindIn(d, r, n) # <<>> /\ d.data = g.data
    BY <1>3, <1>5, <1>6
  <2>10. FindIn(e, Readable(ch), n) = FindIn(d, r, n) /\ RowAt(e, FindIn(d, r, n)) = RowAt(d, FindIn(d, r, n))
    BY ONLY <1>7, <2>1, <2>6, <2>7, <2>8, <2>9, FindKept, SMTT(30)
  <2>11. FindEntry(e, h, n) = FindIn(e, Readable(ch), n)
    BY DEF FindEntry, ch
  <2> QED
    BY <1>3, <1>6, <2>10, <2>11 DEF h, n
<1> QED
  BY <1>12, <1>13

SameEntry(d, e, q) ==
  /\ Parent(e, q) = Parent(d, q) /\ EntryOf(e, q) = EntryOf(d, q)
  /\ RowAt(e, EntryOf(d, q)) = RowAt(d, EntryOf(d, q))
  /\ ResolvePath(e, q) = ResolvePath(d, q)

\* All the way down a path that does not go through p.
LEMMA PathKept ==
  ASSUME NEW d, Healthy(d), NEW p \in Seq(ShortNames), p # <<>>,
         NEW e, IsDisk(e), Spares(GuardOf(d, p), e.fat, e.data)
  PROVE  \A q \in Seq(ShortNames) : q # <<>> /\ ~ Starts(p, q) /\ Found(d, q) => SameEntry(d, e, q)
<1> DEFINE Q == {q \in Seq(ShortNames) : q # <<>> /\ ~ Starts(p, q) /\ Found(d, q)}
           Holds0(m) == \A q \in Q : Len(q) = m => SameEntry(d, e, q)
           I == {m \in Nat : Holds0(m)}
<1>1. IsDisk(d)
  BY HealthyIs
<1>2. ASSUME NEW q \in Q, Parent(e, q) = Parent(d, q)
      PROVE  SameEntry(d, e, q)
  <2>1. /\ FindEntry(e, Parent(d, q), Last(q)) = EntryOf(d, q)
        /\ RowAt(e, EntryOf(d, q)) = RowAt(d, EntryOf(d, q))
    BY EntryKept
  <2>2. EntryOf(e, q) = EntryOf(d, q)
    BY <1>2, <2>1 DEF EntryOf
  <2>3. /\ ResolvePath(e, q) = Into(e, Parent(d, q), Last(q))
        /\ ResolvePath(d, q) = Into(d, Parent(d, q), Last(q))
    <3>1. /\ ResolvePath(e, q) = Into(e, ResolvePath(e, Front(q)), Last(q))
          /\ ResolvePath(d, q) = Into(d, ResolvePath(d, Front(q)), Last(q))
      BY <1>1, ResolveStep
    <3> QED
      BY <1>2, <3>1 DEF Parent
  <2>4. Into(e, Parent(d, q), Last(q)) = Into(d, Parent(d, q), Last(q))
    BY <2>1 DEF Into, FirstCluster, EntryOf
  <2> QED
    BY <1>2, <2>1, <2>2, <2>3, <2>4 DEF SameEntry
<1>3. Holds0(0)
  BY DEF Q
<1>4. ASSUME NEW m \in Nat, Holds0(m)
      PROVE  Holds0(m + 1)
  <2> SUFFICES ASSUME NEW q \in Q, Len(q) = m + 1
               PROVE  Parent(e, q) = Parent(d, q)
    BY <1>2
  <2> DEFINE f == Front(q)
  <2>1. f \in Seq(ShortNames) /\ Len(f) = m
    <3>1. q \in Seq(ShortNames) /\ q # <<>>
      OBVIOUS
    <3> HIDE DEF Q
    <3> QED
      BY <3>1, FrontIs, SMTT(30)
  <2>2. Parent(e, q) = ResolvePath(e, f) /\ Parent(d, q) = ResolvePath(d, f)
    BY DEF Parent
  <2>3. CASE f = <<>>
    <3>1. ResolvePath(e, <<>>) = Root /\ ResolvePath(d, <<>>) = Root
      BY <1>1, <2>1, <2>3, ResolveStep
    <3> QED
      BY <2>2, <2>3, <3>1
  <2>4. CASE f # <<>>
    <3>1. ~ Starts(p, f)
      BY StartsIs
    <3>2. Parent(d, q) # 0
      <4>1. Found(d, q)
        OBVIOUS
      <4>2. HeadOrNone(d.fat, Parent(d, q))
        BY ParentIs
      <4>3. FindEntry(d, Parent(d, q), Last(q)) # <<>>
        BY <4>1 DEF Found, EntryOf
      <4> QED
        BY <1>1, <4>2, <4>3, HealthyIs, FindEntryIs, EntriesAre DEF EntryPlace, IsHead
    <3>3. Found(d, f)
      <4>1. ResolvePath(d, f) = Into(d, Parent(d, f), Last(f)) /\ HeadOrNone(d.fat, Parent(d, f))
        BY <2>1, <2>4, ParentIs
      <4>2. FindEntry(d, Parent(d, f), Last(f)) # <<>>
        BY <2>2, <3>2, <4>1, IntoIs
      <4> QED
        BY <4>2 DEF Found, EntryOf
    <3>4. f \in Q
      BY <2>1, <2>4, <3>1, <3>3
    <3>5. SameEntry(d, e, f)
      BY <1>4, <2>1, <3>4
    <3> QED
      BY <2>2, <3>5 DEF SameEntry
  <2> QED
    BY <2>3, <2>4
<1> HIDE DEF Holds0, Q
<1>5. \A m \in Nat : m \in I
  <2>1. 0 \in I /\ \A m \in Nat : m \in I => m + 1 \in I
    BY <1>3, <1>4
  <2> HIDE DEF I
  <2> QED
    BY <2>1, NatInd
<1>6. \A q \in Q : Len(q) \in Nat
  BY DEF Q
<1>7. \A q \in Q : SameEntry(d, e, q)
  BY <1>5, <1>6 DEF Holds0
<1> QED
  BY <1>7 DEF Q

\* The text in clusters whose rows are the same.
LEMMA TextSame ==
  ASSUME NEW d, NEW e, NEW r \in Seq(2..LastCluster), NEW size \in Nat,
         \A pl \in PlacesOf(r) : RowAt(e, pl) = RowAt(d, pl)
  PROVE  TextIn(e, r, size) = TextIn(d, r, size)
<1> DEFINE m == Min({size, Rows * Len(r)})
<1>1. Rows \in Nat /\ Len(r) \in Nat /\ Rows * Len(r) \in Nat
  BY EntriesAre, RowsTimes
<1>2. m \in Nat /\ m <= Rows * Len(r)
  <2> DEFINE y == Rows * Len(r)
  <2> HIDE DEF y
  <2>1. y \in Nat
    BY <1>1 DEF y
  <2>2. Min({size, y}) \in Nat /\ Min({size, y}) <= y
    BY <2>1, MinTwo
  <2> QED
    BY <2>2 DEF y
<1> HIDE DEF m
<1>3. ASSUME NEW k \in 1..m
      PROVE  e.data[r[(k - 1) \div Rows + 1]][((k - 1) % Rows) + 1]
               = d.data[r[(k - 1) \div Rows + 1]][((k - 1) % Rows) + 1]
  <2> DEFINE a == (k - 1) \div Rows
             b == (k - 1) % Rows
             y == Rows * Len(r)
             x == Rows * a
  <2>1. k \in Nat /\ k <= m /\ k - 1 \in Nat
    BY <1>2
  <2>2. a \in Nat /\ b \in Nat /\ b < Rows /\ x \in Nat /\ k - 1 = x + b
    BY <2>1, Division
  <2> HIDE DEF a, b
  <2>3. a < Len(r)
    <3>1. Len(r) <= a => y <= x
      BY <1>1, <2>2, RowsTimes
    <3>2. x < y
      <4> HIDE DEF x, y
      <4>1. m <= y /\ y \in Nat
        BY <1>1, <1>2 DEF y
      <4> QED
        BY <1>2, <2>1, <2>2, <4>1
    <3>3. y \in Nat
      BY <1>1
    <3> HIDE DEF x, y
    <3> QED
      BY <1>1, <2>2, <3>1, <3>2, <3>3
  <2>4. a + 1 \in 1..Len(r) /\ b + 1 \in 1..Rows
    BY <1>1, <2>2, <2>3
  <2>5. <<r[a + 1], b + 1>> \in PlacesOf(r)
    BY <2>4, PlaceIn
  <2>6. RowAt(e, <<r[a + 1], b + 1>>) = RowAt(d, <<r[a + 1], b + 1>>)
    BY <2>5
  <2> QED
    BY <2>6 DEF RowAt, a, b
<1> QED
  BY <1>3, Zenon DEF TextIn, m

\* A text without a cluster is none.
LEMMA TextNone ==
  ASSUME NEW d, NEW e, NEW c, c \notin Entries, NEW size \in Nat
  PROVE  TextIn(e, Readable(Chain(e, c)), size) = TextIn(d, Readable(Chain(d, c)), size)
<1>1. Chain(e, c) = <<>> /\ Chain(d, c) = <<>>
  BY ChainEmpty
<1>2. Readable(<<>>) \in Seq(2..LastCluster) /\ Readable(<<>>) = <<>>
  BY DEF Readable
<1>3. ToSet(<<>>) = {}
  BY ToSetEmpty
<1>4. \A pl \in PlacesOf(<<>>) : RowAt(e, pl) = RowAt(d, pl)
  BY <1>3 DEF PlacesOf
<1> QED
  BY <1>1, <1>2, <1>4, TextSame

\* A file or directory beside p is what it was.
LEMMA ContentKept ==
  ASSUME NEW d, Healthy(d), NEW p \in Seq(ShortNames), p # <<>>,
         NEW e, IsDisk(e), Spares(GuardOf(d, p), e.fat, e.data),
         NEW q \in Seq(ShortNames), q # <<>>, ~ Starts(p, q), ~ Starts(q, p), Found(d, q)
  PROVE  Found(e, q) /\ Content(e, q) = Content(d, q)
<1> DEFINE c == ResolvePath(d, q)
           row == EntryAt(d, q)
<1>1. SameEntry(d, e, q)
  BY PathKept
<1>2. Found(e, q) /\ EntryAt(e, q) = row
  BY <1>1 DEF SameEntry, Found, EntryAt
<1>3. row.first = c /\ row.size \in Nat
  <2>1. c = Into(d, Parent(d, q), Last(q)) /\ HeadOrNone(d.fat, Parent(d, q))
    BY ParentIs
  <2>2. FindEntry(d, Parent(d, q), Last(q)) # <<>> /\ row = RowIn(d.data, FindEntry(d, Parent(d, q), Last(q)))
    BY DEF Found, EntryOf, EntryAt, RowAt, RowIn
  <2>3. EntryPlace(d, Parent(d, q), Last(q), FindEntry(d, Parent(d, q), Last(q))) /\ c = row.first
    BY <2>1, <2>2, IntoIs
  <2> QED
    BY <2>2, <2>3, HealthyIs, RowInIs DEF EntryPlace
<1> HIDE DEF row
<1>4. WholeText(e, q) = WholeText(d, q)
  <2>1. /\ WholeText(e, q) = TextIn(e, Readable(Chain(e, c)), row.size)
        /\ WholeText(d, q) = TextIn(d, Readable(Chain(d, c)), row.size)
    BY <1>2, <1>3 DEF WholeText, row
  <2>2. CASE c \notin Entries
    BY <1>3, <2>1, <2>2, TextNone
  <2>3. CASE c \in Entries
    <3>1. c # 0
      BY <2>3, EntriesAre
    <3>2. c # Parent(d, p)
      <4> SUFFICES ASSUME c = Parent(d, p) PROVE FALSE
        OBVIOUS
      <4>1. Front(p) \in Seq(ShortNames) /\ Starts(Front(p), p)
        BY StartsIs
      <4>2. ResolvePath(d, q) = ResolvePath(d, Front(p)) /\ ResolvePath(d, q) # 0
        BY <3>1 DEF Parent
      <4>3. q = Front(p)
        BY <4>1, <4>2, PathOnce
      <4> QED
        BY <4>1, <4>3
    <3>3. c \in Away(d, p)
      BY <3>1, <3>2, AwayIs
    <3> HIDE DEF c
    <3>4. Chain(e, c) = Chain(d, c) /\ \A pl \in PlacesOf(Readable(Chain(d, c))) : RowAt(e, pl) = RowAt(d, pl)
      BY <3>3, AwayKept
    <3>5. Readable(Chain(d, c)) \in Seq(2..LastCluster)
      BY ChainType
    <3> QED
      BY <1>3, <2>1, <3>4, <3>5, TextSame
  <2> QED
    BY <2>2, <2>3
<1> QED
  BY <1>2, <1>4 DEF Content, row

-----------------------------------------------------------------------------
(***************************************************************************)
(* delete_recursive.  G is the history of the call: <<c, 0>> when cluster  *)
(* c was read, <<c, i>> when the call was done with row i of it, and with  *)
(* the cluster for i = Rows + 1, <<c, Rows + 2>> when the call on the      *)
(* directory c returned.  P is the place of the entry that is deleted, A   *)
(* holds the first clusters of what the call leaves alone: the directory   *)
(* of that entry, and all that is reached without going through the entry. *)
(***************************************************************************)
Frames  == [dir : Entries, at : Links0, row : 0..(Rows + 1)]
Deletes == [d : Works, buf : Clusters, calls : Seq(Frames)]
Events  == Entries \X (0..(Rows + 2))

WasRead(G, c) == <<c, 0>> \in G

\* The places whose entries are still to be found on the disk.
Live(fat, G, P) == {pl \in Used(fat) : ~ WasRead(G, pl[1]) /\ pl # P}

\* A directory or file that belongs to the deletion alone.
Own(d, G, A, P, c) ==
  /\ IsHead(d.fat, c) /\ c # Root /\ c \notin A
  /\ \A pl \in Live(d.fat, G, P) : ~ Names(d.data, pl, c)

\* A guard of the clusters of the directories A.
Whole(b, A) ==
  [fat |-> b.fat, data |-> b.data, name |-> 0, dir |-> {},
   whole |-> UNION {ClustersOf(b.fat, x) : x \in A}]

\* The write that made e of d, if there was one, is in the log.
Logged(d, e) == e.log = d.log \/ e.log = Append(d.log, <<e.fat, e.data>>)

\* The directories of A are what they were.
Kept(b, A, d) ==
  /\ IsGuard(Whole(b, A)) /\ Guards(Whole(b, A), d)
  /\ \A x \in A : /\ IsHead(d.fat, x) /\ ChainIn(d.fat, x) = ChainIn(b.fat, x)
                  /\ \A pl \in Places : pl[1] \in ClustersOf(d.fat, x) => RowIn(d.data, pl) = RowIn(b.data, pl)

\* D holds the directories of the calls in progress.
Marks(fat, G, D) ==
  /\ G \subseteq Events
  /\ \A x \in Entries : WasRead(G, x) => fat[x] = 0 \/ \E c \in D : x \in ClustersOf(fat, c)
  /\ \A x \in Entries : WasRead(G, fat[x]) => WasRead(G, x)
  /\ \A x \in Entries : \A j \in 1..(Rows + 1) : <<x, j>> \in G => WasRead(G, x)
  /\ \A x \in Entries : <<x, Rows + 2>> \in G => fat[x] = 0

\* What the rows J of the buffer name is to be freed.
Owes(buf, j, c) == buf[j].kind = "entry" /\ buf[j].first = c /\ c # 0

Buffer(d, G, A, P, D, buf, J) ==
  /\ \A j \in J : \A c \in Links0 : Owes(buf, j, c) => Own(d, G, A, P, c) /\ c \notin D
  /\ \A i, j \in J : \A c \in Links0 : Owes(buf, i, c) /\ Owes(buf, j, c) => i = j

\* Some chains are gone; the others and their rows are what they were.
Fewer(b, d) ==
  \A h : IsHead(d.fat, h) =>
    /\ IsHead(b.fat, h) /\ ChainIn(d.fat, h) = ChainIn(b.fat, h)
    /\ \A pl \in Places : pl[1] \in ClustersOf(b.fat, h) => RowIn(d.data, pl) = RowIn(b.data, pl)

Base(b, A, P, d, G, D) ==
  /\ Good(d) /\ Sound(d.fat, d.data, Live(d.fat, G, P)) /\ Kept(b, A, d) /\ Marks(d.fat, G, D)
  /\ Fewer(b, d)
  /\ \A c \in D : Own(d, G, A, P, c)

\* The chain of the head h is freed, after a write to its first cluster.
LEMMA LiveFreed ==
  ASSUME NEW fat, Links(fat), NEW h, IsHead(fat, h), h # Root, NEW G, NEW P
  PROVE  LET fat2 == Freed(fat, ClustersOf(fat, h))
         IN  /\ Live(fat2, G, P) \subseteq Live(fat, G, P)
             /\ \A pl \in Live(fat2, G, P) : pl \in Places /\ pl[1] # h
<1> DEFINE S == ClustersOf(fat, h)
           fat2 == Freed(fat, S)
<1>1. S \subseteq Entries /\ h \in S
  BY ClustersAre
<1>2. \A pl \in Places : pl[1] \in Entries
  BY EntriesAre DEF Places
<1>3. \A x \in Entries : fat2[x] = IF x \in S THEN 0 ELSE fat[x]
  BY DEF Freed
<1> HIDE DEF fat2, S
<1>4. \A pl \in Live(fat2, G, P) : pl \in Places /\ pl[1] \notin S /\ pl \in Live(fat, G, P)
  BY <1>2, <1>3 DEF Live, Used
<1> QED
  BY <1>1, <1>4 DEF fat2, S

\* The directories of A outlast the write of a cluster that heads another chain,
\* and the freeing of that chain.
LEMMA WholeFreed ==
  ASSUME NEW b, NEW A, NEW d, Good(d), Links(d.fat), Kept(b, A, d),
         NEW h, IsHead(d.fat, h), h \notin A, NEW e, Good(e), e.fat = d.fat, Logged(d, e),
         \A pl \in Places : pl[1] # h => RowIn(e.data, pl) = RowIn(d.data, pl)
  PROVE  Guards(Whole(b, A), FatFreeChain(e, h))
<1> DEFINE w == Whole(b, A)
<1>1. IsGuard(w) /\ Guards(w, d)
  BY DEF Kept
<1>2. w.whole = UNION {ClustersOf(b.fat, x) : x \in A} /\ w.dir = {} /\ w.fat = b.fat /\ w.data = b.data
  BY DEF Whole
<1> HIDE DEF w
<1>3. \A y \in w.whole : \E x \in A : IsHead(d.fat, x) /\ x # h /\ y \in ClustersOf(d.fat, x)
  BY <1>2 DEF Kept, ClustersOf
<1>4. \A y \in ClustersOf(d.fat, h) : Outside(w, y)
  BY <1>2, <1>3, ClustersApart DEF Outside
<1>5. h \notin w.whole
  BY <1>4, ClustersAre DEF Outside
<1>6. Spares(w, e.fat, e.data)
  <2>1. Spares(w, d.fat, d.data)
    BY <1>1 DEF Guards
  <2> QED
    BY <1>2, <1>5, <2>1 DEF Spares, SameRow
<1>7. Guards(w, e)
  BY <1>1, <1>6, GuardNext DEF Logged
<1>8. HeadOrNone(e.fat, h) /\ Links(e.fat)
  BY DEF HeadOrNone
<1>9. Guards(w, FatFreeChain(e, h))
  BY <1>1, <1>4, <1>7, <1>8, GuardFreeChain
<1> QED
  BY <1>9 DEF w

\* A directory or file of the deletion is freed.
LEMMA FreeBase ==
  ASSUME NEW b, NEW A, NEW P, NEW d, NEW G, NEW D, Base(b, A, P, d, G, D),
         NEW h, Own(d, G, A, P, h), NEW e, Good(e), e.fat = d.fat, Logged(d, e),
         \A pl \in Places : pl[1] # h => RowIn(e.data, pl) = RowIn(d.data, pl)
  PROVE  LET f == FatFreeChain(e, h)
         IN  /\ Base(b, A, P, f, G, D \ {h}) /\ f.ok = e.ok
             /\ f.fat = Freed(d.fat, ClustersOf(d.fat, h))
             /\ \A c : Own(d, G, A, P, c) /\ c # h =>
                  /\ Own(f, G, A, P, c) /\ ClustersOf(f.fat, c) = ClustersOf(d.fat, c)
                  /\ \A x \in ClustersOf(d.fat, c) : f.fat[x] = d.fat[x]
<1> DEFINE f == FatFreeChain(e, h)
           S == ClustersOf(d.fat, h)
           fat2 == Freed(d.fat, S)
           L == Live(d.fat, G, P)
           M == Live(fat2, G, P)
<1>1. /\ Good(d) /\ Sound(d.fat, d.data, L) /\ Kept(b, A, d) /\ Marks(d.fat, G, D)
      /\ Links(d.fat) /\ \A c \in D : Own(d, G, A, P, c)
  BY DEF Base, Sound
<1>2. IsHead(d.fat, h) /\ h # Root /\ h \notin A /\ \A pl \in L : ~ Names(d.data, pl, h)
  BY DEF Own
<1>3. Good(f) /\ f.fat = fat2 /\ f.data = e.data /\ f.ok = e.ok
  BY <1>1, <1>2, FreeChainIs
<1>4. M \subseteq L /\ \A pl \in M : pl \in Places /\ pl[1] # h
  BY <1>1, <1>2, LiveFreed
<1>5. /\ Links(fat2)
      /\ \A c : IsHead(d.fat, c) /\ c # h =>
           /\ IsHead(fat2, c) /\ ChainIn(fat2, c) = ChainIn(d.fat, c)
           /\ ClustersOf(fat2, c) = ClustersOf(d.fat, c)
  BY <1>1, <1>2, FreedLinks
<1>6. S \subseteq Entries /\ h \in S
  BY <1>1, <1>2, ClustersAre
<1>7. \A x \in Entries : fat2[x] = IF x \in S THEN 0 ELSE d.fat[x]
  BY DEF Freed
<1>8. Sound(fat2, d.data, L)
  BY <1>1, <1>2, FreedSound
<1>9. e.data \in Datas
  BY GoodFields
<1>10. \A c : IsHead(d.fat, c) /\ c # h => S \cap ClustersOf(d.fat, c) = {} /\ ClustersOf(d.fat, c) \subseteq Entries
  BY <1>1, <1>2, ClustersApart, ClustersAre
<1>11. L \subseteq Places
  BY <1>1 DEF Sound
<1> HIDE DEF f, fat2, S, L, M
<1>12. Sound(fat2, e.data, M)
  <2>1. M \in SUBSET Places
    BY <1>4
  <2>2. \A pl \in M : ~ IsEntry(e.data, pl) \/ (pl \in L /\ RowIn(e.data, pl) = RowIn(d.data, pl))
    BY <1>4
  <2> QED
    BY <1>8, <1>9, <2>1, <2>2, RowsSound
<1>13. \A c : Own(d, G, A, P, c) /\ c # h =>
         /\ Own(f, G, A, P, c) /\ ClustersOf(f.fat, c) = ClustersOf(d.fat, c)
         /\ \A x \in ClustersOf(d.fat, c) : f.fat[x] = d.fat[x]
  <2> SUFFICES ASSUME NEW c, Own(d, G, A, P, c), c # h
               PROVE  /\ Own(f, G, A, P, c) /\ ClustersOf(f.fat, c) = ClustersOf(d.fat, c)
                      /\ \A x \in ClustersOf(d.fat, c) : f.fat[x] = d.fat[x]
    OBVIOUS
  <2>1. IsHead(d.fat, c) /\ c # Root /\ c \notin A /\ \A pl \in L : ~ Names(d.data, pl, c)
    BY DEF Own, L
  <2>2. \A pl \in M : ~ Names(f.data, pl, c)
    BY <1>3, <1>4, <2>1 DEF Names, IsEntry
  <2>3. \A x \in ClustersOf(d.fat, c) : f.fat[x] = d.fat[x]
    BY <1>3, <1>7, <1>10, <2>1
  <2>4. Own(f, G, A, P, c)
    BY <1>3, <1>5, <2>1, <2>2 DEF Own, M
  <2> QED
    BY <1>3, <1>5, <2>1, <2>3, <2>4
<1>14. Kept(b, A, f)
  <2>0. IsGuard(Whole(b, A)) /\ Guards(Whole(b, A), f)
    <3>1. Guards(Whole(b, A), FatFreeChain(e, h))
      BY <1>1, <1>2, WholeFreed
    <3> QED
      BY <1>1, <3>1 DEF Kept, f
  <2> SUFFICES ASSUME NEW x \in A
               PROVE  /\ IsHead(f.fat, x) /\ ChainIn(f.fat, x) = ChainIn(b.fat, x)
                      /\ \A pl \in Places : pl[1] \in ClustersOf(f.fat, x) => RowIn(f.data, pl) = RowIn(b.data, pl)
    BY <2>0 DEF Kept
  <2>1. /\ IsHead(d.fat, x) /\ ChainIn(d.fat, x) = ChainIn(b.fat, x) /\ x # h
        /\ \A pl \in Places : pl[1] \in ClustersOf(d.fat, x) => RowIn(d.data, pl) = RowIn(b.data, pl)
    BY <1>1, <1>2 DEF Kept
  <2>2. h \notin ClustersOf(d.fat, x)
    BY <1>6, <1>10, <2>1
  <2> QED
    BY <1>3, <1>5, <2>1, <2>2
<1>15. Marks(fat2, G, D \ {h})
  <2>1. /\ G \subseteq Events
        /\ \A x \in Entries : WasRead(G, x) => d.fat[x] = 0 \/ \E c \in D : x \in ClustersOf(d.fat, c)
        /\ \A x \in Entries : WasRead(G, d.fat[x]) => WasRead(G, x)
        /\ \A x \in Entries : \A j \in 1..(Rows + 1) : <<x, j>> \in G => WasRead(G, x)
        /\ \A x \in Entries : <<x, Rows + 2>> \in G => d.fat[x] = 0
    BY <1>1 DEF Marks
  <2>2. \A x \in Entries : WasRead(G, x) => fat2[x] = 0 \/ \E c \in D \ {h} : x \in ClustersOf(fat2, c)
    <3> SUFFICES ASSUME NEW x \in Entries, WasRead(G, x), fat2[x] # 0
                 PROVE  \E c \in D \ {h} : x \in ClustersOf(fat2, c)
      OBVIOUS
    <3>1. x \notin S /\ d.fat[x] # 0
      BY <1>7
    <3>2. PICK c \in D : x \in ClustersOf(d.fat, c)
      BY <2>1, <3>1
    <3>3. c # h /\ IsHead(d.fat, c)
      BY <1>1, <3>1, <3>2 DEF S, Own
    <3> QED
      BY <1>5, <3>2, <3>3
  <2>3. \A x \in Entries : WasRead(G, fat2[x]) => WasRead(G, x)
    <3>1. ~ WasRead(G, 0)
      BY <2>1, EntriesAre DEF WasRead, Events
    <3> QED
      BY <1>7, <2>1, <3>1
  <2>4. \A x \in Entries : <<x, Rows + 2>> \in G => fat2[x] = 0
    BY <1>7, <2>1
  <2> QED
    BY <2>1, <2>2, <2>3, <2>4 DEF Marks
<1>20. Fewer(b, f)
  <2>1. \A c : IsHead(fat2, c) => c # h /\ IsHead(d.fat, c)
    BY <1>1, <1>2, FreedHeads DEF fat2, S
  <2> SUFFICES ASSUME NEW x, IsHead(f.fat, x)
               PROVE  /\ IsHead(b.fat, x) /\ ChainIn(f.fat, x) = ChainIn(b.fat, x)
                      /\ \A pl \in Places : pl[1] \in ClustersOf(b.fat, x) => RowIn(f.data, pl) = RowIn(b.data, pl)
    BY DEF Fewer
  <2>2. x # h /\ IsHead(d.fat, x) /\ ChainIn(f.fat, x) = ChainIn(d.fat, x)
    BY <1>3, <1>5, <2>1
  <2>3. /\ IsHead(b.fat, x) /\ ChainIn(d.fat, x) = ChainIn(b.fat, x)
        /\ \A pl \in Places : pl[1] \in ClustersOf(b.fat, x) => RowIn(d.data, pl) = RowIn(b.data, pl)
    BY <2>2 DEF Base, Fewer
  <2>4. ClustersOf(b.fat, x) = ClustersOf(d.fat, x)
    BY <2>3 DEF ClustersOf
  <2>5. h \notin ClustersOf(b.fat, x)
    BY <1>6, <1>10, <2>2, <2>4
  <2> QED
    BY <1>3, <2>2, <2>3, <2>5
<1>16. Base(b, A, P, f, G, D \ {h})
  BY <1>1, <1>3, <1>12, <1>13, <1>14, <1>15, <1>20 DEF Base, M
<1> QED
  BY <1>3, <1>13, <1>16 DEF f, fat2, S

\* What the buffer owes after that, less what named h.
LEMMA FreeBuffer ==
  ASSUME NEW b, NEW A, NEW P, NEW d, NEW G, NEW D, Base(b, A, P, d, G, D),
         NEW h, Own(d, G, A, P, h), NEW e, Good(e), e.fat = d.fat, Logged(d, e),
         \A pl \in Places : pl[1] # h => RowIn(e.data, pl) = RowIn(d.data, pl),
         NEW buf, NEW J, Buffer(d, G, A, P, D, buf, J), NEW buf2, NEW K,
         \A j \in K : \A c \in Links0 : Owes(buf2, j, c) => j \in J /\ Owes(buf, j, c) /\ c # h
  PROVE  Buffer(FatFreeChain(e, h), G, A, P, D \ {h}, buf2, K)
<1> DEFINE f == FatFreeChain(e, h)
<1>1. \A c : Own(d, G, A, P, c) /\ c # h => Own(f, G, A, P, c)
  BY FreeBase
<1>2. /\ \A j \in J : \A c \in Links0 : Owes(buf, j, c) => Own(d, G, A, P, c) /\ c \notin D
      /\ \A i, j \in J : \A c \in Links0 : Owes(buf, i, c) /\ Owes(buf, j, c) => i = j
  BY DEF Buffer
<1> HIDE DEF f
<1>3. \A j \in K : \A c \in Links0 : Owes(buf2, j, c) => Own(f, G, A, P, c) /\ c \notin D \ {h}
  BY <1>1, <1>2
<1>4. \A i, j \in K : \A c \in Links0 : Owes(buf2, i, c) /\ Owes(buf2, j, c) => i = j
  BY <1>2
<1> QED
  BY <1>3, <1>4 DEF Buffer, f

\* A step that reads no cluster goes into the history.
LEMMA NewEvent ==
  ASSUME NEW b, NEW A, NEW P, NEW d, NEW G, NEW D, Base(b, A, P, d, G, D),
         NEW x \in Entries, NEW j \in 1..(Rows + 2),
         j < Rows + 2 => WasRead(G, x), j = Rows + 2 => d.fat[x] = 0
  PROVE  LET H == G \cup {<<x, j>>}
         IN  /\ Base(b, A, P, d, H, D) /\ \A y : WasRead(H, y) <=> WasRead(G, y)
             /\ \A c : Own(d, H, A, P, c) <=> Own(d, G, A, P, c)
             /\ \A buf, J : Buffer(d, G, A, P, D, buf, J) => Buffer(d, H, A, P, D, buf, J)
<1> DEFINE H == G \cup {<<x, j>>}
<1>1. Rows \in Nat
  BY EntriesAre
<1>2. \A y : WasRead(H, y) <=> WasRead(G, y)
  BY DEF WasRead
<1>3. Live(d.fat, H, P) = Live(d.fat, G, P)
  BY <1>2 DEF Live
<1>4. \A c : Own(d, H, A, P, c) <=> Own(d, G, A, P, c)
  BY <1>3 DEF Own
<1>5. \A buf, J : Buffer(d, G, A, P, D, buf, J) => Buffer(d, H, A, P, D, buf, J)
  BY <1>4 DEF Buffer
<1>6. /\ Good(d) /\ Sound(d.fat, d.data, Live(d.fat, G, P)) /\ Kept(b, A, d) /\ Marks(d.fat, G, D)
      /\ \A c \in D : Own(d, G, A, P, c)
  BY DEF Base
<1>7. Marks(d.fat, H, D)
  <2>1. /\ G \subseteq Events
        /\ \A y \in Entries : WasRead(G, y) => d.fat[y] = 0 \/ \E c \in D : y \in ClustersOf(d.fat, c)
        /\ \A y \in Entries : WasRead(G, d.fat[y]) => WasRead(G, y)
        /\ \A y \in Entries : \A i \in 1..(Rows + 1) : <<y, i>> \in G => WasRead(G, y)
        /\ \A y \in Entries : <<y, Rows + 2>> \in G => d.fat[y] = 0
    BY <1>6 DEF Marks
  <2>2. H \subseteq Events
    BY <1>1, <2>1 DEF Events
  <2>5. \A y, i : <<y, i>> \in H <=> <<y, i>> \in G \/ (y = x /\ i = j)
    OBVIOUS
  <2> HIDE DEF H
  <2>3. \A y \in Entries : \A i \in 1..(Rows + 1) : <<y, i>> \in H => WasRead(H, y)
    BY <1>1, <1>2, <2>1, <2>5
  <2>4. \A y \in Entries : <<y, Rows + 2>> \in H => d.fat[y] = 0
    BY <1>1, <2>1, <2>5
  <2> QED
    BY <1>2, <2>1, <2>2, <2>3, <2>4 DEF Marks
<1> HIDE DEF H
<1>8. Base(b, A, P, d, H, D)
  BY <1>3, <1>4, <1>6, <1>7 DEF Base
<1> QED
  BY <1>2, <1>4, <1>5, <1>8 DEF H

(***************************************************************************)
(* The calls in progress: each has a cluster of its directory in hand, the *)
(* innermost one may be about to read the next.                            *)
(***************************************************************************)
Dirs(calls) == {calls[k].dir : k \in 1..Len(calls)}

InHand(fat, G, f) ==
  /\ f.row \in 1..(Rows + 1) /\ f.at \in ClustersOf(fat, f.dir)
  /\ WasRead(G, f.at) /\ ~ WasRead(G, fat[f.at])
  /\ \A j \in 1..(Rows + 1) : j > f.row => <<f.at, j>> \notin G

AtNext(fat, G, f) ==
  \/ f.at \notin Entries
  \/ /\ f.at \in ClustersOf(fat, f.dir) /\ ~ WasRead(G, f.at)
     /\ f.at = f.dir \/ \E z \in Entries : fat[z] = f.at /\ WasRead(G, z)

Waits(fat, G, calls) ==
  \A k \in 1..(Len(calls) - 1) : InHand(fat, G, calls[k]) /\ calls[k].row <= Rows

Runs(fat, G, f) ==
  \/ f.row = 0 /\ AtNext(fat, G, f)
  \/ InHand(fat, G, f) /\ <<f.at, f.row>> \notin G

OneEach(calls) == \A k, l \in 1..Len(calls) : calls[k].dir = calls[l].dir => k = l

\* The row that named the directory of the innermost call is dealt with when
\* that call returns.
OwedRows(calls) ==
  {j \in 1..Rows : ~ (Len(calls) > 1 /\ calls[Len(calls)].row = 0 /\ j = calls[Len(calls) - 1].row)}

Deleting(b, A, P, a, G) ==
  /\ a \in Deletes /\ Base(b, A, P, a.d, G, Dirs(a.calls)) /\ OneEach(a.calls)
  /\ Waits(a.d.fat, G, a.calls)
  /\ a.calls # <<>> => Runs(a.d.fat, G, a.calls[Len(a.calls)])
  /\ Buffer(a.d, G, A, P, Dirs(a.calls), a.buf, OwedRows(a.calls))

\* A step to a does one thing that G does not have.
Goes(b, A, P, a, G) == \E v \in Events \ G : Deleting(b, A, P, a, G \cup {v})

\* A call that waits has the same in hand when another directory is freed.
LEMMA StillInHand ==
  ASSUME NEW fat, NEW G, NEW f, InHand(fat, G, f), NEW fat2,
         ClustersOf(fat2, f.dir) = ClustersOf(fat, f.dir),
         \A x \in ClustersOf(fat, f.dir) : fat2[x] = fat[x],
         NEW H, \A y : WasRead(H, y) <=> WasRead(G, y),
         NEW x, NEW j, H \subseteq G \cup {<<x, j>>}, x = f.at => j = Rows + 2 \/ j = f.row
  PROVE  InHand(fat2, H, f)
<1>1. Rows \in Nat
  BY EntriesAre
<1>2. \A i \in 1..(Rows + 1) : i > f.row => <<f.at, i>> \notin H
  BY <1>1 DEF InHand
<1> QED
  BY <1>2 DEF InHand

\* The innermost call.
LEMMA TopIs ==
  ASSUME NEW T, NEW s \in Seq(T), s # <<>>, NEW x \in T
  PROVE  LET e == [s EXCEPT ![Len(s)] = x]
         IN  /\ e \in Seq(T) /\ Len(e) = Len(s) /\ e[Len(s)] = x
             /\ \A k \in 1..(Len(s) - 1) : e[k] = s[k]
OBVIOUS

\* The calls after the innermost one returned.
LEMMA BackCalls ==
  ASSUME NEW calls \in Seq(Frames), Len(calls) > 1, calls[Len(calls) - 1].row \in 1..Rows, NEW d, NEW buf
  PROVE  LET rest == Front(calls)
             e    == Back(d, buf, rest, Last(rest).row).calls
             m    == Len(calls) - 1
         IN  /\ rest # <<>> /\ Last(rest) = calls[m] /\ e \in Seq(Frames) /\ Len(e) = m
             /\ \A k \in 1..m : e[k].dir = calls[k].dir /\ e[k].at = calls[k].at
             /\ \A k \in 1..(m - 1) : e[k] = calls[k]
             /\ e[m].row = calls[m].row + 1
<1> DEFINE rest == Front(calls)
           m == Len(calls) - 1
           r == calls[m].row
           e == [rest EXCEPT ![Len(rest)] = [@ EXCEPT !.row = r + 1]]
<1>1. rest \in Seq(Frames) /\ Len(rest) = m /\ m \in Nat \ {0} /\ \A k \in 1..m : rest[k] = calls[k]
  BY FrontIs
<1>2. rest # <<>> /\ Last(rest) = calls[m]
  BY <1>1 DEF Last
<1>3. Back(d, buf, rest, Last(rest).row).calls = e
  BY <1>2 DEF Back
<1> HIDE DEF rest
<1>4. calls[m] \in Frames /\ rest[m] = calls[m] /\ r + 1 \in 0..(Rows + 1)
  BY <1>1, EntriesAre, SMTT(30)
<1>5. [rest[m] EXCEPT !.row = r + 1] \in Frames
  BY <1>4 DEF Frames
<1>10. e = [rest EXCEPT ![m] = [calls[m] EXCEPT !.row = r + 1]]
  BY <1>1, <1>4
<1> HIDE DEF e, r
<1>6. e \in Seq(Frames) /\ Len(e) = m
  BY <1>1, <1>4, <1>5, <1>10
<1>7. e[m] = [calls[m] EXCEPT !.row = r + 1] /\ \A k \in 1..(m - 1) : e[k] = calls[k]
  <2> DEFINE x == [calls[m] EXCEPT !.row = r + 1]
  <2>1. x \in Frames /\ rest # <<>> /\ m = Len(rest)
    BY <1>1, <1>2, <1>4, <1>5
  <2> HIDE DEF x, m
  <2>2. e = [rest EXCEPT ![Len(rest)] = x]
    BY <1>10, <2>1 DEF x
  <2>3. e[m] = x /\ \A k \in 1..(m - 1) : e[k] = rest[k]
    BY <1>1, <2>1, <2>2, TopIs
  <2> QED
    BY <1>1, <2>3 DEF x
<1> HIDE DEF m
<1>8. e[m].row = r + 1 /\ e[m].dir = calls[m].dir /\ e[m].at = calls[m].at
  BY <1>4, <1>7 DEF Frames
<1>9. \A k \in 1..m : k = m \/ k \in 1..(m - 1)
  BY <1>1
<1> QED
  BY <1>1, <1>2, <1>3, <1>6, <1>7, <1>8, <1>9 DEF rest, m, r, e

\* A call returns: its directory is freed, after a write to its first cluster.
LEMMA Returns ==
  ASSUME NEW b, NEW A, NEW P, NEW a, NEW G, Deleting(b, A, P, a, G), a.calls # <<>>,
         NEW e, Good(e), e.fat = a.d.fat, Logged(a.d, e),
         \A pl \in Places : pl[1] # Last(a.calls).dir => RowIn(e.data, pl) = RowIn(a.d.data, pl)
  PROVE  Goes(b, A, P, FreeAndReturn(a, e), G)
<1> DEFINE calls == a.calls
           n == Len(calls)
           dir == calls[n].dir
           D == Dirs(calls)
           d == a.d
           f == FatFreeChain(e, dir)
           v == <<dir, Rows + 2>>
           H == G \cup {v}
           z == FreeAndReturn(a, e)
<1>1. /\ a \in Deletes /\ Base(b, A, P, d, G, D) /\ OneEach(calls) /\ Waits(d.fat, G, calls)
      /\ Buffer(d, G, A, P, D, a.buf, OwedRows(calls))
  BY DEF Deleting
<1>2. /\ calls \in Seq(Frames) /\ n \in Nat \ {0} /\ a.buf \in Clusters /\ d \in Works
      /\ Last(calls) = calls[n] /\ calls[n] \in Frames /\ dir \in Entries
      /\ \A k \in 1..n : calls[k] \in Frames
  <2>1. calls \in Seq(Frames) /\ a.buf \in Clusters /\ d \in Works
    BY <1>1 DEF Deletes
  <2>2. n \in Nat \ {0} /\ \A k \in 1..n : calls[k] \in Frames
    BY <2>1
  <2>3. \A x \in Frames : x.dir \in Entries
    BY DEF Frames
  <2> QED
    BY <2>1, <2>2, <2>3 DEF Last
<1>3. dir \in D /\ \A c \in D : Own(d, G, A, P, c)
  BY <1>1, <1>2 DEF Dirs, Base
<1>4. \A pl \in Places : pl[1] # dir => RowIn(e.data, pl) = RowIn(d.data, pl)
  BY <1>2
<1>5. Marks(d.fat, G, D) /\ IsHead(d.fat, dir) /\ Links(d.fat)
  BY <1>1, <1>3 DEF Base, Own, Sound
<1>6. v \in Events \ G
  <2>1. d.fat[dir] # 0
    BY <1>5 DEF IsHead
  <2>2. v \notin G
    BY <1>2, <1>5, <2>1 DEF Marks
  <2>3. v \in Events
    BY <1>2, EntriesAre DEF Events
  <2> QED
    BY <2>2, <2>3
<1> SUFFICES Deleting(b, A, P, z, H)
  BY <1>6 DEF Goes
<1>7. Rows \in Nat /\ Rows + 2 \in 1..(Rows + 2)
  BY EntriesAre
<1>8. /\ Base(b, A, P, f, G, D \ {dir}) /\ f.fat = Freed(d.fat, ClustersOf(d.fat, dir))
      /\ \A c : Own(d, G, A, P, c) /\ c # dir =>
           /\ Own(f, G, A, P, c) /\ ClustersOf(f.fat, c) = ClustersOf(d.fat, c)
           /\ \A x \in ClustersOf(d.fat, c) : f.fat[x] = d.fat[x]
  <2>0. Logged(d, e)
    OBVIOUS
  <2>1. e.fat = d.fat /\ Base(b, A, P, d, G, D) /\ Own(d, G, A, P, dir)
    BY <1>1, <1>3
  <2> HIDE DEF dir, D, d
  <2> QED
    BY ONLY Good(e), <2>1, <2>0, <1>4, FreeBase DEF f
<1>9. f.fat[dir] = 0
  <2>1. dir \in ClustersOf(d.fat, dir)
    BY <1>5, ClustersAre
  <2> QED
    BY <1>2, <1>8, <2>1 DEF Freed
<1>10. /\ Base(b, A, P, f, H, D \ {dir}) /\ \A y : WasRead(H, y) <=> WasRead(G, y)
       /\ \A buf, J : Buffer(f, G, A, P, D \ {dir}, buf, J) => Buffer(f, H, A, P, D \ {dir}, buf, J)
  <2> DEFINE j == Rows + 2
             E == D \ {dir}
  <2>1. /\ dir \in Entries /\ j \in 1..(Rows + 2) /\ (j < Rows + 2 => WasRead(G, dir))
        /\ (j = Rows + 2 => f.fat[dir] = 0) /\ Base(b, A, P, f, G, E)
    BY <1>2, <1>7, <1>8, <1>9
  <2> HIDE DEF f, dir, E, j
  <2>2. LET K == G \cup {<<dir, j>>}
        IN  /\ Base(b, A, P, f, K, E) /\ \A y : WasRead(K, y) <=> WasRead(G, y)
            /\ \A c : Own(f, K, A, P, c) <=> Own(f, G, A, P, c)
            /\ \A buf, J : Buffer(f, G, A, P, E, buf, J) => Buffer(f, K, A, P, E, buf, J)
    BY ONLY <2>1, NewEvent
  <2> QED
    BY <2>2 DEF j, E
<1>11. \A k \in 1..n : k # n =>
         /\ calls[k].dir # dir /\ calls[k].dir \in D
         /\ InHand(d.fat, G, calls[k]) => InHand(f.fat, H, calls[k])
  <2> SUFFICES ASSUME NEW k \in 1..n, k # n
               PROVE  /\ calls[k].dir # dir /\ calls[k].dir \in D
                      /\ InHand(d.fat, G, calls[k]) => InHand(f.fat, H, calls[k])
    OBVIOUS
  <2>1. calls[k].dir # dir /\ calls[k].dir \in D
    BY <1>1, <1>2 DEF OneEach, Dirs
  <2>2. Own(d, G, A, P, calls[k].dir)
    BY <1>3, <2>1
  <2>3. /\ ClustersOf(f.fat, calls[k].dir) = ClustersOf(d.fat, calls[k].dir)
        /\ \A x \in ClustersOf(d.fat, calls[k].dir) : f.fat[x] = d.fat[x]
    BY <1>8, <2>1, <2>2
  <2> HIDE DEF f, d, calls, dir
  <2>4. ASSUME InHand(d.fat, G, calls[k]) PROVE InHand(f.fat, H, calls[k])
    BY <1>10, <2>3, <2>4, StillInHand
  <2> QED
    BY <2>1, <2>4
<1>12. D \ {dir} = {calls[k].dir : k \in 1..(n - 1)}
  <2>1. \A k \in 1..n : k = n \/ (k \in 1..(n - 1) /\ k # n)
    BY <1>2
  <2>2. \A k \in 1..(n - 1) : k \in 1..n /\ k # n
    BY <1>2
  <2> QED
    BY <1>11, <2>1, <2>2 DEF Dirs
<1>13. FreeAndReturn(a, e) = Return(a, f)
  BY <1>2 DEF FreeAndReturn
<1>14. f \in Works
  BY <1>8, GoodFields DEF Base
<1>15. CASE n = 1
  <2>1. Front(calls) = <<>>
    BY <1>2, <1>15, FrontIs
  <2>2. z = [a EXCEPT !.d = f, !.calls = <<>>]
    BY <1>13, <2>1 DEF Return
  <2> HIDE DEF f, z
  <2>30. z = [d |-> f, buf |-> a.buf, calls |-> <<>>]
    BY <1>1, <2>2 DEF Deletes
  <2>3. z.d = f /\ z.buf = a.buf /\ z.calls = <<>> /\ z \in Deletes
    BY <1>2, <1>14, <2>30 DEF Deletes
  <2>4. Dirs(z.calls) = D \ {dir}
    BY <1>12, <1>15, <2>3 DEF Dirs
  <2>5. OwedRows(z.calls) = 1..Rows /\ OwedRows(calls) = 1..Rows
    BY <1>15, <2>3 DEF OwedRows
  <2>6. \A j \in 1..Rows : \A c \in Links0 : Owes(a.buf, j, c) => j \in 1..Rows /\ Owes(a.buf, j, c) /\ c # dir
    BY <1>1, <1>3, <2>5 DEF Buffer
  <2>7. Buffer(f, G, A, P, D \ {dir}, a.buf, 1..Rows)
    <3>1. Own(d, G, A, P, dir) /\ Base(b, A, P, d, G, D) /\ Buffer(d, G, A, P, D, a.buf, 1..Rows)
      BY <1>1, <1>3, <2>5
    <3> HIDE DEF D, dir, d, calls
    <3>2. e.fat = d.fat /\ Logged(d, e)
      BY DEF d
    <3>3. Buffer(FatFreeChain(e, dir), G, A, P, D \ {dir}, a.buf, 1..Rows)
      BY ONLY Good(e), <3>1, <3>2, <1>4, <2>6, FreeBuffer
    <3> QED
      BY <3>3 DEF f
  <2>8. OneEach(z.calls) /\ Waits(z.d.fat, H, z.calls)
    BY <2>3 DEF OneEach, Waits
  <2> QED
    BY <1>10, <2>3, <2>4, <2>5, <2>7, <2>8 DEF Deleting
<1>16. CASE n > 1
  <2> DEFINE m == n - 1
             r == calls[m].row
             rest == Front(calls)
             y == Back(f, a.buf, rest, Last(rest).row)
             buf2 == [a.buf EXCEPT ![r] = Gone]
  <2>1. m \in 1..n /\ m # n /\ m \in 1..(n - 1)
    BY <1>2, <1>16
  <2>2. InHand(d.fat, G, calls[m]) /\ r \in 1..Rows
    BY <1>1, <1>7, <2>1, SMTT(30) DEF Waits, InHand
  <2>3. /\ rest # <<>> /\ Last(rest) = calls[m] /\ y.calls \in Seq(Frames) /\ Len(y.calls) = m
        /\ \A k \in 1..m : y.calls[k].dir = calls[k].dir /\ y.calls[k].at = calls[k].at
        /\ \A k \in 1..(m - 1) : y.calls[k] = calls[k]
        /\ y.calls[m].row = r + 1
    BY <1>2, <1>16, <2>2, BackCalls, ZenonT(60)
  <2>4. z = y
    BY <1>13, <2>3 DEF Return
  <2>5. y.d = f /\ y.buf = buf2 /\ y = [d |-> y.d, buf |-> y.buf, calls |-> y.calls]
    BY <2>3 DEF Back
  <2>6. buf2 \in Clusters
    BY <1>2, <2>2, RowKinds DEF Clusters
  <2> HIDE DEF y, z, f, rest
  <2>7. z \in Deletes
    BY <1>14, <2>3, <2>4, <2>5, <2>6 DEF Deletes
  <2>8. Dirs(z.calls) = D \ {dir} /\ OneEach(z.calls)
    <3>1. Dirs(z.calls) = {calls[k].dir : k \in 1..m}
      BY <2>3, <2>4, ZenonT(60) DEF Dirs
    <3>2. \A k, l \in 1..m : calls[k].dir = calls[l].dir => k = l
      BY <1>1, <1>2 DEF OneEach
    <3> QED
      BY <1>12, <2>3, <2>4, <3>1, <3>2, ZenonT(60) DEF OneEach
  <2>9. Waits(z.d.fat, H, z.calls)
    <3>1. \A k \in 1..(m - 1) : k \in 1..n /\ k # n /\ k \in 1..(n - 1)
      BY <1>2
    <3>2. \A k \in 1..(m - 1) : InHand(f.fat, H, calls[k]) /\ calls[k].row <= Rows
      BY <1>1, <1>11, <3>1 DEF Waits
    <3> HIDE DEF H
    <3> QED
      BY <2>3, <2>4, <2>5, <3>2 DEF Waits
  <2>10. Runs(z.d.fat, H, z.calls[Len(z.calls)])
    <3> DEFINE g == z.calls[m]
    <3>1. InHand(f.fat, H, calls[m])
      BY <1>11, <2>1, <2>2
    <3>2. g.dir = calls[m].dir /\ g.at = calls[m].at /\ g.row = r + 1
      BY <2>1, <2>3, <2>4
    <3> HIDE DEF g, H, m
    <3>3. g.row \in 1..(Rows + 1) /\ InHand(f.fat, H, g)
      BY <1>7, <2>2, <3>1, <3>2 DEF InHand
    <3>4. <<g.at, g.row>> \notin H
      BY <1>7, <2>2, <3>1, <3>2 DEF InHand
    <3> QED
      BY <2>3, <2>4, <2>5, <3>3, <3>4 DEF Runs, g
  <2>11. Buffer(f, G, A, P, D \ {dir}, buf2, OwedRows(z.calls))
    <3> DEFINE J == OwedRows(calls)
               K == OwedRows(z.calls)
    <3>1. \A j \in K : j \in 1..Rows
      BY DEF OwedRows
    <3>2. \A j \in 1..Rows : j # r => j \in J
      BY <2>1 DEF OwedRows
    <3>3. \A j \in 1..Rows : buf2[j] = IF j = r THEN Gone ELSE a.buf[j]
      BY <1>2, <2>2 DEF Clusters
    <3>4. Gone.kind # "entry"
      BY DEF Gone
    <3> HIDE DEF J, K, buf2, r
    <3>5. \A j \in K : \A c \in Links0 : Owes(buf2, j, c) => j \in J /\ Owes(a.buf, j, c) /\ c # dir
      <4> SUFFICES ASSUME NEW j \in K, NEW c \in Links0, Owes(buf2, j, c)
                   PROVE  j \in J /\ Owes(a.buf, j, c) /\ c # dir
        OBVIOUS
      <4>1. j \in 1..Rows /\ j # r /\ buf2[j] = a.buf[j]
        BY <3>1, <3>3, <3>4 DEF Owes
      <4>2. j \in J /\ Owes(a.buf, j, c)
        BY <3>2, <4>1 DEF Owes
      <4> QED
        BY <1>1, <1>3, <4>2 DEF Buffer, J
    <3>6. Own(d, G, A, P, dir) /\ Base(b, A, P, d, G, D) /\ Buffer(d, G, A, P, D, a.buf, J)
      BY <1>1, <1>3 DEF J
    <3> HIDE DEF D, dir, d, calls
    <3>7. e.fat = d.fat /\ Logged(d, e)
      BY DEF d
    <3>8. Buffer(FatFreeChain(e, dir), G, A, P, D \ {dir}, buf2, K)
      BY ONLY Good(e), <3>5, <3>6, <3>7, <1>4, FreeBuffer
    <3> QED
      BY <3>8 DEF f, K
  <2> HIDE DEF H, D, dir
  <2>12. Buffer(f, H, A, P, D \ {dir}, buf2, OwedRows(z.calls))
    BY <1>10, <2>11
  <2> QED
    BY <1>10, <2>4, <2>5, <2>7, <2>8, <2>9, <2>10, <2>12 DEF Deleting
<1> HIDE DEF z, H, n
<1>17. n = 1 \/ n > 1
  BY <1>2
<1> QED
  BY <1>15, <1>16, <1>17

\* The calls after the innermost one moved on.
LEMMA GotoIs ==
  ASSUME NEW a, a.calls \in Seq(Frames), a.calls # <<>>, NEW c \in Links0, NEW j \in 0..(Rows + 1)
  PROVE  LET e == Goto(a, c, j)
             n == Len(a.calls)
         IN  /\ e \in Seq(Frames) /\ Len(e) = n /\ n \in Nat \ {0}
             /\ \A k \in 1..n : e[k].dir = a.calls[k].dir
             /\ \A k \in 1..(n - 1) : e[k] = a.calls[k]
             /\ e[n].at = c /\ e[n].row = j
<1> DEFINE calls == a.calls
           n == Len(calls)
           x == [calls[n] EXCEPT !.at = c, !.row = j]
           e == Goto(a, c, j)
<1>1. n \in Nat \ {0} /\ \A k \in 1..n : calls[k] \in Frames
  OBVIOUS
<1>2. x \in Frames /\ x.dir = calls[n].dir /\ x.at = c /\ x.row = j
  <2>1. calls[n] \in Frames
    BY <1>1
  <2> HIDE DEF calls, n
  <2> QED
    BY <2>1 DEF Frames
<1>3. e = [calls EXCEPT ![n] = x]
  BY DEF Goto
<1>4. calls \in Seq(Frames) /\ calls # <<>>
  OBVIOUS
<1> HIDE DEF e, x, calls
<1>5. e \in Seq(Frames) /\ Len(e) = n /\ e[n] = x /\ \A k \in 1..(n - 1) : e[k] = calls[k]
  BY <1>2, <1>3, <1>4, TopIs
<1> HIDE DEF n
<1>6. \A k \in 1..n : k = n \/ k \in 1..(n - 1)
  BY <1>1
<1> QED
  BY <1>1, <1>2, <1>5, <1>6 DEF e, calls, n

\* The buffer with a row marked owes less.
LEMMA BufferFewer ==
  ASSUME NEW d, NEW G, NEW A, NEW P, NEW D, NEW buf, NEW J, Buffer(d, G, A, P, D, buf, J),
         NEW K \in SUBSET J
  PROVE  Buffer(d, G, A, P, D, buf, K)
BY DEF Buffer

SameChains(f, d, D) ==
  \A c \in D : /\ ClustersOf(f.fat, c) = ClustersOf(d.fat, c)
               /\ \A x \in ClustersOf(d.fat, c) : f.fat[x] = d.fat[x]

\* The innermost call goes on to its next row, or from its last row to the
\* next cluster, on a disk f where some other chain may be free now.
LEMMA Advances ==
  ASSUME NEW b, NEW A, NEW P, NEW a, NEW G, Deleting(b, A, P, a, G), a.calls # <<>>,
         Last(a.calls).row # 0,
         NEW f, Base(b, A, P, f, G, Dirs(a.calls)),
         SameChains(f, a.d, Dirs(a.calls)),
         NEW buf \in Clusters, Buffer(f, G, A, P, Dirs(a.calls), buf, 1..Rows),
         NEW c \in Links0, NEW j \in 0..(Rows + 1),
         \/ c = Last(a.calls).at /\ j = Last(a.calls).row + 1
         \/ c = a.d.fat[Last(a.calls).at] /\ j = 0,
         NEW z, z = [d |-> f, buf |-> buf, calls |-> Goto(a, c, j)]
  PROVE  Goes(b, A, P, z, G)
<1> DEFINE calls == a.calls
           n == Len(calls)
           top == calls[n]
           D == Dirs(calls)
           d == a.d
           v == <<top.at, top.row>>
           H == G \cup {v}
           new == Goto(a, c, j)
<1>1. /\ a \in Deletes /\ Base(b, A, P, d, G, D) /\ OneEach(calls) /\ Waits(d.fat, G, calls)
      /\ Runs(d.fat, G, top)
  BY DEF Deleting
<1>2. /\ calls \in Seq(Frames) /\ n \in Nat \ {0} /\ Last(calls) = top
      /\ \A k \in 1..n : calls[k] \in Frames /\ calls[k].dir \in D
  <2>1. calls \in Seq(Frames)
    BY <1>1 DEF Deletes
  <2>2. n \in Nat \ {0} /\ \A k \in 1..n : calls[k] \in Frames
    BY <2>1
  <2> QED
    BY <2>1, <2>2 DEF Last, Dirs
<1>3. /\ new \in Seq(Frames) /\ Len(new) = n
      /\ \A k \in 1..n : new[k].dir = calls[k].dir
      /\ \A k \in 1..(n - 1) : new[k] = calls[k]
      /\ new[n].at = c /\ new[n].row = j
  <2>1. a.calls \in Seq(Frames) /\ a.calls # <<>>
    BY <1>2
  <2>2. LET e == Goto(a, c, j)
            m == Len(a.calls)
        IN  /\ e \in Seq(Frames) /\ Len(e) = m /\ m \in Nat \ {0}
            /\ \A k \in 1..m : e[k].dir = a.calls[k].dir
            /\ \A k \in 1..(m - 1) : e[k] = a.calls[k]
            /\ e[m].at = c /\ e[m].row = j
    BY <2>1, GotoIs
  <2> QED
    BY <2>2
<1>4. top.row # 0 /\ InHand(d.fat, G, top) /\ v \notin G
  BY <1>1, <1>2 DEF Runs
<1>5. z.d = f /\ z.buf = buf /\ z.calls = new
  OBVIOUS
<1>6. Rows \in Nat /\ Links(d.fat) /\ \A x \in D : IsHead(d.fat, x)
  BY <1>1, EntriesAre DEF Base, Sound, Own
<1> SUFFICES v \in Events /\ Deleting(b, A, P, z, H)
  BY <1>4 DEF Goes
<1> HIDE DEF new, D, d, calls
<1>7. top.dir \in D /\ top.at \in ClustersOf(d.fat, top.dir) /\ top.at \in Entries
  <2>1. top.dir \in D /\ top.at \in ClustersOf(d.fat, top.dir)
    BY <1>2, <1>4 DEF InHand
  <2> QED
    BY <1>6, <2>1, ClustersAre
<1>8. top.row \in 1..(Rows + 1) /\ WasRead(G, top.at)
  BY <1>4 DEF InHand
<1> HIDE DEF n, top
<1>9. v \in Events
  BY <1>6, <1>7, <1>8 DEF Events
<1>10. /\ Base(b, A, P, f, H, D) /\ \A y : WasRead(H, y) <=> WasRead(G, y)
       /\ \A J : Buffer(f, G, A, P, D, buf, J) => Buffer(f, H, A, P, D, buf, J)
  <2>1. /\ top.row \in 1..(Rows + 2) /\ (top.row < Rows + 2 => WasRead(G, top.at))
        /\ (top.row = Rows + 2 => f.fat[top.at] = 0)
    BY <1>6, <1>8
  <2> DEFINE i == top.row
             x == top.at
  <2>2. Base(b, A, P, f, G, D) /\ x \in Entries
    BY <1>7 DEF D, calls
  <2> HIDE DEF i, x
  <2>3. LET K == G \cup {<<x, i>>}
        IN  /\ Base(b, A, P, f, K, D) /\ \A y : WasRead(K, y) <=> WasRead(G, y)
            /\ \A y : Own(f, K, A, P, y) <=> Own(f, G, A, P, y)
            /\ \A u, J : Buffer(f, G, A, P, D, u, J) => Buffer(f, K, A, P, D, u, J)
    BY ONLY <2>1, <2>2, NewEvent DEF i, x
  <2> QED
    BY <2>3 DEF i, x
<1>11. \A x \in D : /\ ClustersOf(f.fat, x) = ClustersOf(d.fat, x)
                    /\ \A y \in ClustersOf(d.fat, x) : f.fat[y] = d.fat[y]
  BY DEF D, calls, d, SameChains
<1>12. Dirs(new) = D /\ OneEach(new)
  <2>1. OneEach(new)
    BY <1>1, <1>3 DEF OneEach, n
  <2>2. Dirs(new) = D
    BY <1>3 DEF Dirs, D, n
  <2> QED
    BY <2>1, <2>2
<1>13. Waits(f.fat, H, new)
  <2> SUFFICES ASSUME NEW k \in 1..(n - 1)
               PROVE  InHand(f.fat, H, new[k]) /\ new[k].row <= Rows
    BY <1>3 DEF Waits
  <2>1. k \in 1..n /\ n \in 1..n /\ k # n /\ new[k] = calls[k]
    BY <1>2, <1>3
  <2>2. InHand(d.fat, G, calls[k]) /\ calls[k].row <= Rows
    BY <1>1 DEF Waits, n
  <2>3. calls[k].dir \in D /\ calls[k].dir # top.dir
    BY <1>1, <1>2, <2>1 DEF OneEach, n, top
  <2>4. calls[k].at # top.at
    <3>1. ClustersOf(d.fat, calls[k].dir) \cap ClustersOf(d.fat, top.dir) = {}
      BY <1>6, <1>7, <2>3, ClustersApart
    <3> QED
      BY <1>7, <2>2, <3>1 DEF InHand
  <2>5. InHand(f.fat, H, calls[k])
    <3>1. H \subseteq G \cup {<<top.at, top.row>>} /\ (top.at = calls[k].at => top.row = Rows + 2)
      BY <2>4
    <3>2. /\ ClustersOf(f.fat, calls[k].dir) = ClustersOf(d.fat, calls[k].dir)
          /\ \A y \in ClustersOf(d.fat, calls[k].dir) : f.fat[y] = d.fat[y]
      BY <1>11, <2>3
    <3>3. \A y : WasRead(H, y) <=> WasRead(G, y)
      BY <1>10
    <3> HIDE DEF H
    <3> QED
      BY ONLY <2>2, <3>1, <3>2, <3>3, StillInHand
  <2> QED
    BY <2>1, <2>2, <2>5
<1>14. Runs(f.fat, H, new[n])
  <2>1. f.fat[top.at] = d.fat[top.at] /\ top.at \in ClustersOf(f.fat, top.dir)
    BY <1>7, <1>11
  <2>2. new[n].dir = top.dir
    BY <1>2, <1>3 DEF top
  <2>3. /\ ~ WasRead(G, d.fat[top.at])
        /\ \A i \in 1..(Rows + 1) : i > top.row => <<top.at, i>> \notin G
    BY <1>4 DEF InHand
  <2>4. (c = top.at /\ j = top.row + 1) \/ (c = d.fat[top.at] /\ j = 0)
    BY <1>2 DEF top, d, calls
  <2>5. CASE c = top.at /\ j = top.row + 1
    <3>1. j \in 1..(Rows + 1) /\ \A i \in 1..(Rows + 1) : i >= j => <<top.at, i>> \notin H
      BY <1>6, <1>8, <2>3, <2>5
    <3>2. InHand(f.fat, H, new[n])
      <4> DEFINE g == new[n]
      <4>1. g.dir = top.dir /\ g.at = top.at /\ g.row = j
        BY <1>3, <2>2, <2>5
      <4>2. WasRead(H, top.at) /\ ~ WasRead(H, f.fat[top.at])
        BY <1>8, <1>10, <2>1, <2>3
      <4>3. \A i \in 1..(Rows + 1) : i > j => <<top.at, i>> \notin H
        BY <1>6, <3>1
      <4> HIDE DEF g, H
      <4> QED
        BY <2>1, <3>1, <4>1, <4>2, <4>3 DEF InHand, g
    <3> QED
      BY <1>3, <2>5, <3>1, <3>2 DEF Runs
  <2>6. CASE c = d.fat[top.at] /\ j = 0
    <3>1. c \in Entries => c \in ClustersOf(f.fat, top.dir)
      <4>1. c \in Entries => c \in ClustersOf(d.fat, top.dir)
        BY <1>6, <1>7, <2>6, ClustersClosed
      <4> QED
        BY <1>7, <1>11, <4>1
    <3>2. AtNext(f.fat, H, new[n])
      BY <1>3, <1>7, <1>8, <1>10, <2>1, <2>2, <2>3, <2>6, <3>1 DEF AtNext
    <3> QED
      BY <1>3, <2>6, <3>2 DEF Runs
  <2> QED
    BY <2>4, <2>5, <2>6
<1>15. z \in Deletes
  <2>1. f \in Works
    BY GoodFields DEF Base
  <2> QED
    BY <1>3, <1>5, <2>1 DEF Deletes
<1>16. Buffer(f, H, A, P, D, buf, OwedRows(new))
  <2>1. Buffer(f, H, A, P, D, buf, 1..Rows)
    BY <1>10 DEF D, calls
  <2>2. OwedRows(new) \in SUBSET (1..Rows)
    BY DEF OwedRows
  <2> QED
    BY <2>1, <2>2, BufferFewer
<1> HIDE DEF H
<1> QED
  BY <1>3, <1>5, <1>9, <1>10, <1>12, <1>13, <1>14, <1>15, <1>16 DEF Deleting

\* What every step of a call knows of the calls in progress.
CallsHold(b, A, P, a, G) ==
  LET n == Len(a.calls)
      D == Dirs(a.calls)
      top == Last(a.calls)
  IN  /\ a = [d |-> a.d, buf |-> a.buf, calls |-> a.calls]
      /\ a.d \in Works /\ a.buf \in Clusters /\ a.calls \in Seq(Frames)
      /\ Good(a.d) /\ Links(a.d.fat) /\ Base(b, A, P, a.d, G, D)
      /\ n \in Nat \ {0} /\ n \in 1..n /\ top = a.calls[n] /\ Runs(a.d.fat, G, top)
      /\ \A k \in 1..n : a.calls[k] \in Frames /\ a.calls[k].dir \in D
      /\ top \in Frames /\ top.dir \in D
      /\ \A c \in D : Own(a.d, G, A, P, c) /\ IsHead(a.d.fat, c)
      /\ \A k \in 1..(n - 1) :
           /\ k \in 1..n /\ k # n /\ a.calls[k].dir # top.dir
           /\ ClustersOf(a.d.fat, a.calls[k].dir) \cap ClustersOf(a.d.fat, top.dir) = {}
           /\ InHand(a.d.fat, G, a.calls[k]) /\ a.calls[k].row <= Rows
           /\ a.calls[k].at \in ClustersOf(a.d.fat, a.calls[k].dir)

\* What a step of the innermost call finds.
LEMMA CallsAre ==
  ASSUME NEW b, NEW A, NEW P, NEW a, NEW G, Deleting(b, A, P, a, G), a.calls # <<>>
  PROVE  CallsHold(b, A, P, a, G)
<1> DEFINE calls == a.calls
           n == Len(calls)
           D == Dirs(calls)
           d == a.d
           top == Last(calls)
<1>1. /\ a \in Deletes /\ Base(b, A, P, d, G, D) /\ OneEach(calls) /\ Waits(d.fat, G, calls)
      /\ Runs(d.fat, G, calls[n])
  BY DEF Deleting
<1>2. /\ calls \in Seq(Frames) /\ a.buf \in Clusters /\ d \in Works
      /\ a = [d |-> a.d, buf |-> a.buf, calls |-> a.calls]
  BY <1>1 DEF Deletes
<1>3. n \in Nat \ {0} /\ \A k \in 1..n : calls[k] \in Frames
  BY <1>2
<1>4. top = calls[n] /\ \A k \in 1..n : calls[k].dir \in D
  BY DEF Last, Dirs
<1>5. Good(d) /\ Links(d.fat) /\ \A c \in D : Own(d, G, A, P, c)
  BY <1>1 DEF Base, Sound
<1>6. \A c \in D : IsHead(d.fat, c)
  BY <1>5 DEF Own
<1>7. \A k \in 1..(n - 1) : InHand(d.fat, G, calls[k]) /\ calls[k].row <= Rows
  BY <1>1 DEF Waits
<1>8. \A k \in 1..(n - 1) : k \in 1..n /\ k # n /\ calls[k].dir # calls[n].dir
  BY <1>1, <1>3 DEF OneEach
<1> HIDE DEF D, d, top, calls, n
<1>9. ASSUME NEW k \in 1..(n - 1)
      PROVE  ClustersOf(d.fat, calls[k].dir) \cap ClustersOf(d.fat, top.dir) = {}
  <2>1. calls[k].dir \in D /\ top.dir \in D /\ calls[k].dir # top.dir
    BY <1>3, <1>4, <1>8
  <2> QED
    BY <1>5, <1>6, <2>1, ClustersApart
<1>10. \A k \in 1..(n - 1) : calls[k].at \in ClustersOf(d.fat, calls[k].dir)
  BY <1>7 DEF InHand
<1>11. n \in 1..n /\ top \in Frames /\ top.dir \in D
  BY <1>3, <1>4
<1> QED
  BY <1>1, <1>2, <1>3, <1>4, <1>5, <1>6, <1>7, <1>8, <1>9, <1>10, <1>11 DEF D, d, top, calls, n, CallsHold

(***************************************************************************)
(* P and what names the directories of A are in the directories of A.      *)
(***************************************************************************)
InDirs(b, A, pl) == pl \in Places /\ \E y \in A : pl[1] \in ClustersOf(b.fat, y)

Anchored(b, A, P) ==
  /\ InDirs(b, A, P)
  /\ \A x \in A : x # Root => \E pl : InDirs(b, A, pl) /\ pl # P /\ Names(b.data, pl, x)

\* The same after some steps; no call has read such a place.
LEMMA StillThere ==
  ASSUME NEW b, NEW A, NEW P, NEW d, NEW G, NEW D, Base(b, A, P, d, G, D), NEW pl, InDirs(b, A, pl)
  PROVE  /\ \A c : Own(d, G, A, P, c) => pl[1] \notin ClustersOf(d.fat, c)
         /\ pl # P => pl \in Live(d.fat, G, P)
         /\ RowIn(d.data, pl) = RowIn(b.data, pl)
<1>1. PICK y \in A : pl[1] \in ClustersOf(b.fat, y)
  BY DEF InDirs
<1>2. pl \in Places /\ pl[1] \in Entries
  BY EntriesAre DEF InDirs, Places
<1>3. Links(d.fat) /\ Marks(d.fat, G, D) /\ Kept(b, A, d) /\ \A c \in D : Own(d, G, A, P, c)
  BY DEF Base, Sound
<1>4. IsHead(d.fat, y) /\ ClustersOf(d.fat, y) = ClustersOf(b.fat, y)
  BY <1>3 DEF Kept, ClustersOf
<1>5. RowIn(d.data, pl) = RowIn(b.data, pl)
  BY <1>1, <1>2, <1>3, <1>4 DEF Kept
<1>6. ASSUME NEW c, Own(d, G, A, P, c) PROVE pl[1] \notin ClustersOf(d.fat, c)
  <2>1. IsHead(d.fat, c) /\ c # y
    BY <1>6 DEF Own
  <2> QED
    BY <1>1, <1>3, <1>4, <2>1, ClustersApart
<1>7. d.fat[pl[1]] # 0
  BY <1>1, <1>3, <1>4, ClustersAre
<1>8. ~ WasRead(G, pl[1])
  BY <1>2, <1>3, <1>6, <1>7 DEF Marks
<1> QED
  BY <1>2, <1>5, <1>6, <1>7, <1>8 DEF Live, Used

\* A cluster is read: what its rows name is owed from now on.
Owed(b, A, P, d, G, D, c) ==
  LET H == G \cup {<<c, 0>>}
  IN  /\ Base(b, A, P, d, H, D) /\ Buffer(d, H, A, P, D, d.data[c], 1..Rows)
      /\ \A y : WasRead(H, y) <=> WasRead(G, y) \/ y = c
      /\ ~ WasRead(H, d.fat[c]) /\ c \in 2..LastCluster
      /\ \A j \in 1..(Rows + 1) : <<c, j>> \notin H
      /\ <<c, 0>> \in Events \ G

\* What the rows of a cluster name that is read now is still to be freed.
LEMMA Claimed ==
  ASSUME NEW b, NEW A, NEW P, Anchored(b, A, P), NEW d, NEW G, NEW D, Base(b, A, P, d, G, D),
         NEW f, f.dir \in D, NEW c \in Entries, c = f.at, AtNext(d.fat, G, f), OnDisk(c)
  PROVE  Owed(b, A, P, d, G, D, c)
<1> DEFINE H == G \cup {<<c, 0>>}
           L == Live(d.fat, G, P)
           M == Live(d.fat, H, P)
           buf == d.data[c]
           dir == f.dir
<1>0. /\ dir \in D /\ c \in ClustersOf(d.fat, dir) /\ ~ WasRead(G, c)
      /\ c = dir \/ \E x \in Entries : d.fat[x] = c /\ WasRead(G, x)
  BY DEF AtNext
<1> HIDE DEF dir
<1>1. /\ Good(d) /\ Sound(d.fat, d.data, L) /\ Kept(b, A, d) /\ Marks(d.fat, G, D)
      /\ Links(d.fat) /\ d.data \in Datas /\ \A x \in D : Own(d, G, A, P, x)
  BY DEF Base, Sound
<1>2. IsHead(d.fat, dir) /\ \A x \in D : IsHead(d.fat, x)
  BY <1>0, <1>1 DEF Own
<1>3. c \in Entries /\ d.fat[c] # 0 /\ ClustersOf(d.fat, dir) \subseteq Entries
  BY <1>0, <1>1, <1>2, ClustersAre
<1>4. c \in 2..LastCluster /\ \A j \in 1..Rows : <<c, j>> \in Places
  BY <1>3, EntriesAre DEF Places
<1>5. \A y : WasRead(H, y) <=> WasRead(G, y) \/ y = c
  BY DEF WasRead
<1>6. \A y, j : <<y, j>> \in H <=> <<y, j>> \in G \/ (y = c /\ j = 0)
  OBVIOUS
<1> HIDE DEF H
<1>7. M \subseteq L /\ \A pl \in M : pl[1] # c
  BY <1>5 DEF Live
<1>8. \A j \in 1..Rows : <<c, j>> \in L
  <2> SUFFICES ASSUME NEW j \in 1..Rows PROVE <<c, j>> \in L
    OBVIOUS
  <2>1. InDirs(b, A, P)
    BY DEF Anchored
  <2>2. P[1] # c
    BY <1>0, <1>1, <2>1, StillThere
  <2> QED
    BY <1>0, <1>3, <1>4, <2>2 DEF Live, Used
<1> HIDE DEF L, M
<1>9. ~ WasRead(H, d.fat[c])
  <2>1. ~ WasRead(G, d.fat[c])
    BY <1>0, <1>1, <1>3 DEF Marks
  <2>2. ASSUME d.fat[c] = c PROVE FALSE
    <3>1. c # dir
      BY <1>2, <1>3, <2>2 DEF IsHead
    <3>2. PICK z \in Entries : d.fat[z] = c /\ WasRead(G, z)
      BY <1>0, <3>1
    <3>3. z = c
      BY <1>1, <1>3, <2>2, <3>2 DEF Links
    <3> QED
      BY <1>0, <3>2, <3>3
  <2> QED
    BY <1>5, <2>1, <2>2
<1>10. \A j \in 1..(Rows + 1) : <<c, j>> \notin H
  BY <1>0, <1>1, <1>3, <1>6 DEF Marks
<1>11. <<c, 0>> \in Events \ G
  BY <1>0, <1>3, EntriesAre DEF Events, WasRead
<1>12. Marks(d.fat, H, D)
  <2>1. /\ G \subseteq Events
        /\ \A x \in Entries : WasRead(G, x) => d.fat[x] = 0 \/ \E y \in D : x \in ClustersOf(d.fat, y)
        /\ \A x \in Entries : WasRead(G, d.fat[x]) => WasRead(G, x)
        /\ \A x \in Entries : \A j \in 1..(Rows + 1) : <<x, j>> \in G => WasRead(G, x)
        /\ \A x \in Entries : <<x, Rows + 2>> \in G => d.fat[x] = 0
    BY <1>1 DEF Marks
  <2>2. H \subseteq Events
    BY <1>11, <2>1 DEF H
  <2>3. \A x \in Entries : WasRead(H, d.fat[x]) => WasRead(H, x)
    <3> SUFFICES ASSUME NEW x \in Entries, d.fat[x] = c PROVE WasRead(H, x)
      BY <1>5, <2>1
    <3>1. c # dir
      BY <1>2 DEF IsHead
    <3>2. PICK z \in Entries : d.fat[z] = c /\ WasRead(G, z)
      BY <1>0, <3>1
    <3>3. z = x
      BY <1>1, <1>3, <3>2 DEF Links
    <3> QED
      BY <1>5, <3>2, <3>3
  <2>4. \A x \in Entries : \A j \in 1..(Rows + 1) : <<x, j>> \in H => WasRead(H, x)
    BY <1>5, <1>6, <2>1, EntriesAre
  <2>5. \A x \in Entries : <<x, Rows + 2>> \in H => d.fat[x] = 0
    BY <1>6, <2>1, EntriesAre
  <2>6. \A x \in Entries : WasRead(H, x) => d.fat[x] = 0 \/ \E y \in D : x \in ClustersOf(d.fat, y)
    BY <1>0, <1>5, <2>1
  <2> QED
    BY <2>2, <2>3, <2>4, <2>5, <2>6 DEF Marks
<1>13. \A x : Own(d, G, A, P, x) => Own(d, H, A, P, x)
  BY <1>7 DEF Own, L, M
<1>14. Base(b, A, P, d, H, D)
  <2>1. Sound(d.fat, d.data, M)
    BY <1>1, <1>7, SoundFewer
  <2> QED
    BY <1>1, <1>12, <1>13, <2>1 DEF Base, M
<1>15. ASSUME NEW j \in 1..Rows, NEW x \in Links0, Owes(buf, j, x)
       PROVE  /\ x \in Entries /\ Names(d.data, <<c, j>>, x)
              /\ Own(d, H, A, P, x) /\ x \notin D
  <2>1. IsEntry(d.data, <<c, j>>) /\ RowIn(d.data, <<c, j>>).first = x /\ x # 0
    BY <1>15 DEF Owes, IsEntry, RowIn
  <2>2. IsHead(d.fat, x) /\ x # Root /\ Names(d.data, <<c, j>>, x)
    BY <1>1, <1>8, <2>1 DEF Sound, NameHead, Names
  <2>3. x \in Entries
    BY <2>2 DEF IsHead
  <2>4. \A pl \in L : Names(d.data, pl, x) => pl = <<c, j>>
    BY <1>1, <1>8, <2>2, <2>3 DEF Sound
  <2>5. \A pl \in M : ~ Names(d.data, pl, x)
    BY <1>7, <2>4
  <2>6. x \notin D
    BY <1>1, <1>8, <2>2 DEF Own, L
  <2>7. x \notin A
    <3> SUFFICES ASSUME x \in A PROVE FALSE
      OBVIOUS
    <3>1. PICK pl : InDirs(b, A, pl) /\ pl # P /\ Names(b.data, pl, x)
      BY <2>2 DEF Anchored
    <3>2. pl \in L /\ RowIn(d.data, pl) = RowIn(b.data, pl) /\ pl[1] \notin ClustersOf(d.fat, dir)
      BY <1>0, <1>1, <3>1, StillThere DEF L
    <3>3. Names(d.data, pl, x)
      BY <3>1, <3>2 DEF Names, IsEntry
    <3>4. pl = <<c, j>>
      BY <2>4, <3>2, <3>3
    <3> QED
      BY <1>0, <3>2, <3>4
  <2> QED
    BY <2>2, <2>3, <2>5, <2>6, <2>7 DEF Own, M
<1>16. ASSUME NEW i \in 1..Rows, NEW j \in 1..Rows, NEW x \in Links0, Owes(buf, i, x), Owes(buf, j, x)
       PROVE  i = j
  <2>1. Names(d.data, <<c, i>>, x) /\ Names(d.data, <<c, j>>, x) /\ x \in Entries
    BY <1>15, <1>16
  <2>2. <<c, i>> = <<c, j>>
    BY <1>1, <1>8, <2>1 DEF Sound
  <2> QED
    BY <2>2
<1> HIDE DEF buf
<1>17. Buffer(d, H, A, P, D, buf, 1..Rows)
  BY <1>15, <1>16 DEF Buffer
<1> QED
  BY <1>4, <1>5, <1>9, <1>10, <1>11, <1>14, <1>17 DEF H, buf, Owed

\* A cluster is read into the buffer.
LEMMA Reads ==
  ASSUME NEW b, NEW A, NEW P, Anchored(b, A, P), NEW a, NEW G, Deleting(b, A, P, a, G), a.calls # <<>>,
         Last(a.calls).row = 0, Last(a.calls).at \in Entries, OnDisk(Last(a.calls).at),
         NEW z, z = [a EXCEPT !.buf = a.d.data[Last(a.calls).at],
                              !.calls = Goto(a, Last(a.calls).at, 1)]
  PROVE  Goes(b, A, P, z, G)
<1> DEFINE calls == a.calls
           n == Len(calls)
           top == Last(calls)
           c == top.at
           D == Dirs(calls)
           d == a.d
           v == <<c, 0>>
           H == G \cup {v}
           new == Goto(a, c, 1)
           buf == d.data[c]
<1>1. /\ a = [d |-> a.d, buf |-> a.buf, calls |-> a.calls] /\ d \in Works
      /\ calls \in Seq(Frames) /\ Good(d) /\ Links(d.fat) /\ Base(b, A, P, d, G, D)
      /\ n \in Nat \ {0} /\ top = calls[n] /\ Runs(d.fat, G, top) /\ top.dir \in D
      /\ top \in Frames /\ \A x \in D : IsHead(d.fat, x)
      /\ \A k \in 1..(n - 1) :
           /\ ClustersOf(d.fat, calls[k].dir) \cap ClustersOf(d.fat, top.dir) = {}
           /\ InHand(d.fat, G, calls[k]) /\ calls[k].row <= Rows /\ calls[k].dir \in D
  <2>1. CallsHold(b, A, P, a, G)
    BY CallsAre
  <2> QED
    BY <2>1 DEF CallsHold
<1>2. OneEach(calls)
  BY SMTT(30) DEF Deleting
<1>3. /\ c \in ClustersOf(d.fat, top.dir) /\ ~ WasRead(G, c)
      /\ c = top.dir \/ \E x \in Entries : d.fat[x] = c /\ WasRead(G, x)
  BY <1>1 DEF Runs, AtNext, InHand
<1>4. /\ Base(b, A, P, d, H, D) /\ Buffer(d, H, A, P, D, buf, 1..Rows)
      /\ \A y : WasRead(H, y) <=> WasRead(G, y) \/ y = c
      /\ ~ WasRead(H, d.fat[c]) /\ c \in 2..LastCluster
      /\ \A j \in 1..(Rows + 1) : <<c, j>> \notin H
      /\ v \in Events \ G
  <2>1. top.dir \in D /\ c \in Entries /\ c = top.at /\ AtNext(d.fat, G, top) /\ OnDisk(c)
    BY <1>1 DEF Runs, InHand
  <2>2. Base(b, A, P, d, G, D)
    BY <1>1
  <2> HIDE DEF c, d, D, top
  <2>3. Owed(b, A, P, d, G, D, c)
    BY ONLY <2>1, <2>2, Anchored(b, A, P), Claimed
  <2> QED
    BY <2>3 DEF Owed
<1>5. c \in Links0 /\ 1 \in 0..(Rows + 1) /\ Rows \in Nat
  BY EntriesAre, SMTT(30) DEF Links0
<1>6. /\ new \in Seq(Frames) /\ Len(new) = n
      /\ \A k \in 1..n : new[k].dir = calls[k].dir
      /\ \A k \in 1..(n - 1) : new[k] = calls[k]
      /\ new[n].at = c /\ new[n].row = 1
  BY <1>1, <1>5, GotoIs, SMTT(30)
<1>7. buf \in Clusters
  BY <1>1, <1>4, GoodFields, ZenonT(60) DEF Datas
<1>8. z.d = d /\ z.buf = buf /\ z.calls = new /\ z \in Deletes
  <2>1. z = [d |-> d, buf |-> buf, calls |-> new]
    BY <1>1
  <2> QED
    BY <1>1, <1>6, <1>7, <2>1 DEF Deletes
<1> HIDE DEF new, buf, H, D, d, calls, top, c
<1>9. Dirs(new) = D /\ OneEach(new)
  <2>1. OneEach(new)
    BY <1>2, <1>6 DEF OneEach, n
  <2>2. Dirs(new) = D
    BY <1>6 DEF Dirs, D, n
  <2> QED
    BY <2>1, <2>2
<1> HIDE DEF n
<1>10. Waits(d.fat, H, new)
  <2> SUFFICES ASSUME NEW k \in 1..(n - 1)
               PROVE  InHand(d.fat, H, new[k]) /\ new[k].row <= Rows
    BY <1>6 DEF Waits
  <2> DEFINE g == calls[k]
  <2>1. InHand(d.fat, G, g) /\ g.row <= Rows /\ new[k] = g /\ IsHead(d.fat, g.dir)
    BY <1>1, <1>6
  <2>2. g.at \in ClustersOf(d.fat, g.dir) /\ c \notin ClustersOf(d.fat, g.dir)
    BY <1>1, <1>3, <2>1 DEF InHand
  <2>3. g.at \in Entries
    BY <1>1, <2>1, <2>2, ClustersAre
  <2> HIDE DEF g
  <2>4. d.fat[g.at] # c
    <3>1. c \in Entries
      BY DEF c, top, calls
    <3> QED
      BY <1>1, <2>1, <2>2, <2>3, <3>1, ClustersClosed
  <2>5. g.at # c
    BY <2>2
  <2>6. \A j : <<g.at, j>> \in H <=> <<g.at, j>> \in G
    BY <2>5 DEF H
  <2> QED
    BY <1>4, <2>1, <2>4, <2>6 DEF InHand
<1>11. Runs(d.fat, H, new[n])
  <2> DEFINE g == new[n]
  <2>1. g.at = c /\ g.row = 1 /\ g.dir = top.dir
    BY <1>1, <1>6
  <2>2. 1 \in 1..(Rows + 1) /\ WasRead(H, c)
    BY <1>4, <1>5
  <2> HIDE DEF g
  <2>3. InHand(d.fat, H, g)
    BY <1>3, <1>4, <2>1, <2>2 DEF InHand
  <2> QED
    BY <1>4, <2>1, <2>2, <2>3 DEF Runs, g
<1>12. Buffer(d, H, A, P, D, buf, OwedRows(new))
  <2>1. OwedRows(new) \in SUBSET (1..Rows)
    BY DEF OwedRows
  <2> QED
    BY <1>4, <2>1, BufferFewer
<1>13. Deleting(b, A, P, z, H)
  BY <1>4, <1>6, <1>8, <1>9, <1>10, <1>11, <1>12 DEF Deleting
<1> QED
  BY <1>4, <1>13 DEF H, Goes

\* What a row of the buffer names, while no call is about to return to it.
LEMMA RowOwed ==
  ASSUME NEW b, NEW A, NEW P, NEW a, NEW G, Deleting(b, A, P, a, G), a.calls # <<>>,
         Last(a.calls).row # 0
  PROVE  /\ OwedRows(a.calls) = 1..Rows
         /\ \A j \in 1..Rows : \A c \in Links0 : Owes(a.buf, j, c) =>
              Own(a.d, G, A, P, c) /\ c \notin Dirs(a.calls)
         /\ \A i, j \in 1..Rows : \A c \in Links0 : Owes(a.buf, i, c) /\ Owes(a.buf, j, c) => i = j
<1>1. a.calls[Len(a.calls)].row # 0
  BY DEF Last
<1>2. OwedRows(a.calls) = 1..Rows
  BY <1>1 DEF OwedRows
<1>3. Buffer(a.d, G, A, P, Dirs(a.calls), a.buf, OwedRows(a.calls))
  BY DEF Deleting
<1> QED
  BY <1>2, <1>3 DEF Buffer

\* A subdirectory is entered.
LEMMA Enters ==
  ASSUME NEW b, NEW A, NEW P, NEW a, NEW G, Deleting(b, A, P, a, G), a.calls # <<>>,
         Last(a.calls).row \in 1..Rows, NEW h \in Entries, Owes(a.buf, Last(a.calls).row, h),
         NEW z, z = [a EXCEPT !.calls = Append(a.calls, Scan(h))]
  PROVE  Goes(b, A, P, z, G)
<1> DEFINE calls == a.calls
           n == Len(calls)
           top == Last(calls)
           D == Dirs(calls)
           E == D \cup {h}
           d == a.d
           i == top.row
           v == <<top.at, i>>
           H == G \cup {v}
           new == Append(calls, Scan(h))
<1>0. CallsHold(b, A, P, a, G)
  BY CallsAre
<1>1. /\ a = [d |-> a.d, buf |-> a.buf, calls |-> a.calls] /\ d \in Works /\ a.buf \in Clusters
      /\ calls \in Seq(Frames) /\ Good(d) /\ Links(d.fat) /\ Base(b, A, P, d, G, D)
      /\ n \in Nat \ {0} /\ n \in 1..n /\ top = calls[n] /\ Runs(d.fat, G, top) /\ top.dir \in D
      /\ top \in Frames /\ \A x \in D : IsHead(d.fat, x) /\ Own(d, G, A, P, x)
      /\ \A k \in 1..n : calls[k].dir \in D
      /\ \A k \in 1..(n - 1) :
           /\ ClustersOf(d.fat, calls[k].dir) \cap ClustersOf(d.fat, top.dir) = {}
           /\ InHand(d.fat, G, calls[k]) /\ calls[k].row <= Rows
           /\ calls[k].at \in ClustersOf(d.fat, calls[k].dir)
  BY <1>0 DEF CallsHold
<1>2. OneEach(calls)
  BY DEF Deleting
<1>3. Rows \in Nat /\ 0 \in 0..(Rows + 1) /\ h \in Links0 /\ i \in 1..Rows /\ Entries \subseteq Links0
  BY EntriesAre DEF Links0
<1>4. /\ Own(d, G, A, P, h) /\ h \notin D /\ IsHead(d.fat, h)
      /\ \A j \in 1..Rows : \A c \in Links0 : Owes(a.buf, j, c) => Own(d, G, A, P, c) /\ c \notin D
      /\ \A k, j \in 1..Rows : \A c \in Links0 : Owes(a.buf, k, c) /\ Owes(a.buf, j, c) => k = j
  <2>1. Last(a.calls).row # 0
    BY <1>3
  <2>2. /\ \A j \in 1..Rows : \A c \in Links0 : Owes(a.buf, j, c) => Own(d, G, A, P, c) /\ c \notin D
        /\ \A k, j \in 1..Rows : \A c \in Links0 : Owes(a.buf, k, c) /\ Owes(a.buf, j, c) => k = j
    BY <2>1, RowOwed
  <2>3. Own(d, G, A, P, h) /\ h \notin D
    BY <1>3, <2>2
  <2> QED
    BY <2>2, <2>3 DEF Own
<1>5. /\ Scan(h) \in Frames /\ Scan(h).dir = h /\ Scan(h).at = h /\ Scan(h).row = 0
  BY <1>3 DEF Scan, Frames
<1>6. /\ new \in Seq(Frames) /\ Len(new) = n + 1 /\ new # <<>>
      /\ \A k \in 1..n : new[k] = calls[k]
      /\ new[n + 1] = Scan(h)
  <2> HIDE DEF calls
  <2> QED
    BY <1>1, <1>5
<1>7. InHand(d.fat, G, top) /\ v \notin G
  BY <1>1, <1>3 DEF Runs
<1>8. top.at \in ClustersOf(d.fat, top.dir) /\ top.at \in Entries /\ WasRead(G, top.at)
  <2>1. top.at \in ClustersOf(d.fat, top.dir) /\ WasRead(G, top.at)
    BY <1>7 DEF InHand
  <2> QED
    BY <1>1, <2>1, ClustersAre
<1>9. z.d = d /\ z.buf = a.buf /\ z.calls = new /\ z \in Deletes
  <2>1. z = [d |-> d, buf |-> a.buf, calls |-> new]
    BY <1>1
  <2> QED
    BY <1>1, <1>6, <2>1 DEF Deletes
<1> HIDE DEF new, D, d, calls, top, i
<1>10. v \in Events
  BY <1>3, <1>8 DEF Events
<1>11. /\ Base(b, A, P, d, H, D) /\ \A y : WasRead(H, y) <=> WasRead(G, y)
       /\ \A c : Own(d, H, A, P, c) <=> Own(d, G, A, P, c)
  <2> DEFINE x == top.at
  <2>1. /\ Base(b, A, P, d, G, D) /\ x \in Entries /\ i \in 1..(Rows + 2)
        /\ (i < Rows + 2 => WasRead(G, x)) /\ (i = Rows + 2 => d.fat[x] = 0)
    BY <1>1, <1>3, <1>8
  <2> HIDE DEF x
  <2>2. LET K == G \cup {<<x, i>>}
        IN  /\ Base(b, A, P, d, K, D) /\ \A y : WasRead(K, y) <=> WasRead(G, y)
            /\ \A c : Own(d, K, A, P, c) <=> Own(d, G, A, P, c)
            /\ \A u, J : Buffer(d, G, A, P, D, u, J) => Buffer(d, K, A, P, D, u, J)
    BY ONLY <2>1, NewEvent
  <2> QED
    BY <2>2 DEF x
<1> HIDE DEF H
<1>12. Base(b, A, P, d, H, E)
  <2>1. Marks(d.fat, H, E)
    BY <1>11 DEF Base, Marks
  <2> QED
    BY <1>4, <1>11, <2>1 DEF Base
<1>13. Dirs(new) = E /\ OneEach(new)
  <2>1. \A k \in 1..(n + 1) : k = n + 1 \/ k \in 1..n
    BY <1>1
  <2>2. 1..n \subseteq 1..(n + 1) /\ n + 1 \in 1..(n + 1) /\ n + 1 \notin 1..n
    BY <1>1
  <2>3. Dirs(new) = E
    BY <1>5, <1>6, <2>1, <2>2 DEF Dirs, D, n
  <2>4. \A k \in 1..n : new[k].dir \in D
    BY <1>1, <1>6
  <2>5. OneEach(new)
    BY <1>2, <1>4, <1>5, <1>6, <2>1, <2>4 DEF OneEach, n
  <2> QED
    BY <2>3, <2>5
<1> HIDE DEF n, E
<1>14. Waits(d.fat, H, new)
  <2> SUFFICES ASSUME NEW k \in 1..n PROVE InHand(d.fat, H, new[k]) /\ new[k].row <= Rows
    BY <1>1, <1>6 DEF Waits
  <2> DEFINE g == calls[k]
  <2>1. new[k] = g /\ (k = n \/ k \in 1..(n - 1))
    BY <1>1, <1>6
  <2>2. InHand(d.fat, G, g) /\ g.row <= Rows /\ (g.at = top.at => g = top)
    BY <1>1, <1>3, <1>7, <1>8, <2>1 DEF i
  <2> HIDE DEF g
  <2>3. InHand(d.fat, H, g)
    <3>1. H \subseteq G \cup {<<top.at, i>>} /\ (top.at = g.at => i = Rows + 2 \/ i = g.row)
      BY <2>2 DEF H, i
    <3>2. /\ ClustersOf(d.fat, g.dir) = ClustersOf(d.fat, g.dir)
          /\ \A y \in ClustersOf(d.fat, g.dir) : d.fat[y] = d.fat[y]
          /\ \A y : WasRead(H, y) <=> WasRead(G, y)
      BY <1>11
    <3> QED
      BY ONLY <2>2, <3>1, <3>2, StillInHand
  <2> QED
    BY <2>1, <2>2, <2>3
<1>15. Runs(d.fat, H, new[Len(new)])
  <2>1. h \in ClustersOf(d.fat, h)
    BY <1>1, <1>4, ClustersAre
  <2>2. ~ WasRead(H, h)
    <3> SUFFICES ASSUME WasRead(G, h) PROVE FALSE
      BY <1>11
    <3>1. d.fat[h] # 0
      BY <1>4 DEF IsHead
    <3>2. PICK c \in D : h \in ClustersOf(d.fat, c)
      BY <1>1, <3>1 DEF Base, Marks
    <3>3. c # h /\ IsHead(d.fat, c)
      BY <1>1, <1>4, <3>2
    <3>4. ClustersOf(d.fat, c) \cap ClustersOf(d.fat, h) = {}
      BY <1>1, <1>4, <3>3, ClustersApart
    <3> QED
      BY <2>1, <3>2, <3>4
  <2> QED
    BY <1>5, <1>6, <2>1, <2>2 DEF Runs, AtNext
<1>16. Buffer(d, H, A, P, E, a.buf, OwedRows(new))
  <2>1. \A j \in OwedRows(new) : j \in 1..Rows /\ j # i
    <3>1. Len(new) > 1 /\ new[Len(new)].row = 0 /\ new[Len(new) - 1].row = i
      BY <1>1, <1>5, <1>6 DEF i
    <3> QED
      BY <3>1 DEF OwedRows
  <2>2. Owes(a.buf, i, h)
    BY DEF i, top, calls
  <2>3. \A j \in OwedRows(new) : \A c \in Links0 : Owes(a.buf, j, c) => Own(d, H, A, P, c) /\ c \notin E
    BY <1>3, <1>4, <1>11, <2>1, <2>2 DEF E
  <2> QED
    BY <1>4, <2>1, <2>3 DEF Buffer
<1>17. Deleting(b, A, P, z, H)
  BY <1>6, <1>9, <1>12, <1>13, <1>14, <1>15, <1>16 DEF Deleting
<1> QED
  BY <1>7, <1>10, <1>17 DEF H, Goes

\* The innermost call goes on, its disk the same and no new entry in the buffer.
LEMMA Skips ==
  ASSUME NEW b, NEW A, NEW P, NEW a, NEW G, Deleting(b, A, P, a, G), a.calls # <<>>,
         Last(a.calls).row # 0, NEW buf \in Clusters,
         \A j \in 1..Rows : buf[j] = a.buf[j] \/ buf[j].kind # "entry",
         NEW c \in Links0, NEW j \in 0..(Rows + 1),
         \/ c = Last(a.calls).at /\ j = Last(a.calls).row + 1
         \/ c = a.d.fat[Last(a.calls).at] /\ j = 0,
         NEW z, z = [d |-> a.d, buf |-> buf, calls |-> Goto(a, c, j)]
  PROVE  Goes(b, A, P, z, G)
<1> DEFINE D == Dirs(a.calls)
           f == a.d
<1>1. \A k \in 1..Rows : \A x \in Links0 : Owes(buf, k, x) => Owes(a.buf, k, x)
  BY DEF Owes
<1>2. Buffer(f, G, A, P, D, buf, 1..Rows)
  BY <1>1, RowOwed DEF Buffer
<1>3. Base(b, A, P, f, G, D)
  BY DEF Deleting
<1>4. SameChains(f, a.d, D)
  BY DEF SameChains
<1>5. z = [d |-> f, buf |-> buf, calls |-> Goto(a, c, j)]
  OBVIOUS
<1> HIDE DEF f
<1> QED
  BY <1>2, <1>3, <1>4, <1>5, Advances

\* A file is freed, or a directory without a chain.
LEMMA FreesFile ==
  ASSUME NEW b, NEW A, NEW P, NEW a, NEW G, Deleting(b, A, P, a, G), a.calls # <<>>,
         Last(a.calls).row \in 1..Rows, a.buf[Last(a.calls).row].kind = "entry",
         NEW z, z = [d     |-> FatFreeChain(a.d, a.buf[Last(a.calls).row].first),
                     buf   |-> [a.buf EXCEPT ![Last(a.calls).row] = Gone],
                     calls |-> Goto(a, Last(a.calls).at, Last(a.calls).row + 1)]
  PROVE  Goes(b, A, P, z, G)
<1> DEFINE top == Last(a.calls)
           i == top.row
           h == a.buf[i].first
           f == FatFreeChain(a.d, h)
           D == Dirs(a.calls)
           d == a.d
           buf == [a.buf EXCEPT ![i] = Gone]
           c == top.at
           j == i + 1
<1>0. CallsHold(b, A, P, a, G)
  BY CallsAre
<1>1. /\ Good(d) /\ a.buf \in Clusters /\ Base(b, A, P, d, G, D) /\ top \in Frames
      /\ \A x \in D : Own(d, G, A, P, x)
  BY <1>0 DEF CallsHold
<1>2. Rows \in Nat /\ Entries \subseteq Links0 /\ i \in 1..Rows /\ i # 0 /\ j \in 0..(Rows + 1)
  BY EntriesAre DEF Links0
<1>3. top.at \in Links0
  BY <1>1 DEF Frames
<1>4. a.buf[i] \in EntryRows /\ h \in Entries \cup {0}
  <2>1. a.buf[i] \in RowSet
    BY <1>1, <1>2 DEF Clusters
  <2>2. a.buf[i] \in EntryRows
    BY <2>1, RowKinds
  <2> QED
    BY <2>2 DEF EntryRows, AnyEntry
<1>5. buf \in Clusters /\ \A k \in 1..Rows : buf[k] = IF k = i THEN Gone ELSE a.buf[k]
  BY <1>1, <1>2, RowKinds DEF Clusters
<1>6. Gone.kind # "entry"
  BY DEF Gone
<1>7. /\ OwedRows(a.calls) = 1..Rows
      /\ \A k \in 1..Rows : \A x \in Links0 : Owes(a.buf, k, x) => Own(d, G, A, P, x) /\ x \notin D
      /\ \A k, l \in 1..Rows : \A x \in Links0 : Owes(a.buf, k, x) /\ Owes(a.buf, l, x) => k = l
  BY <1>2, RowOwed
<1>8. z = [d |-> f, buf |-> buf, calls |-> Goto(a, c, j)] /\ c \in Links0
  BY <1>3
<1> HIDE DEF buf
<1>9. CASE h = 0
  <2>1. f = d
    BY <1>1, <1>9, FreeNone, EntriesAre
  <2>2. \A k \in 1..Rows : buf[k] = a.buf[k] \/ buf[k].kind # "entry"
    BY <1>5, <1>6
  <2>3. z = [d |-> a.d, buf |-> buf, calls |-> Goto(a, c, j)] /\ c = Last(a.calls).at /\ j = Last(a.calls).row + 1
    BY <1>8, <2>1
  <2>4. Last(a.calls).row # 0
    BY <1>2
  <2> HIDE DEF c, j
  <2> QED
    BY <1>2, <1>5, <1>8, <2>2, <2>3, <2>4, Skips
<1>10. CASE h # 0
  <2>1. h \in Entries /\ h \in Links0 /\ Owes(a.buf, i, h)
    BY <1>2, <1>4, <1>10 DEF Owes
  <2>2. Own(d, G, A, P, h) /\ h \notin D
    BY <1>2, <1>7, <2>1
  <2> DEFINE e == a.d
  <2>20. Good(e) /\ e.fat = d.fat /\ Logged(d, e) /\ \A pl \in Places : pl[1] # h => RowIn(e.data, pl) = RowIn(d.data, pl)
    BY <1>1 DEF Logged
  <2>21. f = FatFreeChain(e, h)
    OBVIOUS
  <2> HIDE DEF f, h, D, d, e
  <2>3. /\ Base(b, A, P, f, G, D \ {h})
        /\ \A x : Own(d, G, A, P, x) /\ x # h =>
             /\ Own(f, G, A, P, x) /\ ClustersOf(f.fat, x) = ClustersOf(d.fat, x)
             /\ \A y \in ClustersOf(d.fat, x) : f.fat[y] = d.fat[y]
    <3>1. Base(b, A, P, d, G, D)
      BY <1>1
    <3>2. LET g == FatFreeChain(e, h)
          IN  /\ Base(b, A, P, g, G, D \ {h}) /\ g.ok = e.ok
              /\ g.fat = Freed(d.fat, ClustersOf(d.fat, h))
              /\ \A x : Own(d, G, A, P, x) /\ x # h =>
                   /\ Own(g, G, A, P, x) /\ ClustersOf(g.fat, x) = ClustersOf(d.fat, x)
                   /\ \A y \in ClustersOf(d.fat, x) : g.fat[y] = d.fat[y]
      BY ONLY <3>1, <2>2, <2>20, FreeBase
    <3> QED
      BY <3>2, <2>21
  <2>4. D \ {h} = D
    BY <2>2
  <2>5. Buffer(f, G, A, P, D, buf, 1..Rows)
    <3>1. Buffer(d, G, A, P, D, a.buf, 1..Rows)
      BY <1>7 DEF Buffer
    <3>2. \A k \in 1..Rows : \A x \in Links0 : Owes(buf, k, x) => k \in 1..Rows /\ Owes(a.buf, k, x) /\ x # h
      <4> SUFFICES ASSUME NEW k \in 1..Rows, NEW x \in Links0, Owes(buf, k, x)
                   PROVE  Owes(a.buf, k, x) /\ x # h
        OBVIOUS
      <4>1. k # i /\ buf[k] = a.buf[k]
        BY <1>5, <1>6 DEF Owes
      <4>2. Owes(a.buf, k, x)
        BY <4>1 DEF Owes
      <4> QED
        BY <1>2, <1>7, <2>1, <4>1, <4>2
    <3> DEFINE J == 1..Rows
               old == a.buf
    <3>3. /\ Base(b, A, P, d, G, D) /\ Buffer(d, G, A, P, D, old, J)
          /\ \A k \in J : \A x \in Links0 : Owes(buf, k, x) => k \in J /\ Owes(old, k, x) /\ x # h
      BY <1>1, <3>1, <3>2
    <3> HIDE DEF J, old
    <3>4. Buffer(FatFreeChain(e, h), G, A, P, D \ {h}, buf, J)
      BY ONLY <2>2, <2>20, <3>3, FreeBuffer
    <3> QED
      BY <2>4, <2>21, <3>4 DEF J
  <2>6. SameChains(f, d, D)
    BY <1>1, <2>2, <2>3 DEF SameChains
  <2>7. /\ c = Last(a.calls).at /\ j = Last(a.calls).row + 1 /\ Last(a.calls).row # 0
        /\ Base(b, A, P, f, G, D) /\ D = Dirs(a.calls) /\ d = a.d
    BY <1>2, <2>3, <2>4 DEF D, d
  <2> HIDE DEF c, j
  <2> QED
    BY <1>2, <1>5, <1>8, <2>5, <2>6, <2>7, Advances, ZenonT(60)
<1> QED
  BY <1>9, <1>10

\* The innermost call writes its buffer and returns.
LEMMA Finishes ==
  ASSUME NEW b, NEW A, NEW P, NEW a, NEW G, Deleting(b, A, P, a, G), a.calls # <<>>
  PROVE  Goes(b, A, P, Finish(a), G)
<1> DEFINE d == a.d
           dir == Last(a.calls).dir
           e == WriteCluster(d, dir, a.buf)
<1>0. CallsHold(b, A, P, a, G)
  BY CallsAre
<1>1. Good(d) /\ d.data \in Datas /\ a.buf \in Clusters /\ dir \in Entries
  BY <1>0, GoodFields DEF CallsHold, Frames
<1>2. /\ Good(e) /\ e.fat = d.fat /\ Logged(d, e)
      /\ OnDisk(dir) => e.data = [d.data EXCEPT ![dir] = a.buf]
      /\ ~ OnDisk(dir) => e.data = d.data
  <2> HIDE DEF d, dir
  <2>1. LET x == WriteCluster(d, dir, a.buf)
        IN  /\ Good(x) /\ x.fat = d.fat
            /\ OnDisk(dir) => /\ x.data = [d.data EXCEPT ![dir] = a.buf] /\ x.ok = d.ok
                              /\ x.log = Append(d.log, <<d.fat, [d.data EXCEPT ![dir] = a.buf]>>)
            /\ ~ OnDisk(dir) => x.data = d.data /\ x.ok = FALSE /\ x.log = d.log
    BY ONLY <1>1, WriteClusterIs
  <2> QED
    BY <2>1 DEF Logged
<1>3. Finish(a) = FreeAndReturn(a, e)
  BY DEF Finish
<1> HIDE DEF e
<1>4. \A pl \in Places : pl[1] # dir => RowIn(e.data, pl) = RowIn(d.data, pl)
  BY <1>1, <1>2 DEF Places, RowIn, Datas
<1>5. Deleting(b, A, P, a, G) /\ a.calls # <<>> /\ dir = Last(a.calls).dir /\ d = a.d
  OBVIOUS
<1> HIDE DEF d, dir
<1> QED
  BY ONLY <1>2, <1>3, <1>4, <1>5, Returns

(***************************************************************************)
(* A step of the call does one thing that was not done before.             *)
(***************************************************************************)
LEMMA DeleteStepKeeps ==
  ASSUME NEW b, NEW A, NEW P, Anchored(b, A, P), NEW a, NEW G, Deleting(b, A, P, a, G), a.calls # <<>>
  PROVE  Goes(b, A, P, DeleteStep(a), G)
<1> DEFINE top == Last(a.calls)
           c == top.at
           i == top.row
           d == a.d
           z == DeleteStep(a)
<1> SUFFICES Goes(b, A, P, z, G)
  OBVIOUS
<1>0. CallsHold(b, A, P, a, G)
  BY CallsAre
<1>1. /\ a = [d |-> a.d, buf |-> a.buf, calls |-> a.calls] /\ a.buf \in Clusters
      /\ Good(d) /\ top \in Frames /\ Runs(d.fat, G, top) /\ Links(d.fat)
      /\ top.dir \in Dirs(a.calls) /\ \A x \in Dirs(a.calls) : IsHead(d.fat, x)
  BY <1>0 DEF CallsHold
<1>2. c \in Links0 /\ i \in 0..(Rows + 1) /\ Rows \in Nat /\ (InChain(c) <=> c \in Entries)
  BY <1>1, EntriesAre DEF Frames
<1>3. CASE i = 0
  <2>1. z = NextCluster(a)
    BY <1>3 DEF DeleteStep
  <2>2. CASE ~ InChain(c)
    <3>1. z = Finish(a)
      BY <2>1, <2>2 DEF NextCluster
    <3> QED
      BY <3>1, Finishes
  <2>3. CASE InChain(c) /\ ~ OnDisk(c)
    <3>1. z = FreeAndReturn(a, d)
      BY <2>1, <2>3 DEF NextCluster
    <3>2. /\ Good(d) /\ d.fat = a.d.fat /\ Logged(a.d, d)
          /\ \A pl \in Places : pl[1] # Last(a.calls).dir => RowIn(d.data, pl) = RowIn(a.d.data, pl)
      BY <1>1 DEF Logged
    <3>3. a.calls # <<>> /\ Deleting(b, A, P, a, G)
      BY SMTT(30)
    <3> HIDE DEF z, d
    <3> QED
      BY ONLY <3>1, <3>2, <3>3, Returns
  <2>4. CASE InChain(c) /\ OnDisk(c)
    <3>1. z = [a EXCEPT !.buf = a.d.data[c], !.calls = Goto(a, c, 1)]
      BY <2>1, <2>4 DEF NextCluster
    <3>2. /\ Anchored(b, A, P) /\ Deleting(b, A, P, a, G) /\ a.calls # <<>>
          /\ Last(a.calls).row = 0 /\ Last(a.calls).at \in Entries /\ OnDisk(Last(a.calls).at)
          /\ z = [a EXCEPT !.buf = a.d.data[Last(a.calls).at], !.calls = Goto(a, Last(a.calls).at, 1)]
      BY <1>2, <1>3, <2>4, <3>1
    <3> HIDE DEF z
    <3> QED
      BY ONLY <3>2, Reads
  <2> QED
    BY <2>2, <2>3, <2>4
<1>4. CASE i # 0
  <2>1. z = NextRow(a, c, i)
    BY <1>4 DEF DeleteStep
  <2>2. InHand(d.fat, G, top) /\ i \in 1..(Rows + 1) /\ c \in Entries
    <3>1. InHand(d.fat, G, top)
      BY <1>1, <1>4 DEF Runs
    <3>2. c \in ClustersOf(d.fat, top.dir) /\ IsHead(d.fat, top.dir)
      BY <1>1, <3>1 DEF InHand
    <3> QED
      BY <1>1, <3>1, <3>2, ClustersAre DEF InHand
  <2>3. CASE i > Rows
    <3>1. z = [a EXCEPT !.calls = Goto(a, FatRead(d, c), 0)]
      BY <2>1, <2>3 DEF NextRow
    <3>2. FatRead(d, c) = d.fat[c] /\ d.fat[c] \in Links0
      <4>1. Current(d) /\ d.fat \in Fats
        BY <1>1, GoodFields
      <4> QED
        BY <2>2, <4>1, ReadIs DEF Fats, Links0
    <3> DEFINE e == d.fat[c]
               j == 0
               buf == a.buf
    <3>3. z = [d |-> a.d, buf |-> buf, calls |-> Goto(a, e, j)]
      BY <1>1, <3>1, <3>2
    <3>4. /\ buf \in Clusters /\ e \in Links0 /\ j \in 0..(Rows + 1) /\ Last(a.calls).row # 0
          /\ e = a.d.fat[Last(a.calls).at] /\ j = 0
          /\ \A k \in 1..Rows : buf[k] = a.buf[k] \/ buf[k].kind # "entry"
      BY <1>1, <1>2, <1>4, <3>2
    <3> HIDE DEF z, e, j, buf
    <3> QED
      BY <3>3, <3>4, Skips
  <2>4. CASE i <= Rows
    <3> DEFINE r == a.buf[i]
               j == i + 1
    <3>1. i \in 1..Rows /\ ~ (i > Rows) /\ r \in RowSet /\ j \in 0..(Rows + 1) /\ i # 0
      BY <1>1, <1>2, <2>2, <2>4 DEF Clusters
    <3>2. CASE r = Zero
      <4>1. z = Finish(a)
        BY <2>1, <3>1, <3>2 DEF NextRow
      <4> QED
        BY <4>1, Finishes
    <3>3. CASE r # Zero /\ r \in {Gone, Dot}
      <4>1. z = [a EXCEPT !.calls = Goto(a, c, j)]
        BY <2>1, <3>1, <3>3 DEF NextRow
      <4> DEFINE buf == a.buf
      <4>2. z = [d |-> a.d, buf |-> buf, calls |-> Goto(a, c, j)]
        BY <1>1, <4>1
      <4>3. /\ buf \in Clusters /\ c \in Links0 /\ c = Last(a.calls).at /\ j = Last(a.calls).row + 1
            /\ Last(a.calls).row # 0
            /\ \A k \in 1..Rows : buf[k] = a.buf[k] \/ buf[k].kind # "entry"
        BY <1>1, <1>2, <3>1
      <4> HIDE DEF z, j, buf, c
      <4> QED
        BY <3>1, <4>2, <4>3, Skips
    <3>4. CASE r # Zero /\ r \notin {Gone, Dot} /\ r.kind = "text"
      <4> DEFINE buf == [a.buf EXCEPT ![i] = Gone]
      <4>1. z = [a EXCEPT !.buf[i] = Gone, !.calls = Goto(a, c, j)]
        BY <2>1, <3>1, <3>4 DEF NextRow
      <4>2. z = [d |-> a.d, buf |-> buf, calls |-> Goto(a, c, j)]
        BY <1>1, <4>1
      <4>3. /\ buf \in Clusters /\ \A k \in 1..Rows : buf[k] = a.buf[k] \/ buf[k].kind # "entry"
        BY <1>1, <3>1, RowKinds DEF Clusters, Gone
      <4>4. /\ c \in Links0 /\ c = Last(a.calls).at /\ j = Last(a.calls).row + 1 /\ Last(a.calls).row # 0
        BY <1>2, <3>1
      <4> HIDE DEF z, j, buf, c
      <4> QED
        BY <3>1, <4>2, <4>3, <4>4, Skips
    <3>5. CASE r # Zero /\ r \notin {Gone, Dot} /\ r.kind # "text"
      <4>1. r \in EntryRows
        BY <3>1, <3>5 DEF RowSet, PlainRows, TextRows
      <4>2. z = NextEntry(a, c, i)
        BY <2>1, <3>1, <3>5 DEF NextRow
      <4>3. r.kind = "entry" /\ r.first \in Entries \cup {0}
        BY <4>1 DEF EntryRows, AnyEntry
      <4>4. CASE r.dir /\ r.first >= 2
        <5> DEFINE h == r.first
        <5>1. z = [a EXCEPT !.calls = Append(a.calls, Scan(h))]
          BY <4>2, <4>4 DEF NextEntry
        <5>2. h \in Entries
          BY <4>3, <4>4
        <5>3. Owes(a.buf, Last(a.calls).row, h) /\ Last(a.calls).row \in 1..Rows
          BY <3>1, <4>3, <4>4, EntriesAre DEF Owes
        <5> HIDE DEF z, h
        <5> QED
          BY <5>1, <5>2, <5>3, Enters
      <4>5. CASE ~ (r.dir /\ r.first >= 2)
        <5>1. z = [d |-> FatFreeChain(a.d, r.first), buf |-> [a.buf EXCEPT ![i] = Gone], calls |-> Goto(a, c, i + 1)]
          BY <4>2, <4>5 DEF NextEntry
        <5>2. Last(a.calls).row \in 1..Rows /\ a.buf[Last(a.calls).row].kind = "entry"
          BY <3>1, <4>3
        <5> HIDE DEF z
        <5> QED
          BY <5>1, <5>2, FreesFile
      <4> QED
        BY <4>4, <4>5
    <3> QED
      BY <3>2, <3>3, <3>4, <3>5
  <2> QED
    BY <2>2, <2>3, <2>4, <1>2
<1> QED
  BY <1>3, <1>4

\* There are fewer things to do than steps in the bound of the loop.
LEMMA EventsAre ==
  /\ IsFiniteSet(Events) /\ Cardinality(Events) \in Nat /\ DeleteSteps \in Nat
  /\ Cardinality(Events) < DeleteSteps
<1> DEFINE R == 0..(Rows + 2)
<1>1. Rows \in Nat /\ FatEnd \in Nat /\ FatEnd >= 2
  BY EntriesAre
<1>2. IsFiniteSet(R) /\ Cardinality(R) = Rows + 3
  <2>1. 0 \in Int /\ Rows + 2 \in Int /\ ~ (0 > Rows + 2)
    BY <1>1
  <2>2. IsFiniteSet(0..(Rows + 2)) /\ Cardinality(0..(Rows + 2)) = Rows + 2 - 0 + 1
    BY <2>1, FS_Interval
  <2> QED
    BY <1>1, <2>2
<1> HIDE DEF R
<1>3. IsFiniteSet(Events) /\ Cardinality(Events) = (FatEnd - 1) * (Rows + 3)
  BY <1>2, EntriesFinite, FS_Product, ZenonT(60) DEF Events, R
<1> DEFINE k == Rows + 3
           m == FatEnd - 1
<1>4. k \in Nat /\ k >= 1 /\ m \in Nat /\ FatEnd = m + 1
  BY <1>1
<1>5. DeleteSteps = k * (m + 1) /\ Cardinality(Events) = m * k
  BY <1>3, <1>4 DEF DeleteSteps
<1> HIDE DEF k, m
<1>6. m * k \in Nat /\ k * (m + 1) \in Nat /\ m * k < k * (m + 1)
  BY <1>4
<1> QED
  BY <1>3, <1>5, <1>6

\* delete_recursive comes to its end within the bound of the loop.
Ends(b, A, P, d, c) ==
  \E a, G : a.d = DeleteTree(d, c) /\ a.calls = <<>> /\ Deleting(b, A, P, a, G)

Start(d, c) == [d |-> d, buf |-> Blank, calls |-> <<Scan(c)>>]

\* delete_recursive is over within DeleteSteps: each step adds an event to G.
LEMMA DeleteTreeEnds ==
  ASSUME NEW b, NEW A, NEW P, Anchored(b, A, P), NEW d, NEW c, Deleting(b, A, P, Start(d, c), {})
  PROVE  Ends(b, A, P, d, c)
<1> DEFINE S == {a \in Deletes : \E G \in SUBSET Events : Deleting(b, A, P, a, G)}
           s == Start(d, c)
           m == DeleteSteps
           g == [x \in S \X (1..m) |-> DeleteStep(x[1])]
           IsRun(f) == f = [k \in 0..m |-> IF k = 0 THEN [d |-> d, buf |-> Blank, calls |-> <<Scan(c)>>]
                                                    ELSE DeleteStep(f[k - 1])]
<1>0. m \in Nat
  BY EventsAre
<1>1. \A x \in S : \A n \in 1..m : g[<<x, n>>] = DeleteStep(x) /\ g[<<x, n>>] \in S
  <2> TAKE x \in S
  <2> TAKE n \in 1..m
  <2>1. DeleteStep(x) \in S
    <3>1. CASE x.calls = <<>>
      BY <3>1 DEF DeleteStep
    <3>2. CASE x.calls # <<>>
      <4>1. PICK G \in SUBSET Events : Deleting(b, A, P, x, G)
        OBVIOUS
      <4>2. PICK v \in Events \ G : Deleting(b, A, P, DeleteStep(x), G \cup {v})
        BY <3>2, <4>1, DeleteStepKeeps DEF Goes
      <4>3. DeleteStep(x) \in Deletes /\ G \cup {v} \in SUBSET Events
        BY <4>2 DEF Deleting
      <4> QED
        BY <4>2, <4>3
    <3> QED
      BY <3>1, <3>2
  <2> HIDE DEF S, m
  <2>2. <<x, n>> \in S \X (1..m) /\ <<x, n>>[1] = x
    OBVIOUS
  <2>3. g[<<x, n>>] = DeleteStep(x)
    BY <2>2
  <2> QED
    BY <2>1, <2>3
<1>2. s \in S
  BY DEF Deleting
<1> HIDE DEF S, g, m
<1>3. PICK w : IsTurns(w, S, s, g, m)
  BY <1>0, <1>1, <1>2, Turns
<1>4. w \in [0..m -> S] /\ w[0] = s /\ \A n \in 1..m : w[n] = g[<<w[n - 1], n>>]
  BY <1>3 DEF IsTurns
<1>5. \A n \in 1..m : w[n] = DeleteStep(w[n - 1])
  <2> TAKE n \in 1..m
  <2>1. n - 1 \in 0..m
    BY <1>0
  <2> QED
    BY <1>1, <1>4, <2>1
<1>6. w = [k \in 0..m |-> IF k = 0 THEN [d |-> d, buf |-> Blank, calls |-> <<Scan(c)>>]
                          ELSE DeleteStep(w[k - 1])]
  <2>1. \A n \in 0..m : w[n] = IF n = 0 THEN [d |-> d, buf |-> Blank, calls |-> <<Scan(c)>>]
                               ELSE DeleteStep(w[n - 1])
    BY <1>0, <1>4, <1>5 DEF Start
  <2>2. w = [n \in 0..m |-> w[n]]
    BY <1>4
  <2> QED
    BY <2>1, <2>2, Zenon
<1>7. \E f : IsRun(f)
  BY <1>6
<1> DEFINE f == CHOOSE x : IsRun(x)
<1>8. IsRun(f) /\ DeleteTree(d, c) = f[m].d
  BY <1>7, Zenon DEF DeleteTree, m
<1> HIDE DEF f
<1>9. \A n \in 0..m : f[n] = IF n = 0 THEN [d |-> d, buf |-> Blank, calls |-> <<Scan(c)>>] ELSE DeleteStep(f[n - 1])
  BY <1>8, Zenon
<1>10. f[0] = s /\ \A n \in 1..m : f[n] = DeleteStep(f[n - 1])
  <2>1. 0 \in 0..m /\ \A n \in 1..m : n \in 0..m /\ n # 0
    BY <1>0
  <2> QED
    BY <1>9, <2>1 DEF Start
<1>11. f = w
  <2>1. FunctionOn(f, 0..m)
    BY <1>8, Zenon DEF FunctionOn
  <2>2. \A n \in 1..m : f[n - 1] \in S => f[n] = g[<<f[n - 1], n>>]
    BY <1>1, <1>10
  <2>3. Follows(f, S, s, g, m)
    BY <1>10, <2>1, <2>2, Zenon DEF Follows
  <2> QED
    BY <1>0, <1>2, <1>3, <2>3, TurnsOnly
<1> DEFINE Done(n) == \E G : /\ Deleting(b, A, P, w[n], G)
                             /\ w[n].calls = <<>> \/ (IsFiniteSet(G) /\ Cardinality(G) = n)
           T == {n \in Nat : n <= m => Done(n)}
<1>12. 0 \in T
  <2>1. IsFiniteSet({}) /\ Cardinality({}) = 0
    BY FS_EmptySet
  <2> QED
    BY <1>4, <2>1
<1>13. ASSUME NEW n \in Nat, n \in T PROVE n + 1 \in T
  <2> DEFINE k == n + 1
  <2> SUFFICES ASSUME k <= m
               PROVE  \E G : /\ Deleting(b, A, P, w[k], G)
                             /\ w[k].calls = <<>> \/ (IsFiniteSet(G) /\ Cardinality(G) = k)
    OBVIOUS
  <2>1. k \in 1..m /\ n <= m /\ k - 1 = n
    BY <1>0
  <2>2. PICK G : /\ Deleting(b, A, P, w[n], G)
                 /\ w[n].calls = <<>> \/ (IsFiniteSet(G) /\ Cardinality(G) = n)
    BY <1>13, <2>1
  <2>3. w[k] = DeleteStep(w[n])
    BY <1>5, <2>1
  <2> HIDE DEF k
  <2>4. CASE w[n].calls = <<>>
    <3>1. w[k] = w[n]
      BY <2>3, <2>4 DEF DeleteStep
    <3> QED
      BY <2>2, <2>4, <3>1
  <2>5. CASE w[n].calls # <<>>
    <3>1. PICK v \in Events \ G : Deleting(b, A, P, w[k], G \cup {v})
      BY <2>2, <2>3, <2>5, DeleteStepKeeps DEF Goes
    <3>2. IsFiniteSet(G) /\ Cardinality(G) = n
      BY <2>2, <2>5
    <3>3. IsFiniteSet(G \cup {v}) /\ Cardinality(G \cup {v}) = k
      BY <3>1, <3>2, FS_AddElement DEF k
    <3> QED
      BY <3>1, <3>3
  <2> QED
    BY <2>4, <2>5
<1>14. \A n \in Nat : n \in T
  <2> HIDE DEF T
  <2> QED
    BY <1>12, <1>13, NatInd
<1>15. PICK G : /\ Deleting(b, A, P, w[m], G)
                /\ w[m].calls = <<>> \/ (IsFiniteSet(G) /\ Cardinality(G) = m)
  BY <1>0, <1>14
<1>16. w[m].calls = <<>>
  <2>1. G \in SUBSET Events
    BY <1>15 DEF Deleting, Base, Marks
  <2>2. Cardinality(G) <= Cardinality(Events)
    BY <2>1, EventsAre, FS_Subset
  <2>3. IsFiniteSet(G) /\ Cardinality(G) \in Nat
    BY <2>1, EventsAre, FS_Subset, FS_CardinalityType
  <2> QED
    BY <1>15, <2>2, <2>3, EventsAre DEF m
<1>17. DeleteTree(d, c) = w[m].d
  BY <1>8, <1>11
<1> QED
  BY <1>15, <1>16, <1>17 DEF Ends

\* What a call for p leaves alone whole, its directory with it.
Around(d, p) == Away(d, p) \cup {Parent(d, p)}

\* All of it is what a path that does not go through p leads to.
LEMMA AroundIs ==
  ASSUME NEW d, Healthy(d), NEW p \in Seq(ShortNames), p # <<>>, ResolvePath(d, p) # 0
  PROVE  /\ \A x \in Around(d, p) :
              /\ IsHead(d.fat, x) /\ x # ResolvePath(d, p)
              /\ \E r \in Seq(ShortNames) : ~ Starts(p, r) /\ ResolvePath(d, r) = x
         /\ \A r \in Seq(ShortNames) :
              ~ Starts(p, r) /\ ResolvePath(d, r) # 0 => ResolvePath(d, r) \in Around(d, p)
<1>1. IsHead(d.fat, Parent(d, p)) /\ Parent(d, p) # ResolvePath(d, p)
  <2>1. ResolvePath(d, p) = Into(d, Parent(d, p), Last(p)) /\ HeadOrNone(d.fat, Parent(d, p))
    BY ParentIs
  <2> QED
    BY <2>1, IntoIs, ParentApart DEF EntryPlace
<1>2. Front(p) \in Seq(ShortNames) /\ ~ Starts(p, Front(p)) /\ ResolvePath(d, Front(p)) = Parent(d, p)
  <2>1. Len(p) \in Nat \ {0} /\ Front(p) \in Seq(ShortNames) /\ Len(Front(p)) = Len(p) - 1
    BY FrontIs
  <2> QED
    BY <2>1 DEF Starts, Parent
<1>3. ASSUME NEW x \in Away(d, p)
      PROVE  /\ IsHead(d.fat, x) /\ x # ResolvePath(d, p)
             /\ \E r \in Seq(ShortNames) : ~ Starts(p, r) /\ ResolvePath(d, r) = x
  BY AwayIs DEF Away
<1>4. \A r \in Seq(ShortNames) :
        ~ Starts(p, r) /\ ResolvePath(d, r) # 0 => ResolvePath(d, r) \in Around(d, p)
  BY AwayIs DEF Around
<1> QED
  BY <1>1, <1>2, <1>3, <1>4 DEF Around

\* A guard of it, and of what the call leaves alone but for its directory.
LEMMA WholeIs ==
  ASSUME NEW d, Good(d), Healthy(d), d.log = <<>>, NEW p \in Seq(ShortNames), p # <<>>,
         ResolvePath(d, p) # 0
  PROVE  /\ IsGuard(Whole(d, Around(d, p))) /\ Guards(Whole(d, Around(d, p)), d)
         /\ \A e : Guards(Whole(d, Around(d, p)), e) => Guards(GuardOf(d, p), e)
<1> DEFINE w == Whole(d, Around(d, p))
           g == GuardOf(d, p)
<1>1. IsGuard(g) /\ Guards(g, d)
  BY GuardOfIs DEF GuardPath
<1>2. IsHead(d.fat, Parent(d, p))
  BY AroundIs DEF Around
<1>3. w.whole = g.whole \cup g.dir /\ w.dir = {} /\ w.fat = g.fat /\ w.data = g.data
  BY <1>2 DEF Whole, GuardOf, Around
<1>4. g.fat = d.fat /\ g.data = d.data
  BY DEF GuardOf
<1> HIDE DEF w, g
<1>5. IsGuard(w)
  BY <1>1, <1>3 DEF IsGuard
<1>6. Guards(w, d)
  <2>1. Spares(w, d.fat, d.data)
    BY <1>3, <1>4 DEF Spares, SameRow
  <2>2. LogSpares(w, d.log)
    BY DEF LogSpares
  <2> QED
    BY <1>1, <2>1, <2>2 DEF Guards
<1>7. \A fat, data : Spares(w, fat, data) => Spares(g, fat, data)
  BY <1>3 DEF Spares, SameRow
<1>8. \A e : Guards(w, e) => Guards(g, e)
  BY <1>7 DEF Guards, LogSpares
<1> QED
  BY <1>5, <1>6, <1>8 DEF w, g

\* The call of delete_recursive on what the path p leads to.
LEMMA Begins ==
  ASSUME NEW d, Good(d), Healthy(d), d.log = <<>>,
         NEW p \in Seq(ShortNames), p # <<>>, ResolvePath(d, p) # 0
  PROVE  LET P == FindEntry(d, Parent(d, p), Last(p))
             A == Around(d, p)
         IN  /\ Anchored(d, A, P) /\ Parent(d, p) \in A
             /\ Deleting(d, A, P, Start(d, ResolvePath(d, p)), {})
             /\ EntryPlace(d, Parent(d, p), Last(p), P)
<1> DEFINE c == ResolvePath(d, p)
           q == Parent(d, p)
           P == FindEntry(d, q, Last(p))
           A == Around(d, p)
<1>1. /\ \A x \in A : /\ IsHead(d.fat, x) /\ x # c
                      /\ \E r \in Seq(ShortNames) : ~ Starts(p, r) /\ ResolvePath(d, r) = x
      /\ \A r \in Seq(ShortNames) : ~ Starts(p, r) /\ ResolvePath(d, r) # 0 => ResolvePath(d, r) \in A
  BY AroundIs
<1>2. IsGuard(Whole(d, A)) /\ Guards(Whole(d, A), d)
  BY WholeIs
<1>3. q \in A
  BY DEF Around
<1>8. /\ EntryPlace(d, q, Last(p), P) /\ Names(d.data, P, c) /\ c # Root /\ q \in A
      /\ IsHead(d.fat, c)
  <2>1. c = Into(d, q, Last(p)) /\ HeadOrNone(d.fat, q)
    BY ParentIs
  <2> QED
    BY <1>3, <2>1, IntoIs
<1> HIDE DEF c, A
<1>9. \A x \in A : IsHead(d.fat, x) /\ x # c
  BY <1>1
<1>10. Anchored(d, A, P)
  <2>1. InDirs(d, A, P)
    BY <1>8 DEF InDirs, EntryPlace
  <2>2. ASSUME NEW x \in A, x # Root
        PROVE  \E pl : InDirs(d, A, pl) /\ pl # P /\ Names(d.data, pl, x)
    <3>1. PICK r \in Seq(ShortNames) : ~ Starts(p, r) /\ ResolvePath(d, r) = x
      BY <1>1
    <3>2. r # <<>> /\ x # 0
      BY <1>1, <2>2, <3>1, ResolveRoot, EntriesAre DEF IsHead
    <3> DEFINE h == Parent(d, r)
               pl == FindEntry(d, h, Last(r))
    <3>3. x = Into(d, h, Last(r)) /\ HeadOrNone(d.fat, h)
      BY <3>1, <3>2, ParentIs
    <3>4. EntryPlace(d, h, Last(r), pl) /\ Names(d.data, pl, x)
      BY <3>2, <3>3, IntoIs
    <3>5. h \in A
      <4>1. Front(r) \in Seq(ShortNames) /\ ~ Starts(p, Front(r))
        BY <3>1, <3>2, StartsIs
      <4>2. h # 0
        BY <3>4, EntriesAre DEF EntryPlace, IsHead
      <4>3. ResolvePath(d, Front(r)) = h
        BY DEF Parent
      <4> QED
        BY <1>1, <4>1, <4>2, <4>3
    <3> HIDE DEF pl, P, h
    <3>6. InDirs(d, A, pl)
      BY <3>4, <3>5 DEF InDirs, EntryPlace
    <3>7. pl # P
      BY <1>8, <1>9, <3>4 DEF Names
    <3> QED
      BY <3>4, <3>6, <3>7
  <2> QED
    BY <2>1, <2>2 DEF Anchored
<1> HIDE DEF P
<1>11. /\ Links(d.fat) /\ Sound(d.fat, d.data, Used(d.fat)) /\ c \in Entries /\ P \in Used(d.fat)
  BY <1>8, HealthyIs DEF IsHead, EntryPlace
<1> DEFINE L == Live(d.fat, {}, P)
           s == Start(d, c)
<1>12. L = Used(d.fat) \ {P}
  BY DEF Live, WasRead
<1>13. Own(d, {}, A, P, c)
  <2>1. \A pl \in L : ~ Names(d.data, pl, c)
    BY <1>8, <1>11, <1>12 DEF Sound
  <2> QED
    BY <1>8, <1>9, <2>1 DEF Own
<1>14. Base(d, A, P, d, {}, {c})
  <2>1. Sound(d.fat, d.data, L)
    BY <1>11, <1>12, SoundFewer
  <2>2. Kept(d, A, d)
    BY <1>2, <1>9 DEF Kept
  <2>3. Marks(d.fat, {}, {c})
    BY DEF Marks, WasRead
  <2>4. Fewer(d, d)
    BY DEF Fewer
  <2> QED
    BY <1>13, <2>1, <2>2, <2>3, <2>4 DEF Base
<1>15. /\ s.d = d /\ s.buf = Blank /\ s.calls = <<Scan(c)>> /\ s \in Deletes /\ Len(s.calls) = 1
       /\ s.calls[1] = Scan(c)
  <2>1. Scan(c) \in Frames
    BY <1>11, EntriesAre DEF Scan, Frames, Links0
  <2>2. <<Scan(c)>> \in Seq(Frames)
    BY <2>1
  <2>3. s = [d |-> d, buf |-> Blank, calls |-> <<Scan(c)>>]
    BY DEF Start
  <2> HIDE DEF s
  <2>4. s.d = d /\ s.buf = Blank /\ s.calls = <<Scan(c)>>
    BY <2>3
  <2>5. s \in Deletes
    BY <2>2, <2>3, GoodFields, BlankIs DEF Deletes
  <2> QED
    BY <2>4, <2>5
<1>16. Scan(c).dir = c /\ Scan(c).at = c /\ Scan(c).row = 0
  BY DEF Scan
<1> HIDE DEF s
<1>17. Dirs(s.calls) = {c}
  BY <1>15, <1>16 DEF Dirs
<1>18. OneEach(s.calls) /\ Waits(s.d.fat, {}, s.calls)
  BY <1>15 DEF OneEach, Waits
<1>19. Runs(s.d.fat, {}, s.calls[Len(s.calls)])
  <2>1. c \in ClustersOf(d.fat, c)
    BY <1>8, <1>11, ClustersAre
  <2> QED
    BY <1>15, <1>16, <2>1 DEF Runs, AtNext, WasRead
<1>20. Buffer(s.d, {}, A, P, {c}, s.buf, OwedRows(s.calls))
  <2>1. \A j \in OwedRows(s.calls) : \A x : ~ Owes(Blank, j, x)
    BY BlankIs DEF OwedRows, Owes, Zero
  <2> QED
    BY <1>15, <2>1 DEF Buffer
<1>21. Deleting(d, A, P, s, {})
  BY <1>14, <1>15, <1>17, <1>18, <1>19, <1>20 DEF Deleting
<1> QED
  BY <1>8, <1>10, <1>21 DEF s, P, q, c, A

\* fat32_delete_recursive leaves a healthy disk, and alone what is not below p.
LEMMA DeleteRecursiveIs ==
  ASSUME NEW d, Good(d), Healthy(d), d.log = <<>>, NEW p \in Seq(ShortNames), p # <<>>
  PROVE  /\ Good(DeleteRecursive(d, p)) /\ Healthy(DeleteRecursive(d, p))
         /\ Guards(GuardOf(d, p), DeleteRecursive(d, p))
<1> DEFINE c == ResolvePath(d, p)
           q == Parent(d, p)
           P == FindEntry(d, q, Last(p))
           g == DeleteTree(d, c)
           f == [g EXCEPT !.ok = TRUE]
           e == DeleteRecursive(d, p)
           gd == GuardOf(d, p)
<1>1. c \in Entries \cup {0} /\ HeadOrNone(d.fat, q)
  BY ParentIs
<1>0. /\ IsGuard(gd) /\ Guards(gd, d) /\ gd.name = Last(p) /\ GuardDir(gd, d.fat, q)
      /\ Links(d.fat)
  BY GuardOfIs, HealthyIs DEF GuardPath
<1> HIDE DEF gd
<1>2. CASE q = 0 \/ ~ Found(d, p)
  <2>1. e = Fails(d)
    BY <1>2 DEF DeleteRecursive
  <2> QED
    BY <1>0, <2>1, FailsHealthy, GuardFails DEF gd
<1>3. CASE ~ (q = 0 \/ ~ Found(d, p)) /\ c = 0
  <2>1. e = DeleteEntry(d, q, Last(p))
    BY <1>3 DEF DeleteRecursive
  <2> HIDE DEF e, q
  <2> DEFINE L == Used(d.fat)
  <2>2. Good(d) /\ Sound(d.fat, d.data, L) /\ HeadOrNone(d.fat, q)
        /\ Used(d.fat) \subseteq L \cup {FindEntry(d, q, Last(p))}
    BY <1>1, HealthyIs
  <2> HIDE DEF L
  <2>3. Good(DeleteEntry(d, q, Last(p))) /\ Healthy(DeleteEntry(d, q, Last(p)))
    BY ONLY <2>2, Removed
  <2>4. Guards(gd, DeleteEntry(d, q, Last(p)))
    <3>1. Guards(gd, DeleteEntry(d, q, gd.name))
      BY <1>0, GuardDelete
    <3> QED
      BY <1>0, <3>1
  <2> QED
    BY <2>1, <2>3, <2>4 DEF e, gd
<1>4. CASE ~ (q = 0 \/ ~ Found(d, p)) /\ c # 0
  <2>1. e = DeleteEntry(f, q, Last(p))
    <3>1. ~ (c < 2)
      BY <1>1, <1>4 DEF Entries
    <3> QED
      BY <1>4, <3>1 DEF DeleteRecursive
  <2> DEFINE A == Around(d, p)
  <2>2. /\ Anchored(d, A, P) /\ q \in A /\ Deleting(d, A, P, Start(d, c), {})
        /\ EntryPlace(d, q, Last(p), P)
    BY <1>4, Begins
  <2>20. \A x : Guards(Whole(d, A), x) => Guards(gd, x)
    BY <1>4, WholeIs DEF gd
  <2> HIDE DEF c, q, P, e, f, g, A
  <2>3. Ends(d, A, P, d, c)
    BY <2>2, DeleteTreeEnds
  <2>4. PICK a, G : a.d = g /\ a.calls = <<>> /\ Deleting(d, A, P, a, G)
    BY <2>3 DEF Ends, g
  <2>5. Base(d, A, P, g, G, {})
    <3>1. Dirs(<<>>) = {}
      BY DEF Dirs
    <3> QED
      BY <2>4, <3>1 DEF Deleting
  <2> DEFINE L == Live(g.fat, G, P)
  <2>6. Good(g) /\ Sound(g.fat, g.data, L) /\ Kept(d, A, g) /\ Marks(g.fat, G, {}) /\ Links(g.fat)
    BY <2>5 DEF Base, Sound
  <2>7. Good(f) /\ f.fat = g.fat /\ f.data = g.data
    <3>1. /\ g \in Works /\ g.fat \in Fats /\ g.data \in Datas /\ g.cache \in Caches
          /\ g.log \in Seq(Fats \X Datas)
      BY <2>6, GoodFields
    <3>2. f = [g EXCEPT !.ok = TRUE]
      BY DEF f
    <3>3. f \in Works /\ f.fat = g.fat /\ f.data = g.data /\ f.cache = g.cache
      BY ONLY <3>1, <3>2 DEF Works
    <3>4. f.fat = g.fat /\ f.data = g.data /\ f.cache = g.cache
      BY <3>3
    <3>5. f \in Works
      BY <3>3
    <3> QED
      BY <2>6, <3>4, <3>5 DEF Good, Current
  <2>70. f.log = g.log
    BY <2>6, GoodFields DEF f, Works
  <2>8. Used(f.fat) \subseteq L \cup {P}
    <3>1. \A pl \in Places : pl[1] \in Entries
      BY EntriesAre DEF Places
    <3>2. \A x \in Entries : WasRead(G, x) => g.fat[x] = 0
      BY <2>6 DEF Marks
    <3> QED
      BY <2>7, <3>1, <3>2 DEF Live, Used
  <2>9. IsHead(d.fat, q) /\ IsHead(f.fat, q) /\ ChainIn(f.fat, q) = ChainIn(d.fat, q)
        /\ \A pl \in Places : pl[1] \in ClustersOf(f.fat, q) => RowIn(f.data, pl) = RowIn(d.data, pl)
    BY <2>2, <2>6, <2>7 DEF Kept, EntryPlace
  <2>10. FindEntry(f, q, Last(p)) = P
    <3>1. IsDisk(d) /\ IsDisk(f) /\ Links(d.fat) /\ Links(f.fat)
      BY <2>6, <2>7, GoodDisk, HealthyIs
    <3>2. ClustersOf(f.fat, q) = ClustersOf(d.fat, q)
      BY <2>9 DEF ClustersOf
    <3>3. \A pl \in Places : pl[1] \in ClustersOf(d.fat, q) => RowIn(f.data, pl) = RowIn(d.data, pl)
      BY <2>9, <3>2
    <3>4. FindEntry(f, q, Last(p)) = FindEntry(d, q, Last(p))
      BY <2>9, <3>1, <3>3, FindEntrySame
    <3> QED
      BY <3>4 DEF P
  <2> HIDE DEF L
  <2>11. Good(f) /\ Sound(f.fat, f.data, L) /\ HeadOrNone(f.fat, q) /\ Used(f.fat) \subseteq L \cup {FindEntry(f, q, Last(p))}
    BY <2>6, <2>7, <2>8, <2>9, <2>10 DEF HeadOrNone, L
  <2>12. Good(DeleteEntry(f, q, Last(p))) /\ Healthy(DeleteEntry(f, q, Last(p)))
    BY ONLY <2>11, Removed
  <2>13. Guards(gd, DeleteEntry(f, q, Last(p)))
    <3>1. Guards(gd, g)
      BY <2>6, <2>20 DEF Kept
    <3>2. Guards(gd, f)
      BY <2>7, <2>70, <3>1 DEF Guards
    <3>3. Links(f.fat) /\ GuardDir(gd, f.fat, q)
      BY <1>0, <2>6, <2>7, <2>9, GuardDirStays
    <3>4. Guards(gd, DeleteEntry(f, q, gd.name))
      BY <1>0, <3>2, <3>3, GuardDelete
    <3> QED
      BY <1>0, <3>4
  <2> QED
    BY <2>1, <2>12, <2>13 DEF e, gd
<1> QED
  BY <1>2, <1>3, <1>4

-----------------------------------------------------------------------------

Disks == [fat : Fats, data : Datas, cache : Caches]

(***************************************************************************)
(* The inductive invariant: every entry in a cluster in use names the head *)
(* of a chain that ends, no two of them the same one.                      *)
(***************************************************************************)
FatInv == disk \in Disks /\ Healthy(disk)

\* The parts of the invariant.
LEMMA DiskIs ==
  ASSUME disk \in Disks, Healthy(disk)
  PROVE  /\ disk.fat \in Fats /\ disk.data \in Datas /\ disk.cache \in Caches
         /\ IsDisk(disk) /\ Current(disk) /\ Links(disk.fat)
         /\ Sound(disk.fat, disk.data, Used(disk.fat))
<1>1. disk.fat \in Fats /\ disk.data \in Datas /\ disk.cache \in Caches
  BY DEF Disks
<1> QED
  BY <1>1, HealthyIs

\* A call begins on a healthy disk.
LEMMA WorkIs ==
  ASSUME disk \in Disks, Healthy(disk)
  PROVE  Good(Work) /\ Healthy(Work) /\ Work.log = <<>>
<1>1. /\ disk.fat \in Fats /\ disk.data \in Datas /\ disk.cache \in Caches /\ Current(disk)
      /\ Sound(disk.fat, disk.data, Used(disk.fat))
  BY DiskIs
<1>2. /\ Work.fat = disk.fat /\ Work.data = disk.data /\ Work.cache = disk.cache
      /\ Work.log = <<>>
  BY DEF Work
<1>3. Work \in Works
  <2>1. <<>> \in Seq(Fats \X Datas)
    OBVIOUS
  <2> QED
    BY <1>1, <2>1 DEF Work, Works
<1>4. Current(Work)
  BY <1>1, <1>2 DEF Current
<1> QED
  BY <1>1, <1>2, <1>3, <1>4 DEF Good, Healthy, IsDisk

\* A path as 8.3 names.
LEMMA NamesAre ==
  ASSUME NEW p \in Paths
  PROVE  Name83(p) \in Seq(ShortNames) /\ Name83(p) # <<>>
<1>1. p \in Seq(DOMAIN Short) /\ p # <<>>
  BY FatAssumption
<1>2. Len(p) \in Nat /\ DOMAIN p = 1..Len(p) /\ \A i \in 1..Len(p) : p[i] \in DOMAIN Short
  BY <1>1
<1>3. Len(p) # 0
  BY <1>1
<1>4. Name83(p) = [i \in 1..Len(p) |-> Short[p[i]]]
  BY <1>2 DEF Name83
<1>5. \A i \in 1..Len(p) : Short[p[i]] \in ShortNames
  BY <1>2 DEF ShortNames
<1>6. Name83(p) \in [1..Len(p) -> ShortNames]
  BY <1>4, <1>5
<1>7. Name83(p) \in Seq(ShortNames) /\ Len(Name83(p)) = Len(p)
  BY <1>2, <1>6, SeqIn
<1> QED
  BY <1>3, <1>7

\* A text is a sequence of plain rows.
LEMMA TextsAre ==
  ASSUME NEW s \in Texts
  PROVE  s \in Seq(PlainRows)
<1>1. s \in Seq(ToSet(s)) /\ \A r \in ToSet(s) : r = Zero \/ r.kind = "text"
  BY FatAssumption
<1>2. ToSet(s) \subseteq PlainRows
  BY <1>1 DEF PlainRows, TextRows
<1> QED
  BY <1>1, <1>2

\* Every call leaves a healthy disk, and alone what it is not about.
LEMMA ResultIs ==
  ASSUME NEW d, Good(d), Healthy(d), d.log = <<>>, NEW x \in Calls
  PROVE  /\ Good(Result(d, x)) /\ Healthy(Result(d, x))
         /\ Guards(GuardOf(d, Name83(x.path)), Result(d, x))
<1>1. x.path \in Paths
  BY DEF Calls
<1> DEFINE p == Name83(x.path)
<1>2. p \in Seq(ShortNames) /\ p # <<>>
  BY <1>1, NamesAre
<1>20. GuardPath(GuardOf(d, p), d, p)
  BY <1>2, GuardOfIs
<1>3. CASE x.call = "write" /\ x.text \in Texts
  <2>1. Result(d, x) = WriteFile(d, p, x.text)
    BY <1>3 DEF Result
  <2>2. x.text \in Seq(PlainRows)
    BY <1>3, TextsAre
  <2> HIDE DEF p
  <2> QED
    BY <1>2, <2>1, <2>2, <1>20, WriteFileIs, GuardWrite DEF p
<1>4. CASE x.call = "create" /\ x.dir \in BOOLEAN
  <2>1. Result(d, x) = CreateEntry(d, p, x.dir)
    BY <1>4 DEF Result
  <2> HIDE DEF p
  <2> QED
    BY <1>2, <1>4, <2>1, <1>20, CreateEntryIs, GuardCreate DEF p
<1>5. CASE x.call = "delete"
  <2>1. Result(d, x) = DeleteFile(d, p)
    BY <1>5 DEF Result
  <2> HIDE DEF p
  <2> QED
    BY <1>2, <2>1, <1>20, DeleteFileIs, GuardDeleteFile DEF p
<1>6. CASE x.call = "delete_rec"
  <2>1. Result(d, x) = DeleteRecursive(d, p)
    BY <1>6 DEF Result
  <2> HIDE DEF p
  <2> QED
    BY <1>2, <2>1, DeleteRecursiveIs DEF p
<1> QED
  BY <1>3, <1>4, <1>5, <1>6 DEF Calls

\* What free clusters hold may be forgotten.
LEMMA LeftIs ==
  ASSUME NEW d, Good(d), Healthy(d)
  PROVE  Left(d) \in Disks /\ Healthy(Left(d))
<1> DEFINE f == Left(d)
<1>1. d.fat \in Fats /\ d.data \in Datas /\ d.cache \in Caches /\ Current(d)
  BY GoodFields
<1>2. Sound(d.fat, d.data, Used(d.fat))
  BY HealthyIs
<1>3. /\ f.fat = d.fat /\ f.cache = d.cache
      /\ f.data = [c \in DOMAIN d.data |-> IF d.fat[c] = 0 THEN Blank ELSE d.data[c]]
      /\ f = [fat |-> d.fat, data |-> f.data, cache |-> d.cache]
  BY DEF Left
<1>4. d.data \in [2..LastCluster -> Clusters] /\ DOMAIN d.data = 2..LastCluster
  BY <1>1 DEF Datas
<1>5. Blank \in Clusters
  BY BlankIs
<1> HIDE DEF f
<1>6. f.data \in Datas
  BY <1>3, <1>4, <1>5 DEF Datas
<1>7. \A pl \in Used(d.fat) : pl \in Places /\ RowIn(f.data, pl) = RowIn(d.data, pl)
  BY <1>3, <1>4 DEF Used, Places, RowIn
<1>8. Sound(d.fat, f.data, Used(d.fat))
  <2> DEFINE L == Used(d.fat)
  <2>1. L \in SUBSET Places
    BY DEF Used
  <2>2. Sound(d.fat, d.data, L)
    BY <1>2
  <2>3. \A pl \in L : ~ IsEntry(f.data, pl) \/ (pl \in L /\ RowIn(f.data, pl) = RowIn(d.data, pl))
    BY <1>7
  <2> HIDE DEF L
  <2>4. Sound(d.fat, f.data, L)
    BY ONLY <1>6, <2>1, <2>2, <2>3, RowsSound
  <2> QED
    BY <2>4 DEF L
<1>9. f \in Disks
  BY <1>1, <1>3, <1>6 DEF Disks
<1>10. Current(f)
  BY <1>1, <1>3 DEF Current
<1> QED
  BY <1>1, <1>3, <1>6, <1>8, <1>9, <1>10 DEF f, Healthy, IsDisk

\* The empty disk satisfies the invariant.
LEMMA FatInit == ASSUME Init PROVE FatInv
<1>1. /\ disk = [fat |-> disk.fat, data |-> disk.data, cache |-> disk.cache]
      /\ disk.fat = [c \in Entries |-> IF c = Root THEN Eoc ELSE 0]
      /\ disk.data = [c \in 2..LastCluster |-> Blank] /\ disk.cache = [c \in {} |-> 0]
  BY DEF Init
<1>2. /\ Root \in Entries /\ Eoc \notin Entries /\ 0 \notin Entries /\ Eoc # 0
  BY EntriesAre
<1>3. disk.fat \in Fats
  BY <1>1, <1>2 DEF Fats
<1>4. disk.data \in Datas
  BY <1>1, BlankIs DEF Datas
<1>5. disk.cache \in Caches
  <2>1. disk.cache \in [{} -> Links0]
    BY <1>1
  <2> QED
    BY <2>1 DEF Caches
<1>6. disk \in Disks
  BY <1>1, <1>3, <1>4, <1>5 DEF Disks
<1>7. Links(disk.fat)
  BY <1>1, <1>2, <1>3 DEF Links
<1>8. \A pl \in Places : ~ IsEntry(disk.data, pl)
  <2>1. \A pl \in Places : RowIn(disk.data, pl) = Zero
    BY <1>1 DEF Places, RowIn, Blank
  <2> QED
    BY <2>1 DEF IsEntry, Zero
<1>9. Sound(disk.fat, disk.data, Used(disk.fat))
  BY <1>4, <1>7, <1>8 DEF Sound, Used, Names
<1>10. Current(disk)
  BY <1>1 DEF Current
<1> QED
  BY <1>3, <1>4, <1>6, <1>9, <1>10 DEF FatInv, Healthy, IsDisk

\* Filling fat_cache keeps it.
LEMMA FatLoad == ASSUME FatInv, Load PROVE FatInv'
<1>1. /\ disk.fat \in Fats /\ disk.data \in Datas /\ disk.cache \in Caches
      /\ Sound(disk.fat, disk.data, Used(disk.fat))
  BY DiskIs DEF FatInv
<1>2. PICK s : disk' = [disk EXCEPT !.cache =
                  [c \in {e \in Entries : e \div PerSector = s} |-> disk.fat[c]]]
  BY DEF Load
<1> DEFINE S == {e \in Entries : e \div PerSector = s}
           g == [c \in S |-> disk.fat[c]]
<1>3. disk' = [disk EXCEPT !.cache = g]
  BY <1>2
<1>4. S \in SUBSET Entries
  OBVIOUS
<1>5. g \in [S -> Links0]
  BY <1>1, <1>4 DEF Fats, Links0
<1>6. g \in Caches
  BY <1>4, <1>5 DEF Caches
<1>7. DOMAIN g = S /\ \A c \in S : g[c] = disk.fat[c]
  OBVIOUS
<1> HIDE DEF g, S
<1>8. disk' \in Disks /\ disk'.fat = disk.fat /\ disk'.data = disk.data /\ disk'.cache = g
  BY <1>3, <1>6 DEF FatInv, Disks
<1>9. Current(disk')
  BY <1>4, <1>7, <1>8 DEF Current
<1>10. Healthy(disk')
  BY <1>1, <1>8, <1>9 DEF Healthy, IsDisk
<1> QED
  BY <1>8, <1>10 DEF FatInv, Healthy

\* A call keeps it.
LEMMA FatCall == ASSUME FatInv, NEW x \in Calls, Call(x) PROVE FatInv'
<1>1. Good(Work) /\ Healthy(Work) /\ Work.log = <<>>
  BY WorkIs DEF FatInv
<1>2. Good(Result(Work, x)) /\ Healthy(Result(Work, x))
  BY <1>1, ResultIs
<1>3. disk' = Left(Result(Work, x))
  BY DEF Call
<1>4. Left(Result(Work, x)) \in Disks /\ Healthy(Left(Result(Work, x)))
  BY <1>2, LeftIs
<1> QED
  BY <1>3, <1>4 DEF FatInv, Healthy

(***************************************************************************)
(* Every entry in a cluster that is in use names 0 or the head of a chain  *)
(* that ends and is long enough for its size, no two entries name the same *)
(* chain, and fat_cache is what is on the disk: no fat32_write, _create,   *)
(* _delete or _delete_recursive, whether it succeeds or fails, breaks it.  *)
(***************************************************************************)
THEOREM FatInvHolds == Spec => []FatInv
<1>1. Init => FatInv
  BY FatInit
<1>2. FatInv /\ [Next]_disk => FatInv'
  <2> SUFFICES ASSUME FatInv, [Next]_disk PROVE FatInv'
    OBVIOUS
  <2>1. CASE Next
    BY <2>1, FatCall, FatLoad DEF Next
  <2>2. CASE UNCHANGED disk
    BY <2>2 DEF FatInv, Healthy
  <2> QED
    BY <2>1, <2>2
<1> QED
  BY <1>1, <1>2, PTL DEF Spec


\* The invariant implies TypeOK.
LEMMA TypeOKIs == ASSUME FatInv PROVE TypeOK
<1>1. /\ disk.fat \in Fats /\ disk.data \in Datas /\ disk.cache \in Caches /\ Current(disk)
  BY DiskIs DEF FatInv
<1>2. disk.fat \in [Entries -> 0..Eoc]
  <2>1. {0} \cup Entries \cup {Eoc} \subseteq 0..Eoc
    BY EntriesAre DEF Entries, Eoc
  <2> QED
    BY <1>1, <2>1 DEF Fats
<1>3. \A r \in RowSet : IsRow(r)
  BY DEF RowSet, PlainRows, TextRows, EntryRows, AnyEntry, IsRow
<1>4. \A c \in 2..LastCluster : Len(disk.data[c]) = Rows /\ \A i \in 1..Rows : IsRow(disk.data[c][i])
  <2> SUFFICES ASSUME NEW c \in 2..LastCluster
               PROVE  Len(disk.data[c]) = Rows /\ \A i \in 1..Rows : IsRow(disk.data[c][i])
    OBVIOUS
  <2>1. disk.data[c] \in [1..Rows -> RowSet] /\ Rows \in Nat
    BY <1>1, EntriesAre DEF Datas, Clusters
  <2>2. disk.data[c] \in Seq(RowSet) /\ DOMAIN disk.data[c] = 1..Rows
    BY <2>1
  <2>3. Len(disk.data[c]) = Rows
    BY <2>1, <2>2
  <2> QED
    BY <1>3, <2>1, <2>3
<1>5. DOMAIN disk.data = 2..LastCluster
  BY <1>1 DEF Datas
<1> QED
  BY <1>1, <1>2, <1>4, <1>5 DEF TypeOK, Current

\* What a present path stands for: its chain, long enough for its size.
LEMMA ChainsAre ==
  ASSUME FatInv, NEW p \in Present \cup {<<>>}
  PROVE  /\ p \in Seq(ShortNames)
         /\ ChainOf(p) = Chain(disk, ResolvePath(disk, p))
         /\ HeadOrNone(disk.fat, ResolvePath(disk, p))
         /\ p \in Present => EntryAt(disk, p).size <= Rows * Len(ChainOf(p))
<1>1. Current(disk) /\ Links(disk.fat) /\ Healthy(disk) /\ Sound(disk.fat, disk.data, Used(disk.fat))
      /\ IsDisk(disk)
  BY DiskIs DEF FatInv
<1>2. CASE p = <<>>
  <2>1. ResolvePath(disk, <<>>) = Root
    <3>1. <<>> \in Seq(ShortNames) /\ Len(<<>>) = 0
      OBVIOUS
    <3>2. PICK at : Leads(disk, <<>>, at) /\ ResolvePath(disk, <<>>) = at[Len(<<>>)]
      BY ONLY <1>1, <3>1, ResolveSteps
    <3> QED
      BY <3>1, <3>2 DEF Leads
  <2>2. p \notin Present
    <3>1. \A q \in Paths : Name83(q) # <<>>
      BY NamesAre
    <3> QED
      BY <1>2, <3>1 DEF Present, Known
  <2>3. ChainOf(p) = Chain(disk, Root)
    BY <1>2 DEF ChainOf
  <2> QED
    BY <1>1, <1>2, <2>1, <2>2, <2>3, RootIsHead DEF HeadOrNone
<1>3. CASE p \in Present
  <2>1. p \in Seq(ShortNames) /\ p # <<>> /\ Found(disk, p)
    BY <1>3, NamesAre DEF Present, Known
  <2> DEFINE q == Parent(disk, p)
             n == Last(p)
             pl == FindEntry(disk, q, n)
             c == ResolvePath(disk, p)
             r == RowIn(disk.data, pl)
  <2>2. /\ c = Into(disk, q, n) /\ HeadOrNone(disk.fat, q)
        /\ c \in Entries \cup {0} /\ HeadOrNone(disk.fat, c)
    BY <1>1, <2>1, ParentIs
  <2>3. pl # <<>> /\ EntryAt(disk, p) = r
    BY <2>1 DEF Found, EntryOf, EntryAt, RowAt, RowIn
  <2> HIDE DEF c, q, n, pl
  <2>4. c = r.first /\ EntryPlace(disk, q, n, pl)
    BY <1>1, <2>2, <2>3, IntoIs DEF pl
  <2>5. NameHead(disk.fat, r)
    BY <1>1, <2>4 DEF Sound, EntryPlace
  <2> HIDE DEF r
  <2>6. ChainOf(p) = Chain(disk, c)
    BY <2>1, <2>3, <2>4 DEF ChainOf
  <2>7. r.size <= Rows * Len(Chain(disk, c))
    <3>1. CASE r.first = 0 /\ r.size = 0
      <4>1. Chain(disk, c) = <<>>
        BY <2>4, <3>1, ChainEmpty, EntriesAre
      <4> QED
        BY <3>1, <4>1, EntriesAre
    <3>2. CASE IsHead(disk.fat, r.first) /\ r.size <= Room(disk.fat, r.first)
      <4> DEFINE ch == ChainIn(disk.fat, c)
                 x == Len(Readable(ch))
                 y == Len(ch)
      <4>1. IsHead(disk.fat, c) /\ r.size <= Rows * x
        BY <2>4, <3>2 DEF Room
      <4>2. ch \in Seq(Entries) /\ Chain(disk, c) = ch
        BY <1>1, <4>1, ClustersAre, ChainRead
      <4> HIDE DEF ch
      <4>3. x \in Nat /\ y \in Nat /\ x <= y /\ Rows \in Nat
        BY <4>2, ReadableGrows, EntriesAre
      <4> HIDE DEF x, y
      <4>4. Rows * x <= Rows * y /\ Rows * x \in Nat /\ Rows * y \in Nat
        BY <4>3, TimesLeq
      <4>5. r.size \in Nat
        BY <1>1, <2>4, RowInIs DEF EntryPlace, Sound, r
      <4> QED
        BY <4>1, <4>2, <4>4, <4>5 DEF y
    <3> QED
      BY <2>5, <3>1, <3>2 DEF NameHead
  <2> QED
    BY <2>1, <2>2, <2>3, <2>6, <2>7 DEF c
<1> QED
  BY <1>2, <1>3

\* The invariant implies ChainsAreSound.
LEMMA ChainsAreSoundIs == ASSUME FatInv PROVE ChainsAreSound
<1> DEFINE P == Present \cup {<<>>}
           c(p) == ResolvePath(disk, p)
<1>1. Current(disk) /\ Links(disk.fat) /\ Healthy(disk)
  BY DiskIs DEF FatInv
<1>2. \A p \in P : /\ p \in Seq(ShortNames) /\ ChainOf(p) = Chain(disk, c(p))
                   /\ HeadOrNone(disk.fat, c(p))
                   /\ p \in Present => EntryAt(disk, p).size <= Rows * Len(ChainOf(p))
  BY ChainsAre
<1>3. \A p \in P : c(p) \notin Entries => ChainOf(p) = <<>>
  BY <1>2, ChainEmpty
<1>4. \A p \in P : c(p) \in Entries => IsHead(disk.fat, c(p)) /\ ChainOf(p) = ChainIn(disk.fat, c(p))
  BY <1>1, <1>2, ChainRead DEF HeadOrNone
<1>5. \A p \in P : ChainOf(p) # <<>> => disk.fat[Last(ChainOf(p))] = Eoc
  BY <1>1, <1>3, <1>4, ClustersAre
<1>6. ASSUME NEW p \in P, NEW q \in P, p # q
      PROVE  ToSet(ChainOf(p)) \cap ToSet(ChainOf(q)) = {}
  <2>1. CASE c(p) \notin Entries \/ c(q) \notin Entries
    <3>1. ToSet(<<>>) = {}
      BY DEF ToSet
    <3> QED
      BY <1>3, <2>1, <3>1
  <2>2. CASE c(p) \in Entries /\ c(q) \in Entries
    <3>1. c(p) # c(q)
      <4>1. c(p) # 0
        BY <2>2, EntriesAre
      <4>2. p \in Seq(ShortNames) /\ q \in Seq(ShortNames)
        BY <1>2
      <4> HIDE DEF P
      <4> QED
        BY <1>1, <1>6, <4>1, <4>2, PathOnce
    <3>2. /\ IsHead(disk.fat, c(p)) /\ ChainOf(p) = ChainIn(disk.fat, c(p))
          /\ IsHead(disk.fat, c(q)) /\ ChainOf(q) = ChainIn(disk.fat, c(q))
      BY <1>4, <2>2
    <3> QED
      BY <1>1, <3>1, <3>2, ClustersApart DEF ClustersOf
  <2> QED
    BY <2>1, <2>2
<1> HIDE DEF c
<1> QED
  BY <1>2, <1>5, <1>6 DEF ChainsAreSound

(***************************************************************************)
(* The FAT, the clusters and fat_cache keep to their types.                *)
(***************************************************************************)
THEOREM TypeCorrect == Spec => []TypeOK
BY FatInvHolds, TypeOKIs, PTL

(***************************************************************************)
(* fat_cache, which fat_write goes past to the disk, is never stale.       *)
(***************************************************************************)
THEOREM CacheCurrent == Spec => []CacheIsCurrent
<1>1. FatInv => CacheIsCurrent
  BY DiskIs DEF FatInv, CacheIsCurrent, Current
<1> QED
  BY <1>1, FatInvHolds, PTL

(***************************************************************************)
(* The chain of each file and directory that a path leads to ends, covers  *)
(* its size and shares no cluster with another: fat32.c never frees or     *)
(* hands out what is in use.                                               *)
(***************************************************************************)
THEOREM ChainsSound == Spec => []ChainsAreSound
BY FatInvHolds, ChainsAreSoundIs, PTL

(***************************************************************************)
(* fat32_read returns the part of a file's text that was asked for,        *)
(* wherever the part begins and ends in a cluster, for clusters of every   *)
(* size and texts of every length.                                         *)
(***************************************************************************)
THEOREM WindowIsRead == Spec => []ReadsTheWindow
<1>1. FatInv => ReadsTheWindow
  <2> SUFFICES ASSUME FatInv, NEW p \in Present, NEW off \in 0..(2 * Rows), NEW max \in 1..(2 * Rows)
               PROVE  ReadFile(disk, p, max, off)
                        = SubSeq(WholeText(disk, p), off + 1, Min({off + max, EntryAt(disk, p).size}))
    BY DEF ReadsTheWindow
  <2>1. off \in Nat /\ max \in Nat \ {0}
    BY EntriesAre
  <2>2. p \in Seq(ShortNames) /\ p # <<>> /\ Found(disk, p)
    BY NamesAre DEF Present, Known
  <2>3. Healthy(disk)
    BY DEF FatInv
  <2> QED
    BY <2>1, <2>2, <2>3, ReadFileIs
<1> QED
  BY <1>1, FatInvHolds, PTL

\* Neither path is a prefix of the other.
LEMMA ApartIs ==
  ASSUME NEW T, NEW p \in Seq(T), NEW q \in Seq(T), Apart(p, q)
  PROVE  ~ Starts(p, q) /\ ~ Starts(q, p)
<1>1. ASSUME NEW s \in Seq(T), NEW t \in Seq(T), Starts(s, t)
      PROVE  IsPrefix(s, t)
  <2>1. Len(s) \in Nat /\ Len(t) \in Nat /\ Len(s) <= Len(t) /\ \A k \in 1..Len(s) : s[k] = t[k]
    BY <1>1 DEF Starts
  <2>2. SubSeq(s, 1, Len(s)) = SubSeq(t, 1, Len(s))
    BY <2>1
  <2> QED
    BY <2>1, <2>2 DEF IsPrefix
<1> QED
  BY <1>1 DEF Apart

\* What is present has a name of its own.
LEMMA PresentIs ==
  ASSUME NEW q \in Present
  PROVE  q \in Seq(ShortNames) /\ q # <<>> /\ Found(disk, q)
BY NamesAre DEF Present, Known

\* The clients' tree when a call begins.
LEMMA WorkTree ==
  ASSUME FatInv, NEW p \in Seq(ShortNames), p # <<>>, NEW q \in Present, Apart(q, p)
  PROVE  Found(Work, q) /\ Content(Work, q) = Content(disk, q)
<1>1. Healthy(disk) /\ Healthy(Work)
  BY WorkIs DEF FatInv
<1>2. Work.fat = disk.fat /\ Work.data = disk.data
  BY DEF Work
<1>3. Spares(GuardOf(disk, p), Work.fat, Work.data)
  BY <1>2 DEF Spares, SameRow, GuardOf
<1>4. q \in Seq(ShortNames) /\ q # <<>> /\ Found(disk, q)
  BY PresentIs
<1>5. ~ Starts(p, q) /\ ~ Starts(q, p)
  BY <1>4, ApartIs
<1> QED
  BY <1>1, <1>3, <1>4, <1>5, HealthyIs, ContentKept

\* The invariant implies PowerLossKeepsOthers.
LEMMA PowerLossIs == ASSUME FatInv PROVE PowerLossKeepsOthers
<1> SUFFICES ASSUME NEW x \in Calls
             PROVE  KeepsOthers(Result(Work, x).log, Others(Name83(x.path)))
  BY DEF PowerLossKeepsOthers
<1> DEFINE p   == Name83(x.path)
           e   == Result(Work, x)
           log == e.log
<1>1. Good(Work) /\ Healthy(Work) /\ Work.log = <<>>
  BY WorkIs DEF FatInv
<1>2. p \in Seq(ShortNames) /\ p # <<>>
  BY NamesAre DEF Calls
<1>3. Good(e) /\ Guards(GuardOf(Work, p), e)
  BY <1>1, ResultIs
<1>4. log \in Seq(Fats \X Datas) /\ LogSpares(GuardOf(Work, p), log)
  BY <1>3, GoodFields DEF Guards
<1> HIDE DEF p, e, log
<1>5. ASSUME NEW k \in 1..(Len(log) - 1), NEW q \in Present, Apart(q, p),
             NEW after, after = [fat |-> log[k][1], data |-> log[k][2], cache |-> [c \in {} |-> 0]]
      PROVE  Found(after, q) /\ Content(after, q) = Content(disk, q)
  <2>1. k \in 1..Len(log)
    BY <1>4
  <2>2. log[k] \in Fats \X Datas /\ Spares(GuardOf(Work, p), log[k][1], log[k][2])
    BY <1>4, <2>1 DEF LogSpares
  <2>3. IsDisk(after) /\ Spares(GuardOf(Work, p), after.fat, after.data)
    <3>1. after.fat = log[k][1] /\ after.data = log[k][2] /\ after.cache = [c \in {} |-> 0]
      BY <1>5
    <3>2. DOMAIN after.cache = {}
      BY <3>1
    <3>3. Current(after)
      BY <3>2 DEF Current
    <3> QED
      BY <2>2, <3>1, <3>3 DEF IsDisk
  <2>4. q \in Seq(ShortNames) /\ q # <<>> /\ ~ Starts(p, q) /\ ~ Starts(q, p)
    BY <1>2, <1>5, PresentIs, ApartIs
  <2>5. Found(Work, q) /\ Content(Work, q) = Content(disk, q)
    BY <1>2, <1>5, WorkTree
  <2>6. Found(after, q) /\ Content(after, q) = Content(Work, q)
    BY <1>1, <1>2, <2>3, <2>4, <2>5, ContentKept
  <2> QED
    BY <2>5, <2>6
<1>6. \A q \in DOMAIN Others(p) : q \in Present /\ Apart(q, p) /\ Others(p)[q] = Content(disk, q)
  BY DEF Others
<1>7. KeepsOthers(log, Others(p))
  BY <1>5, <1>6 DEF KeepsOthers
<1> QED
  BY <1>7 DEF p, e, log

(***************************************************************************)
(* When the power goes off between any two of the writes of fat32_write,   *)
(* fat32_create, fat32_delete or fat32_delete_recursive, what is beside    *)
(* the path of the call is found where it was, with the text it had.       *)
(***************************************************************************)
THEOREM OthersSurvive == Spec => []PowerLossKeepsOthers
BY FatInvHolds, PowerLossIs, PTL


-----------------------------------------------------------------------------
(***************************************************************************)
(* The rows of a directory, in the order in which a scan meets them: what  *)
(* dir_add_entry makes of them, and what is found then.                    *)
(***************************************************************************)
Before(l, j, k, i) == l < k \/ (l = k /\ j < i)

Free(row) == row \in {Zero, Gone}

\* The entry is the only new row, and in the first place that was free, or at
\* the beginning of a cluster that is new.
Added(d, r, e, r2, entry, k, i) ==
  /\ Begun(r, r2) /\ Len(r2) \in Nat
  /\ k \in 1..Len(r2) /\ i \in 1..Rows /\ RowAt(e, <<r2[k], i>>) = entry
  /\ k <= Len(r) => Free(RowAt(d, <<r2[k], i>>))
  /\ \A l \in 1..Len(r2), j \in 1..Rows :
       /\ Before(l, j, k, i) => l <= Len(r) /\ ~ Free(RowAt(d, <<r2[l], j>>))
       /\ l <= Len(r) /\ ~ (l = k /\ j = i) => RowAt(e, <<r2[l], j>>) = RowAt(d, <<r2[l], j>>)
       /\ l > Len(r) /\ ~ (l = k /\ j = i) => RowAt(e, <<r2[l], j>>) = Zero

\* The rows of a directory: no cluster comes twice.
LEMMA DirRows ==
  ASSUME NEW d, IsDisk(d), Links(d.fat), NEW c, IsHead(d.fat, c),
         NEW r, r = Readable(Chain(d, c))
  PROVE  /\ r \in Seq(2..LastCluster) /\ Len(r) \in Nat
         /\ \A k \in 1..Len(r) : r[k] \in 2..LastCluster /\ r[k] \in ClustersOf(d.fat, c)
         /\ \A k, l \in 1..Len(r) : r[k] = r[l] => k = l
<1> DEFINE ch == ChainIn(d.fat, c)
<1>1. /\ Chain(d, c) = ch /\ ch \in Seq(Entries) /\ r \in Seq(2..LastCluster)
      /\ \A pl \in PlacesOf(r) : pl[1] \in ClustersOf(d.fat, c)
  BY ReadableChain
<1>2. IsPath(d.fat, c, ch)
  BY HeadChain DEF IsChain
<1>3. \A i, j \in 1..Len(ch) : ch[i] = ch[j] => i = j
  BY <1>2, PathDistinct
<1> HIDE DEF ch
<1>4. /\ Len(r) \in Nat /\ Len(r) <= Len(ch)
      /\ \A k \in 1..Len(r) : r[k] = ch[k] /\ ch[k] \in 2..LastCluster
  BY <1>1, ReadablePart
<1>5. Len(ch) \in Nat
  BY <1>1
<1>6. \A k \in 1..Len(r) : r[k] \in ClustersOf(d.fat, c)
  <2> TAKE k \in 1..Len(r)
  <2>1. 1 \in 1..Rows
    BY EntriesAre
  <2>2. <<r[k], 1>> \in PlacesOf(r)
    BY <1>1, <2>1, PlaceIn
  <2> QED
    BY <1>1, <2>2, PlaceIs
<1>7. \A k, l \in 1..Len(r) : r[k] = r[l] => k = l
  BY <1>3, <1>4, <1>5
<1> QED
  BY <1>1, <1>4, <1>6, <1>7

\* An entry that takes the first free place.
LEMMA SetAdded ==
  ASSUME NEW d, Good(d), NEW r \in Seq(2..LastCluster), \A k, l \in 1..Len(r) : r[k] = r[l] => k = l,
         NEW S, S = {pl \in PlacesOf(r) : Free(RowAt(d, pl))},
         NEW k, NEW i, IsFirst(r, S, k, i), NEW entry \in RowSet
  PROVE  LET e == SetRow(d, <<r[k], i>>, entry)
         IN  e.ok = d.ok /\ Added(d, r, e, r, entry, k, i)
<1> DEFINE P == <<r[k], i>>
           e == SetRow(d, P, entry)
<1>1. /\ k \in 1..Len(r) /\ i \in 1..Rows /\ P \in S /\ Len(r) \in Nat
      /\ \A l \in 1..Len(r) : \A j \in 1..Rows : <<r[l], j>> \in S => k < l \/ (k = l /\ i <= j)
  BY DEF IsFirst
<1>2. P \in Places /\ Free(RowAt(d, P))
  <2>1. P \in PlacesOf(r) /\ Free(RowAt(d, P))
    BY <1>1
  <2> QED
    BY <2>1, PlacesAre
<1>3. /\ e.ok = d.ok /\ RowIn(e.data, P) = entry
      /\ \A x \in Places \ {P} : RowIn(e.data, x) = RowIn(d.data, x)
  BY <1>2, SetRowRow
<1> HIDE DEF e
<1>4. ASSUME NEW l \in 1..Len(r), NEW j \in 1..Rows
      PROVE  /\ Before(l, j, k, i) => ~ Free(RowAt(d, <<r[l], j>>))
             /\ ~ (l = k /\ j = i) => RowAt(e, <<r[l], j>>) = RowAt(d, <<r[l], j>>)
  <2> DEFINE x == <<r[l], j>>
  <2>1. x \in PlacesOf(r)
    BY PlaceIn
  <2>2. x \in Places
    BY <2>1, PlacesAre
  <2>3. ~ (l = k /\ j = i) => x # P
    BY <1>1
  <2>4. ~ (l = k /\ j = i) => RowAt(e, x) = RowAt(d, x)
    <3> HIDE DEF x, P
    <3> QED
      BY <1>3, <2>2, <2>3 DEF RowAt, RowIn
  <2>5. Before(l, j, k, i) => x \notin S
    <3>1. Rows \in Nat
      BY EntriesAre
    <3> QED
      BY <1>1, <3>1 DEF Before
  <2> HIDE DEF x
  <2>6. Before(l, j, k, i) => ~ Free(RowAt(d, x))
    BY <2>1, <2>5
  <2> QED
    BY <2>4, <2>6 DEF x
<1>5. RowAt(e, P) = entry
  BY <1>3 DEF RowAt, RowIn
<1>6. Begun(r, r)
  BY <1>1 DEF Begun
<1>7. Added(d, r, e, r, entry, k, i)
  BY <1>1, <1>2, <1>4, <1>5, <1>6 DEF Added
<1> QED
  BY <1>3, <1>7 DEF e


\* Readable of one cluster more.
LEMMA ReadableMore ==
  ASSUME NEW ch \in Seq(Entries), Readable(ch) = ch, NEW new \in Entries
  PROVE  Readable(Append(ch, new)) = IF OnDisk(new) THEN Append(ch, new) ELSE ch
<1> DEFINE t   == Append(ch, new)
           bad == {k \in DOMAIN t : ~ OnDisk(t[k])}
<1>1. /\ t \in Seq(Entries) /\ Len(t) = Len(ch) + 1 /\ DOMAIN t = 1..(Len(ch) + 1)
      /\ t[Len(ch) + 1] = new /\ \A k \in 1..Len(ch) : t[k] = ch[k]
      /\ Len(ch) \in Nat
  OBVIOUS
<1>2. \A k \in 1..Len(ch) : OnDisk(ch[k])
  <2>1. \A x \in ToSet(ch) : OnDisk(x)
    BY ReadableIs
  <2>2. ToSet(ch) = {ch[k] : k \in 1..Len(ch)}
    BY ToSetIs
  <2> QED
    BY <2>1, <2>2
<1>3. Readable(t) = IF bad = {} THEN t ELSE SubSeq(t, 1, Min(bad) - 1)
  BY DEF Readable
<1>4. bad = {k \in {Len(ch) + 1} : ~ OnDisk(new)}
  <2>1. \A k \in DOMAIN t : OnDisk(t[k]) \/ (k = Len(ch) + 1 /\ ~ OnDisk(new))
    BY <1>1, <1>2
  <2>2. Len(ch) + 1 \in DOMAIN t /\ t[Len(ch) + 1] = new
    BY <1>1
  <2> QED
    BY <2>1, <2>2
<1> HIDE DEF bad
<1>5. CASE OnDisk(new)
  BY <1>3, <1>4, <1>5
<1>6. CASE ~ OnDisk(new)
  <2>1. bad = {Len(ch) + 1}
    BY <1>4, <1>6
  <2> DEFINE m == Min(bad)
  <2>2. m = Len(ch) + 1
    <3>1. bad \subseteq Nat /\ bad # {}
      BY <1>1, <2>1
    <3>2. m \in bad
      BY <3>1, MinIs
    <3> QED
      BY <2>1, <3>2
  <2> HIDE DEF m
  <2>3. Readable(t) = SubSeq(t, 1, m - 1)
    BY <1>3, <2>1 DEF m
  <2>4. m - 1 = Len(ch)
    BY <1>1, <2>2
  <2>5. SubSeq(t, 1, Len(ch)) = ch
    BY <1>1
  <2> QED
    BY <1>6, <2>3, <2>4, <2>5
<1> QED
  BY <1>5, <1>6

\* The directory gets one more cluster, whose first row is the entry; if it
\* cannot be written, the rows that can be read stay what they were.
Lengthened(d, r, dir, new, e, entry) ==
  /\ \A pl \in Places : pl[1] # new => RowIn(e.data, pl) = RowIn(d.data, pl)
  /\ OnDisk(new) => /\ Readable(Chain(e, dir)) = Append(r, new) /\ e.ok = d.ok
                    /\ Added(d, r, e, Append(r, new), entry, Len(r) + 1, 1)
  /\ ~ OnDisk(new) => Readable(Chain(e, dir)) = r /\ ~ e.ok /\ e.data = d.data

\* The entry goes into the first row of the new cluster, if that can be written.
LEMMA LengthenAdded ==
  ASSUME NEW d, Good(d), Healthy(d), NEW dir, IsHead(d.fat, dir), NEW new \in Entries,
         d.fat[new] = 0, NEW entry \in RowSet, NEW r, r = Chain(d, dir), Readable(r) = r,
         \A pl \in PlacesOf(r) : ~ Free(RowAt(d, pl)),
         NEW e, e = SetRow(Lengthen(d, r, new), <<new, 1>>, entry)
  PROVE  Lengthened(d, r, dir, new, e, entry)
<1> DEFINE d1 == FatWrite(d, new, Eoc)
           z  == Last(r)
           d2 == FatWrite(d1, z, new)
           d3 == WriteCluster(d2, new, Blank)
           fat1 == [d.fat EXCEPT ![new] = Eoc]
           fat2 == Joined(fat1, dir, new)
<1>1. /\ Links(d.fat) /\ IsDisk(d) /\ d.fat \in Fats /\ d.data \in Datas
      /\ r = ChainIn(d.fat, dir) /\ r \in Seq(Entries) /\ Len(r) \in Nat
  <2>1. Links(d.fat) /\ IsDisk(d) /\ d.fat \in Fats /\ d.data \in Datas
    BY HealthyIs
  <2>2. r = ChainIn(d.fat, dir) /\ r \in Seq(Entries)
    BY <2>1, ReadableChain
  <2> QED
    BY <2>1, <2>2
<1>2. new # dir /\ new # Root /\ Eoc \in Links0 /\ new \in Links0
  BY <1>1 DEF IsHead, Links, Links0
<1>3. /\ Links(fat1) /\ IsHead(fat1, new) /\ IsHead(fat1, dir) /\ ChainIn(fat1, dir) = r
      /\ fat1[new] = Eoc
  <2>1. /\ Links(fat1) /\ IsHead(fat1, new)
        /\ \A h : IsHead(d.fat, h) => IsHead(fat1, h) /\ ChainIn(fat1, h) = ChainIn(d.fat, h)
    BY <1>1, TakenLinks
  <2>2. fat1[new] = Eoc
    BY <1>1 DEF Fats
  <2> QED
    BY <1>1, <2>1, <2>2
<1>4. Good(d1) /\ d1.fat = fat1 /\ d1.data = d.data /\ d1.ok = d.ok
  BY <1>2, FatWriteIs
<1> HIDE DEF fat1, d1
<1>5. z \in Entries
  BY <1>3, ClustersAre
<1>6. Links(fat2) /\ IsHead(fat2, dir) /\ ChainIn(fat2, dir) = Append(r, new)
  BY <1>2, <1>3, JoinedLinks
<1>7. fat2 = [fat1 EXCEPT ![z] = new]
  BY <1>3 DEF Joined
<1>8. Good(d2) /\ d2.fat = fat2 /\ d2.data = d.data /\ d2.ok = d.ok
  <2>1. Good(d2) /\ d2.fat = [d1.fat EXCEPT ![z] = new] /\ d2.data = d1.data /\ d2.ok = d1.ok
    BY <1>2, <1>4, <1>5, FatWriteIs
  <2> QED
    BY <1>4, <1>7, <2>1
<1> HIDE DEF fat2, d2
<1>9. e = SetRow(d3, <<new, 1>>, entry)
  BY DEF Lengthen, d1, d2, z
<1>10. /\ Good(d3) /\ d3.fat = fat2
       /\ OnDisk(new) => d3.data = [d.data EXCEPT ![new] = Blank] /\ d3.ok = d.ok
       /\ ~ OnDisk(new) => d3.data = d.data /\ d3.ok = FALSE
  <2>1. /\ Good(d3) /\ d3.fat = d2.fat
        /\ OnDisk(new) => /\ d3.data = [d2.data EXCEPT ![new] = Blank] /\ d3.ok = d2.ok
                          /\ d3.log = Append(d2.log, <<d2.fat, [d2.data EXCEPT ![new] = Blank]>>)
        /\ ~ OnDisk(new) => d3.data = d2.data /\ d3.ok = FALSE /\ d3.log = d2.log
    <3>1. Good(d2) /\ Blank \in Clusters
      BY <1>8, BlankIs
    <3> QED
      BY <3>1, WriteClusterIs
  <2> QED
    BY <1>8, <2>1
<1> HIDE DEF d3, z
<1>11. \A y : Good(y) /\ y.fat = fat2 => Chain(y, dir) = Append(r, new)
  BY <1>6, ChainRead DEF Good
<1>12. Readable(Append(r, new)) = IF OnDisk(new) THEN Append(r, new) ELSE r
  BY <1>1, ReadableMore
<1>13. CASE ~ OnDisk(new)
  <2>1. e = Fails(d3)
    BY <1>9, <1>13, SetRowOff
  <2>2. Good(e) /\ e.fat = fat2 /\ e.data = d.data /\ e.ok = FALSE
    BY <1>10, <1>13, <2>1, FailsIs
  <2> QED
    BY <1>11, <1>12, <1>13, <2>2 DEF Lengthened
<1>14. CASE OnDisk(new)
  <2> DEFINE P == <<new, 1>>
  <2>1. new \in 2..LastCluster /\ P \in Places /\ P[1] = new /\ P[2] = 1 /\ 1 \in 1..Rows
    BY <1>14, EntriesAre DEF Places
  <2>2. /\ Good(e) /\ e.fat = fat2 /\ e.ok = d.ok /\ RowIn(e.data, P) = entry
        /\ \A x \in Places \ {P} : RowIn(e.data, x) = RowIn(d3.data, x)
    <3>1. Good(d3) /\ d3.fat = fat2 /\ d3.ok = d.ok /\ P \in Places /\ e = SetRow(d3, P, entry)
      BY <1>9, <1>10, <1>14, <2>1
    <3> HIDE DEF P
    <3>2. /\ Good(SetRow(d3, P, entry)) /\ SetRow(d3, P, entry).fat = d3.fat
          /\ SetRow(d3, P, entry).ok = d3.ok /\ RowIn(SetRow(d3, P, entry).data, P) = entry
          /\ \A x \in Places \ {P} : RowIn(SetRow(d3, P, entry).data, x) = RowIn(d3.data, x)
      BY <3>1, SetRowRow
    <3> QED
      BY <3>1, <3>2
  <2>3. /\ \A x \in Places : x[1] = new => RowIn(d3.data, x) = Zero
        /\ \A x \in Places : x[1] # new => RowIn(d3.data, x) = RowIn(d.data, x)
    <3>1. d3.data[new] = Blank /\ \A c \in 2..LastCluster : c # new => d3.data[c] = d.data[c]
      BY <1>1, <1>10, <1>14, <2>1 DEF Datas
    <3>2. \A x \in Places : x[1] \in 2..LastCluster /\ x[2] \in 1..Rows
      BY DEF Places
    <3> QED
      BY <3>1, <3>2, BlankIs DEF RowIn
  <2>4. Readable(Chain(e, dir)) = Append(r, new)
    BY <1>11, <1>12, <1>14, <2>2
  <2>5. \A k \in 1..Len(r) : r[k] \in 2..LastCluster /\ r[k] # new
    <3>1. \A k \in 1..Len(r) : r[k] \in 2..LastCluster /\ r[k] \in ClustersOf(d.fat, dir)
      BY <1>1, DirRows
    <3>2. \A x \in ClustersOf(d.fat, dir) : d.fat[x] # 0
      BY <1>1, ClustersAre
    <3> QED
      BY <3>1, <3>2
  <2> DEFINE r2 == Append(r, new)
  <2>6. /\ Len(r2) = Len(r) + 1 /\ r2[Len(r) + 1] = new /\ \A k \in 1..Len(r) : r2[k] = r[k]
        /\ Begun(r, r2)
    BY <1>1 DEF Begun
  <2> HIDE DEF r2, P
  <2>7. ASSUME NEW l \in 1..Len(r2), NEW j \in 1..Rows
        PROVE  /\ Before(l, j, Len(r) + 1, 1) => l <= Len(r) /\ ~ Free(RowAt(d, <<r2[l], j>>))
               /\ l <= Len(r) => RowAt(e, <<r2[l], j>>) = RowAt(d, <<r2[l], j>>)
               /\ l > Len(r) /\ ~ (l = Len(r) + 1 /\ j = 1) => RowAt(e, <<r2[l], j>>) = Zero
    <3> DEFINE x == <<r2[l], j>>
    <3>1. Rows \in Nat
      BY EntriesAre
    <3>2. CASE l <= Len(r)
      <4>1. l \in 1..Len(r) /\ r2[l] = r[l]
        BY <1>1, <2>6, <3>2
      <4>2. x \in PlacesOf(r) /\ x \in Places /\ x[1] = r[l]
        <5>1. x \in PlacesOf(r)
          BY <1>1, <4>1, PlaceIn
        <5> QED
          BY <2>5, <4>1, <5>1, PlaceIs DEF Places
      <4>3. ~ Free(RowAt(d, x))
        BY <4>2
      <4>4. x[1] # new /\ x # P
        BY <2>1, <2>5, <4>1, <4>2
      <4> HIDE DEF x
      <4>5. RowAt(e, x) = RowAt(d, x)
        BY <2>2, <2>3, <4>2, <4>4 DEF RowAt, RowIn
      <4> QED
        BY <3>2, <4>3, <4>5 DEF x
    <3>3. CASE l > Len(r)
      <4>1. l = Len(r) + 1 /\ r2[l] = new
        BY <1>1, <2>6, <3>3
      <4>2. ~ Before(l, j, Len(r) + 1, 1)
        BY <1>1, <3>1, <4>1 DEF Before
      <4>3. ASSUME j # 1 PROVE RowAt(e, x) = Zero
        <5>1. x \in Places /\ x[1] = new /\ x # P
          BY <2>1, <4>1, <4>3 DEF Places, P
        <5> HIDE DEF x
        <5> QED
          BY <2>2, <2>3, <5>1 DEF RowAt, RowIn
      <4> QED
        BY <1>1, <3>3, <4>1, <4>2, <4>3
    <3> QED
      BY <1>1, <2>6, <3>2, <3>3
  <2>8. RowAt(e, <<r2[Len(r) + 1], 1>>) = entry
    BY <2>2, <2>6 DEF RowAt, RowIn, P
  <2>9. Added(d, r, e, r2, entry, Len(r) + 1, 1)
    <3>1. Len(r) + 1 \in 1..Len(r2) /\ Len(r2) \in Nat /\ ~ (Len(r) + 1 <= Len(r))
      BY <1>1, <2>6
    <3> QED
      BY <1>1, <2>1, <2>6, <2>7, <2>8, <3>1, ZenonT(60) DEF Added
  <2>10. \A x \in Places : x[1] # new => RowIn(e.data, x) = RowIn(d.data, x)
    BY <2>1, <2>2, <2>3
  <2> QED
    BY <1>14, <2>2, <2>4, <2>9, <2>10 DEF Lengthened, r2
<1> QED
  BY <1>13, <1>14


\* What dir_add_entry makes of the rows of a directory, and of the others.
AddedIn(d, r, dir, e, entry) ==
  /\ e.ok => /\ IsHead(d.fat, dir)
             /\ \E k, i : Added(d, r, e, Readable(Chain(e, dir)), entry, k, i)
             /\ \A pl \in Used(d.fat) : pl[1] \notin ClustersOf(d.fat, dir) =>
                  RowIn(e.data, pl) = RowIn(d.data, pl)
  /\ ~ e.ok => Readable(Chain(e, dir)) = r /\ e.data = d.data

\* dir_add_entry takes the first free row or lengthens the directory; when it
\* fails, the directory reads as before.
LEMMA AddAdded ==
  ASSUME NEW d, Good(d), Healthy(d), d.ok, NEW dir, HeadOrNone(d.fat, dir),
         NEW entry \in RowSet, NEW r, r = Readable(Chain(d, dir)),
         NEW e, e = DirAddEntry(d, dir, entry)
  PROVE  AddedIn(d, r, dir, e, entry)
<1> DEFINE ch   == Chain(d, dir)
           S    == {pl \in PlacesOf(r) : Free(RowAt(d, pl))}
           free == FirstOf(r, S)
           new  == FatFindFree(d)
<1>1. e = IF free # <<>> THEN SetRow(d, free, entry)
          ELSE IF ch = <<>> \/ r # ch \/ new = 0 THEN Fails(d)
          ELSE SetRow(Lengthen(d, ch, new), <<new, 1>>, entry)
  BY DEF DirAddEntry, AddTo, AddRow, FreeIn, Free
<1>2. /\ Links(d.fat) /\ IsDisk(d) /\ Current(d)
      /\ dir \in Entries => IsHead(d.fat, dir)
      /\ r \in Seq(2..LastCluster)
  <2>1. Links(d.fat) /\ IsDisk(d) /\ Current(d)
    BY HealthyIs
  <2>2. r \in Seq(2..LastCluster)
    BY ChainType
  <2> QED
    BY <2>1, <2>2 DEF HeadOrNone
<1>3. dir \notin Entries => ch = <<>> /\ \A y : Chain(y, dir) = <<>>
  BY ChainEmpty
<1>4. \A y : Good(y) /\ y.fat = d.fat => Chain(y, dir) = ch
  <2> TAKE y
  <2> HAVE Good(y) /\ y.fat = d.fat
  <2>1. CASE dir \in Entries
    BY <1>2, <2>1, ChainRead DEF Good
  <2>2. CASE dir \notin Entries
    BY <1>3, <2>2
  <2> QED
    BY <2>1, <2>2
<1>5. \/ /\ free = <<>>
         /\ \A l \in 1..Len(r) : \A j \in 1..Rows : <<r[l], j>> \notin S
      \/ \E k, i : IsFirst(r, S, k, i) /\ free = <<r[k], i>>
  <2> HIDE DEF S
  <2> QED
    BY <1>2, FirstOfFirst
<1> HIDE DEF free, new
<1>6. CASE free # <<>>
  <2>1. PICK k, i : IsFirst(r, S, k, i) /\ free = <<r[k], i>>
    BY <1>5, <1>6
  <2>2. k \in 1..Len(r) /\ i \in 1..Rows
    BY <2>1 DEF IsFirst
  <2>3. IsHead(d.fat, dir)
    <3>1. CASE dir \in Entries
      BY <1>2, <3>1
    <3>2. CASE dir \notin Entries
      <4>1. <<>> \in Seq(Entries) /\ Len(<<>>) = 0
        OBVIOUS
      <4>2. r = Readable(<<>>)
        BY <1>3, <3>2
      <4>3. Len(Readable(<<>>)) \in Nat /\ Len(Readable(<<>>)) <= Len(<<>>)
        BY <4>1, ReadablePart
      <4> QED
        BY <2>2, <4>1, <4>2, <4>3
    <3> QED
      BY <3>1, <3>2
  <2>4. /\ \A l \in 1..Len(r) : r[l] \in 2..LastCluster /\ r[l] \in ClustersOf(d.fat, dir)
        /\ \A l, j \in 1..Len(r) : r[l] = r[j] => l = j
    BY <1>2, <2>3, DirRows
  <2>5. e = SetRow(d, <<r[k], i>>, entry)
    BY <1>1, <1>6, <2>1
  <2>6. e.ok = d.ok /\ Added(d, r, e, r, entry, k, i)
    <3>1. LET f == SetRow(d, <<r[k], i>>, entry)
          IN  f.ok = d.ok /\ Added(d, r, f, r, entry, k, i)
      BY <1>2, <2>1, <2>4, SetAdded
    <3> QED
      BY <2>5, <3>1
  <2>7. /\ Good(e) /\ e.fat = d.fat
        /\ \A pl \in Places : pl[1] # r[k] => RowIn(e.data, pl) = RowIn(d.data, pl)
    <3> DEFINE P == <<r[k], i>>
    <3>1. P \in Places /\ P[1] = r[k]
      BY <2>2, <2>4 DEF Places
    <3> HIDE DEF P
    <3>2. LET f == SetRow(d, P, entry)
          IN  /\ Good(f) /\ f.fat = d.fat /\ f.ok = d.ok /\ RowIn(f.data, P) = entry
              /\ \A x \in Places \ {P} : RowIn(f.data, x) = RowIn(d.data, x)
      BY <3>1, SetRowRow
    <3> QED
      BY <2>5, <3>1, <3>2 DEF P
  <2>8. Readable(Chain(e, dir)) = r
    BY <1>4, <2>7
  <2> QED
    BY <2>2, <2>3, <2>4, <2>6, <2>7, <2>8 DEF AddedIn, Used
<1>7. CASE free = <<>> /\ (ch = <<>> \/ r # ch \/ new = 0)
  <2>1. e = Fails(d)
    BY <1>1, <1>7
  <2>2. Good(e) /\ e.fat = d.fat /\ e.data = d.data /\ e.ok = FALSE
    BY <2>1, FailsIs
  <2> QED
    BY <1>4, <2>2 DEF AddedIn
<1>8. CASE free = <<>> /\ ~ (ch = <<>> \/ r # ch \/ new = 0)
  <2>1. e = SetRow(Lengthen(d, r, new), <<new, 1>>, entry) /\ r = Chain(d, dir) /\ Readable(r) = r
    BY <1>1, <1>8
  <2>2. IsHead(d.fat, dir)
    BY <1>2, <1>3, <1>8
  <2>3. new \in Entries /\ d.fat[new] = 0
    BY <1>8, FindFreeIs DEF new
  <2>4. \A pl \in PlacesOf(r) : ~ Free(RowAt(d, pl))
    <3> SUFFICES ASSUME NEW pl \in PlacesOf(r), Free(RowAt(d, pl)) PROVE FALSE
      OBVIOUS
    <3>1. pl \in S
      OBVIOUS
    <3>2. ToSet(r) = {r[l] : l \in 1..Len(r)}
      BY <1>2, ToSetIs
    <3>3. PICK l \in 1..Len(r), j \in 1..Rows : pl = <<r[l], j>>
      BY <3>2 DEF PlacesOf
    <3>4. free # <<>>
      BY <1>5, <3>1, <3>3, PlaceIs
    <3> QED
      BY <1>8, <3>4
  <2>5. Lengthened(d, r, dir, new, e, entry)
    BY <2>1, <2>2, <2>3, <2>4, LengthenAdded
  <2>6. \A pl \in Used(d.fat) : pl \in Places /\ pl[1] # new
    BY <2>3 DEF Used
  <2> QED
    BY <2>2, <2>5, <2>6 DEF AddedIn, Lengthened
<1> QED
  BY <1>6, <1>7, <1>8

\* Every entry called n stands after a free place.
Hidden(d, r, n) ==
  \A l \in 1..Len(r), j \in 1..Rows :
    RowAt(d, <<r[l], j>>).kind = "entry" /\ RowAt(d, <<r[l], j>>).name = n =>
      \E k \in 1..Len(r), i \in 1..Rows : Before(k, i, l, j) /\ Free(RowAt(d, <<r[k], i>>))

\* delete_entry_in_dir leaves no entry of the name that a scan for a free place
\* would not come to after one.
LEMMA DeletedHidden ==
  ASSUME NEW d, Good(d), NEW dir, HeadOrNone(d.fat, dir), Links(d.fat),
         NEW n, NEW e, e = DeleteEntry(d, dir, n), NEW r, r = Readable(Chain(d, dir))
  PROVE  /\ Readable(Chain(e, dir)) = r /\ Hidden(e, r, n)
         /\ \A pl \in PlacesOf(r) : RowAt(e, pl) = RowAt(d, pl) \/ RowAt(e, pl) = Gone
<1> DEFINE S == Hits(d, r, n)
           P == FindEntry(d, dir, n)
<1>1. IsDisk(d) /\ r \in Seq(2..LastCluster) /\ Len(r) \in Nat /\ Rows \in Nat
  <2>1. r \in Seq(2..LastCluster)
    BY ChainType
  <2> QED
    BY <2>1, GoodDisk, EntriesAre
<1>2. P = FindIn(d, r, n) /\ P = IfUsed(d, FirstOf(r, S))
  BY FindInHits DEF FindEntry
<1>3. \/ /\ FirstOf(r, S) = <<>>
         /\ \A l \in 1..Len(r) : \A j \in 1..Rows : <<r[l], j>> \notin S
      \/ \E k, i : IsFirst(r, S, k, i) /\ FirstOf(r, S) = <<r[k], i>>
  <2> HIDE DEF S
  <2> QED
    BY <1>1, FirstOfFirst
<1>4. P = <<>> \/ P \in Places
  BY <1>1, FindEntryIs DEF EntryPlace
<1>5. /\ Good(e) /\ e.fat = d.fat
      /\ P = <<>> => e = d
      /\ P # <<>> => RowIn(e.data, P) = Gone
      /\ \A x \in Places \ {P} : RowIn(e.data, x) = RowIn(d.data, x)
  <2>1. LET f == DeleteEntry(d, dir, n)
        IN  /\ Good(f) /\ f.fat = d.fat /\ f.ok = d.ok
            /\ P = <<>> => f = d
            /\ P # <<>> => RowIn(f.data, P) = Gone
            /\ \A x \in Places \ {P} : RowIn(f.data, x) = RowIn(d.data, x)
    BY <1>4, DeleteEntryIs
  <2> QED
    BY <2>1
<1>6. Chain(e, dir) = Chain(d, dir)
  <2>1. CASE dir \in Entries
    BY <1>5, <2>1, ChainRead DEF Good, HeadOrNone
  <2>2. CASE dir \notin Entries
    BY <2>2, ChainEmpty
  <2> QED
    BY <2>1, <2>2
<1>7. PlacesOf(r) \subseteq Places
  BY <1>1, PlacesAre
<1> HIDE DEF P
<1>8. \A pl \in PlacesOf(r) : RowAt(e, pl) = IF pl = P THEN Gone ELSE RowAt(d, pl)
  <2> TAKE pl \in PlacesOf(r)
  <2>1. pl \in Places /\ pl # <<>>
    BY <1>7, PlaceIs DEF Places
  <2> QED
    BY <1>5, <2>1 DEF RowAt, RowIn
<1>9. ASSUME NEW l \in 1..Len(r), NEW j \in 1..Rows,
             RowAt(e, <<r[l], j>>).kind = "entry" /\ RowAt(e, <<r[l], j>>).name = n
      PROVE  \E k \in 1..Len(r), i \in 1..Rows : Before(k, i, l, j) /\ Free(RowAt(e, <<r[k], i>>))
  <2> DEFINE pl == <<r[l], j>>
  <2>1. pl \in PlacesOf(r)
    BY <1>1, PlaceIn
  <2>2. RowAt(e, pl) # Gone
    BY <1>9 DEF Gone
  <2>3. pl # P /\ RowAt(d, pl) = RowAt(e, pl)
    BY <1>8, <2>1, <2>2
  <2>4. pl \in S
    BY <1>9, <2>1, <2>3 DEF Hits, Hit
  <2>5. PICK k, i : IsFirst(r, S, k, i) /\ FirstOf(r, S) = <<r[k], i>>
    BY <1>3, <2>4
  <2> HIDE DEF S
  <2>6. /\ k \in 1..Len(r) /\ i \in 1..Rows /\ <<r[k], i>> \in S
        /\ k < l \/ (k = l /\ i <= j)
    BY <2>4, <2>5 DEF IsFirst
  <2> DEFINE f == <<r[k], i>>
  <2>7. f \in PlacesOf(r) /\ f # <<>>
    BY <1>1, <2>6, PlaceIn, PlaceIs
  <2>8. Free(RowAt(e, f))
    <3>1. P = f => RowAt(e, f) = Gone
      BY <1>8, <2>7
    <3>2. P # f => RowAt(d, f) = Zero /\ RowAt(e, f) = RowAt(d, f)
      BY <1>2, <1>8, <2>5, <2>7 DEF IfUsed
    <3> QED
      BY <3>1, <3>2 DEF Free
  <2>9. f # pl
    <3>1. RowAt(e, pl) # Zero
      BY <1>9 DEF Zero
    <3> QED
      BY <2>2, <2>8, <3>1 DEF Free
  <2>10. Before(k, i, l, j)
    <3>1. ~ (k = l /\ i = j)
      BY <2>9
    <3> QED
      BY <1>1, <2>6, <3>1 DEF Before
  <2> QED
    BY <2>6, <2>8, <2>10
<1>10. Hidden(e, r, n)
  BY <1>9 DEF Hidden
<1> QED
  BY <1>6, <1>8, <1>10

\* The entry that was added is the one that is found.
LEMMA AddedFound ==
  ASSUME NEW d, NEW r \in Seq(2..LastCluster), NEW e, NEW r2 \in Seq(2..LastCluster),
         NEW entry \in EntryRows, NEW k, NEW i, Added(d, r, e, r2, entry, k, i),
         Hidden(d, r, entry.name)
  PROVE  FindIn(e, r2, entry.name) = <<r2[k], i>> /\ RowAt(e, <<r2[k], i>>) = entry
<1> DEFINE n == entry.name
           S == Hits(e, r2, n)
           P == <<r2[k], i>>
<1>1. /\ Len(r) \in Nat /\ Len(r2) \in Nat /\ Len(r) <= Len(r2) /\ Rows \in Nat
      /\ \A l \in 1..Len(r) : r2[l] = r[l]
      /\ k \in 1..Len(r2) /\ i \in 1..Rows /\ RowAt(e, P) = entry
  BY EntriesAre DEF Added, Begun
<1>2. entry.kind = "entry" /\ entry # Zero
  BY DEF EntryRows, AnyEntry, Zero
<1>3. P \in S
  <2>1. P \in PlacesOf(r2)
    BY <1>1, PlaceIn
  <2> QED
    BY <1>1, <1>2, <2>1 DEF Hits, Hit
<1>4. ASSUME NEW l \in 1..Len(r2), NEW j \in 1..Rows, <<r2[l], j>> \in S
      PROVE  k < l \/ (k = l /\ i <= j)
  <2> DEFINE x == <<r2[l], j>>
  <2> SUFFICES ASSUME Before(l, j, k, i) PROVE FALSE
    BY <1>1 DEF Before
  <2>1. l <= Len(r) /\ ~ Free(RowAt(d, x)) /\ RowAt(e, x) = RowAt(d, x)
    <3>1. ~ (l = k /\ j = i)
      BY <1>1 DEF Before
    <3> QED
      BY <3>1 DEF Added
  <2>2. Hit(RowAt(e, x), n)
    BY <1>4 DEF Hits
  <2>3. RowAt(d, x).kind = "entry" /\ RowAt(d, x).name = n
    BY <2>1, <2>2 DEF Hit, Free
  <2>4. l \in 1..Len(r) /\ r2[l] = r[l]
    BY <1>1, <2>1
  <2>5. PICK a \in 1..Len(r), b \in 1..Rows : Before(a, b, l, j) /\ Free(RowAt(d, <<r[a], b>>))
    BY <2>3, <2>4 DEF Hidden
  <2>6. Before(a, b, k, i)
    BY <1>1, <2>4, <2>5 DEF Before
  <2>7. a \in 1..Len(r2) /\ r2[a] = r[a]
    BY <1>1, <2>5
  <2>8. ~ Free(RowAt(d, <<r2[a], b>>))
    BY <2>5, <2>6, <2>7 DEF Added
  <2> QED
    BY <2>5, <2>7, <2>8
<1>5. IsFirst(r2, S, k, i)
  BY <1>1, <1>3, <1>4 DEF IsFirst
<1> HIDE DEF S
<1>6. FirstOf(r2, S) = P
  BY <1>5, FirstOfAt
<1>7. FindIn(e, r2, n) = IfUsed(e, P)
  BY <1>6, FindInHits DEF S
<1> QED
  BY <1>1, <1>2, <1>7, PlaceIs DEF IfUsed


-----------------------------------------------------------------------------
(***************************************************************************)
(* What fat32_write leaves when it returns success.                        *)
(***************************************************************************)
\* A call that gives its clusters back fails.
LEMMA GivesUp ==
  ASSUME NEW d, Good(d), NEW ch, ch # <<>> => Links(d.fat) /\ IsHead(d.fat, ch[1])
  PROVE  FreeAndFail(d, ch).ok = FALSE
<1>1. CASE ch = <<>>
  BY <1>1, FailsIs DEF FreeAndFail
<1>2. CASE ch # <<>>
  <2>1. Good(FatFreeChain(d, ch[1]))
    BY <1>2, FreeChainIs
  <2> QED
    BY <1>2, <2>1, FailsIs DEF FreeAndFail
<1> QED
  BY <1>1, <1>2

\* The disk once the old file is gone, the clusters taken, and the disk once
\* they are filled.
Emptied(d, p) == DeleteEntry(FatFreeChain(d, ResolvePath(d, p)), Parent(d, p), Last(p))
Taken(d, p, s) == AllocChain(Emptied(d, p), Need(s))
Copy(d, p, s) == Fill(Taken(d, p, s).d, Taken(d, p, s).ch, s)
NewEntry(d, p, s) == TextEntry(Last(p), s, Taken(d, p, s).ch[1])

\* fat32_write succeeds only when the entry is made.
Entered(d, p, s, g) ==
  /\ Parent(d, p) # 0 /\ ~ Taken(d, p, s).full /\ Copy(d, p, s).ok
  /\ Filled(Emptied(d, p), Parent(d, p), Last(p), s, Taken(d, p, s), Copy(d, p, s))
  /\ g = DirAddEntry(Copy(d, p, s), Parent(d, p), NewEntry(d, p, s)) /\ g.ok
  /\ Good(g) /\ Healthy(g) /\ HeadsStay(Copy(d, p, s), g, Parent(d, p))

\* Every other end of fat32_write is a failure.
LEMMA WriteEnters ==
  ASSUME NEW d, Good(d), Healthy(d), NEW p \in Seq(ShortNames), p # <<>>,
         NEW s \in Seq(PlainRows), s # <<>>, NEW g, g = WriteFile(d, p, s), g.ok
  PROVE  Entered(d, p, s, g)
<1> DEFINE e   == Emptied(d, p)
           dir == Parent(d, p)
           n   == Last(p)
           a   == Taken(d, p, s)
           f   == Copy(d, p, s)
           x   == DirAddEntry(f, dir, NewEntry(d, p, s))
<1>1. Good(e) /\ Healthy(e) /\ HeadOrNone(e.fat, dir)
  BY FileGone DEF Emptied
<1>2. n \in ShortNames /\ n \in {Short[y] : y \in DOMAIN Short}
  BY FrontIs DEF ShortNames
<1>3. dir # 0
  BY FailsIs DEF WriteFile, WriteIn
<1>4. g = WriteText(a, dir, n, s)
  BY <1>3 DEF WriteFile, WriteIn, Taken, Emptied, Need
<1>5. g = IF a.full THEN FreeAndFail(a.d, a.ch)
          ELSE IF ~ f.ok THEN FreeAndFail(f, a.ch)
          ELSE IF ~ x.ok THEN FreeAndFail(x, a.ch) ELSE x
  BY <1>4, WriteTextEnds DEF Copy, NewEntry
<1>6. Need(s) \in Nat /\ a = AllocChain(e, Need(s)) /\ Links(e.fat)
  BY <1>1, NeedIs, HealthyIs DEF Taken, Fits
<1>7. Growing(e, a)
  BY <1>1, <1>6, AllocIs
<1>8. ~ a.full
  <2>1. a.ch # <<>> => Links(a.d.fat) /\ IsHead(a.d.fat, a.ch[1])
    BY <1>7 DEF Growing
  <2>2. FreeAndFail(a.d, a.ch).ok = FALSE
    BY <1>7, <2>1, GivesUp, ZenonT(60) DEF Growing
  <2> QED
    BY <1>5, <2>2
<1>9. Filled(e, dir, n, s, a, f)
  BY <1>1, <1>2, <1>8, FilledIs DEF Taken, Copy, Need
<1>10. f.ok
  <2>1. Good(f) /\ Links(f.fat) /\ IsHead(f.fat, a.ch[1])
    BY <1>9 DEF Filled, Sound
  <2>2. FreeAndFail(f, a.ch).ok = FALSE
    BY <2>1, GivesUp
  <2> QED
    BY <1>5, <1>8, <2>2
<1>11. Good(x) /\ Healthy(x) /\ HeadsStay(f, x, dir) /\ IsHead(f.fat, a.ch[1])
  <2> DEFINE t == TextEntry(n, s, a.ch[1])
  <2>1. /\ Good(f) /\ Healthy(f) /\ HeadOrNone(f.fat, dir) /\ t \in EntryRows /\ NameHead(f.fat, t)
        /\ NamedNowhere(f, a.ch[1]) /\ a.ch[1] # dir /\ IsHead(f.fat, a.ch[1])
    BY <1>9, <1>10 DEF Filled
  <2>2. t.first = a.ch[1]
    BY DEF TextEntry
  <2>3. x = DirAddEntry(f, dir, t)
    BY DEF NewEntry
  <2> HIDE DEF t, x, f
  <2> QED
    BY <2>1, <2>2, <2>3, AddIs
<1>12. x.ok
  <2>1. Links(x.fat) /\ IsHead(x.fat, a.ch[1])
    BY <1>11, HealthyIs DEF HeadsStay
  <2>2. FreeAndFail(x, a.ch).ok = FALSE
    BY <1>11, <2>1, GivesUp
  <2> QED
    BY <1>5, <1>8, <1>10, <2>2
<1> HIDE DEF e, a, f, x, n, dir
<1>13. g = x
  BY <1>5, <1>8, <1>10, <1>12
<1> QED
  BY <1>3, <1>8, <1>9, <1>10, <1>11, <1>12, <1>13 DEF Entered, e, a, f, x, n, dir


\* Rows that are the same hide the same.
LEMMA HiddenSame ==
  ASSUME NEW d, NEW e, NEW r, NEW n, Hidden(d, r, n),
         \A k \in 1..Len(r), i \in 1..Rows : RowAt(e, <<r[k], i>>) = RowAt(d, <<r[k], i>>)
  PROVE  Hidden(e, r, n)
<1> SUFFICES ASSUME NEW l \in 1..Len(r), NEW j \in 1..Rows,
                    RowAt(e, <<r[l], j>>).kind = "entry", RowAt(e, <<r[l], j>>).name = n
             PROVE  \E k \in 1..Len(r), i \in 1..Rows : Before(k, i, l, j) /\ Free(RowAt(e, <<r[k], i>>))
  BY DEF Hidden
<1>1. RowAt(e, <<r[l], j>>) = RowAt(d, <<r[l], j>>)
  OBVIOUS
<1>2. \E k \in 1..Len(r), i \in 1..Rows : Before(k, i, l, j) /\ Free(RowAt(d, <<r[k], i>>))
  BY <1>1, ZenonT(60) DEF Hidden
<1>3. PICK k \in 1..Len(r), i \in 1..Rows : Before(k, i, l, j) /\ Free(RowAt(d, <<r[k], i>>))
  BY <1>2
<1>4. RowAt(e, <<r[k], i>>) = RowAt(d, <<r[k], i>>)
  OBVIOUS
<1>5. Before(k, i, l, j) /\ Free(RowAt(e, <<r[k], i>>))
  BY <1>3, <1>4
<1> QED
  BY <1>5

\* What the scan of the directory meets when the entry is made.
Ready(d, p, s, r) ==
  /\ IsHead(Copy(d, p, s).fat, Parent(d, p)) /\ Parent(d, p) \in Entries
  /\ r = Readable(Chain(Copy(d, p, s), Parent(d, p))) /\ r \in Seq(2..LastCluster)
  /\ Hidden(Copy(d, p, s), r, Last(p))

\* The old entry is not in the way: the directory was not touched since.
LEMMA IsReady ==
  ASSUME NEW d, Good(d), Healthy(d), NEW p \in Seq(ShortNames), p # <<>>,
         NEW s \in Seq(PlainRows), s # <<>>, NEW g, Entered(d, p, s, g)
  PROVE  \E r : Ready(d, p, s, r)
<1> DEFINE e   == Emptied(d, p)
           dir == Parent(d, p)
           n   == Last(p)
           a   == Taken(d, p, s)
           f   == Copy(d, p, s)
           x   == FatFreeChain(d, ResolvePath(d, p))
           r   == Readable(Chain(e, dir))
<1>1. Good(e) /\ Healthy(e) /\ HeadOrNone(e.fat, dir)
  BY FileGone DEF Emptied
<1>2. dir \in Entries \cup {0} /\ HeadOrNone(d.fat, dir) /\ HeadOrNone(d.fat, ResolvePath(d, p))
  BY ParentIs
<1>3. dir \in Entries /\ IsHead(d.fat, dir) /\ IsHead(e.fat, dir)
  BY <1>1, <1>2 DEF Entered, HeadOrNone
<1>4. Good(x) /\ Links(x.fat) /\ HeadOrNone(x.fat, dir)
  <2>1. CASE ResolvePath(d, p) \notin Entries
    BY <1>2, <2>1, FreeNone, HealthyIs
  <2>2. CASE ResolvePath(d, p) \in Entries
    <3>1. IsHead(d.fat, ResolvePath(d, p)) /\ Links(d.fat)
      BY <1>2, <2>2, HealthyIs DEF HeadOrNone
    <3>2. ResolvePath(d, p) # 0
      BY <2>2, EntriesAre
    <3>3. ResolvePath(d, p) # dir
      BY <3>2, ParentApart
    <3>4. ResolvePath(d, p) # Root
      BY <1>2, <3>2, ParentIs, IntoIs
    <3>5. Good(x) /\ x.fat = Freed(d.fat, ClustersOf(d.fat, ResolvePath(d, p)))
      BY <3>1, FreeChainIs
    <3>6. Links(x.fat) /\ IsHead(x.fat, dir)
      BY <1>3, <3>1, <3>3, <3>4, <3>5, FreedLinks
    <3> QED
      BY <3>5, <3>6 DEF HeadOrNone
  <2> QED
    BY <2>1, <2>2
<1>5. e = DeleteEntry(x, dir, n)
  BY DEF Emptied
<1>6. Readable(Chain(e, dir)) = Readable(Chain(x, dir)) /\ Hidden(e, Readable(Chain(x, dir)), n)
  <2> HIDE DEF e, x, dir, n
  <2> QED
    BY <1>4, <1>5, DeletedHidden
<1>7. Hidden(e, r, n)
  BY <1>6
<1>8. /\ Growing(e, a) /\ f.fat = a.d.fat /\ OnlyIn(a.ch, f, e) /\ Good(f) /\ Healthy(f)
      /\ a.ch \in Seq(Entries)
  BY DEF Entered, Filled
<1>9. IsHead(f.fat, dir) /\ ChainIn(f.fat, dir) = ChainIn(e.fat, dir)
  BY <1>3, <1>8 DEF Growing
<1> HIDE DEF e, f, a, x, dir, n
<1>10. IsDisk(e) /\ Links(e.fat) /\ IsDisk(f) /\ Links(f.fat)
  BY <1>1, <1>8, HealthyIs
<1>11. /\ Chain(e, dir) = ChainIn(e.fat, dir) /\ r \in Seq(2..LastCluster)
       /\ \A pl \in PlacesOf(r) : pl \in Places /\ pl[1] \in ClustersOf(e.fat, dir)
  BY <1>3, <1>10, ReadableChain
<1>12. Readable(Chain(f, dir)) = r
  BY <1>9, <1>10, <1>11, ReadableChain
<1>13. \A pl \in PlacesOf(r) : RowAt(f, pl) = RowAt(e, pl)
  <2> TAKE pl \in PlacesOf(r)
  <2>1. pl \in Places /\ pl[1] \in ClustersOf(e.fat, dir)
    BY <1>11
  <2>2. e.fat[pl[1]] # 0
    BY <1>3, <1>10, <2>1, ClustersAre
  <2>3. pl[1] \notin ToSet(a.ch)
    BY <1>8, <2>2 DEF Growing
  <2> QED
    BY <1>8, <2>1, <2>3 DEF OnlyIn, RowIn, RowAt
<1>14. Hidden(f, r, n)
  <2> HIDE DEF r
  <2>1. \A k \in 1..Len(r), i \in 1..Rows : RowAt(f, <<r[k], i>>) = RowAt(e, <<r[k], i>>)
    BY <1>11, <1>13, PlaceIn
  <2> QED
    BY ONLY <1>7, <2>1, HiddenSame
<1> QED
  BY <1>3, <1>9, <1>11, <1>12, <1>14 DEF Ready, f, dir, n

\* The new entry is found, in its directory, and the text is still what was
\* copied.
Placed(d, p, s, g) ==
  /\ FindEntry(g, Parent(d, p), Last(p)) # <<>>
  /\ RowAt(g, FindEntry(g, Parent(d, p), Last(p))) = NewEntry(d, p, s)

\* What dir_add_entry writes is what resolve_path will find.
LEMMA IsPlaced ==
  ASSUME NEW d, Good(d), Healthy(d), NEW p \in Seq(ShortNames), p # <<>>,
         NEW s \in Seq(PlainRows), s # <<>>, NEW g, Entered(d, p, s, g)
  PROVE  /\ Placed(d, p, s, g)
         /\ \A pl \in Used(Copy(d, p, s).fat) :
              pl[1] \notin ClustersOf(Copy(d, p, s).fat, Parent(d, p)) =>
                RowIn(g.data, pl) = RowIn(Copy(d, p, s).data, pl)
<1> DEFINE dir == Parent(d, p)
           n   == Last(p)
           f   == Copy(d, p, s)
           t   == NewEntry(d, p, s)
<1>1. PICK r : Ready(d, p, s, r)
  BY IsReady
<1>2. /\ IsHead(f.fat, dir) /\ r = Readable(Chain(f, dir)) /\ r \in Seq(2..LastCluster)
      /\ Hidden(f, r, n)
  BY <1>1 DEF Ready
<1>3. /\ Good(f) /\ Healthy(f) /\ f.ok /\ t \in EntryRows /\ g = DirAddEntry(f, dir, t) /\ g.ok
      /\ Good(g) /\ Healthy(g) /\ HeadsStay(f, g, dir)
  BY DEF Entered, Filled, NewEntry
<1>4. t.name = n
  BY DEF NewEntry, TextEntry
<1> HIDE DEF dir, n, f, t
<1>5. HeadOrNone(f.fat, dir) /\ t \in RowSet
  BY <1>2, <1>3, RowKinds DEF HeadOrNone
<1>6. AddedIn(f, r, dir, g, t)
  BY ONLY <1>2, <1>3, <1>5, AddAdded
<1>7. PICK k, i : Added(f, r, g, Readable(Chain(g, dir)), t, k, i)
  BY <1>3, <1>6 DEF AddedIn
<1>8. Readable(Chain(g, dir)) \in Seq(2..LastCluster)
  BY ChainType
<1>9. FindEntry(g, dir, n) = <<Readable(Chain(g, dir))[k], i>> /\ RowAt(g, FindEntry(g, dir, n)) = t
  <2> DEFINE r2 == Readable(Chain(g, dir))
  <2>1. r2 \in Seq(2..LastCluster) /\ Added(f, r, g, r2, t, k, i) /\ FindEntry(g, dir, n) = FindIn(g, r2, n)
    BY <1>7, <1>8 DEF FindEntry
  <2> HIDE DEF r2
  <2>2. Hidden(f, r, t.name)
    BY <1>2, <1>4
  <2>3. FindIn(g, r2, t.name) = <<r2[k], i>> /\ RowAt(g, <<r2[k], i>>) = t
    BY ONLY <1>2, <1>3, <2>1, <2>2, AddedFound
  <2>4. FindEntry(g, dir, n) = <<r2[k], i>>
    BY <1>4, <2>1, <2>3
  <2> QED
    BY <2>3, <2>4 DEF r2
<1>10. FindEntry(g, dir, n) # <<>>
  BY <1>9, PlaceIs
<1>11. \A pl \in Used(f.fat) : pl[1] \notin ClustersOf(f.fat, dir) => RowIn(g.data, pl) = RowIn(f.data, pl)
  BY <1>3, <1>6 DEF AddedIn
<1> QED
  BY <1>9, <1>10, <1>11 DEF Placed, f, dir, n, t


\* Fewer rows in fewer clusters.
LEMMA TimesLess ==
  ASSUME NEW x \in Nat, NEW y \in Nat, Rows * x < Rows * y
  PROVE  x < y
<1> DEFINE u == Rows * x
           v == Rows * y
<1>1. u \in Nat /\ v \in Nat /\ u < v /\ (y <= x => v <= u)
  BY RowsTimes
<1> HIDE DEF u, v
<1> QED
  BY <1>1

\* The k-th row of a text is where fat32_read looks for it.
LEMMA PageRow ==
  ASSUME NEW T, NEW s \in Seq(T), NEW x \in 1..Len(s)
  PROVE  /\ ((x - 1) \div Rows) \in Nat /\ ((x - 1) % Rows) + 1 \in 1..Rows
         /\ Page(s, ((x - 1) \div Rows) + 1)[((x - 1) % Rows) + 1] = s[x]
<1> DEFINE q == (x - 1) \div Rows
           m == (x - 1) % Rows
<1>1. Rows \in Nat /\ Rows >= 2
  BY EntriesAre
<1>2. x - 1 \in Nat /\ x \in Nat /\ Len(s) \in Nat /\ x <= Len(s)
  OBVIOUS
<1>3. q \in Nat /\ m \in Nat /\ m < Rows /\ Rows * q \in Nat /\ x - 1 = Rows * q + m
  BY <1>2, Division
<1> HIDE DEF q, m
<1>4. m + 1 \in 1..Rows
  BY <1>1, <1>3
<1>5. ((q + 1) - 1) * Rows = Rows * q
  BY <1>1, <1>3
<1>6. ((q + 1) - 1) * Rows + (m + 1) = x
  BY <1>2, <1>3, <1>5
<1>7. Page(s, q + 1)[m + 1] = s[x]
  BY <1>2, <1>4, <1>6 DEF Page
<1> QED
  BY <1>3, <1>4, <1>7 DEF q, m

\* The way to the directory is still what it was.
LEMMA ParentStays ==
  ASSUME NEW d, Good(d), Healthy(d), d.log = <<>>, NEW p \in Seq(ShortNames), p # <<>>,
         Parent(d, p) # 0, NEW e, IsDisk(e), Spares(GuardOf(d, p), e.fat, e.data)
  PROVE  Parent(e, p) = Parent(d, p)
<1> DEFINE f == Front(p)
<1>1. /\ f \in Seq(ShortNames) /\ Len(f) = Len(p) - 1 /\ Len(p) \in Nat \ {0}
  BY FrontIs
<1>2. ~ Starts(p, f)
  BY <1>1 DEF Starts
<1> HIDE DEF f
<1>3. CASE f = <<>>
  <2>1. ResolvePath(e, f) = Root /\ ResolvePath(d, f) = Root
    BY <1>1, <1>3, ResolveStep, HealthyIs
  <2> QED
    BY <2>1 DEF Parent, f
<1>4. CASE f # <<>>
  <2>1. ResolvePath(d, f) # 0
    BY DEF Parent, f
  <2>2. ResolvePath(d, f) = Into(d, Parent(d, f), Last(f)) /\ HeadOrNone(d.fat, Parent(d, f))
    BY <1>1, <1>4, ParentIs
  <2>3. Found(d, f)
    BY <2>1, <2>2, IntoIs DEF Found, EntryOf
  <2>4. ResolvePath(e, f) = ResolvePath(d, f)
    BY <1>1, <1>2, <1>4, <2>3, PathKept DEF SameEntry
  <2> QED
    BY <2>4 DEF Parent, f
<1> QED
  BY <1>3, <1>4

\* The text s is in the clusters ch, page by page.
Paged(data, ch, s) == \A j \in 1..Len(ch) : \A i \in 1..Rows : data[ch[j]][i] = Page(s, j)[i]

\* What is in the clusters of a chain page by page is the text of the file.
LEMMA TextBack ==
  ASSUME NEW g, IsDisk(g), Links(g.fat), NEW h, IsHead(g.fat, h), NEW T, NEW s \in Seq(T),
         Len(s) <= Room(g.fat, h), Fits(s, Len(ChainIn(g.fat, h))), Paged(g.data, ChainIn(g.fat, h), s)
  PROVE  TextIn(g, Readable(Chain(g, h)), Len(s)) = s
<1> DEFINE ch == ChainIn(g.fat, h)
           w  == TextIn(g, Readable(Chain(g, h)), Len(s))
<1>1. ch \in Seq(Entries)
  BY HeadChain DEF IsChain, IsPath
<1>2. Len(s) \in Nat
  OBVIOUS
<1>3. Chain(g, h) = ch
  BY ReadableChain
<1> HIDE DEF ch
<1>4. /\ w \in Seq(RowSet) /\ Len(w) = Len(s)
      /\ \A k \in 1..Len(s) : w[k] = RowOf(g, h, k)
  <2>1. w = TextIn(g, Readable(ChainIn(g.fat, h)), Len(s))
    BY <1>3 DEF ch
  <2> HIDE DEF w
  <2> QED
    BY <1>2, <2>1, TextIs
<1> HIDE DEF w
<1>5. \A j \in 1..Len(ch) : \A i \in 1..Rows : g.data[ch[j]][i] = Page(s, j)[i]
  BY DEF Paged, ch
<1>6. \A k \in 1..Len(s) : RowOf(g, h, k) = s[k]
  <2> TAKE k \in 1..Len(s)
  <2> DEFINE q == (k - 1) \div Rows
             m == ((k - 1) % Rows) + 1
  <2>1. q \in Nat /\ m \in 1..Rows /\ Page(s, q + 1)[m] = s[k]
    BY PageRow
  <2>2. q + 1 \in 1..Len(ch)
    <3>1. k - 1 \in Nat /\ k - 1 < Len(s)
      BY <1>2
    <3>2. Rows * q <= k - 1
      <4>1. /\ (k - 1) \div Rows \in Nat /\ (k - 1) % Rows \in Nat /\ Rows * ((k - 1) \div Rows) \in Nat
            /\ k - 1 = Rows * ((k - 1) \div Rows) + ((k - 1) % Rows)
        BY <3>1, Division
      <4> DEFINE z == (k - 1) % Rows
      <4>2. z \in Nat /\ Rows * q \in Nat /\ k - 1 = Rows * q + z
        BY <4>1
      <4> HIDE DEF z, q
      <4> QED
        BY <3>1, <4>2
    <3> HIDE DEF q, m
    <3>3. Fits(s, Len(ch)) /\ Len(ch) \in Nat
      BY <1>1 DEF ch
    <3>4. Rows * q < Rows * Len(ch)
      <4>1. Len(s) <= Rows * Len(ch)
        BY <3>3 DEF Fits
      <4>2. Rows * q \in Nat /\ Rows * Len(ch) \in Nat
        BY <2>1, <3>3, RowsTimes
      <4> QED
        BY <1>2, <3>1, <3>2, <4>1, <4>2
    <3>5. q < Len(ch)
      <4> DEFINE y == Len(ch)
      <4>1. q \in Nat /\ y \in Nat /\ Rows * q < Rows * y
        BY <2>1, <3>3, <3>4
      <4> HIDE DEF y
      <4>2. q < y
        BY ONLY <4>1, TimesLess
      <4> QED
        BY <4>2 DEF y
    <3> QED
      BY <2>1, <3>3, <3>5
  <2>3. RowOf(g, h, k) = g.data[ch[q + 1]][m]
    BY DEF RowOf, ch
  <2> HIDE DEF q, m
  <2> QED
    BY <1>5, <2>1, <2>2, <2>3
<1>7. w = s
  BY <1>4, <1>6, <1>2, SeqEqual
<1> QED
  BY <1>7 DEF w

\* The text is in its clusters when the call returns.
LEMMA TextPlaced ==
  ASSUME NEW d, Good(d), Healthy(d), NEW p \in Seq(ShortNames), p # <<>>,
         NEW s \in Seq(PlainRows), s # <<>>, NEW g, Entered(d, p, s, g)
  PROVE  TextIn(g, Readable(Chain(g, NewEntry(d, p, s).first)), Len(s)) = s
<1> DEFINE dir == Parent(d, p)
           n   == Last(p)
           f   == Copy(d, p, s)
           t   == NewEntry(d, p, s)
           ch  == Taken(d, p, s).ch
           h   == ch[1]
<1>1. /\ Good(f) /\ Healthy(f) /\ f.ok /\ t \in EntryRows /\ NameHead(f.fat, t) /\ g.ok
      /\ Good(g) /\ Healthy(g) /\ HeadsStay(f, g, dir) /\ h # dir /\ IsHead(f.fat, h)
      /\ ChainIn(f.fat, h) = ch /\ ch \in Seq(Entries)
      /\ \A j \in 1..Len(ch) : OnDisk(ch[j]) /\ f.data[ch[j]] = Page(s, j)
  BY DEF Entered, Filled, NewEntry
<1>2. t.first = h /\ t.size = Len(s) /\ Len(s) \in Nat /\ Len(s) # 0
  BY DEF NewEntry, TextEntry
<1>3. /\ IsHead(f.fat, dir)
      /\ \A pl \in Used(f.fat) : pl[1] \notin ClustersOf(f.fat, dir) => RowIn(g.data, pl) = RowIn(f.data, pl)
  BY IsReady, IsPlaced DEF Ready
<1> HIDE DEF dir, n, f, t, ch, h
<1>4. IsDisk(g) /\ Links(g.fat) /\ Links(f.fat)
  BY <1>1, HealthyIs
<1>5. IsHead(g.fat, h) /\ ChainIn(g.fat, h) = ch
  BY <1>1 DEF HeadsStay
<1>6. Len(s) <= Room(g.fat, h)
  <2>1. Len(s) <= Room(f.fat, h)
    BY <1>1, <1>2 DEF NameHead
  <2> QED
    BY <1>1, <1>5, <2>1 DEF Room
<1>7. \A j \in 1..Len(ch) : \A i \in 1..Rows : g.data[ch[j]][i] = Page(s, j)[i]
  <2> TAKE j \in 1..Len(ch)
  <2> TAKE i \in 1..Rows
  <2> DEFINE pl == <<ch[j], i>>
  <2>1. ch[j] \in Entries /\ ch[j] \in ClustersOf(f.fat, h) /\ OnDisk(ch[j]) /\ f.data[ch[j]] = Page(s, j)
    BY <1>1, <1>4, InClusters
  <2>2. ch[j] \in 2..LastCluster /\ f.fat[ch[j]] # 0
    BY <1>1, <1>4, <2>1, ClustersAre, EntriesAre, ZenonT(60)
  <2>3. pl \in Used(f.fat) /\ pl[1] = ch[j] /\ pl[2] = i
    BY <2>2 DEF Used, Places
  <2>4. ch[j] \notin ClustersOf(f.fat, dir)
    BY <1>1, <1>3, <1>4, <2>1, ClustersApart
  <2>5. RowIn(g.data, pl) = RowIn(f.data, pl)
    BY <1>3, <2>3, <2>4
  <2> QED
    BY <2>1, <2>3, <2>5 DEF RowIn
<1>8. Paged(g.data, ch, s)
  BY <1>7 DEF Paged
<1>9. Fits(s, Len(ch))
  BY DEF Entered, Filled, ch
<1>10. TextIn(g, Readable(Chain(g, h)), Len(s)) = s
  BY <1>4, <1>5, <1>6, <1>8, <1>9, TextBack
<1> QED
  BY <1>2, <1>10 DEF t

\* A write that returns success is read back.
LEMMA WrittenIs ==
  ASSUME NEW d, Good(d), Healthy(d), d.log = <<>>, NEW p \in Seq(ShortNames), p # <<>>,
         NEW s \in Seq(PlainRows), s # <<>>, NEW g, g = WriteFile(d, p, s), g.ok
  PROVE  /\ Found(g, p) /\ Content(g, p) = [dir |-> FALSE, text |-> s]
         /\ EntryAt(g, p).size = Len(s) /\ ReadFile(g, p, Len(s), 0) = s
<1>1. Entered(d, p, s, g)
  BY WriteEnters
<1>2. Good(g) /\ Healthy(g) /\ Parent(d, p) # 0 /\ IsDisk(g)
  BY <1>1, HealthyIs DEF Entered
<1>3. Placed(d, p, s, g)
  BY <1>1, IsPlaced
<1>4. Spares(GuardOf(d, p), g.fat, g.data)
  BY GuardOfIs, GuardWrite DEF Guards
<1>5. Parent(g, p) = Parent(d, p)
  BY <1>2, <1>4, ParentStays
<1>6. Found(g, p) /\ EntryAt(g, p) = NewEntry(d, p, s)
  BY <1>3, <1>5 DEF Placed, Found, EntryOf, EntryAt
<1>7. TextIn(g, Readable(Chain(g, NewEntry(d, p, s).first)), Len(s)) = s
  BY <1>1, TextPlaced
<1>8. NewEntry(d, p, s).size = Len(s) /\ NewEntry(d, p, s).dir = FALSE
  BY DEF NewEntry, TextEntry
<1>9. WholeText(g, p) = s
  BY <1>6, <1>7, <1>8 DEF WholeText
<1>10. Content(g, p) = [dir |-> FALSE, text |-> s]
  BY <1>6, <1>8, <1>9 DEF Content
<1>11. ReadFile(g, p, Len(s), 0) = s
  <2>1. Len(s) \in Nat \ {0} /\ 0 \in Nat
    OBVIOUS
  <2>2. ReadFile(g, p, Len(s), 0) = SubSeq(WholeText(g, p), 0 + 1, Min({0 + Len(s), EntryAt(g, p).size}))
    BY <1>2, <1>6, <2>1, ReadFileIs
  <2>3. Min({0 + Len(s), EntryAt(g, p).size}) = Len(s)
    BY <1>6, <1>8, <2>1, MinTwo
  <2>4. ReadFile(g, p, Len(s), 0) = SubSeq(s, 0 + 1, Len(s))
    BY <1>9, <2>2, <2>3, Zenon
  <2>5. SubSeq(s, 0 + 1, Len(s)) = s
    OBVIOUS
  <2> QED
    BY <2>4, <2>5, Zenon
<1> QED
  BY <1>6, <1>8, <1>10, <1>11

\* WriteReadsBack follows from the invariant.
LEMMA WriteReadsBackIs == ASSUME FatInv PROVE WriteReadsBack
<1> SUFFICES ASSUME NEW p \in Known, NEW s \in Texts \ {<<>>}
             PROVE  Holds(WriteFile(Work, p, s), p, s)
  BY DEF WriteReadsBack
<1>1. Good(Work) /\ Healthy(Work) /\ Work.log = <<>>
  BY WorkIs DEF FatInv
<1>2. p \in Seq(ShortNames) /\ p # <<>>
  BY NamesAre DEF Known
<1>3. s \in Seq(PlainRows) /\ s # <<>>
  BY TextsAre
<1> DEFINE g == WriteFile(Work, p, s)
<1>4. g.ok => Found(g, p) /\ ReadFile(g, p, Len(s), 0) = s
  <2> SUFFICES ASSUME g.ok PROVE Found(g, p) /\ ReadFile(g, p, Len(s), 0) = s
    OBVIOUS
  <2> QED
    BY <1>1, <1>2, <1>3, WrittenIs
<1> QED
  BY <1>4 DEF Holds

\* WriteReadsBack (fat32_write, fat32_read) on a disk of any size, with any
\* number of entries of one name: what is written is read back.
THEOREM WrittenIsRead == Spec => []WriteReadsBack
BY FatInvHolds, WriteReadsBackIs, PTL
=============================================================================
