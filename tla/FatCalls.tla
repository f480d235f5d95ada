------------------------------ MODULE FatCalls ------------------------------
(***************************************************************************)
(* Lemmas about module Fat32, for every size of disk: what chains are and  *)
(* what each operation on the FAT and the clusters keeps, what the entries *)
(* of directories name and where a path leads, what write, create and      *)
(* delete make of a sound tree, what fat32_read returns, and what every    *)
(* write on the way leaves alone.                                          *)
(***************************************************************************)
EXTENDS Fat32, FiniteSetTheorems, SequenceTheorems, WellFoundedInduction, TLAPS

(***************************************************************************)
(* Induction on the naturals, for a set of them.                           *)
(***************************************************************************)
LEMMA NatInd ==
  ASSUME NEW T, 0 \in T, \A n \in Nat : n \in T => n + 1 \in T
  PROVE  \A n \in Nat : n \in T
<1> DEFINE U == Nat \ T
<1> SUFFICES ASSUME U # {} PROVE FALSE
  OBVIOUS
<1>1. PICK x \in U : \A y \in U : ~ (<<y, x>> \in OpToRel(<, Nat))
  <2>1. U \subseteq Nat
    OBVIOUS
  <2> HIDE DEF U
  <2> QED
    BY <2>1, NatLessThanWellFounded, WFMin
<1>2. \A y \in U : ~ (y < x)
  BY <1>1 DEF OpToRel
<1>3. x # 0 /\ x - 1 \in Nat /\ x - 1 < x
  OBVIOUS
<1>4. x - 1 \in T
  BY <1>2, <1>3
<1> QED
  BY <1>3, <1>4

(***************************************************************************)
(* The least element of a set of naturals.                                 *)
(***************************************************************************)
LEMMA MinIs ==
  ASSUME NEW T, T \subseteq Nat, T # {}
  PROVE  Min(T) \in T /\ \A y \in T : Min(T) <= y
<1>1. PICK x \in T : \A y \in T : ~ (<<y, x>> \in OpToRel(<, Nat))
  BY NatLessThanWellFounded, WFMin
<1>2. \A y \in T : ~ (y < x)
  BY <1>1 DEF OpToRel
<1>3. \A y \in T : x <= y
  BY <1>2
<1> QED
  BY <1>3 DEF Min

(***************************************************************************)
(* A loop of m turns over states of S, the turn number known: the states   *)
(* it goes through.                                                        *)
(***************************************************************************)
IsTurns(w, S, b, g, m) ==
  w \in [0..m -> S] /\ w[0] = b /\ \A n \in 1..m : w[n] = g[<<w[n - 1], n>>]

\* A loop that stays in S goes through states of S.
LEMMA Turns ==
  ASSUME NEW S, NEW b \in S, NEW g, NEW m \in Nat,
         \A x \in S : \A n \in 1..m : g[<<x, n>>] \in S
  PROVE  \E w : IsTurns(w, S, b, g, m)
<1> SUFFICES \E w \in [0..m -> S] : w[0] = b /\ \A n \in 1..m : w[n] = g[<<w[n - 1], n>>]
  BY DEF IsTurns
<1> DEFINE IsRun(w, k) == w[0] = b /\ \A n \in 1..k : w[n] = g[<<w[n - 1], n>>]
           T == {k \in Nat : k <= m => \E w \in [0..k -> S] : IsRun(w, k)}
<1>1. 0 \in T
  <2>1. [n \in 0..0 |-> b] \in [0..0 -> S]
    OBVIOUS
  <2>2. IsRun([n \in 0..0 |-> b], 0)
    OBVIOUS
  <2> QED
    BY <2>1, <2>2
<1>2. ASSUME NEW k \in Nat, k \in T
      PROVE  k + 1 \in T
  <2> SUFFICES ASSUME k + 1 <= m
               PROVE  \E w \in [0..(k + 1) -> S] : IsRun(w, k + 1)
    OBVIOUS
  <2>1. PICK v \in [0..k -> S] : IsRun(v, k)
    BY <1>2
  <2>2. v[k] \in S /\ k + 1 \in 1..m
    OBVIOUS
  <2>3. g[<<v[k], k + 1>>] \in S
    BY <2>2
  <2> DEFINE w == [n \in 0..(k + 1) |-> IF n = k + 1 THEN g[<<v[k], k + 1>>] ELSE v[n]]
  <2>4. w \in [0..(k + 1) -> S]
    <3> HIDE <2>1
    <3>1. ASSUME NEW n \in 0..(k + 1) PROVE w[n] \in S
      BY <2>3
    <3> QED
      BY <3>1
  <2>5. w[0] = b
    BY <2>1
  <2>6. ASSUME NEW n \in 1..(k + 1) PROVE w[n] = g[<<w[n - 1], n>>]
    <3>1. CASE n = k + 1
      <4>1. w[n] = g[<<v[k], k + 1>>] /\ w[n - 1] = v[k]
        BY <3>1
      <4> QED
        BY <4>1, <3>1
    <3>2. CASE n # k + 1
      <4>1. n \in 1..k
        BY <3>2
      <4>2. w[n] = v[n] /\ w[n - 1] = v[n - 1]
        BY <4>1
      <4>3. v[n] = g[<<v[n - 1], n>>]
        BY <2>1, <4>1
      <4> QED
        BY <4>2, <4>3
    <3> QED
      BY <3>1, <3>2
  <2> HIDE DEF w
  <2> QED
    BY <2>4, <2>5, <2>6
<1>3. \A k \in Nat : k \in T
  <2> HIDE DEF T
  <2> QED
    BY <1>1, <1>2, NatInd
<1>4. m \in T
  BY <1>3
<1> QED
  BY <1>4

FunctionOn(f, D) == f = [x \in D |-> f[x]]

Follows(f, S, b, g, m) ==
  /\ FunctionOn(f, 0..m) /\ f[0] = b
  /\ \A n \in 1..m : f[n - 1] \in S => f[n] = g[<<f[n - 1], n>>]

\* A recursive function with the same first state and turns is that loop.
LEMMA TurnsOnly ==
  ASSUME NEW S, NEW b \in S, NEW g, NEW m \in Nat, NEW w, IsTurns(w, S, b, g, m),
         NEW f, Follows(f, S, b, g, m)
  PROVE  f = w
<1>0. /\ FunctionOn(f, 0..m) /\ f[0] = b
      /\ \A n \in 1..m : f[n - 1] \in S => f[n] = g[<<f[n - 1], n>>]
  BY DEF Follows
<1>1. w \in [0..m -> S] /\ w[0] = b /\ \A n \in 1..m : w[n] = g[<<w[n - 1], n>>]
  BY DEF IsTurns
<1> DEFINE T == {n \in Nat : n <= m => f[n] = w[n]}
<1>2. 0 \in T
  BY <1>0, <1>1
<1>3. ASSUME NEW n \in Nat, n \in T PROVE n + 1 \in T
  <2> SUFFICES ASSUME n + 1 <= m PROVE f[n + 1] = w[n + 1]
    OBVIOUS
  <2>1. n + 1 \in 1..m /\ n + 1 - 1 = n /\ n \in 0..m /\ f[n] = w[n]
    BY <1>3
  <2>2. w[n] \in S
    BY <1>1, <2>1
  <2> DEFINE k == n + 1
  <2> HIDE DEF k
  <2>3. k \in 1..m /\ k - 1 = n
    BY <2>1 DEF k
  <2>4. f[k] = g[<<f[n], k>>] /\ w[k] = g[<<w[n], k>>]
    BY <1>0, <1>1, <2>2, <2>1, <2>3, Zenon
  <2>5. f[k] = w[k]
    BY <2>1, <2>4, Zenon
  <2> QED
    BY <2>5 DEF k
<1>4. \A n \in Nat : n \in T
  <2> HIDE DEF T
  <2> QED
    BY <1>2, <1>3, NatInd
<1>5. \A n \in 0..m : f[n] = w[n]
  BY <1>4
<1>6. w = [n \in 0..m |-> w[n]]
  BY <1>1
<1> QED
  BY <1>0, <1>5, <1>6, Zenon DEF FunctionOn

-----------------------------------------------------------------------------
(***************************************************************************)
(* A FAT in which no two entries lead to the same cluster, and none to the *)
(* root or to a cluster that is free.                                      *)
(***************************************************************************)
Fats == [Entries -> {0} \cup Entries \cup {Eoc}]

Links(fat) ==
  /\ fat \in Fats /\ fat[Root] # 0
  /\ \A a \in Entries : fat[a] \in Entries => fat[a] # Root /\ fat[fat[a]] # 0
  /\ \A a, b \in Entries : fat[a] \in Entries /\ fat[a] = fat[b] => a = b

\* A cluster that begins a chain: it is in use and nothing leads to it.
IsHead(fat, c) == c \in Entries /\ fat[c] # 0 /\ \A a \in Entries : fat[a] # c

\* The sequence s follows the FAT from c on; a chain goes on to the end.
IsPath(fat, c, s) ==
  /\ s \in Seq(Entries)
  /\ s # <<>> => s[1] = c
  /\ \A i \in 1..(Len(s) - 1) : fat[s[i]] = s[i + 1]

IsChain(fat, c, s) == IsPath(fat, c, s) /\ s # <<>> /\ fat[s[Len(s)]] = Eoc

ChainIn(fat, c) == CHOOSE s : IsChain(fat, c, s)

\* What is in fat_cache is what is on the disk.
Current(d) == DOMAIN d.cache \subseteq Entries /\ \A c \in DOMAIN d.cache : d.cache[c] = d.fat[c]

\* What FatAssumption says of the numbers of clusters.
LEMMA EntriesAre ==
  /\ FatEnd \in Nat /\ FatEnd >= 2 /\ LastCluster \in Nat /\ LastCluster >= 2
  /\ LastCluster <= FatEnd /\ Rows \in Nat /\ Rows >= 2
  /\ Entries \subseteq Nat /\ Root \in Entries /\ Eoc \in Nat
  /\ 0 \notin Entries /\ Eoc \notin Entries /\ Eoc # 0
  /\ \A c : InChain(c) <=> c \in Entries
  /\ \A c \in 2..LastCluster : c \in Entries /\ OnDisk(c)
  /\ \A c \in Entries : OnDisk(c) <=> c \in 2..LastCluster
BY FatAssumption DEF Entries, Root, Eoc, InChain, OnDisk

\* There are finitely many entries.
LEMMA EntriesFinite == IsFiniteSet(Entries) /\ Cardinality(Entries) = FatEnd - 1
<1>1. 2 \in Int /\ FatEnd \in Int /\ ~ (2 > FatEnd)
  BY EntriesAre
<1>2. IsFiniteSet(2..FatEnd) /\ Cardinality(2..FatEnd) = FatEnd - 2 + 1
  BY <1>1, FS_Interval
<1> QED
  BY <1>1, <1>2 DEF Entries

\* With a current fat_cache, fat_read returns what is on the disk.
LEMMA ReadIs == ASSUME NEW d, Current(d), NEW c PROVE FatRead(d, c) = d.fat[c]
BY DEF Current, FatRead

(***************************************************************************)
(* The clusters of a path that begins at a head are in use and differ from *)
(* one another.                                                            *)
(***************************************************************************)
LEMMA PathInUse ==
  ASSUME NEW fat, Links(fat), NEW c, IsHead(fat, c), NEW s, IsPath(fat, c, s)
  PROVE  \A i \in 1..Len(s) : s[i] \in Entries /\ fat[s[i]] # 0
<1>1. \A i \in 1..Len(s) : s[i] \in Entries
  BY DEF IsPath
<1>2. ASSUME NEW i \in 1..Len(s) PROVE fat[s[i]] # 0
  <2>1. CASE i = 1
    <3>1. s # <<>> /\ s[1] = c
      BY <2>1 DEF IsPath
    <3> QED
      BY <2>1, <3>1 DEF IsHead
  <2>2. CASE i # 1
    <3>1. i - 1 \in 1..(Len(s) - 1) /\ i - 1 + 1 = i
      BY <2>2 DEF IsPath
    <3>2. fat[s[i - 1]] = s[i]
      BY <3>1 DEF IsPath
    <3>3. s[i - 1] \in Entries /\ s[i] \in Entries
      BY <1>1, <3>1
    <3> QED
      BY <3>2, <3>3 DEF Links
  <2> QED
    BY <2>1, <2>2
<1> QED
  BY <1>1, <1>2

\* A chain meets no cluster twice.
LEMMA PathDistinct ==
  ASSUME NEW fat, Links(fat), NEW c, IsHead(fat, c), NEW s, IsPath(fat, c, s)
  PROVE  \A i, j \in 1..Len(s) : s[i] = s[j] => i = j
<1> DEFINE T == {n \in Nat : \A i, j \in 1..Len(s) : i = n /\ i <= j /\ s[i] = s[j] => i = j}
<1>0. Len(s) \in Nat /\ \A i \in 1..Len(s) : s[i] \in Entries
  BY DEF IsPath
<1>1. 0 \in T
  BY <1>0
<1>2. ASSUME NEW n \in Nat, n \in T PROVE n + 1 \in T
  <2> SUFFICES ASSUME NEW i \in 1..Len(s), NEW j \in 1..Len(s), i = n + 1, i <= j, s[i] = s[j], i # j
               PROVE  FALSE
    OBVIOUS
  <2>1. j - 1 \in 1..(Len(s) - 1) /\ j - 1 + 1 = j
    BY <1>0
  <2>2. fat[s[j - 1]] = s[j] /\ s[j - 1] \in Entries
    BY <1>0, <2>1 DEF IsPath
  <2>3. CASE i = 1
    <3>1. s[1] = c
      BY <1>0 DEF IsPath
    <3> QED
      BY <2>2, <2>3, <3>1 DEF IsHead
  <2>4. CASE i # 1
    <3>1. i - 1 \in 1..(Len(s) - 1) /\ i - 1 + 1 = i /\ i - 1 = n /\ i - 1 <= j - 1
      BY <1>0, <2>4
    <3>2. fat[s[i - 1]] = s[i] /\ s[i - 1] \in Entries /\ s[i] \in Entries
      BY <1>0, <3>1 DEF IsPath
    <3>3. s[i - 1] = s[j - 1]
      BY <2>2, <3>2 DEF Links
    <3>4. i - 1 \in 1..Len(s) /\ j - 1 \in 1..Len(s)
      BY <1>0, <2>1, <3>1
    <3> QED
      BY <1>2, <3>1, <3>3, <3>4
  <2> QED
    BY <2>3, <2>4
<1>3. \A n \in Nat : n \in T
  <2> HIDE DEF T
  <2> QED
    BY <1>1, <1>2, NatInd
<1>4. \A i, j \in 1..Len(s) : i <= j /\ s[i] = s[j] => i = j
  BY <1>3, <1>0
<1> QED
  BY <1>4, <1>0

(***************************************************************************)
(* Paths from different heads have no cluster in common.                   *)
(***************************************************************************)
LEMMA PathsApart ==
  ASSUME NEW fat, Links(fat), NEW c, IsHead(fat, c), NEW s, IsPath(fat, c, s),
         NEW e, IsHead(fat, e), NEW t, IsPath(fat, e, t), c # e
  PROVE  \A i \in 1..Len(s), j \in 1..Len(t) : s[i] # t[j]
<1> DEFINE T == {n \in Nat : \A i \in 1..Len(s), j \in 1..Len(t) : i = n => s[i] # t[j]}
<1>0. /\ Len(s) \in Nat /\ \A i \in 1..Len(s) : s[i] \in Entries
      /\ Len(t) \in Nat /\ \A i \in 1..Len(t) : t[i] \in Entries
      /\ s # <<>> => s[1] = c
      /\ t # <<>> => t[1] = e
  BY DEF IsPath
<1>1. 0 \in T
  BY <1>0
<1>2. ASSUME NEW n \in Nat, n \in T PROVE n + 1 \in T
  <2> SUFFICES ASSUME NEW i \in 1..Len(s), NEW j \in 1..Len(t), i = n + 1, s[i] = t[j]
               PROVE  FALSE
    OBVIOUS
  <2>1. i # 1 => /\ i - 1 \in 1..Len(s) /\ i - 1 = n
                 /\ fat[s[i - 1]] = s[i]
    <3> SUFFICES ASSUME i # 1 PROVE i - 1 \in 1..Len(s) /\ i - 1 = n /\ fat[s[i - 1]] = s[i]
      OBVIOUS
    <3>1. i - 1 \in 1..(Len(s) - 1) /\ i - 1 + 1 = i
      BY <1>0
    <3> QED
      BY <1>0, <3>1 DEF IsPath
  <2>2. j # 1 => /\ j - 1 \in 1..Len(t)
                 /\ fat[t[j - 1]] = t[j]
    <3> SUFFICES ASSUME j # 1 PROVE j - 1 \in 1..Len(t) /\ fat[t[j - 1]] = t[j]
      OBVIOUS
    <3>1. j - 1 \in 1..(Len(t) - 1) /\ j - 1 + 1 = j
      BY <1>0
    <3> QED
      BY <1>0, <3>1 DEF IsPath
  <2>3. CASE i = 1 /\ j = 1
    BY <1>0, <2>3
  <2>4. CASE i = 1 /\ j # 1
    <3>1. s[i] = c
      BY <1>0, <2>4
    <3> QED
      BY <1>0, <2>2, <2>4, <3>1 DEF IsHead
  <2>5. CASE i # 1 /\ j = 1
    <3>1. t[j] = e
      BY <1>0, <2>5
    <3> QED
      BY <1>0, <2>1, <2>5, <3>1 DEF IsHead
  <2>6. CASE i # 1 /\ j # 1
    <3>1. s[i - 1] \in Entries /\ t[j - 1] \in Entries /\ s[i] \in Entries
      BY <1>0, <2>1, <2>2, <2>6
    <3>2. s[i - 1] = t[j - 1]
      BY <2>1, <2>2, <2>6, <3>1 DEF Links
    <3> QED
      BY <1>2, <2>1, <2>2, <2>6, <3>2
  <2> QED
    BY <2>3, <2>4, <2>5, <2>6
<1>3. \A n \in Nat : n \in T
  <2> HIDE DEF T
  <2> QED
    BY <1>1, <1>2, NatInd
<1> QED
  BY <1>3, <1>0

(***************************************************************************)
(* A path from a head is shorter than the number of steps that Chain takes.*)
(***************************************************************************)
LEMMA PathLength ==
  ASSUME NEW fat, Links(fat), NEW c, IsHead(fat, c), NEW s, IsPath(fat, c, s)
  PROVE  Len(s) < FatEnd
<1>1. s \in [1..Len(s) -> Entries] /\ Len(s) \in Nat
  BY DEF IsPath
<1>2. \A i, j \in 1..Len(s) : s[i] = s[j] => i = j
  BY PathDistinct
<1>3. s \in Injection(1..Len(s), Entries)
  BY <1>1, <1>2 DEF Injection, IsInjective
<1>4. Cardinality(1..Len(s)) <= Cardinality(Entries)
  BY <1>3, EntriesFinite, FS_Injection
<1>5. Cardinality(1..Len(s)) = Len(s)
  <2>1. 1 \in Int /\ Len(s) \in Int /\ (1 > Len(s) => Len(s) = 0)
    BY <1>1
  <2>2. Cardinality(1..Len(s)) = IF 1 > Len(s) THEN 0 ELSE Len(s) - 1 + 1
    BY <2>1, FS_Interval
  <2> QED
    BY <2>1, <2>2
<1> QED
  BY <1>1, <1>4, <1>5, EntriesFinite, EntriesAre

(***************************************************************************)
(* Chain, turn by turn.                                                    *)
(***************************************************************************)
LEMMA OnwardType ==
  ASSUME NEW d, NEW c, NEW s \in Seq(Entries)
  PROVE  Onward(d, c, s) \in Seq(Entries)
BY EntriesAre DEF Onward

\* The states of the loop of Chain.
Meets(d, c, met) ==
  /\ met \in [0..FatEnd -> Seq(Entries)]
  /\ Chain(d, c) = met[FatEnd] /\ met[0] = <<>>
  /\ \A n \in 1..FatEnd : met[n] = Onward(d, c, met[n - 1])

\* There are such states.
LEMMA ChainSteps ==
  ASSUME NEW d, NEW c
  PROVE  \E met : Meets(d, c, met)
<1> DEFINE S == Seq(Entries)
           g == [x \in S \X (1..FatEnd) |-> Onward(d, c, x[1])]
           IsRun(met) == met = [n \in 0..FatEnd |-> IF n = 0 THEN <<>> ELSE Onward(d, c, met[n - 1])]
<1>1. \A x \in S : \A n \in 1..FatEnd : g[<<x, n>>] = Onward(d, c, x) /\ g[<<x, n>>] \in S
  BY OnwardType
<1>2. <<>> \in S /\ FatEnd \in Nat
  BY EntriesAre
<1> HIDE DEF S, g
<1>3. PICK w : IsTurns(w, S, <<>>, g, FatEnd)
  BY <1>1, <1>2, Turns
<1>4. w \in [0..FatEnd -> S] /\ w[0] = <<>> /\ \A n \in 1..FatEnd : w[n] = g[<<w[n - 1], n>>]
  BY <1>3 DEF IsTurns
<1>5. \A n \in 1..FatEnd : w[n] = Onward(d, c, w[n - 1])
  <2> TAKE n \in 1..FatEnd
  <2>1. n - 1 \in 0..FatEnd
    BY <1>2
  <2> QED
    BY <1>1, <1>4, <2>1
<1>6. w = [n \in 0..FatEnd |-> IF n = 0 THEN <<>> ELSE Onward(d, c, w[n - 1])]
  <2>1. \A n \in 0..FatEnd : w[n] = IF n = 0 THEN <<>> ELSE Onward(d, c, w[n - 1])
    BY <1>2, <1>4, <1>5
  <2>2. w = [n \in 0..FatEnd |-> w[n]]
    BY <1>4
  <2> QED
    BY <2>1, <2>2, Zenon
<1>7. \E met : IsRun(met)
  BY <1>6
<1> DEFINE met == CHOOSE m : IsRun(m)
<1>8. IsRun(met) /\ Chain(d, c) = met[FatEnd]
  BY <1>7, Zenon DEF Chain
<1> HIDE DEF met
<1>9. \A n \in 0..FatEnd : met[n] = IF n = 0 THEN <<>> ELSE Onward(d, c, met[n - 1])
  BY <1>8, Zenon
<1>10. met[0] = <<>> /\ \A n \in 1..FatEnd : met[n] = Onward(d, c, met[n - 1])
  <2>1. 0 \in 0..FatEnd /\ \A n \in 1..FatEnd : n \in 0..FatEnd /\ n # 0
    BY <1>2
  <2> QED
    BY <1>9, <2>1
<1>11. met = w
  <2>1. FunctionOn(met, 0..FatEnd)
    BY <1>8, Zenon DEF FunctionOn
  <2>2. \A n \in 1..FatEnd : met[n - 1] \in S => met[n] = g[<<met[n - 1], n>>]
    BY <1>1, <1>10
  <2>3. Follows(met, S, <<>>, g, FatEnd)
    BY <1>10, <2>1, <2>2, Zenon DEF Follows
  <2> QED
    BY <1>2, <1>3, <2>3, TurnsOnly
<1> QED
  BY <1>4, <1>8, <1>10, <1>11 DEF S, Meets

(***************************************************************************)
(* Chain of a head is its chain, and of what is no cluster it is empty.    *)
(***************************************************************************)
LEMMA OnwardKeeps ==
  ASSUME NEW d, Current(d), Links(d.fat), NEW c \in Entries, NEW s, IsPath(d.fat, c, s)
  PROVE  /\ IsPath(d.fat, c, Onward(d, c, s))
         /\ \/ Len(Onward(d, c, s)) = Len(s) + 1
            \/ Onward(d, c, s) = s /\ s # <<>> /\ d.fat[s[Len(s)]] \notin Entries
<1>1. s \in Seq(Entries)
  BY DEF IsPath
<1>2. CASE s = <<>>
  <2>1. Onward(d, c, s) = <<c>>
    BY <1>2, EntriesAre DEF Onward
  <2> QED
    BY <2>1, <1>2 DEF IsPath
<1>3. CASE s # <<>>
  <2> DEFINE next == d.fat[s[Len(s)]]
  <2>1. Onward(d, c, s) = IF next \in Entries THEN Append(s, next) ELSE s
    BY <1>3, ReadIs, EntriesAre DEF Onward, Last
  <2>2. CASE next \notin Entries
    BY <2>1, <2>2, <1>3
  <2>3. CASE next \in Entries
    <3>1. Onward(d, c, s) = Append(s, next)
      BY <2>1, <2>3
    <3> HIDE DEF next
    <3>2. /\ Append(s, next) \in Seq(Entries) /\ Len(Append(s, next)) = Len(s) + 1
          /\ Append(s, next)[Len(s) + 1] = next
          /\ \A i \in 1..Len(s) : Append(s, next)[i] = s[i]
      BY <1>1, <2>3
    <3>3. Len(s) \in Nat /\ Len(s) >= 1 /\ s[1] = c
      BY <1>1, <1>3 DEF IsPath
    <3>4. ASSUME NEW i \in 1..Len(s)
          PROVE  d.fat[Append(s, next)[i]] = Append(s, next)[i + 1]
      <4>1. CASE i = Len(s)
        BY <3>2, <4>1 DEF next
      <4>2. CASE i # Len(s)
        <5>1. i \in 1..(Len(s) - 1) /\ i + 1 \in 1..Len(s)
          BY <3>3, <4>2
        <5> QED
          BY <5>1, <3>2 DEF IsPath
      <4> QED
        BY <4>1, <4>2
    <3>5. IsPath(d.fat, c, Append(s, next))
      BY <3>2, <3>3, <3>4 DEF IsPath
    <3> QED
      BY <3>1, <3>2, <3>5
  <2> QED
    BY <2>2, <2>3
<1> QED
  BY <1>2, <1>3

\* A walk from a head comes to FAT_EOC.
LEMMA ChainIs ==
  ASSUME NEW d, Current(d), Links(d.fat), NEW c, IsHead(d.fat, c)
  PROVE  IsChain(d.fat, c, Chain(d, c))
<1>0. PICK met : Meets(d, c, met)
  BY ChainSteps
<1>1. /\ met \in [0..FatEnd -> Seq(Entries)]
      /\ Chain(d, c) = met[FatEnd] /\ met[0] = <<>>
      /\ \A n \in 1..FatEnd : met[n] = Onward(d, c, met[n - 1])
  BY <1>0 DEF Meets
<1>2. c \in Entries
  BY DEF IsHead
<1> DEFINE Over(s) == s # <<>> /\ d.fat[s[Len(s)]] \notin Entries
           T == {n \in Nat : n <= FatEnd => IsPath(d.fat, c, met[n]) /\ (Len(met[n]) = n \/ Over(met[n]))}
<1>3. 0 \in T
  <2>1. IsPath(d.fat, c, <<>>)
    BY DEF IsPath
  <2> QED
    BY <1>1, <2>1
<1>4. ASSUME NEW n \in Nat, n \in T PROVE n + 1 \in T
  <2> SUFFICES ASSUME n + 1 <= FatEnd
               PROVE  IsPath(d.fat, c, met[n + 1]) /\ (Len(met[n + 1]) = n + 1 \/ Over(met[n + 1]))
    OBVIOUS
  <2>1. met[n + 1] = Onward(d, c, met[n]) /\ n <= FatEnd
    <3>1. n + 1 \in 1..FatEnd /\ n + 1 - 1 = n /\ n <= FatEnd
      BY EntriesAre
    <3> QED
      BY <1>1, <3>1
  <2>2. IsPath(d.fat, c, met[n]) /\ (Len(met[n]) = n \/ Over(met[n]))
    BY <1>4, <2>1
  <2> DEFINE s == met[n]
             t == Onward(d, c, s)
  <2> HIDE DEF s, t
  <2>3. IsPath(d.fat, c, t) /\ (Len(t) = Len(s) + 1 \/ (t = s /\ Over(s)))
    BY <2>2, <1>2, OnwardKeeps DEF s, t
  <2>4. CASE Over(s)
    <3>1. t = s
      BY <2>4, ReadIs, EntriesAre DEF t, Onward, Last
    <3> QED
      BY <2>1, <2>3, <2>4, <3>1 DEF s, t
  <2>5. CASE ~ Over(s)
    <3>1. Len(s) = n /\ Len(t) = Len(s) + 1
      BY <2>2, <2>3, <2>5 DEF s
    <3> QED
      BY <2>1, <2>3, <3>1 DEF s, t
  <2> QED
    BY <2>4, <2>5
<1>5. \A n \in Nat : n \in T
  <2> HIDE DEF T
  <2> QED
    BY <1>3, <1>4, NatInd
<1> DEFINE s == Chain(d, c)
<1>6. IsPath(d.fat, c, s) /\ (Len(s) = FatEnd \/ Over(s))
  <2>1. FatEnd \in T
    <3> HIDE DEF T
    <3> QED
      BY <1>5, EntriesAre
  <2>2. IsPath(d.fat, c, met[FatEnd]) /\ (Len(met[FatEnd]) = FatEnd \/ Over(met[FatEnd]))
    BY <2>1, EntriesAre
  <2> QED
    BY <1>1, <2>2
<1> HIDE DEF s
<1>7. Over(s)
  BY <1>6, PathLength, EntriesAre
<1>8. Len(s) \in 1..Len(s)
  BY <1>6, <1>7 DEF IsPath
<1>9. d.fat[s[Len(s)]] # 0 /\ s[Len(s)] \in Entries
  BY <1>6, <1>8, PathInUse
<1>10. d.fat[s[Len(s)]] = Eoc
  BY <1>7, <1>9 DEF Links, Fats
<1> QED
  BY <1>6, <1>7, <1>10 DEF s, IsChain

\* A walk from 0 or FAT_EOC meets no cluster.
LEMMA ChainEmpty ==
  ASSUME NEW d, NEW c, c \notin Entries
  PROVE  Chain(d, c) = <<>>
<1>0. PICK met : Meets(d, c, met)
  BY ChainSteps
<1>1. /\ met \in [0..FatEnd -> Seq(Entries)]
      /\ Chain(d, c) = met[FatEnd] /\ met[0] = <<>>
      /\ \A n \in 1..FatEnd : met[n] = Onward(d, c, met[n - 1])
  BY <1>0 DEF Meets
<1> DEFINE T == {n \in Nat : n <= FatEnd => met[n] = <<>>}
<1>2. 0 \in T
  BY <1>1
<1>3. ASSUME NEW n \in Nat, n \in T PROVE n + 1 \in T
  <2> SUFFICES ASSUME n + 1 <= FatEnd PROVE met[n + 1] = <<>>
    OBVIOUS
  <2>1. n + 1 \in 1..FatEnd /\ n + 1 - 1 = n /\ n <= FatEnd
    BY EntriesAre
  <2>2. met[n + 1] = Onward(d, c, <<>>)
    BY <1>1, <1>3, <2>1
  <2> QED
    BY <2>2, EntriesAre DEF Onward
<1>4. \A n \in Nat : n \in T
  <2> HIDE DEF T
  <2> QED
    BY <1>2, <1>3, NatInd
<1> QED
  BY <1>1, <1>4, EntriesAre

\* A head has one chain.
LEMMA ChainOnly ==
  ASSUME NEW fat, NEW c, NEW s, IsChain(fat, c, s), NEW t, IsChain(fat, c, t)
  PROVE  s = t
<1>0. /\ s \in Seq(Entries) /\ t \in Seq(Entries) /\ s[1] = c /\ t[1] = c
      /\ Len(s) \in Nat /\ Len(t) \in Nat /\ Len(s) >= 1 /\ Len(t) >= 1
      /\ fat[s[Len(s)]] = Eoc /\ fat[t[Len(t)]] = Eoc
      /\ \A i \in 1..(Len(s) - 1) : fat[s[i]] = s[i + 1]
      /\ \A i \in 1..(Len(t) - 1) : fat[t[i]] = t[i + 1]
  BY DEF IsChain, IsPath
<1> DEFINE T == {n \in Nat : n + 1 <= Len(s) /\ n + 1 <= Len(t) => s[n + 1] = t[n + 1]}
<1>1. 0 \in T
  BY <1>0
<1>2. ASSUME NEW n \in Nat, n \in T PROVE n + 1 \in T
  <2> SUFFICES ASSUME n + 1 + 1 <= Len(s), n + 1 + 1 <= Len(t) PROVE s[n + 1 + 1] = t[n + 1 + 1]
    OBVIOUS
  <2>1. n + 1 \in 1..(Len(s) - 1) /\ n + 1 \in 1..(Len(t) - 1) /\ s[n + 1] = t[n + 1]
    BY <1>0, <1>2
  <2> QED
    BY <2>1, <1>0
<1>3. \A n \in Nat : n \in T
  <2> HIDE DEF T
  <2> QED
    BY <1>1, <1>2, NatInd
<1>4. \A i \in 1..Len(s) : i <= Len(t) => s[i] = t[i]
  <2> TAKE i \in 1..Len(s)
  <2>1. i - 1 \in Nat /\ i - 1 + 1 = i /\ i <= Len(s)
    BY <1>0
  <2>2. i <= Len(s) /\ i <= Len(t) => s[i] = t[i]
    <3>1. i - 1 \in T
      BY <2>1, <1>3
    <3> QED
      BY <2>1, <3>1
  <2> QED
    BY <2>1, <2>2
<1>5. Len(s) = Len(t)
  <2>1. CASE Len(s) < Len(t)
    <3>1. Len(s) \in 1..(Len(t) - 1) /\ Len(s) + 1 \in 1..Len(t) /\ Len(s) \in 1..Len(s)
      BY <1>0, <2>1
    <3>2. t[Len(s)] = s[Len(s)] /\ fat[t[Len(s)]] = t[Len(s) + 1]
      BY <1>0, <1>4, <3>1
    <3>3. t[Len(s) + 1] = Eoc /\ t[Len(s) + 1] \in Entries
      BY <1>0, <3>1, <3>2
    <3> QED
      BY <3>3, EntriesAre
  <2>2. CASE Len(t) < Len(s)
    <3>1. Len(t) \in 1..(Len(s) - 1) /\ Len(t) + 1 \in 1..Len(s) /\ Len(t) \in 1..Len(s)
      BY <1>0, <2>2
    <3>2. t[Len(t)] = s[Len(t)] /\ fat[s[Len(t)]] = s[Len(t) + 1]
      BY <1>0, <1>4, <3>1, SMTT(30)
    <3>3. s[Len(t) + 1] = Eoc /\ s[Len(t) + 1] \in Entries
      BY <1>0, <3>1, <3>2
    <3> QED
      BY <3>3, EntriesAre
  <2> QED
    BY <1>0, <2>1, <2>2
<1> QED
  BY <1>0, <1>4, <1>5, SeqEqual

-----------------------------------------------------------------------------
(***************************************************************************)
(* The chain that a head begins, by the FAT alone, and its clusters.       *)
(***************************************************************************)
ClustersOf(fat, c) == ToSet(ChainIn(fat, c))

\* A head has a chain.
LEMMA HeadChain ==
  ASSUME NEW fat, Links(fat), NEW c, IsHead(fat, c)
  PROVE  IsChain(fat, c, ChainIn(fat, c))
<1> DEFINE d == [fat |-> fat, cache |-> [x \in {} |-> 0]]
<1>1. Current(d) /\ d.fat = fat
  BY DEF Current
<1> HIDE DEF d
<1>2. IsChain(fat, c, Chain(d, c))
  BY <1>1, ChainIs
<1> QED
  BY <1>2 DEF ChainIn

\* What the code walks is the chain.
LEMMA ChainRead ==
  ASSUME NEW d, Current(d), Links(d.fat), NEW c, IsHead(d.fat, c)
  PROVE  Chain(d, c) = ChainIn(d.fat, c)
BY ChainIs, HeadChain, ChainOnly

\* ChainIn is the chain.
LEMMA ChainInIs ==
  ASSUME NEW fat, NEW c, NEW s, IsChain(fat, c, s)
  PROVE  ChainIn(fat, c) = s
<1>1. IsChain(fat, c, ChainIn(fat, c))
  BY DEF ChainIn
<1> QED
  BY <1>1, ChainOnly

\* The clusters of a chain: its head, in use all of them, the last one marked.
LEMMA ClustersAre ==
  ASSUME NEW fat, Links(fat), NEW c, IsHead(fat, c)
  PROVE  /\ c \in ClustersOf(fat, c) /\ ClustersOf(fat, c) \subseteq Entries
         /\ \A x \in ClustersOf(fat, c) : fat[x] # 0
         /\ ChainIn(fat, c) \in Seq(Entries) /\ ChainIn(fat, c) # <<>>
         /\ Len(ChainIn(fat, c)) \in Nat \ {0}
         /\ Last(ChainIn(fat, c)) \in ClustersOf(fat, c) /\ fat[Last(ChainIn(fat, c))] = Eoc
         /\ ChainIn(fat, c)[1] = c
<1> DEFINE s == ChainIn(fat, c)
<1>1. IsChain(fat, c, s)
  BY HeadChain
<1> HIDE DEF s
<1>2. /\ s \in Seq(Entries) /\ s # <<>> /\ s[1] = c /\ fat[s[Len(s)]] = Eoc /\ IsPath(fat, c, s)
      /\ Len(s) \in Nat \ {0} /\ 1 \in 1..Len(s) /\ Len(s) \in 1..Len(s) /\ DOMAIN s = 1..Len(s)
  BY <1>1 DEF IsChain, IsPath
<1>3. \A i \in 1..Len(s) : s[i] \in Entries /\ fat[s[i]] # 0
  BY <1>2, PathInUse
<1>4. ClustersOf(fat, c) = {s[i] : i \in 1..Len(s)} /\ Last(s) = s[Len(s)]
  BY <1>2 DEF ClustersOf, ToSet, Last, s
<1>5. c \in ClustersOf(fat, c) /\ Last(s) \in ClustersOf(fat, c)
  BY <1>2, <1>4
<1>6. ClustersOf(fat, c) \subseteq Entries /\ \A x \in ClustersOf(fat, c) : fat[x] # 0
  BY <1>3, <1>4
<1> QED
  BY <1>2, <1>4, <1>5, <1>6 DEF s

\* The clusters of a chain, by their place in it.
LEMMA InClusters ==
  ASSUME NEW fat, Links(fat), NEW c, IsHead(fat, c), NEW x
  PROVE  x \in ClustersOf(fat, c) <=> \E i \in 1..Len(ChainIn(fat, c)) : x = ChainIn(fat, c)[i]
<1>1. ChainIn(fat, c) \in Seq(Entries)
  BY ClustersAre
<1>2. DOMAIN ChainIn(fat, c) = 1..Len(ChainIn(fat, c))
  BY <1>1
<1> QED
  BY <1>2 DEF ClustersOf, ToSet

\* The chains of two heads have no cluster in common.
LEMMA ClustersApart ==
  ASSUME NEW fat, Links(fat), NEW c, IsHead(fat, c), NEW e, IsHead(fat, e), c # e
  PROVE  ClustersOf(fat, c) \cap ClustersOf(fat, e) = {}
<1>1. IsPath(fat, c, ChainIn(fat, c)) /\ IsPath(fat, e, ChainIn(fat, e))
  BY HeadChain DEF IsChain
<1>2. \A i \in 1..Len(ChainIn(fat, c)), j \in 1..Len(ChainIn(fat, e)) :
        ChainIn(fat, c)[i] # ChainIn(fat, e)[j]
  BY <1>1, PathsApart
<1>3. \A x : x \in ClustersOf(fat, c) /\ x \in ClustersOf(fat, e) => FALSE
  BY <1>2, InClusters
<1> QED
  BY <1>3

(***************************************************************************)
(* What leads into a chain belongs to it, and what it leads to.            *)
(***************************************************************************)
LEMMA ClustersClosed ==
  ASSUME NEW fat, Links(fat), NEW c, IsHead(fat, c), NEW x \in Entries, fat[x] \in Entries
  PROVE  x \in ClustersOf(fat, c) <=> fat[x] \in ClustersOf(fat, c)
<1> DEFINE s == ChainIn(fat, c)
<1>1. IsChain(fat, c, s)
  BY HeadChain
<1>2. \A y : y \in ClustersOf(fat, c) <=> \E i \in 1..Len(s) : y = s[i]
  BY InClusters
<1> HIDE DEF s
<1>3. /\ s \in Seq(Entries) /\ s # <<>> /\ s[1] = c /\ fat[s[Len(s)]] = Eoc /\ Len(s) \in Nat \ {0}
      /\ \A i \in 1..(Len(s) - 1) : fat[s[i]] = s[i + 1]
      /\ \A i \in 1..Len(s) : s[i] \in Entries
  BY <1>1 DEF IsChain, IsPath
<1>4. ASSUME NEW i \in 1..Len(s), x = s[i] PROVE fat[x] \in ClustersOf(fat, c)
  <2>1. i # Len(s)
    BY <1>3, <1>4, EntriesAre
  <2>2. i \in 1..(Len(s) - 1) /\ i + 1 \in 1..Len(s)
    BY <1>3, <2>1
  <2> QED
    BY <1>2, <1>3, <1>4, <2>2
<1>5. ASSUME NEW i \in 1..Len(s), fat[x] = s[i] PROVE x \in ClustersOf(fat, c)
  <2>1. i # 1
    BY <1>3, <1>5 DEF IsHead
  <2>2. i - 1 \in 1..(Len(s) - 1) /\ i - 1 \in 1..Len(s) /\ i - 1 + 1 = i
    BY <1>3, <2>1
  <2>3. fat[s[i - 1]] = fat[x] /\ s[i - 1] \in Entries
    BY <1>3, <1>5, <2>2
  <2>4. s[i - 1] = x
    BY <2>3 DEF Links
  <2> QED
    BY <1>2, <2>2, <2>4
<1> QED
  BY <1>2, <1>4, <1>5

(***************************************************************************)
(* A chain stays what it is when the FAT changes elsewhere.                *)
(***************************************************************************)
LEMMA ChainSame ==
  ASSUME NEW fat, Links(fat), NEW c, IsHead(fat, c), NEW fat2,
         \A x \in ClustersOf(fat, c) : fat2[x] = fat[x]
  PROVE  ChainIn(fat2, c) = ChainIn(fat, c) /\ ClustersOf(fat2, c) = ClustersOf(fat, c)
<1> DEFINE s == ChainIn(fat, c)
<1>1. IsChain(fat, c, s) /\ \A i \in 1..Len(s) : fat2[s[i]] = fat[s[i]]
  BY HeadChain, InClusters
<1> HIDE DEF s
<1>2. Len(s) \in Nat \ {0} /\ 1..(Len(s) - 1) \subseteq 1..Len(s) /\ Len(s) \in 1..Len(s)
  BY <1>1 DEF IsChain, IsPath
<1>3. IsChain(fat2, c, s)
  BY <1>1, <1>2 DEF IsChain, IsPath
<1>4. ChainIn(fat2, c) = s
  BY <1>3, ChainInIs
<1> QED
  BY <1>4 DEF s, ClustersOf

-----------------------------------------------------------------------------
(***************************************************************************)
(* A chain is freed: the others stay what they are.                        *)
(***************************************************************************)
Freed(fat, S) == [x \in Entries |-> IF x \in S THEN 0 ELSE fat[x]]

\* When a chain is freed no new one begins.
LEMMA FreedHeads ==
  ASSUME NEW fat, Links(fat), NEW c, IsHead(fat, c)
  PROVE  \A h : IsHead(Freed(fat, ClustersOf(fat, c)), h) => h # c /\ IsHead(fat, h)
<1> DEFINE S == ClustersOf(fat, c)
           fat2 == Freed(fat, S)
<1>0. fat \in Fats /\ \A x \in Entries : fat2[x] = IF x \in S THEN 0 ELSE fat[x]
  BY DEF Freed, Links
<1>1. S \subseteq Entries /\ c \in S
  BY ClustersAre
<1>2. \A x \in Entries : fat[x] \in Entries => (x \in S <=> fat[x] \in S)
  BY ClustersClosed
<1> HIDE DEF S, fat2
<1>3. ASSUME NEW h, IsHead(fat2, h)
      PROVE  h # c /\ IsHead(fat, h)
  <2>1. h \in Entries /\ fat2[h] # 0 /\ \A a \in Entries : fat2[a] # h
    BY <1>3 DEF IsHead
  <2>2. h \notin S /\ fat[h] # 0
    BY <1>0, <2>1
  <2>3. \A a \in Entries : fat[a] # h
    BY <1>0, <1>2, <2>1, <2>2
  <2> QED
    BY <1>1, <2>1, <2>2, <2>3 DEF IsHead
<1> QED
  BY <1>3 DEF S, fat2

\* Freeing one chain leaves all others as they are.
LEMMA FreedLinks ==
  ASSUME NEW fat, Links(fat), NEW c, IsHead(fat, c), c # Root
  PROVE  LET fat2 == Freed(fat, ClustersOf(fat, c))
         IN  /\ Links(fat2)
             /\ \A h : IsHead(fat, h) /\ h # c =>
                  /\ IsHead(fat2, h) /\ ChainIn(fat2, h) = ChainIn(fat, h)
                  /\ ClustersOf(fat2, h) = ClustersOf(fat, h)
<1> DEFINE S == ClustersOf(fat, c)
           fat2 == Freed(fat, S)
<1>0. fat \in Fats /\ \A x \in Entries : fat2[x] = IF x \in S THEN 0 ELSE fat[x]
  BY DEF Freed, Links
<1>1. S \subseteq Entries /\ \A x \in S : fat[x] # 0
  BY ClustersAre
<1>2. \A x \in Entries : fat[x] \in Entries => (x \in S <=> fat[x] \in S)
  BY ClustersClosed
<1>3. IsHead(fat, Root)
  BY EntriesAre DEF Links, IsHead
<1>4. \A h : IsHead(fat, h) /\ h # c => S \cap ClustersOf(fat, h) = {}
  BY ClustersApart
<1>5. Root \notin S
  <2>1. Root \in ClustersOf(fat, Root)
    BY <1>3, ClustersAre
  <2> QED
    BY <1>3, <1>4, <2>1
<1>6. fat2 \in Fats
  BY <1>0 DEF Freed, Fats
<1> HIDE DEF S, fat2
<1>7. Links(fat2)
  <2>1. fat2[Root] # 0
    BY <1>0, <1>5, EntriesAre DEF Links
  <2>2. ASSUME NEW a \in Entries, fat2[a] \in Entries
        PROVE  fat2[a] # Root /\ fat2[fat2[a]] # 0 /\ fat2[a] = fat[a]
    <3>1. a \notin S /\ fat2[a] = fat[a]
      BY <1>0, <2>2, EntriesAre
    <3>2. fat[a] \notin S /\ fat[a] # Root /\ fat[fat[a]] # 0
      BY <1>2, <2>2, <3>1 DEF Links
    <3> QED
      BY <1>0, <2>2, <3>1, <3>2
  <2>3. \A a, b \in Entries : fat2[a] \in Entries /\ fat2[a] = fat2[b] => a = b
    BY <2>2 DEF Links
  <2> QED
    BY <1>6, <2>1, <2>2, <2>3 DEF Links
<1>8. ASSUME NEW h, IsHead(fat, h), h # c
      PROVE  /\ IsHead(fat2, h) /\ ChainIn(fat2, h) = ChainIn(fat, h)
             /\ ClustersOf(fat2, h) = ClustersOf(fat, h)
  <2>1. \A x \in ClustersOf(fat, h) : fat2[x] = fat[x]
    BY <1>0, <1>4, <1>8, ClustersAre
  <2>2. h \in ClustersOf(fat, h) /\ h \in Entries
    BY <1>8, ClustersAre
  <2>3. fat2[h] # 0
    BY <1>8, <2>1, <2>2 DEF IsHead
  <2>4. \A a \in Entries : fat2[a] # h
    BY <1>0, <1>8, <2>2, EntriesAre DEF IsHead
  <2> QED
    BY <1>8, <2>1, <2>2, <2>3, <2>4, ChainSame DEF IsHead
<1> QED
  BY <1>7, <1>8 DEF S, fat2

(***************************************************************************)
(* A free cluster is taken: it begins a chain of its own.                  *)
(***************************************************************************)
LEMMA TakenLinks ==
  ASSUME NEW fat, Links(fat), NEW c \in Entries, fat[c] = 0
  PROVE  LET fat2 == [fat EXCEPT ![c] = Eoc]
         IN  /\ Links(fat2) /\ IsHead(fat2, c) /\ ChainIn(fat2, c) = <<c>>
             /\ \A h : IsHead(fat, h) =>
                  /\ h # c /\ IsHead(fat2, h) /\ ChainIn(fat2, h) = ChainIn(fat, h)
                  /\ ClustersOf(fat2, h) = ClustersOf(fat, h)
<1> DEFINE fat2 == [fat EXCEPT ![c] = Eoc]
<1>0. fat \in Fats /\ \A x \in Entries : fat2[x] = IF x = c THEN Eoc ELSE fat[x]
  BY DEF Links, Fats
<1>1. fat2 \in Fats
  BY <1>0 DEF Fats
<1> HIDE DEF fat2
<1>2. \A a \in Entries : fat[a] # c
  BY EntriesAre DEF Links
<1>3. Links(fat2)
  <2>1. \A a \in Entries : fat2[a] \in Entries => a # c /\ fat2[a] = fat[a] /\ fat[a] # c
    BY <1>0, <1>2, EntriesAre
  <2>2. fat2[Root] # 0
    BY <1>0, EntriesAre DEF Links
  <2>3. \A a \in Entries : fat2[a] \in Entries => fat2[a] # Root /\ fat2[fat2[a]] # 0
    BY <1>0, <2>1 DEF Links
  <2>4. \A a, b \in Entries : fat2[a] \in Entries /\ fat2[a] = fat2[b] => a = b
    BY <2>1 DEF Links
  <2> QED
    BY <1>1, <2>2, <2>3, <2>4 DEF Links
<1>4. IsHead(fat2, c)
  BY <1>0, <1>2, EntriesAre DEF IsHead
<1>5. IsChain(fat2, c, <<c>>)
  BY <1>0 DEF IsChain, IsPath
<1>6. ASSUME NEW h, IsHead(fat, h)
      PROVE  /\ h # c /\ IsHead(fat2, h) /\ ChainIn(fat2, h) = ChainIn(fat, h)
             /\ ClustersOf(fat2, h) = ClustersOf(fat, h)
  <2>1. \A x \in ClustersOf(fat, h) : x # c /\ x \in Entries
    BY <1>6, ClustersAre
  <2>2. h # c
    BY <1>6 DEF IsHead
  <2>3. IsHead(fat2, h)
    BY <1>0, <1>6, <2>2, EntriesAre DEF IsHead
  <2> QED
    BY <1>0, <1>6, <2>1, <2>2, <2>3, ChainSame
<1> QED
  BY <1>3, <1>4, <1>5, <1>6, ChainInIs DEF fat2

(***************************************************************************)
(* A chain is joined to the end of another.                                *)
(***************************************************************************)
Joined(fat, c, n) == [fat EXCEPT ![Last(ChainIn(fat, c))] = n]

\* Linking a new cluster to the end of a chain lengthens this chain only.
LEMMA JoinedLinks ==
  ASSUME NEW fat, Links(fat), NEW c, IsHead(fat, c), NEW n, IsHead(fat, n), n # c, n # Root,
         fat[n] = Eoc
  PROVE  LET fat2 == Joined(fat, c, n)
         IN  /\ Links(fat2) /\ IsHead(fat2, c) /\ ChainIn(fat2, c) = Append(ChainIn(fat, c), n)
             /\ ClustersOf(fat2, c) = ClustersOf(fat, c) \cup {n}
             /\ \A h : IsHead(fat, h) /\ h # n /\ h # c =>
                  /\ IsHead(fat2, h) /\ ChainIn(fat2, h) = ChainIn(fat, h)
                  /\ ClustersOf(fat2, h) = ClustersOf(fat, h)
<1> DEFINE s == ChainIn(fat, c)
           z == Last(s)
           fat2 == [fat EXCEPT ![z] = n]
<1>1. /\ s \in Seq(Entries) /\ s # <<>> /\ Len(s) \in Nat \ {0} /\ s[1] = c
      /\ z \in ClustersOf(fat, c) /\ z \in Entries /\ fat[z] = Eoc /\ z = s[Len(s)]
      /\ IsChain(fat, c, s)
  BY ClustersAre, HeadChain DEF Last
<1>2. fat \in Fats /\ n \in Entries /\ \A x \in Entries : fat2[x] = IF x = z THEN n ELSE fat[x]
  BY <1>1 DEF Links, Fats, IsHead
<1>3. fat2 \in Fats
  BY <1>1, <1>2 DEF Fats
<1>4. n # z
  BY <1>1, ClustersApart, ClustersAre
<1>5. \A i \in 1..Len(s) : s[i] \in Entries /\ (s[i] = z => i = Len(s))
  BY <1>1, PathDistinct DEF IsChain, IsPath
<1>6. ClustersOf(fat, c) = {s[i] : i \in 1..Len(s)}
  BY <1>1 DEF ClustersOf, ToSet
<1> HIDE DEF s, z, fat2
<1>7. \A a \in Entries : fat[a] # n /\ fat[a] # c
  BY DEF IsHead
<1>8. Links(fat2)
  <2>1. fat2[Root] # 0
    BY <1>2, EntriesAre DEF Links
  <2>2. \A a \in Entries : fat2[a] \in Entries => fat2[a] # Root
    BY <1>2 DEF Links
  <2>3. ASSUME NEW a \in Entries, fat2[a] \in Entries PROVE fat2[fat2[a]] # 0
    <3>1. CASE a = z
      BY <1>2, <1>4, <3>1, EntriesAre
    <3>2. CASE a # z
      <4>1. fat2[a] = fat[a] /\ fat[fat[a]] # 0
        BY <1>2, <2>3, <3>2 DEF Links
      <4> QED
        BY <1>2, <2>3, <4>1, EntriesAre
    <3> QED
      BY <3>1, <3>2
  <2>4. ASSUME NEW a \in Entries, NEW b \in Entries, fat2[a] \in Entries, fat2[a] = fat2[b]
        PROVE  a = b
    BY <1>2, <1>7, <2>4 DEF Links
  <2> QED
    BY <1>3, <2>1, <2>2, <2>3, <2>4 DEF Links
<1>9. IsHead(fat2, c)
  BY <1>2, <1>7, EntriesAre DEF IsHead
<1>10. IsChain(fat2, c, Append(s, n))
  <2> DEFINE t == Append(s, n)
  <2>1. /\ t \in Seq(Entries) /\ Len(t) = Len(s) + 1 /\ t[Len(s) + 1] = n /\ t # <<>>
        /\ \A i \in 1..Len(s) : t[i] = s[i]
    BY <1>1, <1>2
  <2> HIDE DEF t
  <2>2. t[1] = c
    BY <1>1, <2>1
  <2>3. ASSUME NEW i \in 1..(Len(t) - 1) PROVE fat2[t[i]] = t[i + 1]
    <3>1. i \in 1..Len(s) /\ t[i] = s[i] /\ s[i] \in Entries
      BY <1>1, <1>5, <2>1
    <3>2. CASE i = Len(s)
      BY <1>1, <1>2, <2>1, <3>1, <3>2
    <3>3. CASE i # Len(s)
      <4>1. i \in 1..(Len(s) - 1) /\ i + 1 \in 1..Len(s) /\ s[i] # z
        BY <1>1, <1>5, <3>1, <3>3
      <4>2. fat[s[i]] = s[i + 1]
        BY <1>1, <4>1 DEF IsChain, IsPath
      <4> QED
        BY <1>2, <2>1, <3>1, <4>1, <4>2
    <3> QED
      BY <3>2, <3>3
  <2>4. fat2[t[Len(t)]] = Eoc
    BY <1>1, <1>2, <1>4, <2>1
  <2> QED
    BY <2>1, <2>2, <2>3, <2>4 DEF IsChain, IsPath, t
<1>11. ChainIn(fat2, c) = Append(s, n)
  BY <1>10, ChainInIs
<1>12. ClustersOf(fat2, c) = ClustersOf(fat, c) \cup {n}
  <2> DEFINE t == Append(s, n)
  <2>1. /\ Len(t) = Len(s) + 1 /\ t[Len(s) + 1] = n /\ DOMAIN t = 1..(Len(s) + 1)
        /\ \A i \in 1..Len(s) : t[i] = s[i]
    BY <1>1, <1>2
  <2> HIDE DEF t
  <2>2. ToSet(t) = {t[i] : i \in 1..(Len(s) + 1)}
    BY <2>1 DEF ToSet
  <2>3. \A x : x \in ToSet(t) <=> x \in {s[i] : i \in 1..Len(s)} \/ x = n
    <3>1. \A i \in 1..(Len(s) + 1) : i \in 1..Len(s) \/ i = Len(s) + 1
      BY <1>1
    <3>2. \A i \in 1..Len(s) : i \in 1..(Len(s) + 1)
      BY <1>1
    <3>3. Len(s) + 1 \in 1..(Len(s) + 1)
      BY <1>1
    <3> QED
      BY <2>1, <2>2, <3>1, <3>2, <3>3
  <2>4. ClustersOf(fat2, c) = ToSet(t)
    BY <1>11 DEF ClustersOf, t
  <2> QED
    BY <1>6, <2>3, <2>4
<1>13. ASSUME NEW h, IsHead(fat, h), h # n, h # c
       PROVE  /\ IsHead(fat2, h) /\ ChainIn(fat2, h) = ChainIn(fat, h)
              /\ ClustersOf(fat2, h) = ClustersOf(fat, h)
  <2>1. \A x \in ClustersOf(fat, h) : x # z /\ x \in Entries
    BY <1>1, <1>13, ClustersAre, ClustersApart
  <2>2. IsHead(fat2, h)
    BY <1>2, <1>13, EntriesAre DEF IsHead
  <2> QED
    BY <1>2, <1>13, <2>1, <2>2, ChainSame
<1>14. Joined(fat, c, n) = fat2
  BY DEF fat2, z, s, Joined
<1> HIDE DEF fat2
<1> QED
  BY <1>8, <1>9, <1>11, <1>12, <1>13, <1>14 DEF s

-----------------------------------------------------------------------------
(***************************************************************************)
(* The record that a call works on, and the writes to it.                  *)
(***************************************************************************)
Links0 == {0} \cup Entries \cup {Eoc}

\* An entry; that of a directory has size 0.
AnyEntry  == [kind : {"entry"}, name : {Short[n] : n \in DOMAIN Short}, dir : BOOLEAN,
              first : Entries \cup {0}, size : Nat]
EntryRows == {r \in AnyEntry : r.dir => r.size = 0}
TextRows  == {r \in UNION {ToSet(s) : s \in Texts} : r = Zero \/ r.kind = "text"}
PlainRows == {Zero, Gone, Dot} \cup TextRows
RowSet    == PlainRows \cup EntryRows
Clusters  == [1..Rows -> RowSet]
Datas     == [2..LastCluster -> Clusters]
Caches    == UNION {[S -> Links0] : S \in SUBSET Entries}

Works == [fat : Fats, data : Datas, cache : Caches, log : Seq(Fats \X Datas), ok : BOOLEAN]

Good(d) == d \in Works /\ Current(d)

\* The fields of the record a call works on.
LEMMA GoodFields ==
  ASSUME NEW d, Good(d)
  PROVE  /\ d \in Works /\ d.fat \in Fats /\ d.data \in Datas /\ d.cache \in Caches
         /\ d.log \in Seq(Fats \X Datas) /\ d.ok \in BOOLEAN /\ Current(d)
BY DEF Good, Works

\* A write keeps the record in its type.
LEMMA StoredIs ==
  ASSUME NEW d \in Works, NEW fat \in Fats, NEW data \in Datas
  PROVE  LET e == Stored(d, fat, data)
         IN  /\ e \in Works /\ e.fat = fat /\ e.data = data /\ e.ok = d.ok
             /\ e.cache = d.cache /\ e.log = Append(d.log, <<fat, data>>)
<1>1. <<fat, data>> \in Fats \X Datas
  OBVIOUS
<1>2. d.log \in Seq(Fats \X Datas)
  BY DEF Works
<1>3. Append(d.log, <<fat, data>>) \in Seq(Fats \X Datas)
  BY <1>1, <1>2, AppendProperties
<1> QED
  BY <1>3 DEF Stored, Works

\* fat_write changes one entry and keeps fat_cache current.
LEMMA FatWriteIs ==
  ASSUME NEW d, Good(d), NEW c \in Entries, NEW v \in Links0
  PROVE  LET e == FatWrite(d, c, v)
         IN  /\ Good(e) /\ e.fat = [d.fat EXCEPT ![c] = v] /\ e.data = d.data /\ e.ok = d.ok
             /\ e.log = Append(d.log, <<[d.fat EXCEPT ![c] = v], d.data>>)
<1> DEFINE fat == [d.fat EXCEPT ![c] = v]
           e == Stored(d, fat, d.data)
<1>1. d \in Works /\ Current(d) /\ d.fat \in Fats /\ d.data \in Datas
  BY GoodFields
<1>2. fat \in Fats /\ \A x \in Entries : fat[x] = IF x = c THEN v ELSE d.fat[x]
  BY <1>1 DEF Fats, Links0
<1> HIDE DEF fat
<1>3. /\ e \in Works /\ e.fat = fat /\ e.data = d.data /\ e.ok = d.ok
      /\ e.cache = d.cache /\ e.log = Append(d.log, <<fat, d.data>>)
  BY <1>1, <1>2, StoredIs
<1>4. FatWrite(d, c, v) = IF c \in DOMAIN d.cache THEN [e EXCEPT !.cache[c] = v] ELSE e
  BY DEF FatWrite, fat
<1> HIDE DEF e
<1>5. CASE c \notin DOMAIN d.cache
  <2>1. Current(e)
    BY <1>1, <1>2, <1>3, <1>5 DEF Current
  <2> QED
    BY <1>3, <1>4, <1>5, <2>1 DEF Good, fat
<1>6. CASE c \in DOMAIN d.cache
  <2> DEFINE f == [e EXCEPT !.cache[c] = v]
             cache == [d.cache EXCEPT ![c] = v]
  <2>0. d.cache \in Caches
    BY GoodFields
  <2>1. PICK S \in SUBSET Entries : d.cache \in [S -> Links0]
    <3> HIDE DEF cache, f
    <3> QED
      BY <2>0 DEF Caches
  <2>2. cache \in [S -> Links0] /\ \A x \in S : cache[x] = IF x = c THEN v ELSE d.cache[x]
    BY <2>1, <1>6
  <2>3. cache \in Caches
    BY <2>1, <2>2 DEF Caches
  <2>4. e.cache = d.cache
    BY <1>3
  <2>5. f = [e EXCEPT !.cache = cache]
    BY <1>3, <2>4 DEF Works
  <2> HIDE DEF cache, f
  <2>6. f \in Works /\ f.cache = cache /\ f.fat = e.fat /\ f.data = e.data /\ f.ok = e.ok /\ f.log = e.log
    BY <1>3, <2>3, <2>5 DEF Works
  <2>7. DOMAIN cache = S /\ DOMAIN d.cache = S
    BY <2>1, <2>2
  <2>8. Current(f)
    BY <1>1, <1>2, <1>3, <2>2, <2>6, <2>7 DEF Current
  <2> QED
    BY <1>3, <1>4, <1>6, <2>6, <2>8 DEF Good, fat, f
<1> QED
  BY <1>5, <1>6

\* A failure changes nothing on the disk.
LEMMA FailsIs ==
  ASSUME NEW d, Good(d)
  PROVE  /\ Good(Fails(d)) /\ Fails(d).fat = d.fat /\ Fails(d).data = d.data
         /\ Fails(d).ok = FALSE /\ Fails(d).log = d.log
BY GoodFields DEF Good, Fails, Works, Current

\* A cluster is written or the write fails.
LEMMA WriteClusterIs ==
  ASSUME NEW d, Good(d), NEW c \in Entries, NEW rows \in Clusters
  PROVE  LET e == WriteCluster(d, c, rows)
         IN  /\ Good(e) /\ e.fat = d.fat
             /\ OnDisk(c) => /\ e.data = [d.data EXCEPT ![c] = rows] /\ e.ok = d.ok
                             /\ e.log = Append(d.log, <<d.fat, [d.data EXCEPT ![c] = rows]>>)
             /\ ~ OnDisk(c) => e.data = d.data /\ e.ok = FALSE /\ e.log = d.log
<1>1. d \in Works /\ Current(d) /\ d.fat \in Fats /\ d.data \in Datas
  BY GoodFields
<1>2. CASE OnDisk(c)
  <2> DEFINE data == [d.data EXCEPT ![c] = rows]
             e == Stored(d, d.fat, data)
  <2>1. data \in Datas
    BY <1>1 DEF Datas
  <2> HIDE DEF data
  <2>2. /\ e \in Works /\ e.fat = d.fat /\ e.data = data /\ e.ok = d.ok
        /\ e.cache = d.cache /\ e.log = Append(d.log, <<d.fat, data>>)
    BY <1>1, <2>1, StoredIs
  <2>3. WriteCluster(d, c, rows) = e
    BY <1>2 DEF WriteCluster, data
  <2> HIDE DEF e
  <2>4. Current(e)
    BY <1>1, <2>2 DEF Current
  <2> QED
    BY <1>2, <2>2, <2>3, <2>4 DEF Good, data
<1>3. CASE ~ OnDisk(c)
  <2>1. WriteCluster(d, c, rows) = Fails(d)
    BY <1>3 DEF WriteCluster
  <2> QED
    BY <1>3, <2>1, FailsIs
<1> QED
  BY <1>2, <1>3

\* fat_find_free returns a free entry, or 0.
LEMMA FindFreeIs ==
  ASSUME NEW d, Good(d)
  PROVE  LET c == FatFindFree(d) IN c = 0 \/ (c \in Entries /\ d.fat[c] = 0)
<1> DEFINE free == {c \in Entries : FatRead(d, c) = 0}
<1>1. Current(d)
  BY GoodFields
<1>2. \A c \in free : c \in Entries /\ d.fat[c] = 0
  BY <1>1, ReadIs
<1>3. free \subseteq Nat
  BY EntriesAre
<1>4. FatFindFree(d) = IF free = {} THEN 0 ELSE Min(free)
  BY DEF FatFindFree
<1> HIDE DEF free
<1>5. free # {} => Min(free) \in free
  BY <1>3, MinIs
<1> QED
  BY <1>2, <1>4, <1>5

\* A blank cluster is a cluster of unused rows.
LEMMA BlankIs == Blank \in Clusters /\ \A i \in 1..Rows : Blank[i] = Zero
BY DEF Blank, Clusters, RowSet, PlainRows

Put(data, c, i, row) == [data EXCEPT ![c] = [@ EXCEPT ![i] = row]]

\* One row is written or the write fails.
LEMMA SetRowIs ==
  ASSUME NEW d, Good(d), NEW c \in 2..LastCluster, NEW i \in 1..Rows, NEW row \in RowSet
  PROVE  LET e == SetRow(d, <<c, i>>, row)
         IN  /\ Good(e) /\ e.fat = d.fat /\ e.ok = d.ok
             /\ e.data = Put(d.data, c, i, row)
             /\ e.log = Append(d.log, <<d.fat, e.data>>)
<1> DEFINE rows == [d.data[c] EXCEPT ![i] = row]
<1>1. d.data \in Datas
  BY GoodFields
<1>2. rows \in Clusters
  BY <1>1 DEF Datas, Clusters
<1>3. c \in Entries /\ OnDisk(c)
  BY EntriesAre
<1>4. SetRow(d, <<c, i>>, row) = WriteCluster(d, c, rows)
  BY <1>3 DEF SetRow
<1> HIDE DEF rows
<1> DEFINE e == WriteCluster(d, c, rows)
<1>5. /\ Good(e) /\ e.fat = d.fat
      /\ OnDisk(c) => /\ e.data = [d.data EXCEPT ![c] = rows] /\ e.ok = d.ok
                      /\ e.log = Append(d.log, <<d.fat, [d.data EXCEPT ![c] = rows]>>)
      /\ ~ OnDisk(c) => e.data = d.data /\ e.ok = FALSE /\ e.log = d.log
  BY ONLY Good(d), <1>2, <1>3, WriteClusterIs
<1> HIDE DEF e
<1>6. Put(d.data, c, i, row) = [d.data EXCEPT ![c] = rows]
  BY DEF rows, Put
<1> QED
  BY <1>3, <1>4, <1>5, <1>6 DEF e

\* SetRow on a place whose cluster is not on the disk.
LEMMA SetRowOff ==
  ASSUME NEW d, NEW c, ~ OnDisk(c), NEW i, NEW row
  PROVE  SetRow(d, <<c, i>>, row) = Fails(d)
BY DEF SetRow

-----------------------------------------------------------------------------
(***************************************************************************)
(* The entries of a disk: at a place of L they name heads, no two of them  *)
(* the same one, and what can be read of the chain of a head is long       *)
(* enough for the size.                                                    *)
(***************************************************************************)
Places == (2..LastCluster) \X (1..Rows)

RowIn(data, pl)   == data[pl[1]][pl[2]]
IsEntry(data, pl) == RowIn(data, pl).kind = "entry"
Names(data, pl, c) == IsEntry(data, pl) /\ RowIn(data, pl).first = c

\* The rows of a chain that can be read.
Room(fat, c) == Rows * Len(Readable(ChainIn(fat, c)))

NameHead(fat, row) ==
  \/ row.first = 0 /\ row.size = 0
  \/ /\ IsHead(fat, row.first) /\ row.first # Root
     /\ row.size <= Room(fat, row.first)

Sound(fat, data, L) ==
  /\ Links(fat) /\ data \in Datas /\ L \subseteq Places
  /\ \A pl \in L : IsEntry(data, pl) => NameHead(fat, RowIn(data, pl))
  /\ \A a, b \in L : \A c \in Entries : Names(data, a, c) /\ Names(data, b, c) => a = b

\* The places of the clusters in use.
Used(fat) == {pl \in Places : fat[pl[1]] # 0}

\* What kinds of rows there are.
LEMMA RowKinds ==
  /\ \A r \in PlainRows : r.kind # "entry"
  /\ \A r \in RowSet : r.kind = "entry" <=> r \in EntryRows
  /\ Zero \in PlainRows /\ Gone \in PlainRows /\ Dot \in PlainRows
  /\ PlainRows \subseteq RowSet /\ EntryRows \subseteq RowSet
<1>1. \A r \in PlainRows : r.kind # "entry"
  BY DEF PlainRows, TextRows, Zero, Gone, Dot
<1>2. \A r \in EntryRows : r.kind = "entry"
  BY DEF EntryRows, AnyEntry
<1>3. Zero \in PlainRows /\ Gone \in PlainRows /\ Dot \in PlainRows
  BY DEF PlainRows
<1> QED
  BY <1>1, <1>2, <1>3 DEF RowSet

\* A place holds a row.
LEMMA RowInIs ==
  ASSUME NEW data \in Datas, NEW pl \in Places
  PROVE  /\ RowIn(data, pl) \in RowSet
         /\ IsEntry(data, pl) => /\ RowIn(data, pl).first \in Entries \cup {0}
                                 /\ RowIn(data, pl).size \in Nat
<1>1. RowIn(data, pl) \in RowSet
  BY DEF RowIn, Places, Datas, Clusters
<1>2. \A r \in EntryRows : r.first \in Entries \cup {0} /\ r.size \in Nat
  BY DEF EntryRows, AnyEntry
<1> QED
  BY <1>1, <1>2, RowKinds DEF IsEntry

\* Fewer places.
LEMMA SoundFewer ==
  ASSUME NEW fat, NEW data, NEW L, Sound(fat, data, L), NEW K \in SUBSET L
  PROVE  Sound(fat, data, K)
BY DEF Sound

\* A product does not get smaller with one of its factors.
LEMMA TimesLeq ==
  ASSUME NEW r \in Nat, NEW x \in Nat, NEW y \in Nat, x <= y
  PROVE  r * x <= r * y /\ r * x \in Nat /\ r * y \in Nat
<1> DEFINE z == y - x
<1>1. z \in Nat /\ y = x + z
  OBVIOUS
<1> HIDE DEF z
<1>2. r * (x + z) = r * x + r * z /\ r * z \in Nat /\ r * x \in Nat
  BY <1>1
<1> QED
  BY <1>1, <1>2

\* What can be read of a chain does not get shorter with one more cluster.
LEMMA ReadableGrows ==
  ASSUME NEW ch \in Seq(Entries), NEW n \in Entries
  PROVE  /\ Len(Readable(ch)) \in Nat /\ Len(Readable(ch)) <= Len(ch)
         /\ Len(Readable(ch)) <= Len(Readable(Append(ch, n)))
<1> DEFINE Bad(c) == {k \in DOMAIN c : ~ OnDisk(c[k])}
           a == Append(ch, n)
<1>1. /\ Len(ch) \in Nat /\ a \in Seq(Entries) /\ Len(a) = Len(ch) + 1
      /\ \A k \in 1..Len(ch) : a[k] = ch[k]
  OBVIOUS
<1>2. ASSUME NEW c \in Seq(Entries)
      PROVE  /\ Bad(c) = {} => Len(Readable(c)) = Len(c)
             /\ Bad(c) # {} => /\ Min(Bad(c)) \in Bad(c) /\ Min(Bad(c)) \in 1..Len(c)
                               /\ Len(Readable(c)) = Min(Bad(c)) - 1
                               /\ \A k \in Bad(c) : Min(Bad(c)) <= k
  <2> DEFINE B == Bad(c)
  <2>1. DOMAIN c = 1..Len(c) /\ Len(c) \in Nat
    OBVIOUS
  <2>2. B \subseteq Nat /\ B \subseteq 1..Len(c)
    BY <2>1
  <2>3. Readable(c) = IF B = {} THEN c ELSE SubSeq(c, 1, Min(B) - 1)
    BY DEF Readable
  <2> HIDE DEF B
  <2>4. B # {} => Min(B) \in B /\ \A y \in B : Min(B) <= y
    BY <2>2, MinIs
  <2> DEFINE m == Min(B)
  <2> HIDE DEF m
  <2>6. ASSUME m \in 1..Len(c)
        PROVE  Len(SubSeq(c, 1, m - 1)) = m - 1
    <3>1. m - 1 \in 0..Len(c)
      BY <2>1, <2>6
    <3> QED
      BY <2>1, <3>1
  <2>7. B # {} => m \in B /\ m \in 1..Len(c)
    BY <2>2, <2>4 DEF m
  <2>5. B # {} => Min(B) \in 1..Len(c) /\ Len(SubSeq(c, 1, Min(B) - 1)) = Min(B) - 1
    BY <2>6, <2>7 DEF m
  <2> QED
    BY <2>3, <2>4, <2>5 DEF B
<1>3. \A k \in 1..Len(ch) : k \in Bad(ch) <=> k \in Bad(a)
  BY <1>1
<1>4. Bad(a) \subseteq 1..Len(a)
  BY <1>1
<1> HIDE DEF Bad, a
<1>5. Len(Readable(ch)) \in Nat /\ Len(Readable(ch)) <= Len(ch)
  BY <1>1, <1>2
<1>6. CASE Bad(a) = {}
  <2>1. a \in Seq(Entries) /\ Len(a) = Len(ch) + 1 /\ Len(ch) \in Nat
    BY <1>1
  <2>2. Len(Readable(a)) = Len(a)
    BY <1>2, <1>6, <2>1
  <2> QED
    BY <1>5, <2>1, <2>2 DEF a
<1>7. CASE Bad(a) # {}
  <2> DEFINE m == Min(Bad(a))
  <2>1. m \in 1..Len(a) /\ m \in Bad(a) /\ Len(Readable(a)) = m - 1
    BY <1>1, <1>2, <1>7
  <2> HIDE DEF m
  <2>2. CASE m = Len(a)
    BY <1>1, <1>5, <2>1, <2>2 DEF a
  <2>3. CASE m # Len(a)
    <3>1. m \in 1..Len(ch)
      BY <1>1, <2>1, <2>3
    <3>2. m \in Bad(ch)
      BY <1>3, <2>1, <3>1
    <3>3. Bad(ch) # {} /\ Min(Bad(ch)) <= m /\ Min(Bad(ch)) \in 1..Len(ch)
      BY <1>2, <3>2
    <3> QED
      BY <1>2, <2>1, <3>1, <3>3 DEF a
  <2> QED
    BY <2>2, <2>3
<1> QED
  BY <1>5, <1>6, <1>7 DEF a

\* The FAT changes, but not for the chains that are named.
LEMMA SoundFat ==
  ASSUME NEW fat, NEW data, NEW L, Sound(fat, data, L), NEW fat2, Links(fat2),
         \A h \in Entries : (\E pl \in L : Names(data, pl, h)) /\ IsHead(fat, h) =>
              IsHead(fat2, h) /\ ChainIn(fat2, h) = ChainIn(fat, h)
  PROVE  Sound(fat2, data, L)
<1>1. ASSUME NEW pl \in L, IsEntry(data, pl)
      PROVE  NameHead(fat2, RowIn(data, pl))
  <2>1. NameHead(fat, RowIn(data, pl))
    BY <1>1 DEF Sound
  <2>2. RowIn(data, pl).first # 0 => RowIn(data, pl).first \in Entries
    BY <1>1, RowInIs DEF Sound
  <2>3. Names(data, pl, RowIn(data, pl).first)
    BY <1>1 DEF Names
  <2> QED
    BY <2>1, <2>2, <2>3, EntriesAre DEF NameHead, IsHead, Room
<1> QED
  BY <1>1 DEF Sound

\* Freeing the chain that no entry names keeps the entries sound.
LEMMA FreedSound ==
  ASSUME NEW fat, NEW data, NEW L, Sound(fat, data, L), NEW c, IsHead(fat, c), c # Root,
         \A pl \in L : ~ Names(data, pl, c)
  PROVE  Sound(Freed(fat, ClustersOf(fat, c)), data, L)
<1> DEFINE fat2 == Freed(fat, ClustersOf(fat, c))
<1>1. Links(fat)
  BY DEF Sound
<1>2. /\ Links(fat2)
      /\ \A h : IsHead(fat, h) /\ h # c => IsHead(fat2, h) /\ ChainIn(fat2, h) = ChainIn(fat, h)
  BY <1>1, FreedLinks
<1> HIDE DEF fat2
<1>3. Sound(fat2, data, L)
  BY <1>2, SoundFat
<1> QED
  BY <1>3 DEF fat2

\* Taking a free cluster keeps the entries sound.
LEMMA TakenSound ==
  ASSUME NEW fat, NEW data, NEW L, Sound(fat, data, L), NEW c \in Entries, fat[c] = 0
  PROVE  Sound([fat EXCEPT ![c] = Eoc], data, L)
<1> DEFINE fat2 == [fat EXCEPT ![c] = Eoc]
<1>1. Links(fat)
  BY DEF Sound
<1>2. /\ Links(fat2)
      /\ \A h : IsHead(fat, h) => IsHead(fat2, h) /\ ChainIn(fat2, h) = ChainIn(fat, h)
  BY <1>1, TakenLinks
<1> HIDE DEF fat2
<1>3. Sound(fat2, data, L)
  BY <1>2, SoundFat
<1> QED
  BY <1>3 DEF fat2

\* Lengthening a chain keeps the entries sound.
LEMMA JoinedSound ==
  ASSUME NEW fat, NEW data, NEW L, Sound(fat, data, L), NEW c, IsHead(fat, c),
         NEW n, IsHead(fat, n), n # c, n # Root, fat[n] = Eoc, \A pl \in L : ~ Names(data, pl, n)
  PROVE  Sound(Joined(fat, c, n), data, L)
<1> DEFINE fat2 == Joined(fat, c, n)
<1>1. Links(fat)
  BY DEF Sound
<1>2. /\ Links(fat2) /\ IsHead(fat2, c) /\ ChainIn(fat2, c) = Append(ChainIn(fat, c), n)
      /\ ClustersOf(fat2, c) = ClustersOf(fat, c) \cup {n}
      /\ \A h : IsHead(fat, h) /\ h # n /\ h # c =>
           /\ IsHead(fat2, h) /\ ChainIn(fat2, h) = ChainIn(fat, h)
           /\ ClustersOf(fat2, h) = ClustersOf(fat, h)
  BY <1>1, JoinedLinks
<1> HIDE DEF fat2
<1>3. ASSUME NEW pl \in L, IsEntry(data, pl)
      PROVE  NameHead(fat2, RowIn(data, pl))
  <2> DEFINE r == RowIn(data, pl)
  <2>1. NameHead(fat, r) /\ r.first # n
    BY <1>3 DEF Sound, Names
  <2>2. CASE r.first = c
    <3>1. ChainIn(fat, c) \in Seq(Entries)
      BY <1>1, ClustersAre
    <3>2. c \in Entries /\ n \in Entries
      BY DEF IsHead
    <3>3. r.size \in Nat /\ r.size <= Room(fat, c) /\ c # Root
      BY <1>3, <2>1, <2>2, <3>2, RowInIs, EntriesAre DEF NameHead, Sound
    <3>4. Room(fat, c) <= Room(fat2, c) /\ Room(fat, c) \in Nat /\ Room(fat2, c) \in Nat
      <4> DEFINE x == Len(Readable(ChainIn(fat, c)))
                 y == Len(Readable(ChainIn(fat2, c)))
      <4>1. ChainIn(fat2, c) \in Seq(Entries)
        BY <1>2, ClustersAre
      <4>2. x \in Nat /\ y \in Nat /\ x <= y
        BY <1>2, <3>1, <3>2, <4>1, ReadableGrows
      <4> HIDE DEF x, y
      <4>3. Rows * x <= Rows * y /\ Rows * x \in Nat /\ Rows * y \in Nat
        BY <4>2, EntriesAre, TimesLeq
      <4> QED
        BY <4>3 DEF Room, x, y
    <3>5. r.size <= Room(fat2, c)
      BY <3>3, <3>4
    <3> QED
      BY <1>2, <2>2, <3>3, <3>5 DEF NameHead
  <2>3. CASE r.first # c
    BY <1>2, <2>1, <2>3 DEF NameHead, Room
  <2> QED
    BY <2>2, <2>3
<1>4. Sound(fat2, data, L)
  BY <1>2, <1>3 DEF Sound
<1> QED
  BY <1>4 DEF fat2

\* The rows change, but no entry comes in.
LEMMA RowsSound ==
  ASSUME NEW fat, NEW data, NEW L, Sound(fat, data, L), NEW data2 \in Datas,
         NEW K \in SUBSET Places,
         \A pl \in K : ~ IsEntry(data2, pl) \/ (pl \in L /\ RowIn(data2, pl) = RowIn(data, pl))
  PROVE  Sound(fat, data2, K)
BY DEF Sound, IsEntry, Names

\* An entry comes in.
LEMMA EntrySound ==
  ASSUME NEW fat, NEW data, NEW L, Sound(fat, data, L), NEW data2 \in Datas,
         NEW P \in Places, NameHead(fat, RowIn(data2, P)),
         \A pl \in L \ {P} : RowIn(data2, pl) = RowIn(data, pl),
         \A pl \in L \ {P} : RowIn(data2, P).first # 0 => ~ Names(data, pl, RowIn(data2, P).first)
  PROVE  Sound(fat, data2, L \cup {P})
<1>1. \A pl \in L \cup {P} : IsEntry(data2, pl) => NameHead(fat, RowIn(data2, pl))
  BY DEF Sound, IsEntry
<1>2. ASSUME NEW a \in L \cup {P}, NEW b \in L \cup {P}, NEW c \in Entries,
             Names(data2, a, c), Names(data2, b, c)
      PROVE  a = b
  <2>0. c # 0
    BY EntriesAre
  <2>1. \A pl \in L \ {P} : Names(data2, pl, c) <=> Names(data, pl, c)
    BY DEF Names, IsEntry
  <2>2. Names(data2, P, c) => \A pl \in L \ {P} : ~ Names(data, pl, c)
    BY <2>0 DEF Names
  <2>3. CASE a \in L \ {P} /\ b \in L \ {P}
    BY <1>2, <2>1, <2>3 DEF Sound
  <2> QED
    BY <1>2, <2>1, <2>2, <2>3
<1> QED
  BY <1>1, <1>2 DEF Sound

-----------------------------------------------------------------------------
(***************************************************************************)
(* The search for an entry.                                                *)
(***************************************************************************)
LEMMA SeqIn ==
  ASSUME NEW T, NEW s \in Seq(T), NEW U, \A k \in 1..Len(s) : s[k] \in U
  PROVE  s \in Seq(U)
<1>1. s \in [1..Len(s) -> T] /\ Len(s) \in Nat
  OBVIOUS
<1>2. s \in [1..Len(s) -> U]
  BY <1>1
<1> QED
  BY <1>1, <1>2, SeqDef

\* The elements of a sequence.
LEMMA ToSetIs ==
  ASSUME NEW T, NEW s \in Seq(T)
  PROVE  ToSet(s) = {s[k] : k \in 1..Len(s)} /\ ToSet(s) \subseteq T
<1>1. DOMAIN s = 1..Len(s) /\ \A k \in 1..Len(s) : s[k] \in T
  OBVIOUS
<1> QED
  BY <1>1 DEF ToSet

\* The empty sequence has none.
LEMMA ToSetEmpty == ToSet(<<>>) = {}
BY DEF ToSet

\* Readable cuts a chain before its first cluster beyond the disk.
LEMMA ReadableIs ==
  ASSUME NEW ch \in Seq(Entries)
  PROVE  /\ Readable(ch) \in Seq(2..LastCluster) /\ ToSet(Readable(ch)) \subseteq ToSet(ch)
         /\ (\A x \in ToSet(ch) : OnDisk(x)) => Readable(ch) = ch
         /\ Readable(ch) = ch => \A x \in ToSet(ch) : OnDisk(x)
<1> DEFINE bad == {k \in DOMAIN ch : ~ OnDisk(ch[k])}
           s   == SubSeq(ch, 1, Min(bad) - 1)
<1>1. DOMAIN ch = 1..Len(ch) /\ Len(ch) \in Nat /\ \A k \in 1..Len(ch) : ch[k] \in Entries
  OBVIOUS
<1>2. bad \subseteq Nat /\ bad \subseteq 1..Len(ch)
  BY <1>1
<1>3. Readable(ch) = IF bad = {} THEN ch ELSE s
  BY DEF Readable
<1>4. ToSet(ch) = {ch[k] : k \in 1..Len(ch)}
  BY <1>1 DEF ToSet
<1>5. CASE bad = {}
  <2>1. \A k \in 1..Len(ch) : ch[k] \in 2..LastCluster
    BY <1>1, <1>5, EntriesAre
  <2>2. Readable(ch) = ch
    BY <1>3, <1>5
  <2>3. ch \in Seq(2..LastCluster)
    BY <2>1, SeqIn
  <2>4. \A x \in ToSet(ch) : OnDisk(x)
    BY <1>4, <2>1, EntriesAre
  <2> QED
    BY <2>2, <2>3, <2>4
<1>6. CASE bad # {}
  <2>1. Min(bad) \in bad /\ \A y \in bad : Min(bad) <= y
    BY <1>2, <1>6, MinIs
  <2>2. ~ OnDisk(ch[Min(bad)])
    BY <2>1
  <2>4. \A k \in 1..Len(ch) : k \notin bad => OnDisk(ch[k])
    BY <1>1
  <2> HIDE DEF bad
  <2> DEFINE m == Min(bad) - 1
  <2>3. m \in Nat /\ m < Len(ch) /\ \A k \in 1..m : k \notin bad /\ k \in 1..Len(ch)
    <3> DEFINE x == Min(bad)
    <3>1. x \in bad /\ \A y \in bad : x <= y
      BY <2>1
    <3> HIDE DEF x
    <3>2. x \in 1..Len(ch) /\ \A k \in 1..Len(ch) : k < x => k \notin bad
      BY <1>2, <3>1
    <3>3. x - 1 \in Nat /\ x - 1 < Len(ch) /\ \A k \in 1..(x - 1) : k \notin bad /\ k \in 1..Len(ch)
      BY <1>1, <3>2
    <3> QED
      BY <3>3 DEF x
  <2>5. /\ Len(s) = m /\ \A k \in 1..m : s[k] = ch[k]
        /\ \A k \in 1..m : ch[k] \in 2..LastCluster
    <3>1. \A k \in 1..m : ch[k] \in 2..LastCluster
      BY <1>1, <2>3, <2>4, EntriesAre
    <3>2. s = SubSeq(ch, 1, m)
      OBVIOUS
    <3> QED
      BY <3>1, <3>2, <2>3, <1>1
  <2>6. s \in Seq(2..LastCluster)
    <3>1. s \in Seq(Entries)
      BY <1>1, <2>3
    <3> HIDE DEF s, m
    <3> QED
      BY <2>3, <2>5, <3>1, SeqIn
  <2>7. ToSet(s) = {s[k] : k \in 1..m}
    <3> HIDE DEF s, m
    <3>1. Len(s) = m /\ ToSet(s) = {s[k] : k \in 1..Len(s)}
      BY <2>5, <2>6, ToSetIs
    <3> QED
      BY <3>1
  <2>8. ToSet(s) \subseteq ToSet(ch)
    <3> HIDE DEF s, m
    <3> QED
      BY <1>4, <2>3, <2>5, <2>7
  <2>9. s # ch
    BY <2>3, <2>5
  <2>10. Readable(ch) = s
    BY <1>3, <1>6
  <2>11. ch[Min(bad)] \in ToSet(ch)
    BY <1>2, <1>4, <2>1
  <2> HIDE DEF s
  <2> QED
    BY <2>2, <2>6, <2>8, <2>9, <2>10, <2>11
<1> QED
  BY <1>5, <1>6

\* FirstOf finds one of the places, if there is one in the clusters.
LEMMA FirstOfIs ==
  ASSUME NEW T, NEW ch \in Seq(T), NEW S
  PROVE  \/ /\ FirstOf(ch, S) = <<>>
            /\ \A c \in ToSet(ch) : \A i \in 1..Rows : <<c, i>> \notin S
         \/ /\ FirstOf(ch, S) \in S
            /\ \E c \in ToSet(ch) : \E i \in 1..Rows : FirstOf(ch, S) = <<c, i>>
<1> DEFINE ks == {k \in DOMAIN ch : \E i \in 1..Rows : <<ch[k], i>> \in S}
           k == Min(ks)
           is == {i \in 1..Rows : <<ch[k], i>> \in S}
<1>0. DOMAIN ch = 1..Len(ch) /\ Len(ch) \in Nat
  OBVIOUS
<1>1. FirstOf(ch, S) = IF ks = {} THEN <<>> ELSE <<ch[k], Min(is)>>
  BY DEF FirstOf, FirstIn
<1>2. ToSet(ch) = {ch[j] : j \in DOMAIN ch}
  BY <1>0 DEF ToSet
<1>3. CASE ks = {}
  BY <1>1, <1>2, <1>3
<1>4. CASE ks # {}
  <2>1. ks \subseteq Nat
    BY <1>0
  <2>2. Min(ks) \in ks
    <3> HIDE DEF ks
    <3> QED
      BY <1>4, <2>1, MinIs
  <2>3. k \in DOMAIN ch /\ \E i \in 1..Rows : <<ch[k], i>> \in S
    BY <2>2
  <2> HIDE DEF k
  <2>4. is \subseteq Nat /\ is # {}
    <3>1. is \subseteq 1..Rows /\ 1..Rows \subseteq Nat
      BY EntriesAre
    <3>2. is # {}
      BY <2>3
    <3> QED
      BY <3>1, <3>2
  <2>5. Min(is) \in is
    <3> HIDE DEF is
    <3> QED
      BY <2>4, MinIs
  <2>6. Min(is) \in 1..Rows /\ <<ch[k], Min(is)>> \in S
    BY <2>5
  <2>7. ch[k] \in ToSet(ch)
    BY <1>2, <2>3
  <2>8. FirstOf(ch, S) = <<ch[k], Min(is)>>
    BY <1>1, <1>4
  <2> QED
    BY <2>6, <2>7, <2>8
<1> QED
  BY <1>3, <1>4

\* The places of clusters on the disk.
LEMMA PlacesAre ==
  ASSUME NEW ch \in Seq(2..LastCluster)
  PROVE  PlacesOf(ch) \subseteq Places /\ \A pl \in PlacesOf(ch) : pl[1] \in ToSet(ch)
<1>1. ToSet(ch) \subseteq 2..LastCluster
  BY ToSetIs
<1> QED
  BY <1>1 DEF PlacesOf, Places

\* A place is a pair.
LEMMA PlaceIs == \A c, i : <<c, i>> # <<>> /\ <<c, i>>[1] = c /\ <<c, i>>[2] = i
OBVIOUS

\* A search finds an entry of that name, or nothing.
LEMMA FindInIs ==
  ASSUME NEW d, d.data \in Datas, NEW ch \in Seq(2..LastCluster), NEW n
  PROVE  LET pl == FindIn(d, ch, n)
         IN  \/ pl = <<>>
             \/ /\ pl # <<>> /\ pl \in PlacesOf(ch)
                /\ IsEntry(d.data, pl) /\ RowIn(d.data, pl).name = n
<1> DEFINE Hit(r) == r = Zero \/ (r.kind = "entry" /\ r.name = n)
           S == {pl \in PlacesOf(ch) : Hit(RowAt(d, pl))}
           f == FirstOf(ch, S)
<1>1. FindIn(d, ch, n) = IF f # <<>> /\ RowAt(d, f) # Zero THEN f ELSE <<>>
  BY DEF FindIn, IfUsed
<1>2. f = <<>> \/ (f \in S /\ f # <<>>)
  <2> HIDE DEF S
  <2> QED
    BY FirstOfIs, PlaceIs
<1>3. f \in S => f \in PlacesOf(ch) /\ Hit(RowAt(d, f))
  <2> HIDE DEF f
  <2> QED
    OBVIOUS
<1>4. RowAt(d, f) = RowIn(d.data, f)
  BY DEF RowAt, RowIn
<1> HIDE DEF f, S
<1> QED
  BY <1>1, <1>2, <1>3, <1>4 DEF IsEntry

\* A search depends on the rows it reads only.
LEMMA FindInSame ==
  ASSUME NEW d, NEW e, NEW T, NEW ch \in Seq(T), NEW n, \A pl \in PlacesOf(ch) : RowAt(e, pl) = RowAt(d, pl)
  PROVE  FindIn(e, ch, n) = FindIn(d, ch, n)
<1> DEFINE Hit(r) == r = Zero \/ (r.kind = "entry" /\ r.name = n)
           S(x) == {pl \in PlacesOf(ch) : Hit(RowAt(x, pl))}
           f == FirstOf(ch, S(d))
<1>1. S(e) = S(d)
  OBVIOUS
<1>2. FindIn(e, ch, n) = IfUsed(e, f)
  BY <1>1 DEF FindIn
<1>3. FindIn(d, ch, n) = IfUsed(d, f)
  BY DEF FindIn
<1>4. f = <<>> \/ f \in PlacesOf(ch)
  <2>1. f \in S(d) => f \in PlacesOf(ch)
    <3> HIDE DEF f
    <3> QED
      OBVIOUS
  <2>2. f = <<>> \/ f \in S(d)
    <3> HIDE DEF S
    <3> QED
      BY FirstOfIs
  <2> QED
    BY <2>1, <2>2
<1> HIDE DEF f
<1> QED
  BY <1>2, <1>3, <1>4 DEF IfUsed

-----------------------------------------------------------------------------
(***************************************************************************)
(* A disk that is sound, and where a path leads on it.                     *)
(***************************************************************************)
IsDisk(d)  == d.fat \in Fats /\ d.data \in Datas /\ Current(d)
Healthy(d) == IsDisk(d) /\ Sound(d.fat, d.data, Used(d.fat))

\* A record in its type is a disk.
LEMMA GoodDisk ==
  ASSUME NEW d, Good(d)
  PROVE  IsDisk(d)
BY GoodFields DEF IsDisk

\* A cluster to look for an entry in: the head of a chain, or none.
HeadOrNone(fat, c) == c \notin Entries \/ IsHead(fat, c)

\* The parts of Healthy.
LEMMA HealthyIs ==
  ASSUME NEW d, Healthy(d)
  PROVE  /\ IsDisk(d) /\ Current(d) /\ d.fat \in Fats /\ d.data \in Datas
         /\ Links(d.fat) /\ Sound(d.fat, d.data, Used(d.fat))
BY DEF Healthy, IsDisk, Sound

\* The root directory is the head of a chain.
LEMMA RootIsHead ==
  ASSUME NEW fat, Links(fat)
  PROVE  IsHead(fat, Root) /\ Root # 0
BY EntriesAre DEF Links, IsHead, Root

\* What a scan of a directory reads.
LEMMA ReadableChain ==
  ASSUME NEW d, IsDisk(d), Links(d.fat), NEW c, IsHead(d.fat, c)
  PROVE  /\ Chain(d, c) = ChainIn(d.fat, c) /\ Chain(d, c) \in Seq(Entries)
         /\ Readable(Chain(d, c)) \in Seq(2..LastCluster)
         /\ PlacesOf(Readable(Chain(d, c))) \subseteq Used(d.fat)
         /\ \A pl \in PlacesOf(Readable(Chain(d, c))) : pl \in Places /\ pl[1] \in ClustersOf(d.fat, c)
<1> DEFINE ch == Chain(d, c)
<1>1. ch = ChainIn(d.fat, c) /\ ch \in Seq(Entries)
  BY ChainRead, ClustersAre DEF IsDisk
<1>2. ToSet(ch) = ClustersOf(d.fat, c)
  BY <1>1 DEF ClustersOf
<1> HIDE DEF ch
<1>3. Readable(ch) \in Seq(2..LastCluster) /\ ToSet(Readable(ch)) \subseteq ToSet(ch)
  BY <1>1, ReadableIs
<1>4. \A pl \in PlacesOf(Readable(ch)) : pl \in Places /\ pl[1] \in ClustersOf(d.fat, c)
  BY <1>2, <1>3, PlacesAre
<1>5. \A x \in ClustersOf(d.fat, c) : d.fat[x] # 0
  BY ClustersAre
<1>6. PlacesOf(Readable(ch)) \subseteq Used(d.fat)
  BY <1>4, <1>5 DEF Used
<1> QED
  BY <1>1, <1>3, <1>4, <1>6 DEF ch

\* The place of the entry called n in the chain of c.
EntryPlace(d, c, n, pl) ==
  /\ pl # <<>> /\ IsHead(d.fat, c) /\ pl \in Places /\ pl \in Used(d.fat)
  /\ pl[1] \in ClustersOf(d.fat, c)
  /\ IsEntry(d.data, pl) /\ RowIn(d.data, pl).name = n

\* find_entry returns a place of the directory, or nothing.
LEMMA FindEntryIs ==
  ASSUME NEW d, IsDisk(d), Links(d.fat), NEW c, HeadOrNone(d.fat, c), NEW n
  PROVE  FindEntry(d, c, n) = <<>> \/ EntryPlace(d, c, n, FindEntry(d, c, n))
<1> DEFINE ch == Readable(Chain(d, c))
           pl == FindIn(d, ch, n)
<1>1. FindEntry(d, c, n) = pl
  BY DEF FindEntry
<1>2. CASE c \notin Entries
  <2>1. Chain(d, c) = <<>> /\ <<>> \in Seq(Entries) /\ ToSet(<<>>) = {}
    BY <1>2, ChainEmpty DEF ToSet
  <2>2. ch \in Seq(2..LastCluster) /\ ToSet(ch) = {}
    BY <2>1, ReadableIs
  <2>3. PlacesOf(ch) = {}
    BY <2>2 DEF PlacesOf
  <2> HIDE DEF ch
  <2>4. pl = <<>>
    BY <2>2, <2>3, FindInIs DEF IsDisk
  <2> QED
    BY <1>1, <2>4
<1>3. CASE IsHead(d.fat, c)
  <2>1. /\ ch \in Seq(2..LastCluster) /\ PlacesOf(ch) \subseteq Used(d.fat)
        /\ \A x \in PlacesOf(ch) : x \in Places /\ x[1] \in ClustersOf(d.fat, c)
    BY <1>3, ReadableChain
  <2> HIDE DEF ch
  <2>2. \/ pl = <<>>
        \/ /\ pl # <<>> /\ pl \in PlacesOf(ch)
           /\ IsEntry(d.data, pl) /\ RowIn(d.data, pl).name = n
    BY <2>1, FindInIs DEF IsDisk
  <2> HIDE DEF pl
  <2> QED
    BY <1>1, <1>3, <2>1, <2>2 DEF EntryPlace
<1> QED
  BY <1>2, <1>3 DEF HeadOrNone

\* find_entry depends on the directory only.
LEMMA FindEntrySame ==
  ASSUME NEW d, IsDisk(d), Links(d.fat), NEW e, IsDisk(e), Links(e.fat), NEW c,
         IsHead(d.fat, c), IsHead(e.fat, c), ChainIn(e.fat, c) = ChainIn(d.fat, c),
         \A pl \in Places : pl[1] \in ClustersOf(d.fat, c) => RowIn(e.data, pl) = RowIn(d.data, pl),
         NEW n
  PROVE  FindEntry(e, c, n) = FindEntry(d, c, n)
<1> DEFINE ch == Readable(Chain(d, c))
<1>1. /\ Chain(d, c) = ChainIn(d.fat, c) /\ ch \in Seq(2..LastCluster)
      /\ \A pl \in PlacesOf(ch) : pl \in Places /\ pl[1] \in ClustersOf(d.fat, c)
  BY ReadableChain
<1>2. Chain(e, c) = Chain(d, c)
  BY <1>1, ReadableChain
<1>3. FindEntry(e, c, n) = FindIn(e, ch, n) /\ FindEntry(d, c, n) = FindIn(d, ch, n)
  BY <1>2 DEF FindEntry
<1> HIDE DEF ch
<1>4. \A pl \in PlacesOf(ch) : RowAt(e, pl) = RowAt(d, pl)
  <2>1. \A pl \in PlacesOf(ch) : RowIn(e.data, pl) = RowIn(d.data, pl)
    BY <1>1
  <2> QED
    BY <2>1 DEF RowIn, RowAt
<1> QED
  BY <1>1, <1>3, <1>4, FindInSame

\* One step of resolve_path leads to the head of a chain, or to 0.
LEMMA IntoIs ==
  ASSUME NEW d, Healthy(d), NEW c, HeadOrNone(d.fat, c), NEW n
  PROVE  /\ Into(d, c, n) \in Entries \cup {0} /\ HeadOrNone(d.fat, Into(d, c, n))
         /\ FindEntry(d, c, n) = <<>> => Into(d, c, n) = 0
         /\ FindEntry(d, c, n) # <<>> =>
              /\ Into(d, c, n) = RowIn(d.data, FindEntry(d, c, n)).first
              /\ EntryPlace(d, c, n, FindEntry(d, c, n))
              /\ Names(d.data, FindEntry(d, c, n), Into(d, c, n))
         /\ Into(d, c, n) # 0 =>
              /\ IsHead(d.fat, Into(d, c, n)) /\ Into(d, c, n) # Root
              /\ FindEntry(d, c, n) # <<>>
<1> DEFINE pl == FindEntry(d, c, n)
<1>1. IsDisk(d) /\ Links(d.fat) /\ d.data \in Datas /\ Sound(d.fat, d.data, Used(d.fat))
  BY HealthyIs
<1>2. pl = <<>> \/ EntryPlace(d, c, n, pl)
  BY <1>1, FindEntryIs
<1>3. Into(d, c, n) = IF pl = <<>> THEN 0 ELSE RowIn(d.data, pl).first
  BY DEF Into, FirstCluster, RowAt, RowIn
<1> HIDE DEF pl
<1>4. ASSUME pl # <<>>
      PROVE  /\ pl \in Places /\ IsEntry(d.data, pl) /\ NameHead(d.fat, RowIn(d.data, pl))
             /\ RowIn(d.data, pl).first \in Entries \cup {0}
  <2>1. pl \in Places /\ pl \in Used(d.fat) /\ IsEntry(d.data, pl)
    BY <1>2, <1>4 DEF EntryPlace
  <2> QED
    BY <1>1, <2>1, RowInIs DEF Sound
<1>5. CASE pl = <<>>
  BY <1>3, <1>5, EntriesAre DEF pl, HeadOrNone
<1>6. CASE pl # <<>>
  <2>1. Into(d, c, n) = RowIn(d.data, pl).first
    BY <1>3, <1>6
  <2>2. Names(d.data, pl, Into(d, c, n))
    BY <1>4, <1>6, <2>1 DEF Names
  <2>3. \/ Into(d, c, n) = 0
        \/ IsHead(d.fat, Into(d, c, n)) /\ Into(d, c, n) # Root
    BY <1>4, <1>6, <2>1 DEF NameHead
  <2> QED
    BY <1>2, <1>4, <1>6, <2>1, <2>2, <2>3, EntriesAre DEF pl, HeadOrNone
<1> QED
  BY <1>5, <1>6

\* Of a chain on a disk that the power went off on only the type is known,
LEMMA ChainType ==
  ASSUME NEW d, NEW c
  PROVE  /\ Chain(d, c) \in Seq(Entries) /\ Readable(Chain(d, c)) \in Seq(2..LastCluster)
<1>0. PICK met : Meets(d, c, met)
  BY ChainSteps
<1>1. /\ met \in [0..FatEnd -> Seq(Entries)]
      /\ Chain(d, c) = met[FatEnd] /\ met[0] = <<>>
      /\ \A n \in 1..FatEnd : met[n] = Onward(d, c, met[n - 1])
  BY <1>0 DEF Meets
<1>2. FatEnd \in 0..FatEnd
  BY EntriesAre
<1>3. Chain(d, c) \in Seq(Entries)
  BY <1>1, <1>2
<1> QED
  BY <1>3, ReadableIs

\* and of what a name leads to.
LEMMA IntoType ==
  ASSUME NEW d, IsDisk(d), NEW c, NEW n
  PROVE  Into(d, c, n) \in Entries \cup {0}
<1> DEFINE ch == Readable(Chain(d, c))
           pl == FindIn(d, ch, n)
<1>1. ch \in Seq(2..LastCluster)
  BY ChainType
<1>2. Into(d, c, n) = IF pl = <<>> THEN 0 ELSE RowIn(d.data, pl).first
  BY DEF Into, FirstCluster, FindEntry, RowAt, RowIn
<1> HIDE DEF ch
<1>3. pl = <<>> \/ (pl \in PlacesOf(ch) /\ IsEntry(d.data, pl))
  BY <1>1, FindInIs DEF IsDisk
<1> HIDE DEF pl
<1>4. pl # <<>> => RowIn(d.data, pl).first \in Entries \cup {0}
  BY <1>1, <1>3, PlacesAre, RowInIs DEF IsDisk
<1> QED
  BY <1>2, <1>4

\* The loop of resolve_path on such a disk.
Steps(d, p, at) ==
  /\ at \in [0..Len(p) -> Entries \cup {0}]
  /\ at[0] = Root /\ \A n \in 1..Len(p) : at[n] = Into(d, at[n - 1], p[n])

\* The states of that loop.
LEMMA StepsAre ==
  ASSUME NEW d, IsDisk(d), NEW T, NEW p \in Seq(T)
  PROVE  \E at : Steps(d, p, at) /\ ResolvePath(d, p) = at[Len(p)]
<1> DEFINE S == Entries \cup {0}
           m == Len(p)
           g == [x \in S \X (1..m) |-> Into(d, x[1], p[x[2]])]
           IsRun(at) == at = [n \in 0..m |-> IF n = 0 THEN Root ELSE Into(d, at[n - 1], p[n])]
<1>1. \A x \in S : \A n \in 1..m : g[<<x, n>>] = Into(d, x, p[n]) /\ g[<<x, n>>] \in S
  <2> TAKE x \in S
  <2> TAKE n \in 1..m
  <2>1. Into(d, x, p[n]) \in S
    BY IntoType
  <2> HIDE DEF S
  <2>2. <<x, n>> \in S \X (1..m) /\ <<x, n>>[1] = x /\ <<x, n>>[2] = n
    OBVIOUS
  <2>3. g[<<x, n>>] = Into(d, x, p[n])
    BY <2>2
  <2> QED
    BY <2>1, <2>3
<1>2. Root \in S /\ m \in Nat
  BY EntriesAre
<1> HIDE DEF S, g, m
<1>3. PICK w : IsTurns(w, S, Root, g, m)
  BY <1>1, <1>2, Turns
<1>4. w \in [0..m -> S] /\ w[0] = Root /\ \A n \in 1..m : w[n] = g[<<w[n - 1], n>>]
  BY <1>3 DEF IsTurns
<1>5. \A n \in 1..m : w[n] = Into(d, w[n - 1], p[n])
  <2> TAKE n \in 1..m
  <2>1. n - 1 \in 0..m
    BY <1>2
  <2> QED
    BY <1>1, <1>4, <2>1
<1>6. w = [n \in 0..m |-> IF n = 0 THEN Root ELSE Into(d, w[n - 1], p[n])]
  <2>1. \A n \in 0..m : w[n] = IF n = 0 THEN Root ELSE Into(d, w[n - 1], p[n])
    BY <1>2, <1>4, <1>5
  <2>2. w = [n \in 0..m |-> w[n]]
    BY <1>4
  <2> QED
    BY <2>1, <2>2, Zenon
<1>7. \E at : IsRun(at)
  BY <1>6
<1> DEFINE at == CHOOSE f : IsRun(f)
<1>8. IsRun(at) /\ ResolvePath(d, p) = at[m]
  BY <1>7, Zenon DEF ResolvePath, m
<1> HIDE DEF at
<1>9. \A n \in 0..m : at[n] = IF n = 0 THEN Root ELSE Into(d, at[n - 1], p[n])
  BY <1>8, Zenon
<1>10. at[0] = Root /\ \A n \in 1..m : at[n] = Into(d, at[n - 1], p[n])
  <2>1. 0 \in 0..m /\ \A n \in 1..m : n \in 0..m /\ n # 0
    BY <1>2
  <2> QED
    BY <1>9, <2>1
<1>11. at = w
  <2>1. FunctionOn(at, 0..m)
    BY <1>8, Zenon DEF FunctionOn
  <2>2. \A n \in 1..m : at[n - 1] \in S => at[n] = g[<<at[n - 1], n>>]
    BY <1>1, <1>10
  <2>3. Follows(at, S, Root, g, m)
    BY <1>10, <2>1, <2>2, Zenon DEF Follows
  <2> QED
    BY <1>2, <1>3, <2>3, TurnsOnly
<1>12. Steps(d, p, at)
  BY <1>4, <1>10, <1>11 DEF Steps, S, m
<1> QED
  BY <1>8, <1>12 DEF m

\* The clusters that p leads through.
Leads(d, p, at) ==
  /\ at \in [0..Len(p) -> {c \in Entries \cup {0} : HeadOrNone(d.fat, c)}]
  /\ at[0] = Root /\ \A n \in 1..Len(p) : at[n] = Into(d, at[n - 1], p[n])

\* The states of the loop of ResolvePath.
LEMMA ResolveSteps ==
  ASSUME NEW d, Healthy(d), NEW T, NEW p \in Seq(T)
  PROVE  \E at : Leads(d, p, at) /\ ResolvePath(d, p) = at[Len(p)]
<1>1. PICK at : Steps(d, p, at) /\ ResolvePath(d, p) = at[Len(p)]
  BY HealthyIs, StepsAre
<1> DEFINE m == Len(p)
           X == {n \in Nat : n <= m => HeadOrNone(d.fat, at[n])}
<1>2. m \in Nat
  OBVIOUS
<1>3. 0 \in X
  BY <1>1, HealthyIs, RootIsHead DEF Steps, HeadOrNone
<1>4. ASSUME NEW n \in Nat, n \in X PROVE n + 1 \in X
  <2> SUFFICES ASSUME n + 1 <= m PROVE HeadOrNone(d.fat, at[n + 1])
    OBVIOUS
  <2>1. n + 1 \in 1..m /\ (n + 1) - 1 = n /\ HeadOrNone(d.fat, at[n])
    BY <1>2, <1>4
  <2>2. at[n + 1] = Into(d, at[n], p[n + 1])
    BY <1>1, <2>1 DEF Steps
  <2> HIDE DEF m
  <2> QED
    BY <2>1, <2>2, IntoIs
<1>5. \A n \in Nat : n \in X
  <2> HIDE DEF X
  <2> QED
    BY <1>3, <1>4, NatInd
<1>6. \A n \in 0..m : HeadOrNone(d.fat, at[n])
  BY <1>2, <1>5
<1>7. Leads(d, p, at)
  BY <1>1, <1>6 DEF Steps, Leads
<1> QED
  BY <1>1, <1>7

\* p begins with q.
Starts(q, p) ==
  /\ Len(p) \in Nat /\ Len(q) \in Nat /\ Len(q) <= Len(p)
  /\ \A n \in 1..Len(q) : q[n] = p[n]

\* Two walks along a path are the same.
LEMMA LeadsOnly ==
  ASSUME NEW d, NEW p, NEW q, Starts(q, p), NEW at, Leads(d, p, at), NEW to, Leads(d, q, to)
  PROVE  \A n \in 0..Len(q) : to[n] = at[n]
<1>0. /\ Len(p) \in Nat /\ Len(q) \in Nat /\ Len(q) <= Len(p)
      /\ \A n \in 1..Len(q) : q[n] = p[n]
  BY DEF Starts
<1>1. at[0] = Root /\ \A n \in 1..Len(p) : at[n] = Into(d, at[n - 1], p[n])
  BY DEF Leads
<1>2. to[0] = Root /\ \A n \in 1..Len(q) : to[n] = Into(d, to[n - 1], q[n])
  BY DEF Leads
<1> DEFINE T == {n \in Nat : n <= Len(q) => to[n] = at[n]}
<1>3. 0 \in T
  BY <1>1, <1>2
<1>4. ASSUME NEW n \in Nat, n \in T PROVE n + 1 \in T
  <2> SUFFICES ASSUME n + 1 <= Len(q) PROVE to[n + 1] = at[n + 1]
    OBVIOUS
  <2>1. n + 1 \in 1..Len(q) /\ n + 1 \in 1..Len(p) /\ (n + 1) - 1 = n /\ to[n] = at[n]
    BY <1>0, <1>4
  <2>2. q[n + 1] = p[n + 1]
    BY <1>0, <2>1
  <2> QED
    BY <1>1, <1>2, <2>1, <2>2
<1>5. \A n \in Nat : n \in T
  <2> HIDE DEF T
  <2> QED
    BY <1>3, <1>4, NatInd
<1> QED
  BY <1>0, <1>5

\* The path p, its parent and the clusters on the way.
LEMMA FrontIs ==
  ASSUME NEW T, NEW p \in Seq(T), p # <<>>
  PROVE  /\ Len(p) \in Nat \ {0} /\ Front(p) \in Seq(T) /\ Len(Front(p)) = Len(p) - 1
         /\ \A n \in 1..(Len(p) - 1) : Front(p)[n] = p[n]
         /\ Last(p) = p[Len(p)] /\ Last(p) \in T
<1>1. Len(p) \in Nat \ {0}
  OBVIOUS
<1>2. Front(p) = SubSeq(p, 1, Len(p) - 1)
  BY DEF Front
<1>3. Front(p) \in Seq(T) /\ Len(Front(p)) = Len(p) - 1 /\ \A n \in 1..(Len(p) - 1) : Front(p)[n] = p[n]
  <2> DEFINE k == Len(p) - 1
  <2>1. k \in Nat /\ k < Len(p) /\ Front(p) = SubSeq(p, 1, k)
    BY <1>1, <1>2
  <2> HIDE DEF k
  <2>2. SubSeq(p, 1, k) \in Seq(T) /\ Len(SubSeq(p, 1, k)) = k /\ \A n \in 1..k : SubSeq(p, 1, k)[n] = p[n]
    BY <2>1, <1>1
  <2> QED
    BY <2>1, <2>2 DEF k
<1> QED
  BY <1>1, <1>3 DEF Last

\* Where a path leads, and its parent.
LEMMA ResolveIs ==
  ASSUME NEW d, Healthy(d), NEW T, NEW p \in Seq(T), NEW at, Leads(d, p, at)
  PROVE  /\ ResolvePath(d, p) = at[Len(p)]
         /\ p # <<>> => ResolvePath(d, Front(p)) = at[Len(p) - 1]
<1>1. ResolvePath(d, p) = at[Len(p)]
  <2>1. PICK w : Leads(d, p, w) /\ ResolvePath(d, p) = w[Len(p)]
    BY ResolveSteps
  <2>2. Starts(p, p) /\ Len(p) \in Nat
    BY DEF Starts
  <2>3. \A n \in 0..Len(p) : w[n] = at[n]
    BY <2>1, <2>2, LeadsOnly
  <2> QED
    BY <2>1, <2>2, <2>3
<1>2. ASSUME p # <<>> PROVE ResolvePath(d, Front(p)) = at[Len(p) - 1]
  <2> DEFINE q == Front(p)
  <2>1. /\ Len(p) \in Nat \ {0} /\ q \in Seq(T) /\ Len(q) = Len(p) - 1
        /\ \A n \in 1..(Len(p) - 1) : q[n] = p[n]
    BY <1>2, FrontIs
  <2> HIDE DEF q
  <2>2. PICK w : Leads(d, q, w) /\ ResolvePath(d, q) = w[Len(q)]
    BY <2>1, ResolveSteps
  <2>3. Starts(q, p)
    BY <2>1 DEF Starts
  <2>4. \A n \in 0..Len(q) : w[n] = at[n]
    BY <2>2, <2>3, LeadsOnly
  <2> QED
    BY <2>1, <2>2, <2>4 DEF q
<1> QED
  BY <1>1, <1>2

\* A path leads where its last name leads from its parent.
LEMMA ParentIs ==
  ASSUME NEW d, Healthy(d), NEW T, NEW p \in Seq(T), p # <<>>
  PROVE  /\ ResolvePath(d, p) = Into(d, Parent(d, p), Last(p))
         /\ Parent(d, p) \in Entries \cup {0} /\ HeadOrNone(d.fat, Parent(d, p))
         /\ ResolvePath(d, p) \in Entries \cup {0} /\ HeadOrNone(d.fat, ResolvePath(d, p))
<1>1. PICK at : Leads(d, p, at)
  BY ResolveSteps
<1>2. Len(p) \in Nat \ {0} /\ Last(p) = p[Len(p)]
  BY FrontIs
<1>3. ResolvePath(d, p) = at[Len(p)] /\ Parent(d, p) = at[Len(p) - 1]
  BY <1>1, ResolveIs DEF Parent
<1>4. at[Len(p)] = Into(d, at[Len(p) - 1], p[Len(p)])
  BY <1>1, <1>2 DEF Leads
<1>5. /\ at[Len(p)] \in {c \in Entries \cup {0} : HeadOrNone(d.fat, c)}
      /\ at[Len(p) - 1] \in {c \in Entries \cup {0} : HeadOrNone(d.fat, c)}
  BY <1>1, <1>2 DEF Leads
<1> QED
  BY <1>2, <1>3, <1>4, <1>5

\* No two entries lead to the same cluster.
LEMMA IntoOnce ==
  ASSUME NEW d, Healthy(d), NEW c, HeadOrNone(d.fat, c), NEW e, HeadOrNone(d.fat, e),
         NEW n, NEW m, Into(d, c, n) = Into(d, e, m), Into(d, c, n) # 0
  PROVE  /\ c = e /\ n = m /\ IsHead(d.fat, c) /\ c # 0
         /\ FindEntry(d, c, n) = FindEntry(d, e, m)
<1> DEFINE a == FindEntry(d, c, n)
           b == FindEntry(d, e, m)
           x == Into(d, c, n)
<1>1. Links(d.fat) /\ Sound(d.fat, d.data, Used(d.fat))
  BY HealthyIs
<1>2. a # <<>> /\ EntryPlace(d, c, n, a) /\ Names(d.data, a, x) /\ x \in Entries
  BY IntoIs DEF IsHead
<1>3. b # <<>> /\ EntryPlace(d, e, m, b) /\ Names(d.data, b, x)
  BY IntoIs
<1> HIDE DEF a, b, x
<1>4. a \in Used(d.fat) /\ b \in Used(d.fat)
  BY <1>2, <1>3 DEF EntryPlace
<1>5. a = b
  BY <1>1, <1>2, <1>3, <1>4 DEF Sound
<1>6. /\ IsHead(d.fat, c) /\ IsHead(d.fat, e) /\ n = m
      /\ a[1] \in ClustersOf(d.fat, c) /\ a[1] \in ClustersOf(d.fat, e)
  BY <1>2, <1>3, <1>5 DEF EntryPlace
<1>7. c = e
  BY <1>1, <1>6, ClustersApart
<1>8. c # 0
  BY <1>6, EntriesAre DEF IsHead
<1> QED
  BY <1>5, <1>6, <1>7, <1>8 DEF a, b

\* The directories on the way are different ones.
LEMMA WayDistinct ==
  ASSUME NEW d, Healthy(d), NEW p, Len(p) \in Nat, NEW at, Leads(d, p, at)
  PROVE  \A i, j \in 0..Len(p) : i < j /\ at[j] # 0 => at[i] # at[j]
<1>1. /\ at[0] = Root /\ \A n \in 1..Len(p) : at[n] = Into(d, at[n - 1], p[n])
      /\ \A n \in 0..Len(p) : HeadOrNone(d.fat, at[n])
  BY DEF Leads
<1> DEFINE T == {i \in Nat : \A j \in 0..Len(p) : i < j /\ at[j] # 0 => at[i] # at[j]}
<1>2. 0 \in T
  <2> SUFFICES ASSUME NEW j \in 0..Len(p), 0 < j, at[j] # 0 PROVE at[j] # Root
    BY <1>1
  <2>1. j \in 1..Len(p) /\ j - 1 \in 0..Len(p)
    OBVIOUS
  <2> QED
    BY <1>1, <2>1, IntoIs
<1>3. ASSUME NEW i \in Nat, i \in T PROVE i + 1 \in T
  <2> SUFFICES ASSUME NEW j \in 0..Len(p), i + 1 < j, at[j] # 0, at[i + 1] = at[j]
               PROVE  FALSE
    OBVIOUS
  <2>1. /\ j \in 1..Len(p) /\ j - 1 \in 0..Len(p) /\ i < j - 1 /\ i \in 0..Len(p)
        /\ i + 1 \in 1..Len(p) /\ (i + 1) - 1 = i
    OBVIOUS
  <2>2. at[j] = Into(d, at[j - 1], p[j]) /\ at[i + 1] = Into(d, at[i], p[i + 1])
    BY <1>1, <2>1
  <2>3. HeadOrNone(d.fat, at[j - 1]) /\ HeadOrNone(d.fat, at[i])
    BY <1>1, <2>1
  <2>4. at[i] = at[j - 1] /\ at[i] # 0
    BY <2>2, <2>3, IntoOnce
  <2> QED
    BY <1>3, <2>1, <2>4
<1>4. \A i \in Nat : i \in T
  <2> HIDE DEF T
  <2> QED
    BY <1>2, <1>3, NatInd
<1> QED
  BY <1>4

\* No path of names leads back to the root.
LEMMA ResolveRoot ==
  ASSUME NEW d, Healthy(d)
  PROVE  ResolvePath(d, <<>>) = Root
<1>1. <<>> \in Seq({}) /\ Len(<<>>) = 0
  OBVIOUS
<1>2. PICK at : Leads(d, <<>>, at) /\ ResolvePath(d, <<>>) = at[Len(<<>>)]
  BY <1>1, ResolveSteps
<1> QED
  BY <1>1, <1>2 DEF Leads

\* Two paths that lead to the same cluster are the same path.
LEMMA PathOnce ==
  ASSUME NEW d, Healthy(d), NEW T, NEW p \in Seq(T), NEW q \in Seq(T),
         ResolvePath(d, p) = ResolvePath(d, q), ResolvePath(d, p) # 0
  PROVE  p = q
<1> DEFINE U == {m \in Nat : \A x, y \in Seq(T) :
                             (/\ Len(x) = m /\ ResolvePath(d, x) = ResolvePath(d, y)
                              /\ ResolvePath(d, x) # 0) => x = y}
<1>1. ASSUME NEW x \in Seq(T), x # <<>>, ResolvePath(d, x) # 0
      PROVE  ResolvePath(d, x) # Root
  BY <1>1, ParentIs, IntoIs
<1>2. 0 \in U
  <2> SUFFICES ASSUME NEW x \in Seq(T), NEW y \in Seq(T), Len(x) = 0,
                      ResolvePath(d, x) = ResolvePath(d, y), ResolvePath(d, x) # 0
               PROVE  x = y
    BY DEF U
  <2>1. x = <<>>
    OBVIOUS
  <2>2. ResolvePath(d, x) = Root
    BY <2>1, ResolveRoot
  <2> QED
    BY <1>1, <2>1, <2>2
<1>3. ASSUME NEW m \in Nat, m \in U PROVE m + 1 \in U
  <2> SUFFICES ASSUME NEW x \in Seq(T), NEW y \in Seq(T), Len(x) = m + 1,
                      ResolvePath(d, x) = ResolvePath(d, y), ResolvePath(d, x) # 0
               PROVE  x = y
    BY DEF U
  <2>1. x # <<>>
    OBVIOUS
  <2>2. y # <<>>
    BY <1>1, <2>1, ResolveRoot
  <2>3. /\ ResolvePath(d, x) = Into(d, Parent(d, x), Last(x)) /\ HeadOrNone(d.fat, Parent(d, x))
        /\ ResolvePath(d, y) = Into(d, Parent(d, y), Last(y)) /\ HeadOrNone(d.fat, Parent(d, y))
    BY <2>1, <2>2, ParentIs
  <2>4. Parent(d, x) = Parent(d, y) /\ Last(x) = Last(y) /\ Parent(d, x) # 0
    <3>1. /\ Into(d, Parent(d, x), Last(x)) = Into(d, Parent(d, y), Last(y))
          /\ Into(d, Parent(d, x), Last(x)) # 0
      BY <2>3
    <3> QED
      BY <2>3, <3>1, IntoOnce
  <2>5. /\ Len(x) \in Nat \ {0} /\ Front(x) \in Seq(T) /\ Len(Front(x)) = Len(x) - 1
        /\ \A n \in 1..(Len(x) - 1) : Front(x)[n] = x[n]
        /\ Last(x) = x[Len(x)]
    BY <2>1, FrontIs
  <2>6. /\ Len(y) \in Nat \ {0} /\ Front(y) \in Seq(T) /\ Len(Front(y)) = Len(y) - 1
        /\ \A n \in 1..(Len(y) - 1) : Front(y)[n] = y[n]
        /\ Last(y) = y[Len(y)]
    BY <2>2, FrontIs
  <2>7. Front(x) = Front(y)
    BY <1>3, <2>4, <2>5, <2>6 DEF Parent
  <2>8. Len(x) = Len(y)
    BY <2>5, <2>6, <2>7
  <2>9. \A n \in 1..Len(x) : x[n] = y[n]
    <3> TAKE n \in 1..Len(x)
    <3>1. CASE n = Len(x)
      BY <2>4, <2>5, <2>6, <2>8, <3>1
    <3>2. CASE n # Len(x)
      <4>1. n \in 1..(Len(x) - 1)
        BY <3>2, <2>5
      <4> QED
        BY <2>5, <2>6, <2>7, <2>8, <4>1
    <3> QED
      BY <3>1, <3>2
  <2> QED
    BY <2>8, <2>9, SeqEqual
<1>4. \A m \in Nat : m \in U
  <2> HIDE DEF U
  <2> QED
    BY <1>2, <1>3, NatInd
<1>5. Len(p) \in Nat
  OBVIOUS
<1> QED
  BY <1>4, <1>5

-----------------------------------------------------------------------------

\* A path leads where its last name leads from what its front leads to.
LEMMA ResolveStep ==
  ASSUME NEW d, IsDisk(d), NEW T, NEW p \in Seq(T)
  PROVE  /\ p = <<>> => ResolvePath(d, p) = Root
         /\ p # <<>> => ResolvePath(d, p) = Into(d, ResolvePath(d, Front(p)), Last(p))
<1>1. PICK at : Steps(d, p, at) /\ ResolvePath(d, p) = at[Len(p)]
  BY StepsAre
<1>2. p = <<>> => ResolvePath(d, p) = Root
  BY <1>1 DEF Steps
<1>3. ASSUME p # <<>> PROVE ResolvePath(d, p) = Into(d, ResolvePath(d, Front(p)), Last(p))
  <2> DEFINE q == Front(p)
             m == Len(p) - 1
  <2>1. /\ Len(p) \in Nat \ {0} /\ q \in Seq(T) /\ Len(q) = m
        /\ \A n \in 1..m : q[n] = p[n]
        /\ Last(p) = p[Len(p)]
    BY <1>3, FrontIs
  <2> HIDE DEF q
  <2>2. PICK w : Steps(d, q, w) /\ ResolvePath(d, q) = w[Len(q)]
    BY <2>1, StepsAre
  <2>3. m \in Nat /\ Len(p) = m + 1
    BY <2>1
  <2> HIDE DEF m
  <2> DEFINE X == {n \in Nat : n <= m => w[n] = at[n]}
  <2>4. 0 \in X
    BY <1>1, <2>2 DEF Steps
  <2>5. ASSUME NEW n \in Nat, n \in X PROVE n + 1 \in X
    <3> SUFFICES ASSUME n + 1 <= m PROVE w[n + 1] = at[n + 1]
      OBVIOUS
    <3>1. n + 1 \in 1..m /\ (n + 1) - 1 = n /\ w[n] = at[n]
      BY <2>3, <2>5
    <3>2. w[n + 1] = Into(d, w[n], q[n + 1]) /\ at[n + 1] = Into(d, at[n], p[n + 1])
      BY <1>1, <2>1, <2>2, <2>3, <3>1 DEF Steps
    <3> QED
      BY <2>1, <3>1, <3>2
  <2>6. \A n \in Nat : n \in X
    <3> HIDE DEF X
    <3> QED
      BY <2>4, <2>5, NatInd
  <2>7. w[m] = at[m]
    BY <2>3, <2>6
  <2>8. at[m + 1] = Into(d, at[m], p[m + 1])
    <3>1. m + 1 \in 1..Len(p) /\ (m + 1) - 1 = m
      BY <2>3
    <3> QED
      BY <1>1, <3>1 DEF Steps
  <2> QED
    BY <1>1, <2>1, <2>2, <2>3, <2>7, <2>8 DEF q
<1> QED
  BY <1>2, <1>3

-----------------------------------------------------------------------------
\* The clusters of a chain that can be read are its first ones.
LEMMA ReadablePart ==
  ASSUME NEW ch \in Seq(Entries)
  PROVE  /\ Len(Readable(ch)) \in Nat /\ Len(Readable(ch)) <= Len(ch)
         /\ \A k \in 1..Len(Readable(ch)) : Readable(ch)[k] = ch[k] /\ ch[k] \in 2..LastCluster
<1> DEFINE bad == {k \in DOMAIN ch : ~ OnDisk(ch[k])}
<1>1. Len(Readable(ch)) \in Nat /\ Len(Readable(ch)) <= Len(ch)
  BY ReadableGrows, EntriesAre DEF Root
<1>2. \A k \in 1..Len(Readable(ch)) : Readable(ch)[k] \in 2..LastCluster
  <2> DEFINE rd == Readable(ch)
             S  == 2..LastCluster
  <2>1. rd \in Seq(S)
    BY ReadableIs
  <2> HIDE DEF rd, S
  <2>2. \A k \in 1..Len(rd) : rd[k] \in S
    BY <2>1
  <2> QED
    BY <2>2 DEF rd, S
<1>3. DOMAIN ch = 1..Len(ch) /\ Len(ch) \in Nat /\ \A k \in 1..Len(ch) : ch[k] \in Entries
  OBVIOUS
<1>4. Readable(ch) = IF bad = {} THEN ch ELSE SubSeq(ch, 1, Min(bad) - 1)
  BY DEF Readable
<1>5. CASE bad = {}
  BY <1>1, <1>2, <1>4, <1>5
<1>6. CASE bad # {}
  <2>1. bad \subseteq Nat /\ bad \subseteq 1..Len(ch)
    BY <1>3
  <2>2. Min(bad) \in bad
    BY <1>6, <2>1, MinIs
  <2> HIDE DEF bad
  <2> DEFINE x == Min(bad)
             m == x - 1
  <2>0. Readable(ch) = SubSeq(ch, 1, m) /\ x \in 1..Len(ch)
    BY <1>4, <1>6, <2>1, <2>2
  <2> HIDE DEF x
  <2>3. m \in 0..Len(ch) /\ Readable(ch) = SubSeq(ch, 1, m)
    BY <1>3, <2>0
  <2> HIDE DEF m
  <2>4. \A i \in 1..m : ch[i] \in Entries
    BY <1>3, <2>3
  <2>5. Len(Readable(ch)) = m /\ \A k \in 1..m : Readable(ch)[k] = ch[k]
    BY <1>3, <2>3, <2>4
  <2> QED
    BY <1>1, <1>2, <2>5
<1> QED
  BY <1>5, <1>6

\* The sequence ch begins with s.
Begun(s, ch) == Len(s) <= Len(ch) /\ \A k \in 1..Len(s) : ch[k] = s[k]

\* One more step of Chain along a path.
LEMMA OnwardAlong ==
  ASSUME NEW d, Current(d), NEW c \in Entries, NEW s, IsPath(d.fat, c, s), s # <<>>,
         NEW t \in Seq(Entries), Len(t) < Len(s), \A k \in 1..Len(t) : t[k] = s[k]
  PROVE  LET u == Onward(d, c, t)
         IN  u \in Seq(Entries) /\ Len(u) = Len(t) + 1 /\ \A k \in 1..Len(u) : u[k] = s[k]
<1> DEFINE n    == Len(t)
           next == IF t = <<>> THEN c ELSE FatRead(d, Last(t))
<1>1. /\ s \in Seq(Entries) /\ s[1] = c
      /\ \A i \in 1..(Len(s) - 1) : d.fat[s[i]] = s[i + 1]
  BY DEF IsPath
<1>2. n \in Nat /\ Len(s) \in Nat /\ n + 1 \in 1..Len(s) /\ s[n + 1] \in Entries
  BY <1>1
<1>3. next = s[n + 1]
  <2>1. CASE t = <<>>
    BY <1>1, <2>1
  <2>2. CASE t # <<>>
    <3>1. Last(t) = s[n] /\ n \in 1..(Len(s) - 1)
      BY <1>2, <2>2 DEF Last
    <3>2. FatRead(d, s[n]) = d.fat[s[n]]
      BY ReadIs
    <3> QED
      BY <1>1, <2>2, <3>1, <3>2
  <2> QED
    BY <2>1, <2>2
<1>4. Onward(d, c, t) = IF InChain(next) THEN Append(t, next) ELSE t
  BY DEF Onward
<1>5. InChain(next)
  BY <1>2, <1>3, EntriesAre
<1> HIDE DEF next
<1>6. Onward(d, c, t) = Append(t, s[n + 1])
  BY <1>3, <1>4, <1>5
<1> DEFINE u == Append(t, s[n + 1])
<1>7. u \in Seq(Entries) /\ Len(u) = n + 1 /\ u[n + 1] = s[n + 1] /\ \A k \in 1..n : u[k] = t[k]
  BY <1>2
<1> HIDE DEF u
<1>8. \A k \in 1..Len(u) : u[k] = s[k]
  <2> TAKE k \in 1..Len(u)
  <2>1. k \in 1..n \/ k = n + 1
    BY <1>2, <1>7
  <2> QED
    BY <1>7, <2>1
<1> QED
  BY <1>6, <1>7, <1>8 DEF u

\* Later steps leave what is there.
LEMMA OnwardAfter ==
  ASSUME NEW d, Current(d), NEW c, NEW s \in Seq(Entries), s # <<>>,
         NEW t \in Seq(Entries), Begun(s, t)
  PROVE  LET u == Onward(d, c, t)
         IN  /\ u \in Seq(Entries) /\ Begun(s, u)
             /\ t = s /\ d.fat[s[Len(s)]] \notin Entries => u = s
<1> DEFINE next == IF t = <<>> THEN c ELSE FatRead(d, Last(t))
<1>1. Onward(d, c, t) = IF InChain(next) THEN Append(t, next) ELSE t
  BY DEF Onward
<1>2. ASSUME t = s, d.fat[s[Len(s)]] \notin Entries PROVE ~ InChain(next)
  <2>1. Last(t) = s[Len(s)] /\ t # <<>>
    BY <1>2 DEF Last
  <2>2. next = d.fat[s[Len(s)]]
    BY <2>1, ReadIs
  <2> QED
    BY <1>2, <2>2, EntriesAre
<1>3. InChain(next) <=> next \in Entries
  BY EntriesAre
<1> HIDE DEF next
<1>4. CASE InChain(next)
  <2> DEFINE u == Append(t, next)
  <2>1. u \in Seq(Entries) /\ Len(u) = Len(t) + 1 /\ \A k \in 1..Len(t) : u[k] = t[k]
    BY <1>3, <1>4
  <2>2. Len(s) \in Nat /\ Len(t) \in Nat
    OBVIOUS
  <2> HIDE DEF u
  <2>3. Begun(s, u)
    BY <2>1, <2>2 DEF Begun
  <2> QED
    BY <1>1, <1>2, <1>4, <2>1, <2>3 DEF u
<1>5. CASE ~ InChain(next)
  BY <1>1, <1>5
<1> QED
  BY <1>4, <1>5

\* Chain begins with every path of the FAT, and is the path when it ends there: the
\* FAT may hold anything beyond.
LEMMA ChainBegins ==
  ASSUME NEW d, Current(d), NEW c \in Entries, NEW s, IsPath(d.fat, c, s), s # <<>>, Len(s) <= FatEnd
  PROVE  /\ Chain(d, c) \in Seq(Entries) /\ Begun(s, Chain(d, c))
         /\ d.fat[s[Len(s)]] \notin Entries => Chain(d, c) = s
<1>0. PICK met : Meets(d, c, met)
  BY ChainSteps
<1>1. /\ met \in [0..FatEnd -> Seq(Entries)]
      /\ Chain(d, c) = met[FatEnd] /\ met[0] = <<>>
      /\ \A n \in 1..FatEnd : met[n] = Onward(d, c, met[n - 1])
  BY <1>0 DEF Meets
<1>2. s \in Seq(Entries) /\ FatEnd \in Nat /\ Len(s) \in Nat /\ Len(s) >= 1
  BY EntriesAre DEF IsPath
<1> DEFINE Stop == d.fat[s[Len(s)]] \notin Entries
           P(n, t) == /\ t \in Seq(Entries)
                      /\ n <= Len(s) => Len(t) = n /\ \A k \in 1..n : t[k] = s[k]
                      /\ n >= Len(s) => Begun(s, t) /\ (Stop => t = s)
           T == {n \in Nat : n <= FatEnd => P(n, met[n])}
<1>3. 0 \in T
  <2>1. P(0, <<>>)
    BY <1>2
  <2> QED
    BY <1>1, <2>1
<1>4. ASSUME NEW n \in Nat, n \in T PROVE n + 1 \in T
  <2> SUFFICES ASSUME n + 1 <= FatEnd PROVE P(n + 1, met[n + 1])
    OBVIOUS
  <2> DEFINE t == met[n]
             u == met[n + 1]
  <2>1. n + 1 \in 1..FatEnd /\ (n + 1) - 1 = n /\ P(n, t)
    BY <1>2, <1>4
  <2>2. u = Onward(d, c, t)
    BY <1>1, <2>1
  <2> HIDE DEF t, u, Stop
  <2>3. CASE n < Len(s)
    <3>1. Len(t) = n /\ \A k \in 1..Len(t) : t[k] = s[k]
      BY <1>2, <2>1, <2>3
    <3>2. u \in Seq(Entries) /\ Len(u) = n + 1 /\ \A k \in 1..Len(u) : u[k] = s[k]
      BY <2>1, <2>2, <2>3, <3>1, OnwardAlong
    <3>3. n + 1 >= Len(s) => Begun(s, u) /\ u = s
      <4> HAVE n + 1 >= Len(s)
      <4>1. Len(u) = Len(s)
        BY <1>2, <2>3, <3>2
      <4> QED
        BY <1>2, <3>2, <4>1 DEF Begun
    <3> QED
      BY <3>2, <3>3 DEF u
  <2>4. CASE n >= Len(s)
    <3>1. t \in Seq(Entries) /\ Begun(s, t) /\ (Stop => t = s)
      BY <2>1, <2>4
    <3>2. /\ Onward(d, c, t) \in Seq(Entries) /\ Begun(s, Onward(d, c, t))
          /\ t = s /\ d.fat[s[Len(s)]] \notin Entries => Onward(d, c, t) = s
      <4>1. s \in Seq(Entries) /\ s # <<>> /\ t \in Seq(Entries) /\ Begun(s, t) /\ Current(d)
        BY <1>2, <3>1
      <4>2. LET v == Onward(d, c, t)
            IN  /\ v \in Seq(Entries) /\ Begun(s, v)
                /\ t = s /\ d.fat[s[Len(s)]] \notin Entries => v = s
        BY ONLY <4>1, OnwardAfter
      <4> QED
        BY <4>2
    <3>3. ~ (n + 1 <= Len(s))
      BY <1>2, <2>4
    <3>4. u \in Seq(Entries) /\ Begun(s, u) /\ (Stop => u = s)
      BY <2>2, <3>1, <3>2 DEF Stop
    <3> QED
      BY <3>3, <3>4 DEF u
  <2> QED
    BY <1>2, <2>3, <2>4
<1>5. \A n \in Nat : n \in T
  <2> HIDE DEF T
  <2> QED
    BY <1>3, <1>4, NatInd
<1>6. FatEnd \in T
  BY <1>2, <1>5
<1> QED
  BY <1>1, <1>2, <1>6

\* The part of a chain that can be read begins with the part of its beginning.
LEMMA ReadableBegins ==
  ASSUME NEW s \in Seq(Entries), NEW ch \in Seq(Entries), Begun(s, ch)
  PROVE  Begun(Readable(s), Readable(ch))
<1> DEFINE m   == Len(Readable(s))
           bad == {k \in DOMAIN ch : ~ OnDisk(ch[k])}
<1>1. /\ m \in Nat /\ m <= Len(s)
      /\ \A k \in 1..m : Readable(s)[k] = s[k] /\ s[k] \in 2..LastCluster
  BY ReadablePart
<1>2. /\ Len(Readable(ch)) \in Nat
      /\ \A k \in 1..Len(Readable(ch)) : Readable(ch)[k] = ch[k]
  BY ReadablePart
<1> HIDE DEF m
<1>3. \A k \in 1..m : OnDisk(ch[k]) /\ ch[k] = s[k]
  BY <1>1, EntriesAre DEF Begun
<1>4. m <= Len(Readable(ch))
  <2>1. Readable(ch) = IF bad = {} THEN ch ELSE SubSeq(ch, 1, Min(bad) - 1)
    BY DEF Readable
  <2>2. CASE bad = {}
    BY <1>1, <2>1, <2>2 DEF Begun
  <2>3. CASE bad # {}
    <3>1. bad \subseteq Nat /\ bad \subseteq 1..Len(ch) /\ Len(ch) \in Nat
      OBVIOUS
    <3>2. Min(bad) \in bad
      BY <2>3, <3>1, MinIs
    <3> DEFINE x == Min(bad)
    <3>3. x \in 1..Len(ch) /\ ~ OnDisk(ch[x]) /\ Readable(ch) = SubSeq(ch, 1, x - 1)
      BY <2>1, <2>3, <3>1, <3>2
    <3> HIDE DEF x
    <3>4. ~ (x <= m)
      BY <1>3, <3>3
    <3>5. Len(Readable(ch)) = x - 1
      BY <3>1, <3>3
    <3> QED
      BY <1>1, <3>1, <3>3, <3>4, <3>5
  <2> QED
    BY <2>2, <2>3
<1> QED
  BY <1>1, <1>2, <1>3, <1>4 DEF Begun, m

\* Row i of the k-th cluster of ch is the first of the places S.
IsFirst(ch, S, k, i) ==
  /\ k \in 1..Len(ch) /\ i \in 1..Rows /\ <<ch[k], i>> \in S
  /\ \A l \in 1..Len(ch) : \A j \in 1..Rows : <<ch[l], j>> \in S => k < l \/ (k = l /\ i <= j)

\* FirstOf returns the first, when there is one.
LEMMA FirstOfAt ==
  ASSUME NEW T, NEW ch \in Seq(T), NEW S, NEW k, NEW i, IsFirst(ch, S, k, i)
  PROVE  FirstOf(ch, S) = <<ch[k], i>>
<1> DEFINE ks == {l \in DOMAIN ch : \E j \in 1..Rows : <<ch[l], j>> \in S}
           is == {j \in 1..Rows : <<ch[k], j>> \in S}
<1>0. DOMAIN ch = 1..Len(ch) /\ Len(ch) \in Nat /\ 1..Rows \subseteq Nat
  BY EntriesAre
<1>1. FirstOf(ch, S) = IF ks = {} THEN <<>> ELSE <<ch[Min(ks)], Min({j \in 1..Rows : <<ch[Min(ks)], j>> \in S})>>
  BY DEF FirstOf, FirstIn
<1>2. /\ k \in 1..Len(ch) /\ i \in 1..Rows /\ <<ch[k], i>> \in S /\ k \in Nat /\ i \in Nat
      /\ \A l \in 1..Len(ch) : \A j \in 1..Rows : <<ch[l], j>> \in S => k < l \/ (k = l /\ i <= j)
  BY <1>0 DEF IsFirst
<1>3. Min(ks) = k
  <2>0. ks \subseteq Nat
    BY ONLY <1>0
  <2>4. k \in DOMAIN ch /\ \E j \in 1..Rows : <<ch[k], j>> \in S
    BY <1>0, <1>2
  <2>1. k \in ks /\ ks \subseteq Nat
    BY ONLY <2>0, <2>4
  <2>2. \A l \in ks : k <= l
    <3> TAKE l \in ks
    <3>1. l \in 1..Len(ch) /\ \E j \in 1..Rows : <<ch[l], j>> \in S
      BY ONLY <1>0, l \in ks
    <3>2. PICK j \in 1..Rows : <<ch[l], j>> \in S
      BY <3>1
    <3>3. k < l \/ k = l
      BY <1>2, <3>1, <3>2
    <3> QED
      BY <1>0, <1>2, <3>1, <3>3
  <2> HIDE DEF ks
  <2> DEFINE m == Min(ks)
  <2>3. m \in ks /\ \A y \in ks : m <= y
    BY <2>1, MinIs
  <2> HIDE DEF m
  <2>6. m <= k /\ k <= m /\ m \in Nat
    BY <2>1, <2>2, <2>3
  <2>5. m = k
    BY <1>2, <2>6
  <2> QED
    BY <2>5 DEF m
<1>5. Min(is) = i
  <2>1. i \in is /\ is \subseteq Nat
    BY <1>0, <1>2
  <2>2. \A j \in is : i <= j
    BY <1>0, <1>2
  <2> HIDE DEF is
  <2> DEFINE m == Min(is)
  <2>3. m \in is /\ \A y \in is : m <= y
    BY <2>1, MinIs
  <2> HIDE DEF m
  <2>4. m <= i /\ i <= m /\ m \in Nat
    BY <2>1, <2>2, <2>3
  <2>5. m = i
    BY <1>2, <2>4
  <2> QED
    BY <2>5 DEF m
<1>6. ks # {}
  BY <1>0, <1>2
<1> HIDE DEF ks
<1> QED
  BY <1>1, <1>3, <1>5, <1>6

\* And it returns one that is the first.
LEMMA FirstOfFirst ==
  ASSUME NEW T, NEW ch \in Seq(T), NEW S
  PROVE  \/ /\ FirstOf(ch, S) = <<>>
            /\ \A l \in 1..Len(ch) : \A j \in 1..Rows : <<ch[l], j>> \notin S
         \/ \E k, i : IsFirst(ch, S, k, i) /\ FirstOf(ch, S) = <<ch[k], i>>
<1> DEFINE ks == {l \in DOMAIN ch : \E j \in 1..Rows : <<ch[l], j>> \in S}
<1>0. DOMAIN ch = 1..Len(ch) /\ Len(ch) \in Nat /\ 1..Rows \subseteq Nat /\ ks \subseteq Nat
  BY EntriesAre
<1>1. CASE ks = {}
  <2>1. FirstOf(ch, S) = <<>>
    BY <1>1 DEF FirstOf
  <2> QED
    BY <1>0, <1>1, <2>1
<1>2. CASE ks # {}
  <2>1. Min(ks) \in ks /\ \A y \in ks : Min(ks) <= y
    <3> HIDE DEF ks
    <3> QED
      BY <1>0, <1>2, MinIs
  <2> DEFINE k  == Min(ks)
             is == {j \in 1..Rows : <<ch[k], j>> \in S}
  <2>2. k \in 1..Len(ch) /\ \A l \in 1..Len(ch) : \A j \in 1..Rows : <<ch[l], j>> \in S => k <= l
    BY <1>0, <2>1
  <2>3. \E j \in 1..Rows : <<ch[k], j>> \in S
    BY <2>1
  <2> HIDE DEF k
  <2>4. is # {} /\ is \subseteq Nat
    BY <1>0, <2>3
  <2>5. Min(is) \in is /\ \A y \in is : Min(is) <= y
    <3> HIDE DEF is
    <3> QED
      BY <2>4, MinIs
  <2> DEFINE i == Min(is)
  <2>6. i \in 1..Rows /\ <<ch[k], i>> \in S /\ \A j \in 1..Rows : <<ch[k], j>> \in S => i <= j
    BY <2>5
  <2> HIDE DEF i
  <2>7. IsFirst(ch, S, k, i)
    BY <1>0, <2>2, <2>6 DEF IsFirst
  <2> QED
    BY <2>7, FirstOfAt
<1> QED
  BY <1>1, <1>2

\* The rows at which a search for n ends.
Hit(row, n) == row = Zero \/ (row.kind = "entry" /\ row.name = n)
Hits(d, ch, n) == {pl \in PlacesOf(ch) : Hit(RowAt(d, pl), n)}

\* A search by those rows.
LEMMA FindInHits ==
  ASSUME NEW d, NEW ch, NEW n
  PROVE  FindIn(d, ch, n) = IfUsed(d, FirstOf(ch, Hits(d, ch, n)))
BY DEF FindIn, Hits, Hit

\* A row of a chain is one of its places.
LEMMA PlaceIn ==
  ASSUME NEW T, NEW ch \in Seq(T), NEW k \in 1..Len(ch), NEW i \in 1..Rows
  PROVE  <<ch[k], i>> \in PlacesOf(ch)
<1>1. ch[k] \in ToSet(ch)
  BY ToSetIs
<1> QED
  BY <1>1 DEF PlacesOf

(***************************************************************************)
(* A chain is freed, cluster by cluster.                                   *)
(***************************************************************************)
LEMMA FreeAllSteps ==
  ASSUME NEW d, Good(d), NEW ch \in Seq(Entries)
  PROVE  \E w : /\ FreeAll(d, ch) = w[Len(ch)] /\ w[0] = d
                /\ \A n \in 1..Len(ch) : w[n] = FatWrite(w[n - 1], ch[n], 0)
<1> DEFINE S == {x \in Works : Good(x)}
           m == Len(ch)
           g == [x \in S \X (1..m) |-> FatWrite(x[1], ch[x[2]], 0)]
           IsRun(f) == f = [n \in 0..m |-> IF n = 0 THEN d ELSE FatWrite(f[n - 1], ch[n], 0)]
<1>1. \A x \in S : \A n \in 1..m : g[<<x, n>>] = FatWrite(x, ch[n], 0) /\ g[<<x, n>>] \in S
  <2> TAKE x \in S
  <2> TAKE n \in 1..m
  <2>1. ch[n] \in Entries /\ 0 \in Links0
    BY DEF Links0
  <2>2. FatWrite(x, ch[n], 0) \in S
    BY <2>1, FatWriteIs, GoodFields
  <2> HIDE DEF S
  <2>3. <<x, n>> \in S \X (1..m) /\ <<x, n>>[1] = x /\ <<x, n>>[2] = n
    OBVIOUS
  <2>4. g[<<x, n>>] = FatWrite(x, ch[n], 0)
    BY <2>3
  <2> QED
    BY <2>2, <2>4
<1>2. d \in S /\ m \in Nat
  BY GoodFields
<1> HIDE DEF S, g, m
<1>3. PICK w : IsTurns(w, S, d, g, m)
  BY <1>1, <1>2, Turns
<1>4. w \in [0..m -> S] /\ w[0] = d /\ \A n \in 1..m : w[n] = g[<<w[n - 1], n>>]
  BY <1>3 DEF IsTurns
<1>5. \A n \in 1..m : w[n] = FatWrite(w[n - 1], ch[n], 0)
  <2> TAKE n \in 1..m
  <2>1. n - 1 \in 0..m
    BY <1>2
  <2> QED
    BY <1>1, <1>4, <2>1
<1>6. w = [n \in 0..m |-> IF n = 0 THEN d ELSE FatWrite(w[n - 1], ch[n], 0)]
  <2>1. \A n \in 0..m : w[n] = IF n = 0 THEN d ELSE FatWrite(w[n - 1], ch[n], 0)
    BY <1>2, <1>4, <1>5
  <2>2. w = [n \in 0..m |-> w[n]]
    BY <1>4
  <2> QED
    BY <2>1, <2>2, Zenon
<1>7. \E f : IsRun(f)
  BY <1>6
<1> DEFINE f == CHOOSE x : IsRun(x)
<1>8. IsRun(f) /\ FreeAll(d, ch) = f[m]
  BY <1>7, Zenon DEF FreeAll, m
<1> HIDE DEF f
<1>9. \A n \in 0..m : f[n] = IF n = 0 THEN d ELSE FatWrite(f[n - 1], ch[n], 0)
  BY <1>8, Zenon
<1>10. f[0] = d /\ \A n \in 1..m : f[n] = FatWrite(f[n - 1], ch[n], 0)
  <2>1. 0 \in 0..m /\ \A n \in 1..m : n \in 0..m /\ n # 0
    BY <1>2
  <2> QED
    BY <1>9, <2>1
<1> QED
  BY <1>8, <1>10 DEF m

\* The loop of fat_free_chain over a chain clears this chain.
LEMMA FreeAllIs ==
  ASSUME NEW d, Good(d), NEW ch \in Seq(Entries)
  PROVE  LET e == FreeAll(d, ch)
         IN  Good(e) /\ e.fat = Freed(d.fat, ToSet(ch)) /\ e.data = d.data /\ e.ok = d.ok
<1>1. PICK w : /\ FreeAll(d, ch) = w[Len(ch)] /\ w[0] = d
               /\ \A n \in 1..Len(ch) : w[n] = FatWrite(w[n - 1], ch[n], 0)
  BY FreeAllSteps
<1> DEFINE P(n) == {ch[k] : k \in 1..n}
           Is(x, n) == Good(x) /\ x.fat = Freed(d.fat, P(n)) /\ x.data = d.data /\ x.ok = d.ok
           T == {n \in Nat : n <= Len(ch) => Is(w[n], n)}
<1>2. 0 \in T
  <2>1. d.fat = Freed(d.fat, {})
    <3>1. d.fat = [x \in Entries |-> d.fat[x]]
      BY GoodFields DEF Fats
    <3> QED
      BY <3>1 DEF Freed
  <2>2. P(0) = {}
    OBVIOUS
  <2> QED
    BY <1>1, <2>1, <2>2
<1>3. ASSUME NEW n \in Nat, n \in T PROVE n + 1 \in T
  <2> SUFFICES ASSUME n + 1 <= Len(ch) PROVE Is(w[n + 1], n + 1)
    OBVIOUS
  <2> DEFINE x == w[n]
             c == ch[n + 1]
             e == FatWrite(x, c, 0)
  <2>1. w[n + 1] = e /\ Is(x, n) /\ c \in Entries /\ 0 \in Links0
    <3>1. n + 1 \in 1..Len(ch) /\ (n + 1) - 1 = n /\ n <= Len(ch)
      OBVIOUS
    <3>2. Is(x, n)
      BY <1>3, <3>1
    <3>3. w[n + 1] = e
      BY <1>1, <3>1
    <3> QED
      BY <3>1, <3>2, <3>3 DEF Links0
  <2>2. P(n + 1) = P(n) \cup {c}
    OBVIOUS
  <2> HIDE DEF P, x, c
  <2>3. Good(e) /\ e.fat = [x.fat EXCEPT ![c] = 0] /\ e.data = x.data /\ e.ok = x.ok
    BY <2>1, FatWriteIs
  <2> HIDE DEF e
  <2>4. [x.fat EXCEPT ![c] = 0] = Freed(d.fat, P(n + 1))
    BY <2>1, <2>2 DEF Freed
  <2> QED
    BY <2>1, <2>3, <2>4
<1>4. \A n \in Nat : n \in T
  <2> HIDE DEF T
  <2> QED
    BY <1>2, <1>3, NatInd
<1>5. Len(ch) \in Nat /\ P(Len(ch)) = ToSet(ch)
  BY ToSetIs
<1>6. Is(w[Len(ch)], Len(ch))
  <2>1. Len(ch) \in T
    <3> HIDE DEF T
    <3> QED
      BY <1>4, <1>5
  <2> HIDE DEF Is
  <2> QED
    BY <1>5, <2>1
<1> QED
  BY <1>1, <1>5, <1>6

\* Nothing is freed from 0 on.
LEMMA FreeNone ==
  ASSUME NEW d, Good(d), NEW c, c \notin Entries
  PROVE  FatFreeChain(d, c) = d
<1>1. ASSUME NEW ch \in Seq(Entries), Len(ch) = 0 PROVE FreeAll(d, ch) = d
  <2>1. PICK w : /\ FreeAll(d, ch) = w[Len(ch)] /\ w[0] = d
                 /\ \A n \in 1..Len(ch) : w[n] = FatWrite(w[n - 1], ch[n], 0)
    BY FreeAllSteps
  <2> QED
    BY <1>1, <2>1
<1>2. Chain(d, c) = <<>> /\ <<>> \in Seq(Entries) /\ Len(<<>>) = 0
  BY ChainEmpty
<1> QED
  BY <1>1, <1>2 DEF FatFreeChain

\* fat_free_chain clears the chain of its head.
LEMMA FreeChainIs ==
  ASSUME NEW d, Good(d), Links(d.fat), NEW c, IsHead(d.fat, c)
  PROVE  LET e == FatFreeChain(d, c)
         IN  /\ Good(e) /\ e.fat = Freed(d.fat, ClustersOf(d.fat, c))
             /\ e.data = d.data /\ e.ok = d.ok
<1>1. Chain(d, c) = ChainIn(d.fat, c) /\ Chain(d, c) \in Seq(Entries)
  BY ReadableChain, GoodDisk
<1> QED
  BY <1>1, FreeAllIs DEF FatFreeChain, ClustersOf

-----------------------------------------------------------------------------
(***************************************************************************)
(* An entry is removed.                                                    *)
(***************************************************************************)
LEMMA SetRowRow ==
  ASSUME NEW d, Good(d), NEW pl \in Places, NEW row \in RowSet
  PROVE  LET e == SetRow(d, pl, row)
         IN  /\ Good(e) /\ e.fat = d.fat /\ e.ok = d.ok /\ RowIn(e.data, pl) = row
             /\ \A x \in Places \ {pl} : RowIn(e.data, x) = RowIn(d.data, x)
<1> DEFINE e == SetRow(d, pl, row)
<1>1. PICK c \in 2..LastCluster, i \in 1..Rows : pl = <<c, i>>
  BY DEF Places
<1>2. d.data \in Datas
  BY GoodFields
<1> DEFINE data == Put(d.data, c, i, row)
<1>3. Good(e) /\ e.fat = d.fat /\ e.ok = d.ok /\ e.data = data
  BY <1>1, SetRowIs
<1>4. /\ data[c][i] = row
      /\ \A b \in 2..LastCluster : \A j \in 1..Rows : b # c \/ j # i => data[b][j] = d.data[b][j]
  BY <1>2 DEF Datas, Clusters, Put
<1> HIDE DEF e, data
<1>5. \A x \in Places \ {pl} : RowIn(data, x) = RowIn(d.data, x)
  <2> TAKE x \in Places \ {pl}
  <2>1. PICK b \in 2..LastCluster, j \in 1..Rows : x = <<b, j>>
    BY DEF Places
  <2>2. b # c \/ j # i
    BY <1>1, <2>1
  <2> QED
    BY <1>4, <2>1, <2>2 DEF RowIn
<1>6. RowIn(data, pl) = row
  BY <1>1, <1>4 DEF RowIn
<1> QED
  BY <1>3, <1>5, <1>6 DEF e

\* delete_entry_in_dir marks one row.
LEMMA DeleteEntryIs ==
  ASSUME NEW d, Good(d), NEW dir, NEW n,
         FindEntry(d, dir, n) = <<>> \/ FindEntry(d, dir, n) \in Places
  PROVE  LET e  == DeleteEntry(d, dir, n)
             pl == FindEntry(d, dir, n)
         IN  /\ Good(e) /\ e.fat = d.fat /\ e.ok = d.ok
             /\ pl = <<>> => e = d
             /\ pl # <<>> => RowIn(e.data, pl) = Gone
             /\ \A x \in Places \ {pl} : RowIn(e.data, x) = RowIn(d.data, x)
<1> DEFINE pl == FindEntry(d, dir, n)
<1>1. DeleteEntry(d, dir, n) = IF pl = <<>> THEN d ELSE SetRow(d, pl, Gone)
  BY DEF DeleteEntry
<1>2. pl = <<>> \/ pl \in Places
  OBVIOUS
<1> HIDE DEF pl
<1>3. CASE pl = <<>>
  BY <1>1, <1>3 DEF pl
<1>4. CASE pl # <<>>
  <2>1. pl \in Places /\ Gone \in RowSet /\ DeleteEntry(d, dir, n) = SetRow(d, pl, Gone)
    BY <1>1, <1>2, <1>4, RowKinds
  <2> DEFINE e == SetRow(d, pl, Gone)
  <2>2. /\ Good(e) /\ e.fat = d.fat /\ e.ok = d.ok /\ RowIn(e.data, pl) = Gone
        /\ \A x \in Places \ {pl} : RowIn(e.data, x) = RowIn(d.data, x)
    BY <2>1, SetRowRow
  <2> HIDE DEF e
  <2>3. DeleteEntry(d, dir, n) = e
    BY <2>1 DEF e
  <2> QED
    BY <1>4, <2>2, <2>3 DEF pl
<1> QED
  BY <1>3, <1>4

\* The entry that stood in the way of a sound disk goes.
LEMMA Removed ==
  ASSUME NEW d, Good(d), NEW L, Sound(d.fat, d.data, L), NEW dir, HeadOrNone(d.fat, dir), NEW n,
         Used(d.fat) \subseteq L \cup {FindEntry(d, dir, n)}
  PROVE  LET e == DeleteEntry(d, dir, n)
         IN  Good(e) /\ Healthy(e) /\ e.fat = d.fat /\ e.ok = d.ok
<1> DEFINE e  == DeleteEntry(d, dir, n)
           pl == FindEntry(d, dir, n)
<1>1. Links(d.fat) /\ IsDisk(d)
  BY GoodDisk DEF Sound
<1>2. pl = <<>> \/ EntryPlace(d, dir, n, pl)
  BY <1>1, FindEntryIs
<1>3. pl = <<>> \/ pl \in Places
  BY <1>2 DEF EntryPlace
<1>4. /\ Good(e) /\ e.fat = d.fat /\ e.ok = d.ok
      /\ pl = <<>> => e = d
      /\ pl # <<>> => RowIn(e.data, pl) = Gone
      /\ \A x \in Places \ {pl} : RowIn(e.data, x) = RowIn(d.data, x)
  BY <1>3, DeleteEntryIs
<1>5. Used(d.fat) \subseteq L \cup {pl} /\ Used(d.fat) \subseteq Places
  BY DEF Used
<1> HIDE DEF e, pl
<1>6. \A x \in Used(d.fat) : ~ IsEntry(e.data, x) \/ (x \in L /\ RowIn(e.data, x) = RowIn(d.data, x))
  <2> TAKE x \in Used(d.fat)
  <2>1. CASE x = pl
    <3>1. pl # <<>>
      <4>1. \A y \in Places : \E c, i : y = <<c, i>>
        BY DEF Places
      <4> QED
        BY <2>1, <1>5, <4>1, PlaceIs
    <3> QED
      BY <1>4, <2>1, <3>1, RowKinds DEF IsEntry
  <2>2. CASE x # pl
    BY <1>4, <1>5, <2>2
  <2> QED
    BY <2>1, <2>2
<1>7. IsDisk(e) /\ e.data \in Datas
  BY <1>4, GoodDisk DEF IsDisk
<1>8. Sound(d.fat, e.data, Used(d.fat))
  BY <1>5, <1>6, <1>7, RowsSound
<1> QED
  BY <1>4, <1>7, <1>8 DEF Healthy, e

\* A file goes: its chain is freed, then its entry is removed.
LEMMA Unlinked ==
  ASSUME NEW d, Good(d), Healthy(d), NEW dir, HeadOrNone(d.fat, dir), NEW n,
         Into(d, dir, n) # 0 => Into(d, dir, n) # dir
  PROVE  LET c == Into(d, dir, n)
             f == DeleteEntry(FatFreeChain(d, c), dir, n)
         IN  /\ Good(f) /\ Healthy(f) /\ f.ok = d.ok /\ HeadOrNone(f.fat, dir)
             /\ c = 0 => f.fat = d.fat
             /\ c # 0 => f.fat = Freed(d.fat, ClustersOf(d.fat, c))
<1> DEFINE c  == Into(d, dir, n)
           e  == FatFreeChain(d, c)
           f  == DeleteEntry(e, dir, n)
           pl == FindEntry(d, dir, n)
<1>1. Links(d.fat) /\ IsDisk(d) /\ Sound(d.fat, d.data, Used(d.fat))
  BY HealthyIs
<1>2. CASE c = 0
  <2>1. e = d
    BY <1>2, EntriesAre, FreeNone
  <2> HIDE DEF c, e
  <2>2. Good(f) /\ Healthy(f) /\ f.fat = d.fat /\ f.ok = d.ok
    BY <1>1, <2>1, Removed
  <2> HIDE DEF f
  <2> QED
    BY <1>2, <2>2 DEF c, e, f
<1>3. CASE c # 0
  <2>1. /\ IsHead(d.fat, c) /\ c # Root /\ pl # <<>> /\ c \in Entries
        /\ EntryPlace(d, dir, n, pl) /\ Names(d.data, pl, c)
    BY <1>3, IntoIs DEF IsHead
  <2>2. IsHead(d.fat, dir) /\ dir # c
    BY <1>3, <2>1 DEF EntryPlace
  <2> HIDE DEF c, pl
  <2> DEFINE fat2 == Freed(d.fat, ClustersOf(d.fat, c))
             L == Used(d.fat) \ {pl}
  <2>3. Good(e) /\ e.fat = fat2 /\ e.data = d.data /\ e.ok = d.ok
    BY <1>1, <2>1, FreeChainIs
  <2>4. \A x \in L : ~ Names(d.data, x, c)
    <3>1. pl \in Used(d.fat)
      BY <2>1 DEF EntryPlace
    <3> QED
      BY <1>1, <2>1, <3>1 DEF Sound
  <2>5. Sound(d.fat, d.data, L)
    BY <1>1, SoundFewer
  <2> HIDE DEF L
  <2>6. Sound(fat2, d.data, L)
    BY <2>1, <2>4, <2>5, FreedSound
  <2>7. /\ Links(fat2) /\ IsHead(fat2, dir) /\ ChainIn(fat2, dir) = ChainIn(d.fat, dir)
    BY <1>1, <2>1, <2>2, FreedLinks
  <2>8. Used(fat2) \subseteq Used(d.fat)
    <3>1. \A x \in Entries : fat2[x] # 0 => d.fat[x] # 0
      BY DEF Freed
    <3>2. \A x \in Places : x[1] \in Entries
      BY EntriesAre DEF Places
    <3> HIDE DEF fat2
    <3> QED
      BY <3>1, <3>2 DEF Used
  <2> HIDE DEF fat2, e
  <2>9. FindEntry(e, dir, n) = pl
    <3>1. IsDisk(e)
      BY <2>3, GoodDisk
    <3> QED
      BY <1>1, <2>2, <2>3, <2>7, <3>1, FindEntrySame DEF pl
  <2>10. Used(e.fat) \subseteq L \cup {FindEntry(e, dir, n)}
    BY <2>3, <2>8, <2>9 DEF L
  <2>11. HeadOrNone(e.fat, dir) /\ Sound(e.fat, e.data, L)
    BY <2>3, <2>6, <2>7 DEF HeadOrNone
  <2>12. Good(f) /\ Healthy(f) /\ f.fat = e.fat /\ f.ok = e.ok
    BY <2>3, <2>10, <2>11, Removed
  <2> HIDE DEF f
  <2>13. f.fat = fat2 /\ HeadOrNone(f.fat, dir) /\ f.ok = d.ok
    BY <2>3, <2>11, <2>12
  <2> QED
    BY <1>3, <2>12, <2>13 DEF fat2, c, e, f
<1> QED
  BY <1>2, <1>3

\* A path and its parent lead to different clusters.
LEMMA ParentApart ==
  ASSUME NEW d, Healthy(d), NEW T, NEW p \in Seq(T), p # <<>>, ResolvePath(d, p) # 0
  PROVE  ResolvePath(d, p) # Parent(d, p)
<1>1. PICK at : Leads(d, p, at)
  BY ResolveSteps
<1>2. Len(p) \in Nat \ {0}
  BY FrontIs
<1>3. ResolvePath(d, p) = at[Len(p)] /\ Parent(d, p) = at[Len(p) - 1]
  BY <1>1, ResolveIs DEF Parent
<1>4. \A i, j \in 0..Len(p) : i < j /\ at[j] # 0 => at[i] # at[j]
  BY <1>1, <1>2, WayDistinct
<1>5. Len(p) \in 0..Len(p) /\ Len(p) - 1 \in 0..Len(p) /\ Len(p) - 1 < Len(p)
  BY <1>2
<1> QED
  BY <1>3, <1>4, <1>5

\* A file's chain is freed and its entry marked: the rest is sound.
LEMMA FileGone ==
  ASSUME NEW d, Good(d), Healthy(d), NEW T, NEW p \in Seq(T), p # <<>>
  PROVE  LET f == DeleteEntry(FatFreeChain(d, ResolvePath(d, p)), Parent(d, p), Last(p))
         IN  Good(f) /\ Healthy(f) /\ f.ok = d.ok /\ HeadOrNone(f.fat, Parent(d, p))
<1> DEFINE c   == ResolvePath(d, p)
           dir == Parent(d, p)
           n   == Last(p)
<1>1. c = Into(d, dir, n) /\ HeadOrNone(d.fat, dir)
  BY ParentIs
<1>2. c # 0 => c # dir
  BY ParentApart
<1> HIDE DEF c, dir, n
<1> DEFINE f == DeleteEntry(FatFreeChain(d, Into(d, dir, n)), dir, n)
<1>3. Good(f) /\ Healthy(f) /\ f.ok = d.ok /\ HeadOrNone(f.fat, dir)
  BY <1>1, <1>2, Unlinked
<1>4. f = DeleteEntry(FatFreeChain(d, c), dir, n)
  BY <1>1
<1> HIDE DEF f
<1> QED
  BY <1>3, <1>4 DEF c, dir, n

-----------------------------------------------------------------------------
(***************************************************************************)
(* A chain is made, cluster by cluster.                                    *)
(***************************************************************************)
Growing(d, a) ==
  /\ Good(a.d) /\ Links(a.d.fat) /\ a.d.data = d.data /\ a.d.ok = d.ok
  /\ \A x \in ToSet(a.ch) : d.fat[x] = 0
  /\ \A x \in Entries \ ToSet(a.ch) : a.d.fat[x] = d.fat[x]
  /\ \A h : IsHead(d.fat, h) => IsHead(a.d.fat, h) /\ ChainIn(a.d.fat, h) = ChainIn(d.fat, h)
  /\ a.ch # <<>> => IsHead(a.d.fat, a.ch[1]) /\ ChainIn(a.d.fat, a.ch[1]) = a.ch

Makings == [d : Works, ch : Seq(Entries), full : BOOLEAN]

\* One more element.
LEMMA AppendIs ==
  ASSUME NEW T, NEW s \in Seq(T), NEW x \in T
  PROVE  /\ Append(s, x) \in Seq(T) /\ Append(s, x) # <<>> /\ Len(Append(s, x)) = Len(s) + 1
         /\ ToSet(Append(s, x)) = ToSet(s) \cup {x}
         /\ s # <<>> => Append(s, x)[1] = s[1]
         /\ s = <<>> => Append(s, x)[1] = x
<1> DEFINE t == Append(s, x)
<1>1. /\ t \in Seq(T) /\ Len(t) = Len(s) + 1 /\ t[Len(s) + 1] = x /\ Len(s) \in Nat
      /\ \A i \in 1..Len(s) : t[i] = s[i]
  OBVIOUS
<1> HIDE DEF t
<1>2. ToSet(t) = {t[i] : i \in 1..Len(t)} /\ ToSet(s) = {s[i] : i \in 1..Len(s)}
  BY <1>1, ToSetIs
<1>3. \A i : i \in 1..(Len(s) + 1) <=> i \in 1..Len(s) \/ i = Len(s) + 1
  BY <1>1
<1>4. ToSet(t) = ToSet(s) \cup {x}
  BY <1>1, <1>2, <1>3
<1>5. s # <<>> => Len(s) >= 1
  OBVIOUS
<1> QED
  BY <1>1, <1>4, <1>5 DEF t

\* One turn of the loop of fat32_write that allocates.
LEMMA GrowIs ==
  ASSUME NEW d, Good(d), Links(d.fat), NEW a \in Makings, Growing(d, a)
  PROVE  /\ Grow(a) \in Makings /\ Growing(d, Grow(a))
         /\ Grow(a).full \/ (~ a.full /\ Len(Grow(a).ch) = Len(a.ch) + 1)
<1> DEFINE c == FatFindFree(a.d)
           e == FatWrite(a.d, c, Eoc)
           f == IF a.ch = <<>> THEN e ELSE FatWrite(e, Last(a.ch), c)
           b == [a EXCEPT !.d = f, !.ch = Append(a.ch, c)]
<1>1. CASE a.full \/ c = 0
  <2>1. Grow(a) = [a EXCEPT !.full = TRUE]
    BY <1>1 DEF Grow
  <2> HIDE DEF c
  <2>2. Grow(a) \in Makings /\ Grow(a).d = a.d /\ Grow(a).ch = a.ch /\ Grow(a).full = TRUE
    BY <2>1 DEF Makings
  <2> QED
    BY <2>2 DEF Growing
<1>2. CASE ~ (a.full \/ c = 0)
  <2>1. Grow(a) = b
    BY <1>2 DEF Grow
  <2>2. c \in Entries /\ a.d.fat[c] = 0
    BY <1>2, FindFreeIs DEF Growing
  <2> HIDE DEF c
  <2>3. Eoc \in Links0 /\ c \in Links0
    BY <2>2 DEF Links0
  <2> DEFINE fat == [a.d.fat EXCEPT ![c] = Eoc]
  <2>4. Good(e) /\ e.fat = fat /\ e.data = d.data /\ e.ok = d.ok
    BY <2>2, <2>3, FatWriteIs DEF Growing
  <2>5. /\ Links(fat) /\ IsHead(fat, c) /\ ChainIn(fat, c) = <<c>>
        /\ \A h : IsHead(a.d.fat, h) => h # c /\ IsHead(fat, h) /\ ChainIn(fat, h) = ChainIn(a.d.fat, h)
    BY <2>2, TakenLinks DEF Growing
  <2>6. a.d.fat \in Fats /\ fat \in Fats /\ fat[c] = Eoc /\ \A x \in Entries \ {c} : fat[x] = a.d.fat[x]
    BY <2>2, <2>5 DEF Growing, Links, Fats
  <2> HIDE DEF e, fat
  <2>7. /\ a.ch \in Seq(Entries) /\ a.full \in BOOLEAN /\ a.d \in Works
    BY DEF Makings
  <2>8. /\ Append(a.ch, c) \in Seq(Entries) /\ Append(a.ch, c) # <<>>
        /\ Len(Append(a.ch, c)) = Len(a.ch) + 1
        /\ ToSet(Append(a.ch, c)) = ToSet(a.ch) \cup {c}
        /\ a.ch # <<>> => Append(a.ch, c)[1] = a.ch[1]
        /\ a.ch = <<>> => Append(a.ch, c)[1] = c
    BY <2>2, <2>7, AppendIs
  <2>9. d.fat[c] = 0
    BY <2>2 DEF Growing
  <2>10. CASE a.ch = <<>>
    <3>1. f = e
      BY <2>10
    <3>2. Append(a.ch, c) = <<c>>
      BY <2>10
    <3>3. /\ \A h : IsHead(d.fat, h) => IsHead(fat, h) /\ ChainIn(fat, h) = ChainIn(d.fat, h)
          /\ \A x \in Entries \ {c} : fat[x] = d.fat[x]
      <4>1. ToSet(a.ch) = {}
        BY <2>10, ToSetEmpty
      <4> QED
        BY <2>5, <2>6, <4>1 DEF Growing
    <3>4. ToSet(a.ch) = {}
      BY <2>10, ToSetEmpty
    <3>5. b.d = e /\ b.ch = Append(a.ch, c) /\ b.full = FALSE /\ b \in Makings
      BY <1>2, <2>4, <2>7, <2>8, <3>1, GoodFields DEF Makings
    <3> HIDE DEF b
    <3>6. Growing(d, b)
      BY <2>4, <2>5, <2>8, <2>9, <3>2, <3>3, <3>4, <3>5 DEF Growing
    <3> QED
      BY <1>2, <2>1, <2>8, <3>5, <3>6
  <2>11. CASE a.ch # <<>>
    <3> DEFINE h == a.ch[1]
               z == Last(a.ch)
               fat2 == Joined(fat, h, c)
    <3>1. f = FatWrite(e, z, c)
      BY <2>11
    <3>2. /\ IsHead(a.d.fat, h) /\ ChainIn(a.d.fat, h) = a.ch /\ h # c
          /\ IsHead(fat, h) /\ ChainIn(fat, h) = a.ch
      BY <2>5, <2>11 DEF Growing
    <3>3. z \in Entries /\ z \in ToSet(a.ch)
      BY <2>5, <3>2, ClustersAre DEF ClustersOf
    <3>4. c # Root
      BY <2>2, EntriesAre DEF Growing, Links
    <3>5. Good(f) /\ f.fat = fat2 /\ f.data = d.data /\ f.ok = d.ok
      <4>1. Good(f) /\ f.fat = [fat EXCEPT ![z] = c] /\ f.data = d.data /\ f.ok = d.ok
        BY <2>3, <2>4, <3>1, <3>3, FatWriteIs
      <4>2. fat2 = [fat EXCEPT ![z] = c]
        BY <3>2 DEF Joined
      <4> QED
        BY <4>1, <4>2
    <3>6. /\ Links(fat2) /\ IsHead(fat2, h) /\ ChainIn(fat2, h) = Append(a.ch, c)
          /\ \A k : IsHead(fat, k) /\ k # c /\ k # h => IsHead(fat2, k) /\ ChainIn(fat2, k) = ChainIn(fat, k)
      BY <2>5, <2>6, <3>2, <3>4, JoinedLinks
    <3>7. \A x \in Entries \ {z} : fat2[x] = fat[x]
      BY <2>6, <3>2, <3>3 DEF Joined, Fats
    <3>8. d.fat[h] = 0
      <4>1. h \in ToSet(a.ch)
        BY <2>7, <2>11, ToSetIs
      <4> QED
        BY <4>1 DEF Growing
    <3> HIDE DEF fat2, h, z, f
    <3>9. \A k : IsHead(d.fat, k) => IsHead(fat2, k) /\ ChainIn(fat2, k) = ChainIn(d.fat, k)
      <4> TAKE k
      <4> HAVE IsHead(d.fat, k)
      <4>1. k # c /\ k # h
        BY <2>9, <3>8 DEF IsHead
      <4>2. IsHead(fat, k) /\ ChainIn(fat, k) = ChainIn(d.fat, k)
        BY <2>5 DEF Growing
      <4> QED
        BY <3>6, <4>1, <4>2
    <3>10. \A x \in Entries \ (ToSet(a.ch) \cup {c}) : fat2[x] = d.fat[x]
      BY <2>6, <3>3, <3>7 DEF Growing
    <3>11. \A x \in ToSet(a.ch) \cup {c} : d.fat[x] = 0
      BY <2>9 DEF Growing
    <3>12. b.d = f /\ b.ch = Append(a.ch, c) /\ b.full = FALSE /\ b \in Makings
      BY <1>2, <2>7, <2>8, <3>5, GoodFields DEF Makings
    <3> HIDE DEF b
    <3>13. Append(a.ch, c)[1] = h
      BY <2>8, <2>11 DEF h
    <3>14. Growing(d, b)
      BY <2>8, <3>5, <3>6, <3>9, <3>10, <3>11, <3>12, <3>13 DEF Growing
    <3> QED
      BY <1>2, <2>1, <2>8, <3>12, <3>14
  <2> QED
    BY <2>10, <2>11
<1> QED
  BY <1>1, <1>2

\* All its turns.
LEMMA AllocSteps ==
  ASSUME NEW d, Good(d), Links(d.fat), NEW m \in Nat
  PROVE  \E w : /\ AllocChain(d, m) = w[m] /\ w[0] = [d |-> d, ch |-> <<>>, full |-> FALSE]
                /\ \A n \in 1..m : w[n] = Grow(w[n - 1])
                /\ \A n \in 0..m : w[n] \in Makings /\ Growing(d, w[n])
<1> DEFINE S == {a \in Makings : Growing(d, a)}
           b == [d |-> d, ch |-> <<>>, full |-> FALSE]
           g == [x \in S \X (1..m) |-> Grow(x[1])]
           IsRun(f) == f = [k \in 0..m |-> IF k = 0 THEN [d |-> d, ch |-> <<>>, full |-> FALSE]
                                                    ELSE Grow(f[k - 1])]
<1>1. \A x \in S : \A n \in 1..m : g[<<x, n>>] = Grow(x) /\ g[<<x, n>>] \in S
  <2> TAKE x \in S
  <2> TAKE n \in 1..m
  <2>1. Grow(x) \in S
    BY GrowIs
  <2> HIDE DEF S
  <2>2. <<x, n>> \in S \X (1..m) /\ <<x, n>>[1] = x
    OBVIOUS
  <2>3. g[<<x, n>>] = Grow(x)
    BY <2>2
  <2> QED
    BY <2>1, <2>3
<1>2. b \in S
  <2>1. b.d = d /\ b.ch = <<>> /\ b.full = FALSE /\ b \in Makings
    BY GoodFields DEF Makings
  <2> HIDE DEF b
  <2> QED
    BY <2>1, ToSetEmpty DEF Growing
<1> HIDE DEF S, g
<1>3. PICK w : IsTurns(w, S, b, g, m)
  BY <1>1, <1>2, Turns
<1>4. w \in [0..m -> S] /\ w[0] = b /\ \A n \in 1..m : w[n] = g[<<w[n - 1], n>>]
  BY <1>3 DEF IsTurns
<1>5. \A n \in 1..m : w[n] = Grow(w[n - 1])
  <2> TAKE n \in 1..m
  <2>1. n - 1 \in 0..m
    OBVIOUS
  <2> QED
    BY <1>1, <1>4, <2>1
<1>6. w = [k \in 0..m |-> IF k = 0 THEN [d |-> d, ch |-> <<>>, full |-> FALSE] ELSE Grow(w[k - 1])]
  <2>1. \A n \in 0..m : w[n] = IF n = 0 THEN [d |-> d, ch |-> <<>>, full |-> FALSE] ELSE Grow(w[n - 1])
    BY <1>4, <1>5
  <2>2. w = [n \in 0..m |-> w[n]]
    BY <1>4
  <2> QED
    BY <2>1, <2>2, Zenon
<1>7. \E f : IsRun(f)
  BY <1>6
<1> DEFINE f == CHOOSE x : IsRun(x)
<1>8. IsRun(f) /\ AllocChain(d, m) = f[m]
  BY <1>7, Zenon DEF AllocChain
<1> HIDE DEF f
<1>9. \A n \in 0..m : f[n] = IF n = 0 THEN [d |-> d, ch |-> <<>>, full |-> FALSE] ELSE Grow(f[n - 1])
  BY <1>8, Zenon
<1>10. f[0] = b /\ \A n \in 1..m : f[n] = Grow(f[n - 1])
  <2>1. 0 \in 0..m /\ \A n \in 1..m : n \in 0..m /\ n # 0
    OBVIOUS
  <2> QED
    BY <1>9, <2>1
<1>11. f = w
  <2>1. FunctionOn(f, 0..m)
    BY <1>8, Zenon DEF FunctionOn
  <2>2. \A n \in 1..m : f[n - 1] \in S => f[n] = g[<<f[n - 1], n>>]
    BY <1>1, <1>10
  <2>3. Follows(f, S, b, g, m)
    BY <1>10, <2>1, <2>2, Zenon DEF Follows
  <2> HIDE DEF b
  <2> QED
    BY <1>2, <1>3, <2>3, TurnsOnly
<1>12. \A n \in 0..m : w[n] \in Makings /\ Growing(d, w[n])
  BY <1>4 DEF S
<1> QED
  BY <1>8, <1>10, <1>11, <1>12

\* What the loop leaves: the clusters of one chain that nothing names.
LEMMA AllocIs ==
  ASSUME NEW d, Good(d), Links(d.fat), NEW m \in Nat
  PROVE  LET a == AllocChain(d, m)
         IN  a \in Makings /\ Growing(d, a) /\ (a.full \/ Len(a.ch) = m)
<1>1. PICK w : /\ AllocChain(d, m) = w[m] /\ w[0] = [d |-> d, ch |-> <<>>, full |-> FALSE]
               /\ \A n \in 1..m : w[n] = Grow(w[n - 1])
               /\ \A n \in 0..m : w[n] \in Makings /\ Growing(d, w[n])
  BY AllocSteps
<1> DEFINE T == {n \in Nat : n <= m => w[n].full \/ Len(w[n].ch) = n}
<1>2. 0 \in T
  BY <1>1
<1>3. ASSUME NEW n \in Nat, n \in T PROVE n + 1 \in T
  <2> SUFFICES ASSUME n + 1 <= m PROVE w[n + 1].full \/ Len(w[n + 1].ch) = n + 1
    OBVIOUS
  <2>1. n + 1 \in 1..m /\ (n + 1) - 1 = n /\ n \in 0..m
    OBVIOUS
  <2>2. w[n + 1] = Grow(w[n]) /\ w[n] \in Makings /\ Growing(d, w[n])
    BY <1>1, <2>1
  <2>3. w[n].full \/ Len(w[n].ch) = n
    BY <1>3, <2>1
  <2>4. Grow(w[n]).full \/ (~ w[n].full /\ Len(Grow(w[n]).ch) = Len(w[n].ch) + 1)
    BY <2>2, GrowIs
  <2> QED
    BY <2>2, <2>3, <2>4
<1>4. \A n \in Nat : n \in T
  <2> HIDE DEF T
  <2> QED
    BY <1>2, <1>3, NatInd
<1>5. m \in 0..m
  OBVIOUS
<1> QED
  BY <1>1, <1>4, <1>5

\* What is sound stays so while a chain is made; the chain is named nowhere.
LEMMA GrowingSound ==
  ASSUME NEW d, Healthy(d), NEW a \in Makings, Growing(d, a)
  PROVE  /\ Sound(a.d.fat, a.d.data, Used(d.fat))
         /\ Used(a.d.fat) = Used(d.fat) \cup {pl \in Places : pl[1] \in ToSet(a.ch)}
         /\ a.ch # <<>> => /\ a.ch[1] \in ToSet(a.ch) /\ a.ch[1] # Root
                           /\ \A pl \in Used(d.fat) : ~ Names(d.data, pl, a.ch[1])
         /\ \A h : IsHead(d.fat, h) => h \notin ToSet(a.ch)
<1>1. Links(d.fat) /\ Sound(d.fat, d.data, Used(d.fat))
  BY HealthyIs
<1>2. a.ch \in Seq(Entries) /\ ToSet(a.ch) \subseteq Entries /\ (a.ch # <<>> => a.ch[1] \in ToSet(a.ch))
  BY ToSetIs DEF Makings
<1>3. Sound(a.d.fat, d.data, Used(d.fat))
  BY <1>1, SoundFat DEF Growing
<1>4. ASSUME NEW h, IsHead(d.fat, h) PROVE h \notin ToSet(a.ch)
  BY <1>4 DEF Growing, IsHead
<1>5. a.ch # <<>> => a.ch[1] # Root
  BY <1>1, <1>2, <1>4, RootIsHead
<1>6. ASSUME a.ch # <<>>, NEW pl \in Used(d.fat) PROVE ~ Names(d.data, pl, a.ch[1])
  <2>1. d.fat[a.ch[1]] = 0 /\ a.ch[1] \in Entries
    BY <1>2, <1>6 DEF Growing
  <2>2. ~ IsHead(d.fat, a.ch[1]) /\ a.ch[1] # 0
    BY <2>1, EntriesAre DEF IsHead
  <2> QED
    BY <1>1, <2>2 DEF Sound, NameHead, Names
<1>7. \A x \in ToSet(a.ch) : a.d.fat[x] # 0
  <2>1. CASE a.ch = <<>>
    BY <2>1, ToSetEmpty
  <2>2. CASE a.ch # <<>>
    <3>1. IsHead(a.d.fat, a.ch[1]) /\ ClustersOf(a.d.fat, a.ch[1]) = ToSet(a.ch) /\ Links(a.d.fat)
      BY <2>2 DEF Growing, ClustersOf
    <3> QED
      BY <3>1, ClustersAre
  <2> QED
    BY <2>1, <2>2
<1>8. ASSUME NEW pl \in Places
      PROVE  pl \in Used(a.d.fat) <=> pl \in Used(d.fat) \/ pl[1] \in ToSet(a.ch)
  <2>1. pl[1] \in Entries
    BY EntriesAre DEF Places
  <2> QED
    BY <1>7, <2>1 DEF Used, Growing
<1>9. Used(a.d.fat) = Used(d.fat) \cup {pl \in Places : pl[1] \in ToSet(a.ch)}
  BY <1>8 DEF Used
<1>10. a.d.data = d.data
  BY DEF Growing
<1> QED
  BY <1>2, <1>3, <1>4, <1>5, <1>6, <1>9, <1>10

-----------------------------------------------------------------------------
(***************************************************************************)
(* A text goes into the clusters of a chain.                               *)
(***************************************************************************)
PlainClusters == [1..Rows -> PlainRows]

\* A page of a text of rows U is a cluster of them.
LEMMA PageIs ==
  ASSUME NEW U, Zero \in U, NEW s \in Seq(U), NEW k \in Nat \ {0}
  PROVE  Page(s, k) \in [1..Rows -> U]
<1>1. Zero \in U
  OBVIOUS
<1>2. ASSUME NEW i \in 1..Rows
      PROVE  (IF (k - 1) * Rows + i <= Len(s) THEN s[(k - 1) * Rows + i] ELSE Zero) \in U
  <2>1. k - 1 \in Nat /\ Rows \in Nat /\ i \in Nat /\ i >= 1
    BY EntriesAre
  <2> DEFINE y == (k - 1) * Rows
  <2>2. y \in Nat
    BY <2>1
  <2> HIDE DEF y
  <2>3. CASE y + i <= Len(s)
    <3>1. y + i \in 1..Len(s)
      BY <2>1, <2>2, <2>3
    <3>2. s[y + i] \in U
      BY <3>1
    <3> QED
      BY <2>3, <3>2 DEF y
  <2>4. CASE ~ (y + i <= Len(s))
    BY <1>1, <2>4 DEF y
  <2> QED
    BY <2>3, <2>4
<1> QED
  BY <1>2 DEF Page

\* Plain rows are rows.
LEMMA PlainText == \A s \in Seq(PlainRows) : s \in Seq(RowSet)
<1>1. \A s \in Seq(PlainRows) : \A k \in 1..Len(s) : s[k] \in RowSet
  BY RowKinds
<1> QED
  BY <1>1, SeqIn

\* Only the clusters ch differ.
OnlyIn(ch, e, d) ==
  \A pl \in Places : pl[1] \notin ToSet(ch) => RowIn(e.data, pl) = RowIn(d.data, pl)

\* One turn of the loop of fat32_write that fills the clusters.
LEMMA FillNextIs ==
  ASSUME NEW d, Good(d), NEW ch \in Seq(Entries), NEW s \in Seq(RowSet), NEW k \in 1..Len(ch)
  PROVE  LET e == FillNext(d, ch, s, k)
         IN  /\ Good(e) /\ e.fat = d.fat /\ OnlyIn(ch, e, d) /\ (d.ok /\ OnDisk(ch[k]) => e.ok)
             /\ e.ok => /\ d.ok /\ OnDisk(ch[k]) /\ e.data[ch[k]] = Page(s, k)
                        /\ \A c \in 2..LastCluster : c # ch[k] => e.data[c] = d.data[c]
<1> DEFINE e == FillNext(d, ch, s, k)
           rows == Page(s, k)
           c == ch[k]
<1>1. c \in Entries /\ k \in Nat \ {0} /\ c \in ToSet(ch)
  BY ToSetIs
<1>2. Zero \in RowSet
  BY RowKinds
<1>3. rows \in Clusters
  BY <1>1, <1>2, PageIs DEF Clusters
<1>4. e = IF d.ok THEN WriteCluster(d, c, rows) ELSE d
  BY DEF FillNext
<1>5. d.data \in Datas
  BY GoodFields
<1> HIDE DEF e, c, rows
<1>6. CASE ~ d.ok
  BY <1>4, <1>6 DEF OnlyIn, e
<1>7. CASE d.ok
  <2> DEFINE f == WriteCluster(d, c, rows)
  <2>1. /\ Good(f) /\ f.fat = d.fat
        /\ OnDisk(c) => /\ f.data = [d.data EXCEPT ![c] = rows] /\ f.ok = d.ok
                        /\ f.log = Append(d.log, <<d.fat, [d.data EXCEPT ![c] = rows]>>)
        /\ ~ OnDisk(c) => f.data = d.data /\ f.ok = FALSE /\ f.log = d.log
    BY <1>1, <1>3, WriteClusterIs
  <2>2. e = f
    BY <1>4, <1>7
  <2> HIDE DEF f
  <2>3. CASE ~ OnDisk(c)
    BY <2>1, <2>2, <2>3 DEF OnlyIn, e, c
  <2>4. CASE OnDisk(c)
    <3>1. c \in 2..LastCluster
      BY <1>1, <2>4, EntriesAre
    <3>2. f.data[c] = rows /\ \A b \in 2..LastCluster : b # c => f.data[b] = d.data[b]
      BY <1>5, <2>1, <2>4, <3>1 DEF Datas
    <3>3. OnlyIn(ch, f, d)
      <4>1. \A pl \in Places : pl[1] \in 2..LastCluster
        BY DEF Places
      <4> QED
        BY <1>1, <3>2, <4>1 DEF OnlyIn, RowIn
    <3> QED
      BY <1>7, <2>1, <2>2, <2>4, <3>2, <3>3 DEF e, c, rows
  <2> QED
    BY <2>3, <2>4
<1> QED
  BY <1>6, <1>7

\* All its turns.
LEMMA FillSteps ==
  ASSUME NEW d, Good(d), NEW ch \in Seq(Entries), NEW s \in Seq(RowSet)
  PROVE  \E w : /\ Fill(d, ch, s) = w[Len(ch)] /\ w[0] = d
                /\ \A k \in 1..Len(ch) : w[k] = FillNext(w[k - 1], ch, s, k)
                /\ \A k \in 0..Len(ch) : Good(w[k]) /\ w[k].fat = d.fat /\ OnlyIn(ch, w[k], d)
<1> DEFINE S == {x \in Works : Good(x) /\ x.fat = d.fat /\ OnlyIn(ch, x, d)}
           m == Len(ch)
           g == [x \in S \X (1..m) |-> FillNext(x[1], ch, s, x[2])]
           IsRun(f) == f = [k \in 0..m |-> IF k = 0 THEN d ELSE FillNext(f[k - 1], ch, s, k)]
<1>1. \A x \in S : \A n \in 1..m : g[<<x, n>>] = FillNext(x, ch, s, n) /\ g[<<x, n>>] \in S
  <2> TAKE x \in S
  <2> TAKE n \in 1..m
  <2> DEFINE e == FillNext(x, ch, s, n)
  <2>1. Good(e) /\ e.fat = x.fat /\ OnlyIn(ch, e, x)
    BY FillNextIs
  <2> HIDE DEF e
  <2>2. OnlyIn(ch, e, d)
    BY <2>1 DEF OnlyIn
  <2>3. e \in S
    BY <2>1, <2>2, GoodFields
  <2> HIDE DEF S
  <2>4. <<x, n>> \in S \X (1..m) /\ <<x, n>>[1] = x /\ <<x, n>>[2] = n
    OBVIOUS
  <2>5. g[<<x, n>>] = e
    BY <2>4 DEF e
  <2> QED
    BY <2>3, <2>5 DEF e
<1>2. d \in S /\ m \in Nat
  BY GoodFields DEF OnlyIn
<1> HIDE DEF S, g, m
<1>3. PICK w : IsTurns(w, S, d, g, m)
  BY <1>1, <1>2, Turns
<1>4. w \in [0..m -> S] /\ w[0] = d /\ \A n \in 1..m : w[n] = g[<<w[n - 1], n>>]
  BY <1>3 DEF IsTurns
<1>5. \A n \in 1..m : w[n] = FillNext(w[n - 1], ch, s, n)
  <2> TAKE n \in 1..m
  <2>1. n - 1 \in 0..m
    BY <1>2
  <2> QED
    BY <1>1, <1>4, <2>1
<1>6. w = [k \in 0..m |-> IF k = 0 THEN d ELSE FillNext(w[k - 1], ch, s, k)]
  <2>1. \A n \in 0..m : w[n] = IF n = 0 THEN d ELSE FillNext(w[n - 1], ch, s, n)
    BY <1>2, <1>4, <1>5
  <2>2. w = [n \in 0..m |-> w[n]]
    BY <1>4
  <2> QED
    BY <2>1, <2>2, Zenon
<1>7. \E f : IsRun(f)
  BY <1>6
<1> DEFINE f == CHOOSE x : IsRun(x)
<1>8. IsRun(f) /\ Fill(d, ch, s) = f[m]
  BY <1>7, Zenon DEF Fill, m
<1> HIDE DEF f
<1>9. \A n \in 0..m : f[n] = IF n = 0 THEN d ELSE FillNext(f[n - 1], ch, s, n)
  BY <1>8, Zenon
<1>10. f[0] = d /\ \A n \in 1..m : f[n] = FillNext(f[n - 1], ch, s, n)
  <2>1. 0 \in 0..m /\ \A n \in 1..m : n \in 0..m /\ n # 0
    BY <1>2
  <2> QED
    BY <1>9, <2>1
<1>11. f = w
  <2>1. FunctionOn(f, 0..m)
    BY <1>8, Zenon DEF FunctionOn
  <2>2. \A n \in 1..m : f[n - 1] \in S => f[n] = g[<<f[n - 1], n>>]
    BY <1>1, <1>10
  <2>3. Follows(f, S, d, g, m)
    BY <1>10, <2>1, <2>2, Zenon DEF Follows
  <2> QED
    BY <1>2, <1>3, <2>3, TurnsOnly
<1>12. \A n \in 0..m : Good(w[n]) /\ w[n].fat = d.fat /\ OnlyIn(ch, w[n], d)
  BY <1>4 DEF S
<1> QED
  BY <1>8, <1>10, <1>11, <1>12 DEF m

\* What the loop leaves: text in the new clusters, the rest untouched.
LEMMA FillIs ==
  ASSUME NEW d, Good(d), NEW ch \in Seq(Entries), NEW s \in Seq(RowSet),
         \A i, j \in 1..Len(ch) : ch[i] = ch[j] => i = j
  PROVE  LET e == Fill(d, ch, s)
         IN  /\ Good(e) /\ e.fat = d.fat /\ OnlyIn(ch, e, d)
             /\ e.ok => d.ok /\ \A j \in 1..Len(ch) : OnDisk(ch[j]) /\ e.data[ch[j]] = Page(s, j)
             /\ d.ok /\ (\A j \in 1..Len(ch) : OnDisk(ch[j])) => e.ok
<1>1. PICK w : /\ Fill(d, ch, s) = w[Len(ch)] /\ w[0] = d
               /\ \A k \in 1..Len(ch) : w[k] = FillNext(w[k - 1], ch, s, k)
               /\ \A k \in 0..Len(ch) : Good(w[k]) /\ w[k].fat = d.fat /\ OnlyIn(ch, w[k], d)
  BY FillSteps
<1>2. Len(ch) \in Nat /\ \A j \in 1..Len(ch) : ch[j] \in Entries
  OBVIOUS
<1> DEFINE Is(x, n) == /\ x.ok => d.ok /\ \A j \in 1..n : OnDisk(ch[j]) /\ x.data[ch[j]] = Page(s, j)
                       /\ d.ok /\ (\A j \in 1..n : OnDisk(ch[j])) => x.ok
           T == {n \in Nat : n <= Len(ch) => Is(w[n], n)}
<1>3. 0 \in T
  BY <1>1
<1>4. ASSUME NEW n \in Nat, n \in T PROVE n + 1 \in T
  <2> SUFFICES ASSUME n + 1 <= Len(ch) PROVE Is(w[n + 1], n + 1)
    OBVIOUS
  <2> DEFINE k == n + 1
             x == w[n]
             e == w[n + 1]
  <2>1. k \in 1..Len(ch) /\ k - 1 = n /\ n \in 0..Len(ch) /\ 1..n \subseteq 1..Len(ch)
    BY <1>2
  <2>2. e = FillNext(x, ch, s, k) /\ Good(x) /\ Is(x, n)
    BY <1>1, <1>4, <2>1
  <2> HIDE DEF x, e
  <2>3. /\ e.ok => /\ x.ok /\ OnDisk(ch[k]) /\ e.data[ch[k]] = Page(s, k)
                   /\ \A c \in 2..LastCluster : c # ch[k] => e.data[c] = x.data[c]
        /\ x.ok /\ OnDisk(ch[k]) => e.ok
    <3> HIDE DEF k, Is
    <3> QED
      BY <2>1, <2>2, FillNextIs
  <2>4. ASSUME e.ok, NEW j \in 1..n PROVE OnDisk(ch[j]) /\ e.data[ch[j]] = Page(s, j)
    <3>1. OnDisk(ch[j]) /\ x.data[ch[j]] = Page(s, j) /\ x.ok
      BY <2>2, <2>3, <2>4
    <3>2. ch[j] # ch[k] /\ ch[j] \in 2..LastCluster
      <4>1. j \in 1..Len(ch) /\ j # k /\ ch[j] \in Entries
        BY <1>2, <2>1
      <4>2. ch[j] # ch[k]
        BY <2>1, <4>1
      <4> QED
        BY <3>1, <4>1, <4>2, EntriesAre
    <3> QED
      BY <2>3, <2>4, <3>1, <3>2
  <2>5. ASSUME e.ok PROVE d.ok
    BY <2>2, <2>3, <2>5
  <2>6. \A j \in 1..(n + 1) : j \in 1..n \/ j = k
    OBVIOUS
  <2>8. ASSUME d.ok, \A j \in 1..(n + 1) : OnDisk(ch[j]) PROVE e.ok
    <3>1. OnDisk(ch[k]) /\ \A j \in 1..n : OnDisk(ch[j])
      BY <2>6, <2>8
    <3> QED
      BY <2>2, <2>3, <2>8, <3>1
  <2>7. Is(e, n + 1)
    BY <2>3, <2>4, <2>5, <2>6, <2>8
  <2> QED
    BY <2>7 DEF e
<1>5. \A n \in Nat : n \in T
  <2> HIDE DEF T
  <2> QED
    BY <1>3, <1>4, NatInd
<1>6. Is(w[Len(ch)], Len(ch))
  <2>1. Len(ch) \in T /\ Len(ch) <= Len(ch)
    <3> HIDE DEF T
    <3> QED
      BY <1>2, <1>5
  <2> HIDE DEF Is
  <2> QED
    BY <2>1
<1>7. Len(ch) \in 0..Len(ch)
  BY <1>2
<1> QED
  BY <1>1, <1>6, <1>7

-----------------------------------------------------------------------------
(***************************************************************************)
(* An entry is added to a directory.                                       *)
(***************************************************************************)
NamedNowhere(d, c) == c # 0 => \A pl \in Used(d.fat) : ~ Names(d.data, pl, c)

HeadsStay(d, e, dir) ==
  \A h : IsHead(d.fat, h) =>
           IsHead(e.fat, h) /\ (h # dir => ChainIn(e.fat, h) = ChainIn(d.fat, h))

\* A call that fails at once leaves a healthy disk.
LEMMA FailsHealthy ==
  ASSUME NEW d, Good(d), Healthy(d)
  PROVE  Good(Fails(d)) /\ Healthy(Fails(d))
<1>1. Good(Fails(d)) /\ Fails(d).fat = d.fat /\ Fails(d).data = d.data
  BY FailsIs
<1>2. IsDisk(Fails(d))
  BY <1>1, GoodDisk
<1> QED
  BY <1>1, <1>2 DEF Healthy

\* An entry for a head that nothing names is put in a row of a directory.
LEMMA SetEntry ==
  ASSUME NEW d, Good(d), Healthy(d), NEW P \in Used(d.fat), NEW entry \in EntryRows,
         NameHead(d.fat, entry), NamedNowhere(d, entry.first)
  PROVE  LET e == SetRow(d, P, entry)
         IN  Good(e) /\ Healthy(e) /\ e.fat = d.fat /\ e.ok = d.ok
<1> DEFINE e == SetRow(d, P, entry)
<1>1. P \in Places /\ entry \in RowSet
  BY RowKinds DEF Used
<1>2. /\ Good(e) /\ e.fat = d.fat /\ e.ok = d.ok /\ RowIn(e.data, P) = entry
      /\ \A x \in Places \ {P} : RowIn(e.data, x) = RowIn(d.data, x)
  BY <1>1, SetRowRow
<1>3. Sound(d.fat, d.data, Used(d.fat)) /\ Used(d.fat) \subseteq Places
  BY HealthyIs DEF Used
<1> HIDE DEF e
<1>4. IsDisk(e) /\ e.data \in Datas
  BY <1>2, GoodDisk DEF IsDisk
<1>5. Sound(d.fat, e.data, Used(d.fat) \cup {P})
  BY <1>1, <1>2, <1>3, <1>4, EntrySound DEF NamedNowhere
<1>6. Used(d.fat) \cup {P} = Used(d.fat)
  OBVIOUS
<1>7. Healthy(e)
  BY <1>2, <1>4, <1>5, <1>6 DEF Healthy
<1> QED
  BY <1>2, <1>7 DEF e

\* The directory gets one more cluster, and the entry is its first row.
LEMMA LengthenIs ==
  ASSUME NEW d, Good(d), Healthy(d), NEW dir, IsHead(d.fat, dir), NEW new \in Entries,
         d.fat[new] = 0, NEW entry \in EntryRows, NameHead(d.fat, entry),
         NamedNowhere(d, entry.first), entry.first # dir
  PROVE  LET e == SetRow(Lengthen(d, Chain(d, dir), new), <<new, 1>>, entry)
         IN  /\ Good(e) /\ Healthy(e) /\ (e.ok => d.ok) /\ HeadsStay(d, e, dir)
             /\ d.ok /\ ~ e.ok => NamedNowhere(e, entry.first)
<1> DEFINE d1 == FatWrite(d, new, Eoc)
           d2 == FatWrite(d1, Last(Chain(d, dir)), new)
           d3 == WriteCluster(d2, new, Blank)
           e  == SetRow(d3, <<new, 1>>, entry)
           fat1 == [d.fat EXCEPT ![new] = Eoc]
           fat2 == Joined(fat1, dir, new)
           L  == Used(d.fat)
<1>1. Links(d.fat) /\ Sound(d.fat, d.data, L) /\ IsDisk(d) /\ d.fat \in Fats /\ d.data \in Datas
  BY HealthyIs
<1>2. Chain(d, dir) = ChainIn(d.fat, dir)
  BY <1>1, ReadableChain
<1>3. new # dir /\ new # Root /\ Eoc \in Links0 /\ new \in Links0
  BY <1>1 DEF IsHead, Links, Links0
<1>4. /\ Links(fat1) /\ IsHead(fat1, new) /\ ChainIn(fat1, new) = <<new>>
      /\ \A h : IsHead(d.fat, h) => h # new /\ IsHead(fat1, h) /\ ChainIn(fat1, h) = ChainIn(d.fat, h)
  BY <1>1, TakenLinks
<1>5. Sound(fat1, d.data, L)
  BY <1>1, TakenSound
<1>6. Good(d1) /\ d1.fat = fat1 /\ d1.data = d.data /\ d1.ok = d.ok
  BY <1>3, FatWriteIs
<1>7. fat1[new] = Eoc /\ fat1 \in Fats
  BY <1>1, <1>4 DEF Links, Fats
<1>9. \A x \in Entries \ {new} : fat1[x] = d.fat[x]
  BY <1>1 DEF Fats
<1> HIDE DEF fat1, d1
<1> DEFINE z == Last(ChainIn(fat1, dir))
<1>8. z \in Entries /\ z = Last(Chain(d, dir)) /\ IsHead(fat1, dir)
  BY <1>2, <1>4, ClustersAre
<1>10. ~ \E pl \in L : Names(d.data, pl, new)
  BY <1>1, <1>4, EntriesAre DEF Sound, NameHead, Names
<1>11. Sound(fat2, d.data, L)
  BY <1>3, <1>4, <1>5, <1>7, <1>8, <1>10, JoinedSound
<1>12. /\ Links(fat2) /\ IsHead(fat2, dir) /\ ChainIn(fat2, dir) = Append(ChainIn(fat1, dir), new)
       /\ \A h : IsHead(fat1, h) /\ h # new /\ h # dir => IsHead(fat2, h) /\ ChainIn(fat2, h) = ChainIn(fat1, h)
  BY <1>3, <1>4, <1>7, <1>8, JoinedLinks
<1>13. fat2 = [fat1 EXCEPT ![z] = new]
  BY DEF Joined
<1>14. Good(d2) /\ d2.fat = fat2 /\ d2.data = d.data /\ d2.ok = d.ok
  <2>1. Good(d2) /\ d2.fat = [fat1 EXCEPT ![z] = new] /\ d2.data = d1.data /\ d2.ok = d1.ok
    BY <1>3, <1>6, <1>8, FatWriteIs
  <2> QED
    BY <1>6, <1>13, <2>1
<1>15. \A x \in Entries : x # new => (fat2[x] # 0 <=> d.fat[x] # 0)
  <2>1. d.fat[z] # 0
    <3>1. z \in ClustersOf(d.fat, dir)
      BY <1>1, <1>2, <1>8, ClustersAre
    <3> QED
      BY <1>1, <3>1, ClustersAre
  <2>2. new # 0
    BY EntriesAre
  <2> QED
    BY <1>7, <1>8, <1>9, <1>13, <2>1, <2>2 DEF Fats
<1>16. fat2[new] # 0
  BY <1>7, <1>13, EntriesAre DEF Fats
<1> HIDE DEF d2, z
<1>17. HeadsStay(d, [fat |-> fat2], dir)
  BY <1>4, <1>12 DEF HeadsStay
<1> HIDE DEF fat2
<1>18. NameHead(fat2, entry)
  <2>1. entry.first \in Entries \cup {0}
    BY DEF EntryRows, AnyEntry
  <2>2. CASE entry.first = 0
    BY <2>2, EntriesAre DEF NameHead, IsHead
  <2>3. CASE entry.first # 0
    BY <1>4, <1>12, <2>3 DEF NameHead, Room
  <2> QED
    BY <2>2, <2>3
<1>19. Lengthen(d, Chain(d, dir), new) = d3
  BY DEF Lengthen, d1, d2
<1> HIDE DEF fat2
<1>22. /\ Good(d3) /\ d3.fat = d2.fat
       /\ OnDisk(new) => /\ d3.data = [d2.data EXCEPT ![new] = Blank] /\ d3.ok = d2.ok
                         /\ d3.log = Append(d2.log, <<d2.fat, [d2.data EXCEPT ![new] = Blank]>>)
       /\ ~ OnDisk(new) => d3.data = d2.data /\ d3.ok = FALSE /\ d3.log = d2.log
  <2>1. Good(d2) /\ Blank \in Clusters
    BY <1>14, BlankIs
  <2> QED
    BY <2>1, WriteClusterIs
<1> HIDE DEF d3
<1>20. CASE OnDisk(new)
  <2>1. new \in 2..LastCluster
    BY <1>20, EntriesAre
  <2>2. Good(d3) /\ d3.fat = fat2 /\ d3.data = [d.data EXCEPT ![new] = Blank] /\ d3.ok = d.ok
    BY <1>14, <1>20, <1>22
  <2>3. d3.data[new] = Blank /\ \A c \in 2..LastCluster : c # new => d3.data[c] = d.data[c]
    BY <1>1, <2>1, <2>2 DEF Datas
  <2>4. IsDisk(d3) /\ d3.data \in Datas
    BY <2>2, GoodDisk DEF IsDisk
  <2>5. ASSUME NEW pl \in Used(fat2)
        PROVE  ~ IsEntry(d3.data, pl) \/ (pl \in L /\ RowIn(d3.data, pl) = RowIn(d.data, pl))
    <3>1. pl \in Places /\ fat2[pl[1]] # 0 /\ pl[1] \in 2..LastCluster /\ pl[2] \in 1..Rows /\ pl[1] \in Entries
      BY EntriesAre DEF Used, Places
    <3>2. CASE pl[1] = new
      <4>1. RowIn(d3.data, pl) = Zero
        BY <2>3, <3>1, <3>2, BlankIs DEF RowIn
      <4> QED
        BY <4>1, RowKinds DEF IsEntry
    <3>3. CASE pl[1] # new
      BY <1>15, <2>3, <3>1, <3>3 DEF RowIn, Used
    <3> QED
      BY <3>2, <3>3
  <2>6. Used(fat2) \subseteq Places
    BY DEF Used
  <2>7. Sound(fat2, d3.data, Used(fat2))
    BY <1>11, <2>4, <2>5, <2>6, RowsSound
  <2>8. Healthy(d3)
    BY <2>2, <2>4, <2>7 DEF Healthy
  <2>9. NamedNowhere(d3, entry.first)
    BY <2>2, <2>5 DEF NamedNowhere, Names, IsEntry
  <2>10. <<new, 1>> \in Used(d3.fat)
    BY <1>16, <2>1, <2>2, EntriesAre DEF Used, Places
  <2>11. NameHead(d3.fat, entry)
    BY <1>18, <2>2
  <2>12. Good(e) /\ Healthy(e) /\ e.fat = d3.fat /\ e.ok = d3.ok
    BY <2>2, <2>8, <2>9, <2>10, <2>11, SetEntry
  <2> HIDE DEF e
  <2>13. HeadsStay(d, e, dir)
    BY <1>17, <2>2, <2>12 DEF HeadsStay
  <2> QED
    BY <1>19, <2>2, <2>12, <2>13 DEF e
<1>21. CASE ~ OnDisk(new)
  <2>1. Good(d3) /\ d3.fat = fat2 /\ d3.data = d.data /\ d3.ok = FALSE
    BY <1>14, <1>21, <1>22
  <2>2. e = Fails(d3)
    BY <1>21, SetRowOff DEF e
  <2>3. Good(e) /\ e.fat = fat2 /\ e.data = d.data /\ e.ok = FALSE
    BY <2>1, <2>2, FailsIs
  <2> HIDE DEF e
  <2>4. Used(fat2) = L
    <3>1. \A pl \in Places : pl[1] \in Entries /\ pl[1] # new
      BY <1>21, EntriesAre DEF Places
    <3> QED
      BY <1>15, <3>1 DEF Used
  <2>5. IsDisk(e)
    BY <2>3, GoodDisk
  <2>6. Healthy(e)
    BY <1>11, <2>3, <2>4, <2>5 DEF Healthy
  <2>7. NamedNowhere(e, entry.first)
    BY <2>3, <2>4 DEF NamedNowhere
  <2>8. HeadsStay(d, e, dir)
    BY <1>17, <2>3 DEF HeadsStay
  <2> QED
    BY <1>19, <2>3, <2>6, <2>7, <2>8 DEF e
<1> QED
  BY <1>20, <1>21

\* dir_add_entry for such a head, with or without a new cluster.
LEMMA AddIs ==
  ASSUME NEW d, Good(d), Healthy(d), NEW dir, HeadOrNone(d.fat, dir), NEW entry \in EntryRows,
         NameHead(d.fat, entry), NamedNowhere(d, entry.first), entry.first # 0 => entry.first # dir
  PROVE  LET e == DirAddEntry(d, dir, entry)
         IN  /\ Good(e) /\ Healthy(e) /\ (e.ok => d.ok) /\ HeadsStay(d, e, dir)
             /\ d.ok /\ ~ e.ok => NamedNowhere(e, entry.first)
<1> DEFINE ch   == Chain(d, dir)
           S    == {pl \in PlacesOf(Readable(ch)) : RowAt(d, pl) \in {Zero, Gone}}
           free == FirstOf(Readable(ch), S)
           new  == FatFindFree(d)
           e    == AddRow(d, ch, free, new, entry)
<1>1. DirAddEntry(d, dir, entry) = e
  BY DEF DirAddEntry, AddTo, FreeIn
<1>2. Links(d.fat) /\ IsDisk(d)
  BY HealthyIs
<1>3. /\ dir \notin Entries => ch = <<>> /\ Readable(ch) \in Seq(2..LastCluster) /\ PlacesOf(Readable(ch)) = {}
      /\ dir \in Entries => /\ Readable(ch) \in Seq(2..LastCluster)
                            /\ PlacesOf(Readable(ch)) \subseteq Used(d.fat)
  <2>1. CASE dir \notin Entries
    <3>1. ch = <<>>
      BY <2>1, ChainEmpty
    <3>2. <<>> \in Seq(Entries) /\ ToSet(<<>>) = {}
      BY ToSetEmpty
    <3>3. Readable(<<>>) \in Seq(2..LastCluster) /\ ToSet(Readable(<<>>)) \subseteq {}
      BY <3>2, ReadableIs
    <3>4. PlacesOf(Readable(<<>>)) = {}
      BY <3>3 DEF PlacesOf
    <3> QED
      BY <2>1, <3>1, <3>3, <3>4
  <2>2. CASE dir \in Entries
    BY <1>2, <2>2, ReadableChain DEF HeadOrNone
  <2> QED
    BY <2>1, <2>2
<1>4. free = <<>> \/ (free # <<>> /\ free \in S)
  <2>1. Readable(ch) \in Seq(2..LastCluster)
    BY <1>3
  <2> HIDE DEF S, ch
  <2> QED
    BY <2>1, FirstOfIs, PlaceIs
<1>5. free # <<>> => free \in Used(d.fat)
  BY <1>3, <1>4
<1>6. e = IF free # <<>> THEN SetRow(d, free, entry)
          ELSE IF ch = <<>> \/ Readable(ch) # ch \/ new = 0 THEN Fails(d)
          ELSE SetRow(Lengthen(d, ch, new), <<new, 1>>, entry)
  BY DEF AddRow
<1> HIDE DEF e, free
<1>7. CASE free # <<>>
  <2> DEFINE f == SetRow(d, free, entry)
  <2>1. Good(f) /\ Healthy(f) /\ f.fat = d.fat /\ f.ok = d.ok
    BY <1>5, <1>7, SetEntry
  <2>2. e = f
    BY <1>6, <1>7
  <2> HIDE DEF f
  <2> QED
    BY <1>1, <2>1, <2>2 DEF HeadsStay
<1>8. CASE free = <<>> /\ (ch = <<>> \/ Readable(ch) # ch \/ new = 0)
  <2>1. e = Fails(d)
    BY <1>6, <1>8
  <2>2. Good(Fails(d)) /\ Healthy(Fails(d)) /\ Fails(d).fat = d.fat /\ Fails(d).data = d.data /\ Fails(d).ok = FALSE
    BY FailsIs, FailsHealthy
  <2> QED
    BY <1>1, <2>1, <2>2 DEF HeadsStay, NamedNowhere
<1>9. CASE free = <<>> /\ ~ (ch = <<>> \/ Readable(ch) # ch \/ new = 0)
  <2>1. e = SetRow(Lengthen(d, ch, new), <<new, 1>>, entry)
    BY <1>6, <1>9
  <2>2. IsHead(d.fat, dir) /\ dir \in Entries
    BY <1>3, <1>9 DEF HeadOrNone
  <2>3. new \in Entries /\ d.fat[new] = 0
    BY <1>9, FindFreeIs
  <2>4. entry.first # dir
    BY <2>2, EntriesAre
  <2> HIDE DEF new
  <2> DEFINE f == SetRow(Lengthen(d, Chain(d, dir), new), <<new, 1>>, entry)
  <2>5. /\ Good(f) /\ Healthy(f) /\ (f.ok => d.ok) /\ HeadsStay(d, f, dir)
        /\ d.ok /\ ~ f.ok => NamedNowhere(f, entry.first)
    BY <2>2, <2>3, <2>4, LengthenIs
  <2>6. e = f
    BY <2>1
  <2> HIDE DEF f
  <2> QED
    BY <1>1, <2>5, <2>6
<1> QED
  BY <1>7, <1>8, <1>9

-----------------------------------------------------------------------------
(***************************************************************************)
(* The calls, delete_recursive apart.                                      *)
(***************************************************************************)
LEMMA FreeAndFailIs ==
  ASSUME NEW d, Good(d), NEW L, Sound(d.fat, d.data, L), NEW ch,
         ch # <<>> => /\ IsHead(d.fat, ch[1]) /\ ch[1] # Root
                      /\ \A pl \in L : ~ Names(d.data, pl, ch[1]),
         \A pl \in Used(d.fat) : pl \in L \/ (ch # <<>> /\ pl[1] \in ClustersOf(d.fat, ch[1]))
  PROVE  Good(FreeAndFail(d, ch)) /\ Healthy(FreeAndFail(d, ch))
<1>1. Links(d.fat)
  BY DEF Sound
<1>2. CASE ch = <<>>
  <2>1. FreeAndFail(d, ch) = Fails(d)
    BY <1>2 DEF FreeAndFail
  <2>2. Used(d.fat) \in SUBSET L
    BY <1>2
  <2>3. Sound(d.fat, d.data, Used(d.fat))
    BY <2>2, SoundFewer
  <2>4. Healthy(d)
    BY <2>3, GoodDisk DEF Healthy
  <2> QED
    BY <2>1, <2>4, FailsHealthy
<1>3. CASE ch # <<>>
  <2> DEFINE c == ch[1]
             e == FatFreeChain(d, c)
             fat2 == Freed(d.fat, ClustersOf(d.fat, c))
  <2>1. FreeAndFail(d, ch) = Fails(e)
    BY <1>3 DEF FreeAndFail
  <2>2. IsHead(d.fat, c) /\ c # Root /\ \A pl \in L : ~ Names(d.data, pl, c)
    BY <1>3
  <2> HIDE DEF c
  <2>3. Good(e) /\ e.fat = fat2 /\ e.data = d.data
    BY <1>1, <2>2, FreeChainIs
  <2>4. Sound(fat2, d.data, L)
    BY <2>2, FreedSound
  <2>5. Used(fat2) \in SUBSET L
    <3> SUFFICES ASSUME NEW pl \in Used(fat2) PROVE pl \in L
      OBVIOUS
    <3>1. pl \in Places /\ fat2[pl[1]] # 0 /\ pl[1] \in Entries
      BY EntriesAre DEF Used, Places
    <3>2. pl[1] \notin ClustersOf(d.fat, c) /\ d.fat[pl[1]] # 0
      BY <3>1 DEF Freed
    <3>3. pl \in Used(d.fat)
      BY <3>1, <3>2 DEF Used
    <3> QED
      BY <3>2, <3>3 DEF c
  <2> HIDE DEF e, fat2
  <2>6. Sound(fat2, d.data, Used(fat2))
    BY <2>4, <2>5, SoundFewer
  <2>7. Healthy(e)
    BY <2>3, <2>6, GoodDisk DEF Healthy
  <2> QED
    BY <2>1, <2>3, <2>7, FailsHealthy
<1> QED
  BY <1>2, <1>3

\* The clusters for a text are enough for its size.
LEMMA Clustered ==
  ASSUME NEW n \in Nat \ {0}
  PROVE  /\ (n + Rows - 1) \div Rows \in Nat \ {0}
         /\ n <= Rows * ((n + Rows - 1) \div Rows)
<1>1. Rows \in Nat /\ Rows >= 1
  BY EntriesAre
<1> DEFINE x == n + Rows - 1
           q == x \div Rows
<1>2. x \in Nat /\ x >= Rows
  BY <1>1
<1>3. q \in Int /\ Rows * q <= x /\ x < Rows * q + Rows
  BY <1>1, <1>2
<1>4. q >= 1
  <2> HIDE DEF x, q
  <2>1. CASE q <= 0
    <3>1. Rows * q <= 0
      BY <1>1, <1>3, <2>1
    <3> QED
      BY <1>1, <1>2, <1>3, <3>1
  <2> QED
    BY <1>3, <2>1
<1>5. n <= Rows * q
  <2> DEFINE y == Rows * q
  <2>1. y \in Int
    BY <1>1, <1>3
  <2>2. x < y + Rows
    BY <1>3
  <2> HIDE DEF y, q
  <2> QED
    BY <1>1, <2>1, <2>2 DEF y
<1> QED
  BY <1>3, <1>4, <1>5

\* The clusters that the text s needs, and that n clusters are enough for it.
Need(s)    == (Len(s) + Rows - 1) \div Rows
Fits(s, n) == Len(s) <= Rows * n

\* The text fits the clusters that it needs.
LEMMA NeedIs ==
  ASSUME NEW T, NEW s \in Seq(T), s # <<>>
  PROVE  Need(s) \in Nat \ {0} /\ Fits(s, Need(s))
<1> DEFINE n == Len(s)
<1>1. n \in Nat \ {0}
  OBVIOUS
<1> HIDE DEF n
<1>2. (n + Rows - 1) \div Rows \in Nat \ {0} /\ n <= Rows * ((n + Rows - 1) \div Rows)
  BY <1>1, Clustered
<1> QED
  BY <1>2 DEF Need, Fits, n

\* The entry of a text in the clusters from h on.
TextEntry(n, s, h) == [kind |-> "entry", name |-> n, dir |-> FALSE, first |-> h, size |-> Len(s)]

\* The text s is in the clusters of a, which nothing names yet; when a transfer
\* failed it is there in part only.
Filled(d, dir, n, s, a, f) ==
  LET ch == a.ch
      h  == ch[1]
  IN  /\ a \in Makings /\ Growing(d, a) /\ ch \in Seq(Entries) /\ ch # <<>>
      /\ Fits(s, Len(ch))
      /\ Good(f) /\ f.fat = a.d.fat /\ OnlyIn(ch, f, d)
      /\ IsHead(f.fat, h) /\ h # Root /\ ChainIn(f.fat, h) = ch
      /\ Sound(f.fat, f.data, Used(d.fat)) /\ \A pl \in Used(d.fat) : ~ Names(f.data, pl, h)
      /\ \A pl \in Used(f.fat) : pl \in Used(d.fat) \/ pl[1] \in ClustersOf(f.fat, h)
      /\ f.ok => /\ d.ok /\ Healthy(f) /\ NamedNowhere(f, h)
                 /\ HeadOrNone(f.fat, dir) /\ h # dir
                 /\ TextEntry(n, s, h) \in EntryRows /\ NameHead(f.fat, TextEntry(n, s, h))
                 /\ \A j \in 1..Len(ch) : OnDisk(ch[j]) /\ f.data[ch[j]] = Page(s, j)

\* The clusters that fat32_write takes, once they are filled.
LEMMA FilledIs ==
  ASSUME NEW d, Good(d), Healthy(d), NEW dir, HeadOrNone(d.fat, dir),
         NEW n \in {Short[x] : x \in DOMAIN Short}, NEW s \in Seq(PlainRows), s # <<>>,
         NEW a, a = AllocChain(d, Need(s)), ~ a.full,
         NEW f, f = Fill(a.d, a.ch, s)
  PROVE  Filled(d, dir, n, s, a, f)
<1> DEFINE ch == a.ch
           h  == ch[1]
           entry == TextEntry(n, s, h)
           L  == Used(d.fat)
<1>0. Len(s) \in Nat \ {0}
  OBVIOUS
<1>1. Need(s) \in Nat \ {0} /\ Fits(s, Need(s))
  BY NeedIs
<1>2. Links(d.fat) /\ IsDisk(d) /\ Sound(d.fat, d.data, L)
  BY HealthyIs
<1>3. a \in Makings /\ Growing(d, a) /\ Len(ch) = Need(s)
  BY <1>1, <1>2, AllocIs
<1>4. /\ Sound(a.d.fat, a.d.data, L)
      /\ Used(a.d.fat) = L \cup {pl \in Places : pl[1] \in ToSet(ch)}
      /\ ch # <<>> => h \in ToSet(ch) /\ h # Root /\ \A pl \in L : ~ Names(d.data, pl, h)
      /\ \A k : IsHead(d.fat, k) => k \notin ToSet(ch)
  BY <1>3, GrowingSound, ZenonT(60)
<1>5. /\ Good(a.d) /\ Links(a.d.fat) /\ a.d.data = d.data /\ a.d.ok = d.ok
      /\ \A x \in ToSet(ch) : d.fat[x] = 0
      /\ \A k : IsHead(d.fat, k) => IsHead(a.d.fat, k) /\ ChainIn(a.d.fat, k) = ChainIn(d.fat, k)
      /\ ch # <<>> => IsHead(a.d.fat, h) /\ ChainIn(a.d.fat, h) = ch
      /\ ch \in Seq(Entries)
  BY <1>3 DEF Growing, Makings
<1>6. ch # <<>>
  BY <1>1, <1>3
<1>7. ClustersOf(a.d.fat, h) = ToSet(ch)
  BY <1>5, <1>6 DEF ClustersOf
<1>8. \A i, j \in 1..Len(ch) : ch[i] = ch[j] => i = j
  <2>1. IsChain(a.d.fat, h, ch)
    BY <1>5, <1>6, HeadChain
  <2> QED
    BY <1>5, <1>6, <2>1, PathDistinct DEF IsChain
<1> HIDE DEF entry
<1>9. /\ Good(f) /\ f.fat = a.d.fat /\ OnlyIn(ch, f, a.d)
      /\ f.ok => a.d.ok /\ \A j \in 1..Len(ch) : OnDisk(ch[j]) /\ f.data[ch[j]] = Page(s, j)
  <2> DEFINE e == Fill(a.d, ch, s)
  <2>1. /\ Good(e) /\ e.fat = a.d.fat /\ OnlyIn(ch, e, a.d)
        /\ e.ok => a.d.ok /\ \A j \in 1..Len(ch) : OnDisk(ch[j]) /\ e.data[ch[j]] = Page(s, j)
    BY <1>5, <1>8, PlainText, FillIs, SMTT(30)
  <2> HIDE DEF e
  <2>2. f = e
    BY DEF e
  <2> QED
    BY <2>1, <2>2
<1>10. \A pl \in L : pl \in Places /\ pl[1] \notin ToSet(ch) /\ RowIn(f.data, pl) = RowIn(d.data, pl)
  <2>1. \A pl \in L : pl \in Places /\ d.fat[pl[1]] # 0
    BY DEF Used
  <2>2. \A pl \in L : pl[1] \notin ToSet(ch)
    BY <1>5, <2>1
  <2> QED
    BY <1>5, <1>9, <2>1, <2>2 DEF OnlyIn
<1>11. IsDisk(f) /\ f.data \in Datas /\ f.fat \in Fats
  BY <1>9, GoodDisk DEF IsDisk
<1>12. L \in SUBSET Places
  BY DEF Used
<1>13. Sound(f.fat, f.data, L)
  <2>1. Sound(f.fat, d.data, L)
    BY <1>4, <1>5, <1>9
  <2> HIDE DEF L
  <2> QED
    BY <2>1, <1>10, <1>11, <1>12, RowsSound
<1>14. \A pl \in L : ~ Names(f.data, pl, h)
  BY <1>4, <1>6, <1>10 DEF Names, IsEntry
<1>15. \A pl \in Used(f.fat) : pl \in L \/ pl[1] \in ClustersOf(f.fat, h)
  BY <1>4, <1>7, <1>9
<1>16. IsHead(f.fat, h) /\ h # Root /\ ChainIn(f.fat, h) = ch
  BY <1>4, <1>5, <1>6, <1>9
<1>17. ASSUME f.ok
       PROVE  /\ d.ok /\ Healthy(f) /\ NamedNowhere(f, h)
              /\ HeadOrNone(f.fat, dir) /\ h # dir
              /\ entry \in EntryRows /\ NameHead(f.fat, entry)
  <2>1. \A pl \in Places : pl[1] \in ToSet(ch) => ~ IsEntry(f.data, pl)
    <3> TAKE pl \in Places
    <3> HAVE pl[1] \in ToSet(ch)
    <3>1. PICK j \in 1..Len(ch) : pl[1] = ch[j]
      BY <1>5, ToSetIs
    <3>2. Page(s, j) \in PlainClusters
      BY PageIs, RowKinds DEF PlainClusters
    <3>3. RowIn(f.data, pl) \in PlainRows
      BY <1>9, <1>17, <3>1, <3>2 DEF RowIn, PlainClusters, Places
    <3> QED
      BY <3>3, RowKinds DEF IsEntry
  <2>2. Used(f.fat) \in SUBSET Places
    BY DEF Used
  <2>3. \A pl \in Used(f.fat) : ~ IsEntry(f.data, pl) \/ (pl \in L /\ RowIn(f.data, pl) = RowIn(f.data, pl))
    BY <1>4, <1>9, <2>1
  <2>4. Sound(f.fat, f.data, Used(f.fat))
    BY <1>11, <1>13, <2>2, <2>3, RowsSound
  <2>5. Healthy(f)
    BY <1>11, <2>4 DEF Healthy
  <2>6. NamedNowhere(f, h)
    BY <1>4, <1>9, <1>14, <2>1 DEF NamedNowhere, Names
  <2>7. HeadOrNone(f.fat, dir) /\ h # dir
    <3>1. IsHead(d.fat, dir) => IsHead(f.fat, dir) /\ h # dir
      BY <1>4, <1>5, <1>6, <1>9
    <3>2. h \in Entries
      BY <1>16 DEF IsHead
    <3> QED
      BY <3>1, <3>2 DEF HeadOrNone
  <2>8. entry \in EntryRows /\ NameHead(f.fat, entry)
    <3>1. h \in Entries
      BY <1>16 DEF IsHead
    <3>2. entry \in EntryRows /\ entry.first = h /\ entry.size = Len(s)
      BY <1>0, <3>1 DEF EntryRows, AnyEntry, entry, TextEntry
    <3>3. \A x \in ToSet(ch) : OnDisk(x)
      <4>1. ToSet(ch) = {ch[j] : j \in 1..Len(ch)}
        BY <1>5, ToSetIs
      <4> HIDE DEF ch
      <4> QED
        BY <1>9, <1>17, <4>1
    <3>4. Readable(ch) = ch
      BY <1>5, <3>3, ReadableIs
    <3>5. Len(s) <= Room(f.fat, h)
      BY <1>1, <1>3, <1>16, <3>4 DEF Room, Fits
    <3> QED
      BY <1>16, <3>2, <3>5 DEF NameHead
  <2> QED
    BY <1>5, <1>9, <1>17, <2>5, <2>6, <2>7, <2>8
<1>18. OnlyIn(ch, f, d)
  BY <1>5, <1>9 DEF OnlyIn
<1>19. Fits(s, Len(ch))
  BY <1>1, <1>3
<1> QED
  BY <1>3, <1>5, <1>6, <1>9, <1>13, <1>14, <1>15, <1>16, <1>17, <1>18, <1>19 DEF Filled, entry

\* The end of fat32_write.
LEMMA WriteTextEnds ==
  ASSUME NEW a, NEW dir, NEW n, NEW s
  PROVE  LET f == Fill(a.d, a.ch, s)
             g == DirAddEntry(f, dir, TextEntry(n, s, a.ch[1]))
         IN  WriteText(a, dir, n, s) = IF a.full THEN FreeAndFail(a.d, a.ch)
                                       ELSE IF ~ f.ok THEN FreeAndFail(f, a.ch)
                                       ELSE IF ~ g.ok THEN FreeAndFail(g, a.ch) ELSE g
BY DEF WriteText, Enter, OrFree, TextEntry

\* fat32_write from the allocation on leaves a healthy disk.
LEMMA WriteTextIs ==
  ASSUME NEW d, Good(d), Healthy(d), NEW dir, HeadOrNone(d.fat, dir),
         NEW n \in {Short[x] : x \in DOMAIN Short}, NEW s \in Seq(PlainRows), s # <<>>
  PROVE  LET f == WriteText(AllocChain(d, Need(s)), dir, n, s)
         IN  Good(f) /\ Healthy(f)
<1> DEFINE m  == Need(s)
           a  == AllocChain(d, m)
           ch == a.ch
           h  == ch[1]
           entry == TextEntry(n, s, h)
           f  == Fill(a.d, ch, s)
           g  == DirAddEntry(f, dir, entry)
           L  == Used(d.fat)
<1>1. WriteText(a, dir, n, s) = IF a.full THEN FreeAndFail(a.d, ch)
                                ELSE IF ~ f.ok THEN FreeAndFail(f, ch)
                                ELSE IF ~ g.ok THEN FreeAndFail(g, ch) ELSE g
  BY WriteTextEnds
<1>2. CASE a.full
  <2>1. m \in Nat
    BY NeedIs
  <2>2. a \in Makings /\ Growing(d, a) /\ Links(d.fat)
    BY <2>1, HealthyIs, AllocIs
  <2> HIDE DEF a, m
  <2>3. /\ Sound(a.d.fat, a.d.data, L)
        /\ Used(a.d.fat) = L \cup {pl \in Places : pl[1] \in ToSet(ch)}
        /\ ch # <<>> => h \in ToSet(ch) /\ h # Root /\ \A pl \in L : ~ Names(d.data, pl, h)
    BY <2>2, GrowingSound
  <2>4. /\ Good(a.d) /\ a.d.data = d.data
        /\ ch # <<>> => IsHead(a.d.fat, h) /\ ChainIn(a.d.fat, h) = ch
    BY <2>2 DEF Growing
  <2>5. \A pl \in Used(a.d.fat) : pl \in L \/ (ch # <<>> /\ pl[1] \in ClustersOf(a.d.fat, h))
    BY <2>3, <2>4, ToSetEmpty DEF ClustersOf
  <2>6. Good(FreeAndFail(a.d, ch)) /\ Healthy(FreeAndFail(a.d, ch))
    BY <2>3, <2>4, <2>5, FreeAndFailIs
  <2> QED
    BY <1>1, <1>2, <2>6 DEF a, m
<1>3. CASE ~ a.full
  <2>1. Filled(d, dir, n, s, a, f)
    BY <1>3, FilledIs
  <2> HIDE DEF a, f, m
  <2>2. /\ ch # <<>> /\ Good(f) /\ IsHead(f.fat, h) /\ h # Root /\ ChainIn(f.fat, h) = ch
        /\ Sound(f.fat, f.data, L) /\ \A pl \in L : ~ Names(f.data, pl, h)
        /\ \A pl \in Used(f.fat) : pl \in L \/ pl[1] \in ClustersOf(f.fat, h)
        /\ f.ok => /\ Healthy(f) /\ NamedNowhere(f, h) /\ HeadOrNone(f.fat, dir) /\ h # dir
                   /\ entry \in EntryRows /\ NameHead(f.fat, entry)
    BY <2>1 DEF Filled
  <2> HIDE DEF entry
  <2>3. CASE ~ f.ok
    <3>1. Good(FreeAndFail(f, ch)) /\ Healthy(FreeAndFail(f, ch))
      BY <2>2, FreeAndFailIs
    <3> QED
      BY <1>1, <1>3, <2>3, <3>1 DEF a, m
  <2>4. CASE f.ok
    <3>1. entry.first = h
      BY DEF entry, TextEntry
    <3>2. /\ Good(g) /\ Healthy(g) /\ (g.ok => f.ok) /\ HeadsStay(f, g, dir)
          /\ f.ok /\ ~ g.ok => NamedNowhere(g, h)
      BY <2>2, <2>4, <3>1, AddIs
    <3> HIDE DEF g
    <3>3. CASE g.ok
      BY <1>1, <1>3, <2>4, <3>2, <3>3 DEF a, m
    <3>4. CASE ~ g.ok
      <4>1. Sound(g.fat, g.data, Used(g.fat))
        BY <3>2, HealthyIs
      <4>2. IsHead(g.fat, h) /\ h # 0
        BY <2>2, <3>2, EntriesAre DEF HeadsStay, IsHead
      <4>3. \A pl \in Used(g.fat) : ~ Names(g.data, pl, h)
        BY <2>4, <3>2, <3>4, <4>2 DEF NamedNowhere
      <4>4. Good(FreeAndFail(g, ch)) /\ Healthy(FreeAndFail(g, ch))
        BY <2>2, <3>2, <4>1, <4>2, <4>3, FreeAndFailIs
      <4> QED
        BY <1>1, <1>3, <2>4, <3>4, <4>4 DEF a, m
    <3> QED
      BY <3>3, <3>4
  <2> QED
    BY <2>3, <2>4
<1> QED
  BY <1>2, <1>3

ShortNames == {Short[n] : n \in DOMAIN Short}

\* fat32_write leaves a healthy disk, whether it succeeds or fails.
LEMMA WriteFileIs ==
  ASSUME NEW d, Good(d), Healthy(d), NEW p \in Seq(ShortNames), p # <<>>, NEW s \in Seq(PlainRows)
  PROVE  Good(WriteFile(d, p, s)) /\ Healthy(WriteFile(d, p, s))
<1> DEFINE dir  == Parent(d, p)
           gone == DeleteEntry(FatFreeChain(d, ResolvePath(d, p)), dir, Last(p))
           f    == WriteText(AllocChain(gone, Need(s)), dir, Last(p), s)
<1>1. WriteFile(d, p, s) = IF dir = 0 THEN Fails(d) ELSE IF s = <<>> THEN gone ELSE f
  BY DEF WriteFile, WriteIn, Need
<1>2. Good(gone) /\ Healthy(gone) /\ HeadOrNone(gone.fat, dir)
  BY FileGone
<1>3. Last(p) \in ShortNames
  BY FrontIs
<1> HIDE DEF gone, dir
<1>4. s # <<>> => Good(f) /\ Healthy(f)
  BY <1>2, <1>3, WriteTextIs DEF ShortNames
<1>5. Good(Fails(d)) /\ Healthy(Fails(d))
  BY FailsHealthy
<1> HIDE DEF f
<1> QED
  BY <1>1, <1>2, <1>4, <1>5

\* fat32_delete leaves a healthy disk.
LEMMA DeleteFileIs ==
  ASSUME NEW d, Good(d), Healthy(d), NEW p \in Seq(ShortNames), p # <<>>
  PROVE  Good(DeleteFile(d, p)) /\ Healthy(DeleteFile(d, p))
<1> DEFINE gone == DeleteEntry(FatFreeChain(d, ResolvePath(d, p)), Parent(d, p), Last(p))
<1>1. DeleteFile(d, p) = IF Parent(d, p) = 0 \/ ~ Found(d, p) THEN Fails(d) ELSE gone
  BY DEF DeleteFile
<1>2. Good(gone) /\ Healthy(gone)
  BY FileGone
<1>3. Good(Fails(d)) /\ Healthy(Fails(d))
  BY FailsHealthy
<1> HIDE DEF gone
<1> QED
  BY <1>1, <1>2, <1>3

\* A cluster is taken for a directory and its first rows are written.
LEMMA MadeIs ==
  ASSUME NEW d, Good(d), Healthy(d), NEW c \in Entries, d.fat[c] = 0, NEW rows \in PlainClusters
  PROVE  LET e == WriteCluster(FatWrite(d, c, Eoc), c, rows)
         IN  /\ Good(e) /\ Sound(e.fat, e.data, Used(d.fat))
             /\ IsHead(e.fat, c) /\ ChainIn(e.fat, c) = <<c>> /\ c # Root
             /\ \A h : IsHead(d.fat, h) => h # c /\ IsHead(e.fat, h) /\ ChainIn(e.fat, h) = ChainIn(d.fat, h)
             /\ \A pl \in Used(e.fat) : pl \in Used(d.fat) \/ pl[1] = c
             /\ \A pl \in Used(d.fat) : ~ Names(e.data, pl, c)
             /\ e.ok => d.ok /\ Healthy(e) /\ NamedNowhere(e, c)
<1> DEFINE d1  == FatWrite(d, c, Eoc)
           e   == WriteCluster(d1, c, rows)
           fat == [d.fat EXCEPT ![c] = Eoc]
           L   == Used(d.fat)
<1>1. Links(d.fat) /\ Sound(d.fat, d.data, L) /\ d.fat \in Fats /\ d.data \in Datas
  BY HealthyIs
<1>2. c # Root /\ Eoc \in Links0 /\ c # 0
  BY <1>1, EntriesAre DEF Links, Links0
<1>3. /\ Links(fat) /\ IsHead(fat, c) /\ ChainIn(fat, c) = <<c>>
      /\ \A h : IsHead(d.fat, h) => h # c /\ IsHead(fat, h) /\ ChainIn(fat, h) = ChainIn(d.fat, h)
  BY <1>1, TakenLinks
<1>4. Sound(fat, d.data, L)
  BY <1>1, TakenSound
<1>5. Good(d1) /\ d1.fat = fat /\ d1.data = d.data /\ d1.ok = d.ok
  BY <1>2, FatWriteIs
<1>6. \A x \in Entries \ {c} : fat[x] = d.fat[x]
  BY <1>1 DEF Fats
<1> HIDE DEF fat, d1
<1>7. rows \in Clusters /\ \A i \in 1..Rows : rows[i].kind # "entry"
  BY RowKinds DEF PlainClusters, Clusters
<1>8. /\ Good(e) /\ e.fat = d1.fat
      /\ OnDisk(c) => /\ e.data = [d1.data EXCEPT ![c] = rows] /\ e.ok = d1.ok
                      /\ e.log = Append(d1.log, <<d1.fat, [d1.data EXCEPT ![c] = rows]>>)
      /\ ~ OnDisk(c) => e.data = d1.data /\ e.ok = FALSE /\ e.log = d1.log
  BY <1>5, <1>7, WriteClusterIs
<1> HIDE DEF e
<1>9. \A pl \in Used(fat) : pl \in L \/ pl[1] = c
  <2>1. \A pl \in Places : pl[1] \in Entries
    BY EntriesAre DEF Places
  <2> QED
    BY <1>6, <2>1 DEF Used
<1>10. \A pl \in L : pl \in Places /\ pl[1] # c /\ pl[1] \in 2..LastCluster
  BY DEF Used, Places
<1>11. \A b \in 2..LastCluster : b # c => e.data[b] = d.data[b]
  BY <1>1, <1>5, <1>8 DEF Datas
<1>12. \A pl \in L : RowIn(e.data, pl) = RowIn(d.data, pl)
  BY <1>10, <1>11 DEF RowIn
<1>13. IsDisk(e) /\ e.data \in Datas
  BY <1>8, GoodDisk DEF IsDisk
<1>14. L \in SUBSET Places /\ Used(fat) \in SUBSET Places
  BY DEF Used
<1>15. Sound(fat, e.data, L)
  <2> HIDE DEF L
  <2> QED
    BY <1>4, <1>12, <1>13, <1>14, RowsSound
<1>16. \A pl \in L : ~ Names(e.data, pl, c)
  <2>1. \A pl \in L : ~ Names(d.data, pl, c)
    BY <1>1, <1>2, <1>3 DEF Sound, NameHead, Names
  <2> QED
    BY <1>12, <2>1 DEF Names, IsEntry
<1>17. ASSUME e.ok PROVE d.ok /\ Healthy(e) /\ NamedNowhere(e, c)
  <2>1. OnDisk(c) /\ d.ok /\ c \in 2..LastCluster
    BY <1>5, <1>8, <1>17, EntriesAre
  <2>2. e.data[c] = rows
    BY <1>1, <1>5, <1>8, <2>1 DEF Datas
  <2>3. \A pl \in Places : pl[1] = c => ~ IsEntry(e.data, pl)
    BY <1>7, <2>2 DEF IsEntry, RowIn, Places
  <2>4. \A pl \in Used(fat) : ~ IsEntry(e.data, pl) \/ (pl \in L /\ RowIn(e.data, pl) = RowIn(e.data, pl))
    BY <1>9, <1>14, <2>3
  <2>5. Sound(fat, e.data, Used(fat))
    <3> HIDE DEF L
    <3> QED
      BY <1>13, <1>14, <1>15, <2>4, RowsSound
  <2>6. NamedNowhere(e, c)
    BY <1>5, <1>8, <1>9, <1>14, <1>16, <2>3 DEF NamedNowhere, Names
  <2> QED
    BY <1>5, <1>8, <1>13, <2>1, <2>5, <2>6 DEF Healthy
<1> QED
  BY <1>2, <1>3, <1>5, <1>8, <1>9, <1>15, <1>16, <1>17 DEF e, d1

\* fat32_create leaves a healthy disk, whether it succeeds or fails.
LEMMA CreateEntryIs ==
  ASSUME NEW d, Good(d), Healthy(d), NEW p \in Seq(ShortNames), p # <<>>, NEW dir \in BOOLEAN
  PROVE  Good(CreateEntry(d, p, dir)) /\ Healthy(CreateEntry(d, p, dir))
<1> DEFINE parent == Parent(d, p)
           c      == FatFindFree(d)
           dots   == [i \in 1..Rows |-> IF i <= 2 THEN Dot ELSE Zero]
           made   == WriteCluster(FatWrite(d, c, Eoc), c, dots)
           New(first) == [kind |-> "entry", name |-> Last(p), dir |-> dir, first |-> first, size |-> 0]
           e == CreateIn(d, parent, p, dir, c)
<1>1. CreateEntry(d, p, dir) = e
  BY DEF CreateEntry
<1>2. e = IF parent = 0 \/ ResolvePath(d, p) # 0 THEN Fails(d)
          ELSE IF ~ dir THEN DirAddEntry(d, parent, New(0))
          ELSE IF c = 0 THEN Fails(d)
          ELSE IF ~ made.ok THEN FreeAndFail(made, <<c>>)
          ELSE DirAddEntry(made, parent, New(c))
  BY DEF CreateIn
<1>3. HeadOrNone(d.fat, parent) /\ Last(p) \in ShortNames
  BY ParentIs, FrontIs
<1>4. Good(Fails(d)) /\ Healthy(Fails(d))
  BY FailsHealthy
<1>5. \A x \in Entries \cup {0} : New(x) \in EntryRows /\ New(x).first = x /\ New(x).size = 0
  BY <1>3 DEF EntryRows, AnyEntry, ShortNames
<1>6. dots \in PlainClusters
  BY RowKinds DEF PlainClusters
<1>7. c = 0 \/ (c \in Entries /\ d.fat[c] = 0)
  BY FindFreeIs
<1> HIDE DEF New, c, parent, e, dots
<1>8. Good(DirAddEntry(d, parent, New(0))) /\ Healthy(DirAddEntry(d, parent, New(0)))
  <2>1. New(0) \in EntryRows /\ NameHead(d.fat, New(0)) /\ NamedNowhere(d, New(0).first) /\ New(0).first = 0
    BY <1>5 DEF NameHead, NamedNowhere
  <2> QED
    BY <1>3, <2>1, AddIs
<1>9. ASSUME c # 0
      PROVE  /\ ~ made.ok => Good(FreeAndFail(made, <<c>>)) /\ Healthy(FreeAndFail(made, <<c>>))
             /\ made.ok => Good(DirAddEntry(made, parent, New(c))) /\ Healthy(DirAddEntry(made, parent, New(c)))
  <2>0. c \in Entries /\ d.fat[c] = 0
    BY <1>7, <1>9
  <2>1. /\ Good(made) /\ Sound(made.fat, made.data, Used(d.fat))
        /\ IsHead(made.fat, c) /\ ChainIn(made.fat, c) = <<c>> /\ c # Root
        /\ \A h : IsHead(d.fat, h) => h # c /\ IsHead(made.fat, h) /\ ChainIn(made.fat, h) = ChainIn(d.fat, h)
        /\ \A pl \in Used(made.fat) : pl \in Used(d.fat) \/ pl[1] = c
        /\ \A pl \in Used(d.fat) : ~ Names(made.data, pl, c)
        /\ made.ok => d.ok /\ Healthy(made) /\ NamedNowhere(made, c)
    BY <1>6, <2>0, MadeIs
  <2> HIDE DEF made
  <2>2. Links(made.fat) /\ c \in ClustersOf(made.fat, c)
    BY <2>1, ClustersAre DEF Sound
  <2> DEFINE ch == <<c>>
  <2>3. ch # <<>> /\ ch[1] = c
    OBVIOUS
  <2> HIDE DEF ch
  <2>4. Good(FreeAndFail(made, ch)) /\ Healthy(FreeAndFail(made, ch))
    BY <2>1, <2>2, <2>3, FreeAndFailIs
  <2>5. ASSUME made.ok
        PROVE  Good(DirAddEntry(made, parent, New(c))) /\ Healthy(DirAddEntry(made, parent, New(c)))
    <3>1. New(c) \in EntryRows /\ New(c).first = c /\ New(c).size = 0
      BY <1>5, <2>0
    <3>2. HeadOrNone(made.fat, parent) /\ c # parent
      BY <1>3, <2>0, <2>1 DEF HeadOrNone
    <3>3. NameHead(made.fat, New(c))
      <4>1. ChainIn(made.fat, c) \in Seq(Entries)
        <5>1. ChainIn(made.fat, c) = <<c>>
          BY <2>1
        <5> QED
          BY <2>0, <5>1
      <4>2. Room(made.fat, c) \in Nat
        <5>1. Readable(ChainIn(made.fat, c)) \in Seq(2..LastCluster)
          BY <4>1, ReadableIs
        <5>2. Len(Readable(ChainIn(made.fat, c))) \in Nat
          BY <5>1
        <5> QED
          BY <5>2, EntriesAre DEF Room
      <4> QED
        BY <2>1, <3>1, <4>2, EntriesAre DEF NameHead
    <3>4. Healthy(made) /\ NamedNowhere(made, New(c).first)
      BY <2>1, <2>5, <3>1
    <3> QED
      BY <2>1, <3>1, <3>2, <3>3, <3>4, AddIs
  <2> QED
    BY <2>4, <2>5 DEF ch
<1> HIDE DEF made
<1> QED
  BY <1>1, <1>2, <1>4, <1>8, <1>9

-----------------------------------------------------------------------------
(***************************************************************************)
(* What fat32_read returns of a text, for every size of cluster.           *)
(***************************************************************************)

\* Two loops that begin alike and take the same turns are the same.
LEMMA SameLoop ==
  ASSUME NEW m \in Nat, NEW w, FunctionOn(w, 0..m), NEW f, FunctionOn(f, 0..m), f[0] = w[0],
         \A n \in 1..m : f[n - 1] = w[n - 1] => f[n] = w[n]
  PROVE  f = w
<1> DEFINE T == {n \in Nat : n <= m => f[n] = w[n]}
<1>1. 0 \in T
  OBVIOUS
<1>2. ASSUME NEW n \in Nat, n \in T PROVE n + 1 \in T
  <2> SUFFICES ASSUME n + 1 <= m PROVE f[n + 1] = w[n + 1]
    OBVIOUS
  <2>1. n + 1 \in 1..m /\ (n + 1) - 1 = n /\ f[n] = w[n]
    BY <1>2
  <2> QED
    BY <2>1
<1>3. \A n \in Nat : n \in T
  <2> HIDE DEF T
  <2> QED
    BY <1>1, <1>2, NatInd
<1>4. \A n \in 0..m : f[n] = w[n]
  BY <1>3
<1> QED
  BY <1>4, Zenon DEF FunctionOn

\* Where a row is in a text whose clusters hold Rows rows.
LEMMA Division ==
  ASSUME NEW a \in Nat
  PROVE  /\ a \div Rows \in Nat /\ a % Rows \in Nat /\ a % Rows < Rows
         /\ Rows * (a \div Rows) \in Nat /\ a = Rows * (a \div Rows) + (a % Rows)
<1>1. Rows \in Nat /\ Rows >= 1
  BY EntriesAre
<1> DEFINE q == a \div Rows
<1>2. q \in Int /\ Rows * q <= a /\ a < Rows * q + Rows /\ a % Rows = a - Rows * q
  BY <1>1
<1> HIDE DEF q
<1>3. q >= 0
  <2>1. CASE q <= -1
    <3>1. Rows * q <= Rows * (-1)
      BY <1>1, <1>2, <2>1
    <3> QED
      BY <1>1, <1>2, <3>1
  <2> QED
    BY <1>2, <2>1
<1>4. q \in Nat /\ Rows * q \in Nat
  BY <1>1, <1>2, <1>3
<1> QED
  BY <1>1, <1>2, <1>4 DEF q

\* Products of Rows.
LEMMA RowsTimes ==
  ASSUME NEW x \in Nat, NEW y \in Nat
  PROVE  /\ Rows * x \in Nat /\ Rows * y \in Nat /\ Rows * (x + 1) = Rows * x + Rows
         /\ Rows * (x + y) = Rows * x + Rows * y
         /\ x < y => Rows * x + Rows <= Rows * y
         /\ x <= y => Rows * x <= Rows * y
         /\ y <= Rows * y
<1>1. Rows \in Nat /\ Rows >= 1
  BY EntriesAre
<1>2. Rows * x \in Nat /\ Rows * y \in Nat /\ Rows * (x + 1) = Rows * x + Rows
  BY <1>1
<1>3. x < y => Rows * (x + 1) <= Rows * y
  BY <1>1, TimesLeq
<1>4. x <= y => Rows * x <= Rows * y
  BY <1>1, TimesLeq
<1>5. y <= Rows * y
  <2>1. y * 1 <= y * Rows
    BY <1>1, TimesLeq
  <2>2. y * Rows = Rows * y /\ y * 1 = y
    BY <1>1
  <2> QED
    BY <2>1, <2>2
<1>6. Rows * (x + y) = Rows * x + Rows * y
  BY <1>1
<1> QED
  BY <1>2, <1>3, <1>4, <1>5, <1>6

\* Row b of the cluster at a.
LEMMA Divided ==
  ASSUME NEW a \in Nat, NEW b \in Nat, b < Rows
  PROVE  (Rows * a + b) \div Rows = a /\ (Rows * a + b) % Rows = b
<1>1. Rows \in Nat /\ Rows * a \in Nat
  BY EntriesAre, RowsTimes
<1> DEFINE x == Rows * a + b
           q == x \div Rows
           z == Rows * a
           y == Rows * q
           r == x % Rows
<1>2. q \in Nat /\ r \in Nat /\ r < Rows /\ x = y + r /\ y \in Nat
  BY <1>1, Division
<1>3. (a < q => z + Rows <= y) /\ (q < a => y + Rows <= z)
  BY <1>2, RowsTimes
<1>4. x = z + b
  OBVIOUS
<1> HIDE DEF x, q, y, z, r
<1>5. q = a
  BY <1>1, <1>2, <1>3, <1>4 DEF z
<1>6. y = z
  BY <1>5 DEF y, z
<1>7. r = b
  BY <1>1, <1>2, <1>4, <1>6 DEF z
<1> QED
  BY <1>5, <1>7 DEF q, r, x

\* The clusters of a chain, one by one.
LEMMA ChainLinks ==
  ASSUME NEW d, IsDisk(d), Links(d.fat), NEW c, IsHead(d.fat, c)
  PROVE  /\ ChainIn(d.fat, c) \in Seq(Entries) /\ ChainIn(d.fat, c)[1] = c
         /\ Len(ChainIn(d.fat, c)) \in Nat /\ Len(ChainIn(d.fat, c)) < FatEnd
         /\ \A i \in 1..Len(ChainIn(d.fat, c)) : ChainIn(d.fat, c)[i] \in Entries
         /\ \A i \in 1..(Len(ChainIn(d.fat, c)) - 1) :
              FatRead(d, ChainIn(d.fat, c)[i]) = ChainIn(d.fat, c)[i + 1]
<1> DEFINE ch == ChainIn(d.fat, c)
<1>1. IsChain(d.fat, c, ch)
  BY HeadChain
<1>2. IsPath(d.fat, c, ch) /\ ch # <<>>
  BY <1>1 DEF IsChain
<1> HIDE DEF ch
<1>3. Len(ch) < FatEnd
  BY <1>2, PathLength
<1>4. /\ ch \in Seq(Entries) /\ ch[1] = c
      /\ \A i \in 1..(Len(ch) - 1) : d.fat[ch[i]] = ch[i + 1]
  BY <1>2 DEF IsPath
<1>5. \A x : FatRead(d, x) = d.fat[x]
  BY ReadIs DEF IsDisk
<1>6. Len(ch) \in Nat /\ \A i \in 1..Len(ch) : ch[i] \in Entries
  BY <1>4
<1> QED
  BY <1>3, <1>4, <1>5, <1>6 DEF ch

\* fat32_read skips to the cluster that row off of the chain is in.
LEMMA Skipped ==
  ASSUME NEW d, IsDisk(d), Links(d.fat), NEW c, IsHead(d.fat, c),
         NEW off \in Nat, off \div Rows < Len(ChainIn(d.fat, c))
  PROVE  SkipTo(d, c, off) = [c    |-> ChainIn(d.fat, c)[(off \div Rows) + 1],
                              skip |-> off % Rows]
<1> DEFINE ch    == ChainIn(d.fat, c)
           K     == off \div Rows
           Lo(n) == IF n <= K THEN n ELSE K
           C(n)  == [c |-> ch[Lo(n) + 1], skip |-> off - Rows * Lo(n)]
           w     == [n \in 0..FatEnd |-> C(n)]
           b     == [c |-> c, skip |-> off]
           IsRun(f) == f = [n \in 0..FatEnd |-> IF n = 0 THEN b ELSE SkipCluster(d, f[n - 1])]
<1>1. /\ Len(ch) \in Nat /\ ch[1] = c /\ Len(ch) < FatEnd
      /\ \A i \in 1..Len(ch) : ch[i] \in Entries
      /\ \A i \in 1..(Len(ch) - 1) : FatRead(d, ch[i]) = ch[i + 1]
  BY ONLY IsDisk(d), Links(d.fat), IsHead(d.fat, c), ChainLinks, SMTT(30)
<1>2. /\ K \in Nat /\ off % Rows \in Nat /\ off % Rows < Rows /\ Rows * K \in Nat
      /\ off = Rows * K + (off % Rows) /\ K < Len(ch) /\ FatEnd \in Nat /\ Rows \in Nat
  BY Division, EntriesAre
<1>3. \A x : InChain(x) <=> x \in Entries
  BY EntriesAre
<1> HIDE DEF ch, K
<1>4. ASSUME NEW n \in 1..FatEnd PROVE C(n) = SkipCluster(d, C(n - 1))
  <2> DEFINE m == Lo(n - 1)
             z == Rows * m
  <2>1. m \in 0..K /\ m \in Nat /\ n - 1 \in Nat
    BY <1>2
  <2>2. Lo(n) = IF n - 1 < K THEN m + 1 ELSE m
    BY <1>2
  <2>3. n - 1 < K <=> m < K
    BY <1>2
  <2> HIDE DEF m
  <2>4. z \in Nat /\ Rows * (m + 1) = z + Rows /\ (m < K => z + Rows <= Rows * K)
        /\ (m = K => z = Rows * K)
    BY <1>2, <2>1, RowsTimes
  <2> HIDE DEF z
  <2>5. (off - z >= Rows) <=> m < K
    BY <1>2, <2>1, <2>4
  <2>6. C(n - 1) = [c |-> ch[m + 1], skip |-> off - z]
    BY DEF m, z
  <2>7. m + 1 \in 1..Len(ch) /\ InChain(ch[m + 1])
    BY <1>1, <1>2, <1>3, <2>1
  <2>8. CASE m < K
    <3>1. FatRead(d, ch[m + 1]) = ch[(m + 1) + 1]
      <4>1. m + 1 \in 1..(Len(ch) - 1)
        BY <1>2, <2>1, <2>8
      <4> QED
        BY <1>1, <4>1
    <3>2. SkipCluster(d, C(n - 1)) = [c |-> ch[(m + 1) + 1], skip |-> (off - z) - Rows]
      BY <2>5, <2>6, <2>7, <2>8, <3>1 DEF SkipCluster
    <3>3. C(n) = [c |-> ch[(m + 1) + 1], skip |-> off - (z + Rows)]
      BY <2>2, <2>3, <2>4, <2>8
    <3>4. (off - z) - Rows = off - (z + Rows)
      BY <1>2, <2>4
    <3> QED
      BY <3>2, <3>3, <3>4
  <2>9. CASE ~ (m < K)
    <3>1. SkipCluster(d, C(n - 1)) = C(n - 1)
      BY <2>5, <2>6, <2>7, <2>9 DEF SkipCluster
    <3>2. C(n) = [c |-> ch[m + 1], skip |-> off - z]
      BY <2>2, <2>3, <2>9 DEF z
    <3> QED
      BY <2>6, <3>1, <3>2
  <2> QED
    BY <2>8, <2>9
<1>5. C(0) = b
  <2>1. Lo(0) = 0 /\ Rows * 0 = 0
    BY <1>2
  <2> QED
    BY <1>1, <1>2, <2>1
<1>6. C(FatEnd) = [c |-> ch[K + 1], skip |-> off % Rows]
  <2>1. Lo(FatEnd) = K /\ off - Rows * K = off % Rows
    BY <1>1, <1>2
  <2> QED
    BY <2>1
<1> HIDE DEF C, b
<1>7. IsRun(w)
  <2>1. \A n \in 0..FatEnd : w[n] = IF n = 0 THEN b ELSE SkipCluster(d, w[n - 1])
    <3> TAKE n \in 0..FatEnd
    <3>1. CASE n = 0
      BY <1>5, <3>1
    <3>2. CASE n # 0
      <4>1. n \in 1..FatEnd /\ n - 1 \in 0..FatEnd
        BY <1>2, <3>2
      <4> QED
        BY <1>4, <3>2, <4>1
    <3> QED
      BY <3>1, <3>2
  <2>2. w = [n \in 0..FatEnd |-> w[n]]
    OBVIOUS
  <2> HIDE DEF w
  <2> QED
    BY <2>1, <2>2, Zenon
<1> DEFINE f == CHOOSE x : IsRun(x)
<1>8. IsRun(f)
  <2> HIDE DEF w
  <2> QED
    BY <1>7, Zenon
<1>9. SkipTo(d, c, off) = f[FatEnd]
  BY Zenon DEF SkipTo, b
<1> HIDE DEF f
<1>10. FunctionOn(f, 0..FatEnd) /\ \A n \in 0..FatEnd : f[n] = IF n = 0 THEN b ELSE SkipCluster(d, f[n - 1])
  <2>1. \A n \in 0..FatEnd : f[n] = IF n = 0 THEN b ELSE SkipCluster(d, f[n - 1])
    BY <1>8, Zenon
  <2>2. f = [n \in 0..FatEnd |-> f[n]]
    BY <1>8, <2>1, Zenon
  <2> QED
    BY <2>1, <2>2 DEF FunctionOn
<1>11. f = w
  <2>1. f[0] = w[0]
    BY <1>2, <1>5, <1>10
  <2>2. \A n \in 1..FatEnd : f[n - 1] = w[n - 1] => f[n] = w[n]
    <3> TAKE n \in 1..FatEnd
    <3>1. n \in 0..FatEnd /\ n - 1 \in 0..FatEnd /\ n # 0
      BY <1>2
    <3>2. w[n] = C(n) /\ w[n - 1] = C(n - 1) /\ f[n] = SkipCluster(d, f[n - 1])
      BY <1>10, <3>1
    <3> QED
      BY <1>4, <3>2
  <2>3. FunctionOn(w, 0..FatEnd)
    BY DEF FunctionOn
  <2> HIDE DEF w
  <2> QED
    BY <1>2, <1>10, <2>1, <2>2, <2>3, SameLoop
<1>12. w[FatEnd] = C(FatEnd)
  BY <1>2
<1> HIDE DEF w
<1> QED
  BY <1>6, <1>9, <1>11, <1>12 DEF ch, K


\* The smaller of two numbers.
LEMMA MinTwo ==
  ASSUME NEW a \in Nat, NEW b \in Nat
  PROVE  Min({a, b}) = (IF a <= b THEN a ELSE b) /\ Min({a, b}) \in Nat
<1> DEFINE m == Min({a, b})
<1>1. m \in {a, b} /\ \A y \in {a, b} : m <= y
  BY MinIs
<1> HIDE DEF m
<1>2. m = IF a <= b THEN a ELSE b
  BY <1>1
<1> QED
  BY <1>2 DEF m

\* The rows of t from o up to q, and rows of t from q on found in another one.
Part(t, o, q) == SubSeq(t, o + 1, q)

Agree(row, z, t, q, k) == \A i \in 1..k : row[z + i] = t[q + i]

\* A part of t goes on with rows that t has next.
LEMMA Piece ==
  ASSUME NEW U, NEW t \in Seq(U), NEW row \in Seq(U), NEW o \in Nat, NEW q \in Nat, o <= q,
         NEW k \in Nat, q + k <= Len(t), NEW z \in Nat, z + k <= Len(row),
         Agree(row, z, t, q, k)
  PROVE  Part(t, o, q) \o Part(row, z, z + k) = Part(t, o, q + k)
<1> DEFINE s1 == SubSeq(t, o + 1, q)
           s2 == SubSeq(row, z + 1, z + k)
           s3 == SubSeq(t, o + 1, q + k)
<1>0. Len(t) \in Nat /\ Len(row) \in Nat
  OBVIOUS
<1>1. /\ s1 \in Seq(U) /\ Len(s1) = q - o
      /\ \A i \in 1..(q - o) : s1[i] = t[o + i]
  <2>1. \A i \in (o + 1)..q : t[i] \in U
    BY <1>0
  <2>2. /\ s1 \in Seq(U) /\ Len(s1) = IF o + 1 <= q THEN q - (o + 1) + 1 ELSE 0
        /\ \A i \in 1 .. q - (o + 1) + 1 : s1[i] = t[(o + 1) + i - 1]
    <3>1. o + 1 \in Int /\ q \in Int
      OBVIOUS
    <3> QED
      BY ONLY <2>1, <3>1, SubSeqProperties
  <2> HIDE DEF s1
  <2>3. \A i \in 1..(q - o) : i \in 1 .. q - (o + 1) + 1 /\ (o + 1) + i - 1 = o + i
    OBVIOUS
  <2> QED
    BY <2>2, <2>3
<1>2. /\ s2 \in Seq(U) /\ Len(s2) = k
      /\ \A i \in 1..k : s2[i] = row[z + i]
  <2>1. \A i \in (z + 1)..(z + k) : row[i] \in U
    BY <1>0
  <2>2. /\ s2 \in Seq(U) /\ Len(s2) = IF z + 1 <= z + k THEN (z + k) - (z + 1) + 1 ELSE 0
        /\ \A i \in 1 .. (z + k) - (z + 1) + 1 : s2[i] = row[(z + 1) + i - 1]
    <3>1. z + 1 \in Int /\ z + k \in Int
      OBVIOUS
    <3> QED
      BY ONLY <2>1, <3>1, SubSeqProperties
  <2> HIDE DEF s2
  <2>3. \A i \in 1..k : i \in 1 .. (z + k) - (z + 1) + 1 /\ (z + 1) + i - 1 = z + i
    OBVIOUS
  <2> QED
    BY <2>2, <2>3
<1>3. /\ s3 \in Seq(U) /\ Len(s3) = q + k - o
      /\ \A i \in 1..(q + k - o) : s3[i] = t[o + i]
  <2>1. \A i \in (o + 1)..(q + k) : t[i] \in U
    BY <1>0
  <2>2. /\ s3 \in Seq(U) /\ Len(s3) = IF o + 1 <= q + k THEN (q + k) - (o + 1) + 1 ELSE 0
        /\ \A i \in 1 .. (q + k) - (o + 1) + 1 : s3[i] = t[(o + 1) + i - 1]
    <3>1. o + 1 \in Int /\ q + k \in Int
      OBVIOUS
    <3> QED
      BY ONLY <2>1, <3>1, SubSeqProperties
  <2> HIDE DEF s3
  <2>3. \A i \in 1..(q + k - o) : i \in 1 .. (q + k) - (o + 1) + 1 /\ (o + 1) + i - 1 = o + i
    OBVIOUS
  <2> QED
    BY <2>2, <2>3
<1> HIDE DEF s1, s2, s3
<1>4. /\ s1 \o s2 \in Seq(U) /\ Len(s1 \o s2) = Len(s1) + Len(s2)
      /\ \A i \in 1 .. Len(s1) + Len(s2) :
           (s1 \o s2)[i] = IF i <= Len(s1) THEN s1[i] ELSE s2[i - Len(s1)]
  BY <1>1, <1>2, ConcatProperties, ZenonT(60)
<1>5. Len(s1 \o s2) = Len(s3)
  BY <1>1, <1>2, <1>3, <1>4
<1>6. ASSUME NEW i \in 1..Len(s1 \o s2)
      PROVE  (s1 \o s2)[i] = s3[i]
  <2>1. i \in 1..(q + k - o) /\ s3[i] = t[o + i]
    BY <1>1, <1>2, <1>3, <1>4
  <2>2. CASE i <= q - o
    BY <1>1, <1>2, <1>4, <2>1, <2>2
  <2>3. CASE ~ (i <= q - o)
    <3> DEFINE j == i - (q - o)
    <3>1. j \in 1..k /\ q + j = o + i
      BY <2>1, <2>3, SMTT(30)
    <3>2. (s1 \o s2)[i] = s2[j]
      BY <1>1, <1>2, <1>4, <2>1, <2>3
    <3> HIDE DEF j
    <3> QED
      BY <1>2, <2>1, <3>1, <3>2 DEF Agree
  <2> QED
    BY <2>2, <2>3
<1> QED
  BY <1>3, <1>4, <1>5, <1>6, SeqEqual DEF s1, s2, s3, Part

\* Row k of the text that the chain of c holds.
RowOf(d, c, k) == d.data[ChainIn(d.fat, c)[((k - 1) \div Rows) + 1]][((k - 1) % Rows) + 1]

\* The text of a file is a sequence of rows, one for each unit of its size.
LEMMA TextIs ==
  ASSUME NEW d, IsDisk(d), Links(d.fat), NEW c, IsHead(d.fat, c),
         NEW size \in Nat, size <= Room(d.fat, c)
  PROVE  LET t == TextIn(d, Readable(ChainIn(d.fat, c)), size)
         IN  /\ t \in Seq(RowSet) /\ Len(t) = size
             /\ \A k \in 1..size : t[k] = RowOf(d, c, k)
<1> DEFINE ch == ChainIn(d.fat, c)
           rd == Readable(ch)
           m  == Len(rd)
           t  == TextIn(d, rd, size)
<1>1. ch \in Seq(Entries)
  BY ChainLinks
<1>2. m \in Nat /\ \A k \in 1..m : rd[k] = ch[k] /\ ch[k] \in 2..LastCluster
  BY <1>1, ReadablePart
<1>3. size <= Rows * m /\ Rows * m \in Nat
  <2>1. Rows * m \in Nat
    BY <1>2, RowsTimes
  <2> QED
    BY <2>1 DEF Room
<1>4. Min({size, Rows * m}) = size
  BY <1>3, MinTwo
<1>5. t = [k \in 1..size |-> d.data[rd[((k - 1) \div Rows) + 1]][((k - 1) % Rows) + 1]]
  BY <1>4 DEF TextIn
<1> HIDE DEF ch, rd, m, t
<1>6. ASSUME NEW k \in 1..size
      PROVE  /\ rd[((k - 1) \div Rows) + 1] = ch[((k - 1) \div Rows) + 1]
             /\ d.data[rd[((k - 1) \div Rows) + 1]][((k - 1) % Rows) + 1] \in RowSet
  <2> DEFINE q == (k - 1) \div Rows
             r == (k - 1) % Rows
  <2>1. k - 1 \in Nat /\ k - 1 < size
    OBVIOUS
  <2>2. q \in Nat /\ r \in Nat /\ r < Rows /\ Rows * q \in Nat /\ k - 1 = Rows * q + r
    BY <2>1, Division
  <2>4. m <= q => Rows * m <= Rows * q
    BY <1>2, <2>2, RowsTimes
  <2> HIDE DEF q, r
  <2>3. Rows \in Nat
    BY EntriesAre
  <2>5. q + 1 \in 1..m /\ r + 1 \in 1..Rows
    BY <1>2, <1>3, <2>1, <2>2, <2>3, <2>4
  <2>6. rd[q + 1] = ch[q + 1] /\ ch[q + 1] \in 2..LastCluster
    BY <1>2, <2>5
  <2>7. d.data[ch[q + 1]] \in [1..Rows -> RowSet]
    BY <2>6 DEF IsDisk, Datas, Clusters
  <2>8. d.data[ch[q + 1]][r + 1] \in RowSet
    BY <2>5, <2>7
  <2> QED
    BY <2>6, <2>8 DEF q, r
<1>7. t \in Seq(RowSet) /\ Len(t) = size
  <2> DEFINE v(k) == d.data[rd[((k - 1) \div Rows) + 1]][((k - 1) % Rows) + 1]
  <2>1. \A k \in 1..size : v(k) \in RowSet
    BY <1>6
  <2>2. t = [k \in 1..size |-> v(k)]
    BY <1>5
  <2> HIDE DEF v
  <2> QED
    BY <2>1, <2>2
<1>8. \A k \in 1..size : t[k] = RowOf(d, c, k)
  BY <1>5, <1>6 DEF RowOf, ch
<1> QED
  BY <1>7, <1>8 DEF ch, rd, t


\* What fat32_read has copied of a text t after n turns, from row off up to e.
CopyAt(n, off, e) ==
  IF n = 0 THEN off
  ELSE IF Rows * ((off \div Rows) + n) <= e THEN Rows * ((off \div Rows) + n) ELSE e

CopyState(d, c, t, off, e, n) ==
  [c    |-> IF CopyAt(n, off, e) < e THEN ChainIn(d.fat, c)[((off \div Rows) + n) + 1]
                                     ELSE FatRead(d, ChainIn(d.fat, c)[((e - 1) \div Rows) + 1]),
   skip |-> IF n = 0 THEN off % Rows ELSE 0,
   left |-> e - CopyAt(n, off, e),
   got  |-> SubSeq(t, off + 1, CopyAt(n, off, e))]

\* A turn copies what is left of its cluster, or of the part asked for.
LEMMA CopyTurn ==
  ASSUME NEW d, IsDisk(d), Links(d.fat), NEW c, IsHead(d.fat, c),
         NEW size \in Nat, size <= Room(d.fat, c), NEW off \in Nat, NEW e \in Nat, off < e, e <= size,
         NEW t, t = TextIn(d, Readable(ChainIn(d.fat, c)), size), NEW n \in Nat \ {0}
  PROVE  CopyState(d, c, t, off, e, n) = CopyCluster(d, CopyState(d, c, t, off, e, n - 1))
<1>0. /\ ChainIn(d.fat, c) \in Seq(Entries) /\ ChainIn(d.fat, c)[1] = c
      /\ Len(ChainIn(d.fat, c)) \in Nat /\ Len(ChainIn(d.fat, c)) < FatEnd
      /\ \A i \in 1..Len(ChainIn(d.fat, c)) : ChainIn(d.fat, c)[i] \in Entries
      /\ \A i \in 1..(Len(ChainIn(d.fat, c)) - 1) :
           FatRead(d, ChainIn(d.fat, c)[i]) = ChainIn(d.fat, c)[i + 1]
  BY ONLY IsDisk(d), Links(d.fat), IsHead(d.fat, c), ChainLinks, SMTT(30)
<1> DEFINE ch == ChainIn(d.fat, c)
           m  == Len(Readable(ch))
           K  == off \div Rows
           r  == off % Rows
           z  == Rows * K
           pos(k) == CopyAt(k, off, e)
           C(k)   == CopyState(d, c, t, off, e, k)
           u  == K + (n - 1)
           y  == Rows * u
           q  == pos(n - 1)
           x  == pos(n)
           b  == IF n = 1 THEN r ELSE 0
           S(k) == SubSeq(t, off + 1, k)
           Z  == FatRead(d, ch[((e - 1) \div Rows) + 1])
<1>1. /\ ch \in Seq(Entries) /\ Len(ch) \in Nat
      /\ \A i \in 1..Len(ch) : ch[i] \in Entries
      /\ \A i \in 1..(Len(ch) - 1) : FatRead(d, ch[i]) = ch[i + 1]
  BY <1>0
<1>2. m \in Nat /\ m <= Len(ch) /\ \A k \in 1..m : ch[k] \in 2..LastCluster
  BY <1>1, ReadablePart
<1>3. t \in Seq(RowSet) /\ Len(t) = size /\ \A k \in 1..size : t[k] = RowOf(d, c, k)
  BY TextIs
<1>4. Rows * m \in Nat /\ size <= Rows * m /\ Rows \in Nat /\ Rows >= 2
  BY <1>2, RowsTimes, EntriesAre DEF Room
<1>5. K \in Nat /\ r \in Nat /\ r < Rows /\ z \in Nat /\ off = z + r
  BY Division
<1>6. /\ q = (IF n = 1 THEN off ELSE IF y <= e THEN y ELSE e)
      /\ x = IF Rows * (u + 1) <= e THEN Rows * (u + 1) ELSE e
  <2>1. n - 1 \in Nat /\ (n - 1 = 0 <=> n = 1) /\ n # 0 /\ K + n = u + 1
    BY <1>5
  <2> HIDE DEF K
  <2> QED
    BY <2>1 DEF CopyAt, K
<1>7. /\ C(n - 1) = [c    |-> IF q < e THEN ch[u + 1] ELSE Z,
                     skip |-> b, left |-> e - q, got |-> S(q)]
      /\ C(n) = [c    |-> IF x < e THEN ch[(u + 1) + 1] ELSE Z,
                 skip |-> 0, left |-> e - x, got |-> S(x)]
  <2>1. n - 1 \in Nat /\ (n - 1 = 0 <=> n = 1) /\ n # 0 /\ K + n = u + 1 /\ K + (n - 1) = u
    BY <1>5
  <2> HIDE DEF K, u, pos
  <2>2. /\ C(n - 1) = [c    |-> IF q < e THEN ch[(K + (n - 1)) + 1] ELSE Z,
                       skip |-> IF n - 1 = 0 THEN r ELSE 0, left |-> e - q, got |-> S(q)]
        /\ C(n) = [c    |-> IF x < e THEN ch[(K + n) + 1] ELSE Z,
                   skip |-> IF n = 0 THEN r ELSE 0, left |-> e - x, got |-> S(x)]
    BY DEF CopyState, pos, K
  <2> HIDE DEF C, q, x, Z, r, ch, S
  <2> QED
    BY <2>1, <2>2
<1> HIDE DEF ch, m, K, r, z, pos, C, Z, S
<1>8. /\ u \in Nat /\ y \in Nat /\ Rows * (u + 1) = y + Rows
      /\ z <= y /\ (n # 1 => z + Rows <= y) /\ (n = 1 => z = y)
  <2>1. u \in Nat /\ K <= u /\ (n # 1 => K < u) /\ (n = 1 => K = u)
    BY <1>5
  <2> HIDE DEF u
  <2> QED
    BY <1>5, <2>1, RowsTimes DEF z
<1> HIDE DEF u
<1>9. x = IF y + Rows <= e THEN y + Rows ELSE e
  BY <1>6, <1>8
<1>10. q \in Nat /\ x \in Nat /\ off <= q /\ q <= e /\ x <= e
  <2> HIDE DEF y, q, x
  <2> QED
    BY <1>4, <1>5, <1>6, <1>8, <1>9
<1>11. CASE ~ (q < e)
  <2>1. n # 1 /\ q = e /\ y >= e
    <3> HIDE DEF y, q, x
    <3> QED
      BY <1>6, <1>8, <1>10, <1>11
  <2>2. x = e
    <3> HIDE DEF y, q, x
    <3> QED
      BY <1>4, <1>8, <1>9, <2>1
  <2> HIDE DEF q, x, y
  <2>3. C(n - 1) = [c |-> Z, skip |-> 0, left |-> 0, got |-> S(e)]
    BY <1>7, <2>1
  <2>4. C(n) = C(n - 1)
    BY <1>7, <2>2, <2>3
  <2>5. CopyCluster(d, C(n - 1)) = C(n - 1)
    BY <2>3 DEF CopyCluster
  <2> QED
    BY <2>4, <2>5 DEF C
<1>12. CASE q < e
  <2> HIDE DEF q, x, y
  <2>1. q = y + b /\ b \in Nat /\ b < Rows
    BY <1>4, <1>5, <1>6, <1>8, <1>12
  <2> HIDE DEF b
  <2>2. u < m
    <3>1. m <= u => Rows * m <= y
      BY <1>2, <1>8, RowsTimes DEF y
    <3> QED
      BY <1>2, <1>4, <1>8, <1>10, <1>12, <2>1, <3>1
  <2>3. u + 1 \in 1..m /\ u + 1 \in 1..Len(ch)
    BY <1>1, <1>2, <1>8, <2>2
  <2> DEFINE row == d.data[ch[u + 1]]
  <2>4. row \in [1..Rows -> RowSet] /\ row \in Seq(RowSet) /\ Len(row) = Rows
    <3>1. row \in [1..Rows -> RowSet]
      BY <1>2, <2>3 DEF IsDisk, Datas, Clusters
    <3> HIDE DEF row
    <3> QED
      BY <1>4, <3>1
  <2>5. InChain(ch[u + 1]) /\ OnDisk(ch[u + 1])
    BY <1>1, <1>2, <2>3, EntriesAre
  <2> DEFINE cnt == Min({Rows - b, e - q})
  <2>6. cnt = (IF Rows - b <= e - q THEN Rows - b ELSE e - q) /\ cnt \in Nat
    <3>1. Rows - b \in Nat /\ e - q \in Nat
      BY <1>4, <1>10, <1>12, <2>1
    <3> QED
      BY <3>1, MinTwo
  <2> HIDE DEF cnt
  <2>7. q + cnt = x
    BY <1>4, <1>8, <1>9, <1>10, <1>12, <2>1, <2>6
  <2>8. ASSUME NEW i \in 1..cnt PROVE row[b + i] = t[q + i]
    <3> DEFINE j == b + i - 1
    <3>1. /\ j \in Nat /\ j < Rows /\ (q + i) - 1 = y + j /\ j + 1 = b + i
          /\ q + i \in 1..size
      BY <1>4, <1>8, <1>10, <2>1, <2>6, <2>7
    <3> HIDE DEF j
    <3>2. ((q + i) - 1) \div Rows = u /\ ((q + i) - 1) % Rows = j
      BY <1>8, <3>1, Divided DEF y
    <3>3. t[q + i] = RowOf(d, c, q + i)
      BY <1>3, <3>1
    <3>4. RowOf(d, c, q + i) = d.data[ch[u + 1]][j + 1]
      BY <3>2 DEF RowOf, ch
    <3> QED
      BY <3>1, <3>3, <3>4
  <2>9. S(q) \o SubSeq(row, b + 1, b + cnt) = S(q + cnt)
    <3> HIDE DEF row
    <3>1. /\ t \in Seq(RowSet) /\ row \in Seq(RowSet) /\ off \in Nat /\ q \in Nat /\ off <= q
          /\ cnt \in Nat /\ q + cnt <= Len(t) /\ b \in Nat /\ b + cnt <= Len(row)
          /\ Agree(row, b, t, q, cnt)
      BY <1>3, <1>4, <1>10, <2>1, <2>4, <2>6, <2>7, <2>8, SMTT(30) DEF Agree
    <3>2. Part(t, off, q) \o Part(row, b, b + cnt) = Part(t, off, q + cnt)
      BY ONLY <3>1, Piece
    <3> QED
      BY <3>2 DEF S, Part
  <2>10. FatRead(d, ch[u + 1]) = IF x < e THEN ch[(u + 1) + 1] ELSE Z
    <3>1. CASE x < e
      <4>1. y + Rows < e
        BY <1>4, <1>8, <1>9, <3>1
      <4>2. m <= u + 1 => Rows * m <= y + Rows
        BY <1>2, <1>8, RowsTimes
      <4>3. u + 1 < m
        BY <1>2, <1>4, <1>8, <4>1, <4>2
      <4>4. u + 1 \in 1..(Len(ch) - 1)
        BY <1>1, <1>2, <1>8, <4>3
      <4> QED
        BY <1>1, <3>1, <4>4
    <3>2. CASE ~ (x < e)
      <4> DEFINE j == e - 1 - y
      <4>1. j \in Nat /\ j < Rows /\ e - 1 = y + j
        BY <1>4, <1>8, <1>9, <1>10, <1>12, <2>1, <3>2
      <4> HIDE DEF j
      <4>2. (e - 1) \div Rows = u
        BY <1>8, <4>1, Divided DEF y
      <4> QED
        BY <3>2, <4>2 DEF Z
    <3> QED
      BY <3>1, <3>2
  <2>11. C(n - 1) = [c |-> ch[u + 1], skip |-> b, left |-> e - q, got |-> S(q)]
    BY <1>7, <1>12
  <2>12. e - q # 0 /\ (e - q) - cnt = e - x
    BY <1>10, <1>12, <2>6, <2>7
  <2>13. CopyCluster(d, C(n - 1)) =
           [c |-> FatRead(d, ch[u + 1]), skip |-> 0, left |-> (e - q) - cnt,
            got |-> S(q) \o SubSeq(row, b + 1, b + cnt)]
    <3> DEFINE a == C(n - 1)
    <3>1. a.c = ch[u + 1] /\ a.skip = b /\ a.left = e - q /\ a.got = S(q)
      BY <2>11
    <3> HIDE DEF a
    <3>2. CopyCluster(d, a) =
           [c |-> FatRead(d, a.c), skip |-> 0, left |-> a.left - Min({Rows - a.skip, a.left}),
            got |-> a.got \o SubSeq(d.data[a.c], a.skip + 1, a.skip + Min({Rows - a.skip, a.left}))]
      BY <2>5, <2>12, <3>1 DEF CopyCluster
    <3> QED
      BY <3>1, <3>2 DEF a, cnt
  <2>14. CopyCluster(d, C(n - 1)) = C(n)
    BY <1>7, <2>7, <2>9, <2>10, <2>12, <2>13
  <2> QED
    BY <2>14 DEF C
<1> QED
  BY <1>11, <1>12


\* What is copied from row off of c on, and the text of c.
CopyPart(d, c, off, e) ==
  CopyFrom(d, ChainIn(d.fat, c)[(off \div Rows) + 1], off % Rows, e - off)

TextOf(d, c, size) == TextIn(d, Readable(ChainIn(d.fat, c)), size)

\* fat32_read copies the rows from off to e of the text that c holds.
LEMMA Copied ==
  ASSUME NEW d, IsDisk(d), Links(d.fat), NEW c, IsHead(d.fat, c),
         NEW size \in Nat, size <= Room(d.fat, c), NEW off \in Nat, NEW e \in Nat, off < e, e <= size
  PROVE  CopyPart(d, c, off, e) = Part(TextOf(d, c, size), off, e)
<1> DEFINE h    == ChainIn(d.fat, c)[(off \div Rows) + 1]
           skip == off % Rows
           t    == TextIn(d, Readable(ChainIn(d.fat, c)), size)
           C(n) == CopyState(d, c, t, off, e, n)
           w    == [n \in 0..FatEnd |-> C(n)]
           b    == [c |-> h, skip |-> skip, left |-> e - off, got |-> <<>>]
           IsRun(f) == f = [n \in 0..FatEnd |-> IF n = 0 THEN b ELSE CopyCluster(d, f[n - 1])]
<1>1. FatEnd \in Nat /\ FatEnd >= 2 /\ Rows \in Nat
  BY EntriesAre
<1>2. ASSUME NEW n \in 1..FatEnd PROVE C(n) = CopyCluster(d, C(n - 1))
  <2>1. n \in Nat \ {0}
    BY <1>1
  <2> HIDE DEF t
  <2>2. t = TextIn(d, Readable(ChainIn(d.fat, c)), size)
    BY DEF t
  <2> QED
    BY <2>1, <2>2, CopyTurn
<1>3. C(0) = b
  <2>1. CopyAt(0, off, e) = off
    BY DEF CopyAt
  <2>2. SubSeq(t, off + 1, off) = <<>>
    <3>1. off + 1 \in Int /\ off \in Int /\ off < off + 1
      OBVIOUS
    <3> QED
      BY <3>1, SubSeqEmpty
  <2> DEFINE s == SubSeq(t, off + 1, off)
             K == off \div Rows
  <2>3. C(0) = [c |-> ChainIn(d.fat, c)[(K + 0) + 1], skip |-> skip, left |-> e - off, got |-> s]
    BY <2>1 DEF CopyState
  <2>4. K + 0 = K
    BY Division
  <2> HIDE DEF s, K
  <2> QED
    BY <2>2, <2>3, <2>4 DEF s, K
<1>4. C(FatEnd).got = SubSeq(t, off + 1, e)
  <2> DEFINE ch == ChainIn(d.fat, c)
             m == Len(Readable(ch))
             K == off \div Rows
  <2>1. /\ ch \in Seq(Entries) /\ ch[1] = c
        /\ Len(ch) \in Nat /\ Len(ch) < FatEnd
        /\ \A i \in 1..Len(ch) : ch[i] \in Entries
        /\ \A i \in 1..(Len(ch) - 1) : FatRead(d, ch[i]) = ch[i + 1]
    BY ONLY IsDisk(d), Links(d.fat), IsHead(d.fat, c), ChainLinks
  <2>2. m \in Nat /\ m <= Len(ch)
    BY <2>1, ReadablePart
  <2>3. K \in Nat
    BY Division
  <2> DEFINE y == Rows * m
  <2>9. y \in Nat /\ size <= y
    <3>1. Rows * m \in Nat
      BY <2>2, RowsTimes
    <3> QED
      BY <3>1 DEF Room
  <2> HIDE DEF y
  <2>4. e <= Rows * m
    <3>1. e <= y
      BY <2>9
    <3> QED
      BY <3>1 DEF y
  <2> HIDE DEF ch, m, K
  <2>5. Rows * m <= Rows * (K + FatEnd) /\ Rows * m \in Nat /\ Rows * (K + FatEnd) \in Nat
    <3>1. m <= K + FatEnd /\ K + FatEnd \in Nat
      BY <1>1, <2>1, <2>2, <2>3
    <3> QED
      BY <2>2, <3>1, RowsTimes
  <2> DEFINE z == Rows * (K + FatEnd)
  <2> HIDE DEF z
  <2>6. e <= z /\ z \in Nat
    BY <2>2, <2>4, <2>5 DEF z
  <2>7. CopyAt(FatEnd, off, e) = IF z <= e THEN z ELSE e
    BY <1>1 DEF CopyAt, K, z
  <2>8. CopyAt(FatEnd, off, e) = e
    BY <2>6, <2>7
  <2> QED
    BY <2>8 DEF CopyState
<1>5. CopyFrom(d, h, skip, e - off) = (CHOOSE x : IsRun(x))[FatEnd].got
  BY Zenon DEF CopyFrom
<1> HIDE DEF C, b, t, h, skip
<1>7. IsRun(w)
  <2>1. \A n \in 0..FatEnd : w[n] = IF n = 0 THEN b ELSE CopyCluster(d, w[n - 1])
    <3> TAKE n \in 0..FatEnd
    <3>1. CASE n = 0
      BY <1>3, <3>1
    <3>2. CASE n # 0
      <4>1. n \in 1..FatEnd /\ n - 1 \in 0..FatEnd
        BY <1>1, <3>2
      <4> QED
        BY <1>2, <3>2, <4>1
    <3> QED
      BY <3>1, <3>2
  <2>2. w = [n \in 0..FatEnd |-> w[n]]
    OBVIOUS
  <2> HIDE DEF w
  <2> QED
    BY <2>1, <2>2, Zenon
<1> DEFINE f == CHOOSE x : IsRun(x)
<1>8. IsRun(f)
  <2> HIDE DEF w
  <2> QED
    BY <1>7, Zenon
<1>9. CopyFrom(d, h, skip, e - off) = f[FatEnd].got
  BY <1>5
<1> HIDE DEF f
<1>10. FunctionOn(f, 0..FatEnd) /\ \A n \in 0..FatEnd : f[n] = IF n = 0 THEN b ELSE CopyCluster(d, f[n - 1])
  <2>1. \A n \in 0..FatEnd : f[n] = IF n = 0 THEN b ELSE CopyCluster(d, f[n - 1])
    BY <1>8, Zenon
  <2>2. f = [n \in 0..FatEnd |-> f[n]]
    BY <1>8, <2>1, Zenon
  <2> QED
    BY <2>1, <2>2 DEF FunctionOn
<1>11. f = w
  <2>1. f[0] = w[0]
    BY <1>1, <1>3, <1>10
  <2>2. \A n \in 1..FatEnd : f[n - 1] = w[n - 1] => f[n] = w[n]
    <3> TAKE n \in 1..FatEnd
    <3>1. n \in 0..FatEnd /\ n - 1 \in 0..FatEnd /\ n # 0
      BY <1>1
    <3>2. w[n] = C(n) /\ w[n - 1] = C(n - 1) /\ f[n] = CopyCluster(d, f[n - 1])
      BY <1>10, <3>1
    <3> QED
      BY <1>2, <3>2
  <2>3. FunctionOn(w, 0..FatEnd)
    BY DEF FunctionOn
  <2> HIDE DEF w
  <2> QED
    BY <1>1, <1>10, <2>1, <2>2, <2>3, SameLoop
<1>12. w[FatEnd] = C(FatEnd)
  BY <1>1
<1> HIDE DEF w
<1> QED
  BY <1>4, <1>9, <1>11, <1>12 DEF h, skip, t, CopyPart, Part, TextOf

\* Whatever part of the text is asked for, fat32_read returns it.
LEMMA ReadFileIs ==
  ASSUME NEW d, Healthy(d), NEW T, NEW p \in Seq(T), p # <<>>, Found(d, p),
         NEW max \in Nat \ {0}, NEW off \in Nat
  PROVE  ReadFile(d, p, max, off)
           = SubSeq(WholeText(d, p), off + 1, Min({off + max, EntryAt(d, p).size}))
<1>1. IsDisk(d) /\ Current(d) /\ Links(d.fat) /\ Sound(d.fat, d.data, Used(d.fat)) /\ d.data \in Datas
  BY HealthyIs
<1> DEFINE q == Parent(d, p)
           n == Last(p)
           pl == FindEntry(d, q, n)
           c == ResolvePath(d, p)
           r == RowIn(d.data, pl)
           size == r.size
           t == WholeText(d, p)
           x == Min({off + max, size})
<1>2. /\ c = Into(d, q, n) /\ HeadOrNone(d.fat, q)
      /\ c \in Entries \cup {0} /\ HeadOrNone(d.fat, c)
  BY ParentIs
<1>3. pl # <<>> /\ EntryAt(d, p) = r /\ RowAt(d, EntryOf(d, p)) = r
  BY DEF Found, EntryOf, EntryAt, RowAt, RowIn
<1> HIDE DEF c, q, n, pl
<1>4. c = r.first /\ EntryPlace(d, q, n, pl)
  BY <1>2, <1>3, IntoIs DEF pl
<1>5. NameHead(d.fat, r) /\ size \in Nat
  BY <1>1, <1>4, RowInIs DEF Sound, EntryPlace
<1>6. t = TextIn(d, Readable(Chain(d, c)), size)
  BY <1>3, <1>4 DEF WholeText
<1>7. ReadFile(d, p, max, off) =
        IF c = 0 \/ off >= size THEN <<>>
        ELSE CopyFrom(d, SkipTo(d, c, off).c, SkipTo(d, c, off).skip, Min({size, max + off}) - off)
  BY <1>3 DEF ReadFile, c
<1>8. EntryAt(d, p).size = size
  BY <1>3
<1> HIDE DEF r, size, t
<1>9. off + max \in Nat /\ off + max > off /\ {off + max, size} = {size, max + off}
  BY <1>5
<1>10. x \in Nat /\ (size <= off + max => x = size) /\ (~ (size <= off + max) => x = off + max)
  BY <1>5, <1>9, MinTwo
<1>11. x = Min({size, max + off})
  BY <1>9
<1> HIDE DEF x
<1>12. CASE c = 0 \/ off >= size
  <2>1. x <= off
    <3>1. CASE c = 0
      <4>1. size = 0
        BY <1>1, <1>2, <1>4, <1>5, <3>1, EntriesAre DEF NameHead, size, IsHead
      <4> QED
        BY <1>9, <1>10, <4>1
    <3>2. CASE off >= size
      BY <1>5, <1>9, <1>10, <3>2
    <3> QED
      BY <1>12, <3>1, <3>2
  <2>2. SubSeq(t, off + 1, x) = <<>>
    <3>1. off + 1 \in Int /\ x \in Int /\ x < off + 1
      BY <1>10, <2>1
    <3> QED
      BY <3>1, SubSeqEmpty
  <2> QED
    BY <1>7, <1>8, <1>12, <2>2 DEF t, x
<1>13. CASE ~ (c = 0 \/ off >= size)
  <2>1. IsHead(d.fat, c) /\ c \in Entries
    BY <1>2, <1>13 DEF HeadOrNone
  <2>2. size <= Room(d.fat, c)
    BY <1>4, <1>5, <1>13 DEF NameHead, size
  <2>3. off < size /\ off < x /\ x <= size
    BY <1>5, <1>9, <1>10, <1>13
  <2> DEFINE ch == ChainIn(d.fat, c)
             rd == Readable(ch)
  <2>4. Chain(d, c) = ch
    BY <1>1, <2>1, ChainRead
  <2>5. off \div Rows < Len(ch)
    <3> DEFINE K == off \div Rows
               m == Len(ch)
               k == Len(rd)
    <3>1. ch \in Seq(Entries)
      BY <1>1, <2>1, ClustersAre
    <3>2. k \in Nat /\ k <= m /\ m \in Nat
      BY <3>1, ReadablePart
    <3>3. K \in Nat /\ Rows * K <= off /\ Rows * K \in Nat
      <4> DEFINE y == Rows * K
                 z == off % Rows
      <4>1. K \in Nat /\ y \in Nat /\ z \in Nat /\ off = y + z
        BY Division
      <4> HIDE DEF y, z, K
      <4> QED
        BY <4>1 DEF y
    <3> HIDE DEF K, m
    <3>4. size <= Rows * k
      BY <2>2 DEF Room
    <3> HIDE DEF k
    <3>5. k <= K => Rows * k <= Rows * K
      BY <3>2, <3>3, RowsTimes
    <3>6. Rows * k \in Nat
      BY <3>2, RowsTimes
    <3>7. K < k
      BY <1>5, <2>3, <3>2, <3>3, <3>4, <3>5, <3>6
    <3> QED
      BY <3>2, <3>3, <3>7 DEF K, m
  <2>6. SkipTo(d, c, off) = [c |-> ch[(off \div Rows) + 1], skip |-> off % Rows]
    BY <1>1, <2>1, <2>5, Skipped
  <2>7. CopyFrom(d, ch[(off \div Rows) + 1], off % Rows, x - off) = SubSeq(TextIn(d, rd, size), off + 1, x)
    <3>1. /\ IsDisk(d) /\ Links(d.fat) /\ IsHead(d.fat, c) /\ size \in Nat /\ size <= Room(d.fat, c)
          /\ off \in Nat /\ x \in Nat /\ off < x /\ x <= size
      BY <1>1, <1>5, <1>10, <2>1, <2>2, <2>3
    <3>2. CopyPart(d, c, off, x) = Part(TextOf(d, c, size), off, x)
      BY ONLY <3>1, Copied
    <3> QED
      BY <3>2 DEF CopyPart, Part, TextOf
  <2> DEFINE s == SkipTo(d, c, off)
  <2>8. s.c = ch[(off \div Rows) + 1] /\ s.skip = off % Rows
    BY <2>6
  <2> HIDE DEF s
  <2>9. ReadFile(d, p, max, off) = CopyFrom(d, s.c, s.skip, x - off)
    BY <1>7, <1>11, <1>13 DEF s
  <2>10. SubSeq(TextIn(d, rd, size), off + 1, x) = SubSeq(t, off + 1, x)
    BY <1>6, <2>4
  <2> HIDE DEF ch, rd
  <2> QED
    BY <1>8, <2>7, <2>8, <2>9, <2>10 DEF t, x
<1> QED
  BY <1>12, <1>13

-----------------------------------------------------------------------------
\* What a call must spare on the disk: a record g of the disk before the call, of
\* the clusters that it leaves alone (whole) and of those of the directory it
\* works in (dir), where only the entry called name comes and goes.
Loose(g, row) == row \in {Zero, Gone} \/ (row.kind = "entry" /\ row.name = g.name)

SameRow(g, data, pl) == RowIn(data, pl) = RowIn(g.data, pl)
NewRow(g, data, pl)  ==
  Loose(g, RowIn(g.data, pl)) /\ Loose(g, RowIn(data, pl)) /\ RowIn(data, pl) # Zero

Spares(g, fat, data) ==
  /\ \A y \in g.whole : fat[y] = g.fat[y]
  /\ \A y \in g.dir : fat[y] = g.fat[y] \/ (g.fat[y] = Eoc /\ fat[y] # 0)
  /\ \A pl \in Places : pl[1] \in g.whole => SameRow(g, data, pl)
  /\ \A pl \in Places : pl[1] \in g.dir => SameRow(g, data, pl) \/ NewRow(g, data, pl)

LogSpares(g, log) == \A k \in 1..Len(log) : Spares(g, log[k][1], log[k][2])
Guards(g, d) == Good(d) /\ Spares(g, d.fat, d.data) /\ LogSpares(g, d.log)

Outside(g, y) == y \notin g.whole /\ y \notin g.dir

IsGuard(g) ==
  /\ g.whole \subseteq Entries /\ g.dir \subseteq Entries /\ g.whole \cap g.dir = {}
  /\ \A y \in g.whole \cup g.dir : g.fat[y] # 0

\* One more write to the disk, or none.
LEMMA GuardNext ==
  ASSUME NEW g, NEW d, Guards(g, d), NEW e, Good(e), Spares(g, e.fat, e.data),
         e.log = d.log \/ e.log = Append(d.log, <<e.fat, e.data>>)
  PROVE  Guards(g, e)
<1>1. d.log \in Seq(Fats \X Datas)
  BY GoodFields DEF Guards
<1>2. LogSpares(g, d.log)
  BY DEF Guards
<1>3. CASE e.log = d.log
  BY <1>2, <1>3 DEF Guards
<1>4. CASE e.log = Append(d.log, <<e.fat, e.data>>)
  <2>1. Len(e.log) = Len(d.log) + 1 /\ Len(d.log) \in Nat
    BY <1>1, <1>4
  <2>2. \A k \in 1..Len(d.log) : e.log[k] = d.log[k]
    BY <1>1, <1>4
  <2>3. e.log[Len(d.log) + 1] = <<e.fat, e.data>>
    BY <1>1, <1>4
  <2>4. e.log[Len(d.log) + 1][1] = e.fat /\ e.log[Len(d.log) + 1][2] = e.data
    BY <2>3
  <2>5. ASSUME NEW k \in 1..Len(e.log) PROVE Spares(g, e.log[k][1], e.log[k][2])
    <3>1. k \in 1..Len(d.log) \/ k = Len(d.log) + 1
      BY <2>1
    <3> QED
      BY <1>2, <2>2, <2>4, <3>1 DEF LogSpares
  <2> QED
    BY <2>5 DEF Guards, LogSpares
<1> QED
  BY <1>3, <1>4

\* What is spared is in use.
LEMMA GuardUsed ==
  ASSUME NEW g, IsGuard(g), NEW d, Guards(g, d)
  PROVE  \A y : d.fat[y] = 0 => Outside(g, y)
BY DEF IsGuard, Guards, Spares, Outside

\* An entry of the FAT that is not spared, or the end of the directory's chain.
LEMMA GuardFat ==
  ASSUME NEW g, IsGuard(g), NEW d, Guards(g, d), NEW y \in Entries, NEW v \in Links0,
         Outside(g, y) \/ (y \in g.dir /\ d.fat[y] = Eoc /\ v # 0)
  PROVE  Guards(g, FatWrite(d, y, v))
<1> DEFINE e == FatWrite(d, y, v)
<1>1. /\ Good(e) /\ e.fat = [d.fat EXCEPT ![y] = v] /\ e.data = d.data
      /\ e.log = Append(d.log, <<[d.fat EXCEPT ![y] = v], d.data>>)
  BY FatWriteIs DEF Guards
<1>2. d.fat \in Fats /\ Spares(g, d.fat, d.data)
  BY GoodFields DEF Guards
<1>3. /\ \A x \in Entries : x # y => e.fat[x] = d.fat[x]
      /\ e.fat[y] = v
  BY <1>1, <1>2 DEF Fats
<1> HIDE DEF e
<1>4. \A x \in g.whole : e.fat[x] = g.fat[x]
  BY <1>2, <1>3 DEF IsGuard, Spares, Outside
<1>5. \A x \in g.dir : e.fat[x] = g.fat[x] \/ (g.fat[x] = Eoc /\ e.fat[x] # 0)
  BY <1>2, <1>3 DEF IsGuard, Spares, Outside
<1>6. Spares(g, e.fat, e.data)
  BY <1>1, <1>2, <1>4, <1>5 DEF Spares
<1>7. e.log = Append(d.log, <<e.fat, e.data>>)
  BY <1>1
<1>8. Guards(g, e)
  BY <1>1, <1>6, <1>7, GuardNext
<1> QED
  BY <1>8 DEF e

\* A cluster that is not spared.
LEMMA GuardCluster ==
  ASSUME NEW g, IsGuard(g), NEW d, Guards(g, d), NEW y \in Entries, NEW rows \in Clusters,
         Outside(g, y)
  PROVE  Guards(g, WriteCluster(d, y, rows))
<1> DEFINE e == WriteCluster(d, y, rows)
<1>1. /\ Good(e) /\ e.fat = d.fat
      /\ OnDisk(y) => /\ e.data = [d.data EXCEPT ![y] = rows] /\ e.ok = d.ok
                      /\ e.log = Append(d.log, <<d.fat, [d.data EXCEPT ![y] = rows]>>)
      /\ ~ OnDisk(y) => e.data = d.data /\ e.ok = FALSE /\ e.log = d.log
  BY WriteClusterIs DEF Guards
<1>2. d.data \in Datas /\ Spares(g, d.fat, d.data)
  BY GoodFields DEF Guards
<1> HIDE DEF e
<1>3. \A pl \in Places : pl[1] # y => RowIn(e.data, pl) = RowIn(d.data, pl)
  BY <1>1, <1>2 DEF Datas, RowIn, Places
<1>4. Spares(g, e.fat, e.data)
  BY <1>1, <1>2, <1>3 DEF Spares, Outside, SameRow, NewRow
<1>5. e.log = d.log \/ e.log = Append(d.log, <<e.fat, e.data>>)
  BY <1>1
<1>6. Guards(g, e)
  BY <1>1, <1>4, <1>5, GuardNext
<1> QED
  BY <1>6 DEF e

\* A row of a cluster that is not spared, or one of the directory that comes or goes.
LEMMA GuardRow ==
  ASSUME NEW g, IsGuard(g), NEW d, Guards(g, d), NEW pl \in Places, NEW row \in RowSet,
         \/ Outside(g, pl[1])
         \/ pl[1] \in g.dir /\ Loose(g, RowIn(d.data, pl)) /\ Loose(g, row) /\ row # Zero
  PROVE  Guards(g, SetRow(d, pl, row))
<1> DEFINE e == SetRow(d, pl, row)
<1>1. /\ Good(e) /\ e.fat = d.fat /\ RowIn(e.data, pl) = row
      /\ \A x \in Places \ {pl} : RowIn(e.data, x) = RowIn(d.data, x)
  BY SetRowRow DEF Guards
<1>2. e.log = Append(d.log, <<d.fat, e.data>>)
  <2>1. pl[1] \in 2..LastCluster /\ pl[2] \in 1..Rows /\ pl = <<pl[1], pl[2]>>
    BY DEF Places
  <2> DEFINE f == SetRow(d, <<pl[1], pl[2]>>, row)
  <2>2. /\ Good(f) /\ f.fat = d.fat /\ f.ok = d.ok
        /\ f.data = Put(d.data, pl[1], pl[2], row)
        /\ f.log = Append(d.log, <<d.fat, f.data>>)
    BY <2>1, SetRowIs DEF Guards
  <2> HIDE DEF f
  <2>3. e = f
    BY <2>1 DEF f
  <2> QED
    BY <2>2, <2>3
<1>3. Spares(g, d.fat, d.data)
  BY DEF Guards
<1> HIDE DEF e
<1>4. \A x \in Places : x[1] \in g.whole => SameRow(g, e.data, x)
  BY <1>1, <1>3 DEF Spares, Outside, SameRow, IsGuard
<1>5. \A x \in Places : x[1] \in g.dir => SameRow(g, e.data, x) \/ NewRow(g, e.data, x)
  <2> TAKE x \in Places
  <2> HAVE x[1] \in g.dir
  <2>1. SameRow(g, d.data, x) \/ NewRow(g, d.data, x)
    BY <1>3 DEF Spares
  <2>2. CASE x # pl
    BY <1>1, <2>1, <2>2 DEF SameRow, NewRow
  <2>3. CASE x = pl
    BY <1>1, <2>1, <2>3 DEF SameRow, NewRow, Outside
  <2> QED
    BY <2>2, <2>3
<1>6. Spares(g, e.fat, e.data)
  BY <1>1, <1>3, <1>4, <1>5 DEF Spares
<1>7. Guards(g, e)
  BY <1>1, <1>2, <1>6, GuardNext
<1> QED
  BY <1>7 DEF e

\* A call that fails writes nothing.
LEMMA GuardFails ==
  ASSUME NEW g, NEW d, Guards(g, d)
  PROVE  Guards(g, Fails(d))
<1>1. /\ Good(Fails(d)) /\ Fails(d).fat = d.fat /\ Fails(d).data = d.data
      /\ Fails(d).ok = FALSE /\ Fails(d).log = d.log
  BY FailsIs DEF Guards
<1>2. Spares(g, d.fat, d.data)
  BY DEF Guards
<1> QED
  BY <1>1, <1>2, GuardNext

\* Clusters that are not spared are freed one by one.
LEMMA GuardFreeAll ==
  ASSUME NEW g, IsGuard(g), NEW d, Guards(g, d), NEW ch \in Seq(Entries),
         \A x \in ToSet(ch) : Outside(g, x)
  PROVE  Guards(g, FreeAll(d, ch))
<1>1. Good(d)
  BY DEF Guards
<1>2. PICK w : /\ FreeAll(d, ch) = w[Len(ch)] /\ w[0] = d
               /\ \A n \in 1..Len(ch) : w[n] = FatWrite(w[n - 1], ch[n], 0)
  BY <1>1, FreeAllSteps
<1> DEFINE T == {n \in Nat : n <= Len(ch) => Guards(g, w[n])}
<1>3. 0 \in T
  BY <1>2
<1>4. ASSUME NEW n \in Nat, n \in T PROVE n + 1 \in T
  <2> SUFFICES ASSUME n + 1 <= Len(ch) PROVE Guards(g, w[n + 1])
    OBVIOUS
  <2>1. n + 1 \in 1..Len(ch) /\ (n + 1) - 1 = n /\ Guards(g, w[n]) /\ ch[n + 1] \in Entries
    BY <1>4
  <2>2. w[n + 1] = FatWrite(w[n], ch[n + 1], 0)
    BY <1>2, <2>1
  <2>3. ch[n + 1] \in ToSet(ch)
    BY <2>1, ToSetIs
  <2>4. 0 \in Links0
    BY DEF Links0
  <2> QED
    BY <2>1, <2>2, <2>3, <2>4, GuardFat
<1>5. \A n \in Nat : n \in T
  <2> HIDE DEF T
  <2> QED
    BY <1>3, <1>4, NatInd
<1>6. Len(ch) \in T /\ Len(ch) \in Nat
  BY <1>5
<1> QED
  BY <1>2, <1>6

\* So is a chain.
LEMMA GuardFreeChain ==
  ASSUME NEW g, IsGuard(g), NEW d, Guards(g, d), Links(d.fat), NEW c, HeadOrNone(d.fat, c),
         IsHead(d.fat, c) => \A x \in ClustersOf(d.fat, c) : Outside(g, x)
  PROVE  Guards(g, FatFreeChain(d, c))
<1>1. Good(d) /\ IsDisk(d)
  BY GoodDisk DEF Guards
<1>2. CASE c \notin Entries
  BY <1>1, <1>2, FreeNone
<1>3. CASE IsHead(d.fat, c)
  <2>1. Chain(d, c) = ChainIn(d.fat, c) /\ Chain(d, c) \in Seq(Entries)
    BY <1>1, <1>3, ReadableChain
  <2>2. \A x \in ToSet(Chain(d, c)) : Outside(g, x)
    BY <1>3, <2>1 DEF ClustersOf
  <2> QED
    BY <2>1, <2>2, GuardFreeAll DEF FatFreeChain
<1> QED
  BY <1>2, <1>3 DEF HeadOrNone

\* One more cluster for a text.
LEMMA GuardGrow ==
  ASSUME NEW g, IsGuard(g), NEW a \in Makings, Guards(g, a.d),
         \A x \in ToSet(a.ch) : Outside(g, x)
  PROVE  Guards(g, Grow(a).d) /\ \A x \in ToSet(Grow(a).ch) : Outside(g, x)
<1> DEFINE c == FatFindFree(a.d)
           e == FatWrite(a.d, c, Eoc)
           f == FatWrite(e, Last(a.ch), c)
<1>1. Grow(a) = IF a.full \/ c = 0 THEN [a EXCEPT !.full = TRUE]
                ELSE [a EXCEPT !.d = IF a.ch = <<>> THEN e ELSE f, !.ch = Append(a.ch, c)]
  BY DEF Grow
<1>2. a.ch \in Seq(Entries) /\ a = [d |-> a.d, ch |-> a.ch, full |-> a.full]
  BY DEF Makings
<1>3. c = 0 \/ (c \in Entries /\ a.d.fat[c] = 0)
  BY FindFreeIs DEF Guards
<1> HIDE DEF c
<1>4. CASE a.full \/ c = 0
  <2>1. Grow(a).d = a.d /\ Grow(a).ch = a.ch
    BY <1>1, <1>2, <1>4
  <2> QED
    BY <2>1
<1>5. CASE ~ (a.full \/ c = 0)
  <2>1. c \in Entries /\ Outside(g, c) /\ Eoc \in Links0 /\ c \in Links0
    BY <1>3, <1>5, GuardUsed DEF Links0
  <2>2. Guards(g, e)
    BY <2>1, GuardFat
  <2>3. a.ch # <<>> => Last(a.ch) \in Entries /\ Outside(g, Last(a.ch))
    <3> HAVE a.ch # <<>>
    <3>1. Last(a.ch) = a.ch[Len(a.ch)] /\ Len(a.ch) \in 1..Len(a.ch)
      BY <1>2 DEF Last
    <3>2. Last(a.ch) \in ToSet(a.ch) /\ Last(a.ch) \in Entries
      BY <1>2, <3>1, ToSetIs
    <3> QED
      BY <3>2
  <2> HIDE DEF e
  <2>4. a.ch # <<>> => Guards(g, f)
    BY <2>1, <2>2, <2>3, GuardFat
  <2> HIDE DEF f
  <2>5. Grow(a).d = (IF a.ch = <<>> THEN e ELSE f) /\ Grow(a).ch = Append(a.ch, c)
    <3>1. Grow(a) = [a EXCEPT !.d = IF a.ch = <<>> THEN e ELSE f, !.ch = Append(a.ch, c)]
      BY <1>1, <1>5
    <3> QED
      BY <1>2, <3>1
  <2>6. ToSet(Append(a.ch, c)) = ToSet(a.ch) \cup {c}
    BY <1>2, <2>1, AppendIs
  <2> QED
    BY <2>1, <2>2, <2>4, <2>5, <2>6
<1> QED
  BY <1>4, <1>5

\* The clusters for a text.
LEMMA GuardAlloc ==
  ASSUME NEW g, IsGuard(g), NEW d, Guards(g, d), Links(d.fat), NEW m \in Nat
  PROVE  LET a == AllocChain(d, m)
         IN  Guards(g, a.d) /\ \A x \in ToSet(a.ch) : Outside(g, x)
<1>1. Good(d)
  BY DEF Guards
<1>2. PICK w : /\ AllocChain(d, m) = w[m] /\ w[0] = [d |-> d, ch |-> <<>>, full |-> FALSE]
               /\ \A n \in 1..m : w[n] = Grow(w[n - 1])
               /\ \A n \in 0..m : w[n] \in Makings /\ Growing(d, w[n])
  BY <1>1, AllocSteps
<1> DEFINE Holds0(a) == Guards(g, a.d) /\ \A x \in ToSet(a.ch) : Outside(g, x)
           T == {n \in Nat : n <= m => Holds0(w[n])}
<1>3. 0 \in T
  BY <1>2, ToSetEmpty
<1>4. ASSUME NEW n \in Nat, n \in T PROVE n + 1 \in T
  <2> SUFFICES ASSUME n + 1 <= m PROVE Holds0(w[n + 1])
    OBVIOUS
  <2>1. n + 1 \in 1..m /\ (n + 1) - 1 = n /\ n \in 0..m /\ Holds0(w[n])
    BY <1>4
  <2>2. w[n + 1] = Grow(w[n]) /\ w[n] \in Makings
    BY <1>2, <2>1
  <2> QED
    BY <2>1, <2>2, GuardGrow
<1>5. \A n \in Nat : n \in T
  <2> HIDE DEF T
  <2> QED
    BY <1>3, <1>4, NatInd
<1>6. m \in T
  BY <1>5
<1> QED
  BY <1>2, <1>6

\* A text is written into clusters that are not spared.
LEMMA GuardFill ==
  ASSUME NEW g, IsGuard(g), NEW d, Guards(g, d), NEW ch \in Seq(Entries), NEW s \in Seq(PlainRows),
         \A x \in ToSet(ch) : Outside(g, x)
  PROVE  Guards(g, Fill(d, ch, s))
<1>1. Good(d)
  BY DEF Guards
<1>2. PICK w : /\ Fill(d, ch, s) = w[Len(ch)] /\ w[0] = d
               /\ \A k \in 1..Len(ch) : w[k] = FillNext(w[k - 1], ch, s, k)
               /\ \A k \in 0..Len(ch) : Good(w[k]) /\ w[k].fat = d.fat /\ OnlyIn(ch, w[k], d)
  BY <1>1, PlainText, FillSteps
<1> DEFINE T == {n \in Nat : n <= Len(ch) => Guards(g, w[n])}
<1>3. 0 \in T
  BY <1>2
<1>4. ASSUME NEW n \in Nat, n \in T PROVE n + 1 \in T
  <2> SUFFICES ASSUME n + 1 <= Len(ch) PROVE Guards(g, w[n + 1])
    OBVIOUS
  <2>1. /\ n + 1 \in 1..Len(ch) /\ (n + 1) - 1 = n /\ Guards(g, w[n])
        /\ ch[n + 1] \in Entries /\ n + 1 \in Nat \ {0}
    BY <1>4
  <2>2. w[n + 1] = FillNext(w[n], ch, s, n + 1)
    BY <1>2, <2>1
  <2>3. ch[n + 1] \in ToSet(ch)
    BY <2>1, ToSetIs
  <2>4. Page(s, n + 1) \in Clusters
    <3>1. Zero \in RowSet /\ s \in Seq(RowSet)
      BY RowKinds, PlainText
    <3> QED
      BY <2>1, <3>1, PageIs DEF Clusters
  <2>5. Guards(g, WriteCluster(w[n], ch[n + 1], Page(s, n + 1)))
    BY <2>1, <2>3, <2>4, GuardCluster
  <2> QED
    BY <2>1, <2>2, <2>5 DEF FillNext
<1>5. \A n \in Nat : n \in T
  <2> HIDE DEF T
  <2> QED
    BY <1>3, <1>4, NatInd
<1>6. Len(ch) \in T /\ Len(ch) \in Nat
  BY <1>5
<1> QED
  BY <1>2, <1>6

\* The directory of the guard is what dir leads to.
GuardDir(g, fat, dir) == HeadOrNone(fat, dir) /\ (IsHead(fat, dir) => ClustersOf(fat, dir) = g.dir)

\* delete_entry_in_dir of the entry that may go.
LEMMA GuardDelete ==
  ASSUME NEW g, IsGuard(g), NEW d, Guards(g, d), Links(d.fat), NEW dir, GuardDir(g, d.fat, dir)
  PROVE  Guards(g, DeleteEntry(d, dir, g.name))
<1> DEFINE pl == FindEntry(d, dir, g.name)
<1>1. Good(d) /\ IsDisk(d)
  BY GoodDisk DEF Guards
<1>2. pl = <<>> \/ EntryPlace(d, dir, g.name, pl)
  BY <1>1, FindEntryIs DEF GuardDir
<1>3. DeleteEntry(d, dir, g.name) = IF pl = <<>> THEN d ELSE SetRow(d, pl, Gone)
  BY DEF DeleteEntry
<1> HIDE DEF pl
<1>4. CASE pl = <<>>
  BY <1>3, <1>4
<1>5. CASE pl # <<>>
  <2>1. pl \in Places /\ pl[1] \in g.dir /\ Loose(g, RowIn(d.data, pl))
    BY <1>2, <1>5 DEF EntryPlace, GuardDir, IsEntry, Loose
  <2>2. Gone \in RowSet /\ Loose(g, Gone) /\ Gone # Zero
    BY RowKinds DEF Loose, Gone, Zero
  <2>3. Guards(g, SetRow(d, pl, Gone))
    BY <2>1, <2>2, GuardRow
  <2> QED
    BY <1>3, <1>5, <2>3
<1> QED
  BY <1>4, <1>5

\* dir_add_entry of the entry that may come.
LEMMA GuardAdd ==
  ASSUME NEW g, IsGuard(g), NEW d, Guards(g, d), Links(d.fat), NEW dir, GuardDir(g, d.fat, dir),
         NEW entry \in EntryRows, entry.name = g.name
  PROVE  Guards(g, DirAddEntry(d, dir, entry))
<1> DEFINE ch   == Chain(d, dir)
           S    == {pl \in PlacesOf(Readable(ch)) : RowAt(d, pl) \in {Zero, Gone}}
           free == FirstOf(Readable(ch), S)
           new  == FatFindFree(d)
<1>1. DirAddEntry(d, dir, entry)
        = IF free # <<>> THEN SetRow(d, free, entry)
          ELSE IF ch = <<>> \/ Readable(ch) # ch \/ new = 0 THEN Fails(d)
          ELSE SetRow(Lengthen(d, ch, new), <<new, 1>>, entry)
  BY DEF DirAddEntry, AddTo, FreeIn, AddRow
<1>2. Good(d) /\ IsDisk(d) /\ d.data \in Datas
  BY GoodDisk DEF Guards, IsDisk
<1>3. entry \in RowSet /\ Loose(g, entry) /\ entry # Zero
  BY RowKinds DEF Loose, EntryRows, AnyEntry, Zero
<1>4. dir \notin Entries => ch = <<>>
  BY ChainEmpty
<1>5. dir \in Entries =>
        /\ ch = ChainIn(d.fat, dir) /\ ch \in Seq(Entries)
        /\ Readable(ch) \in Seq(2..LastCluster)
        /\ \A pl \in PlacesOf(Readable(ch)) : pl \in Places /\ pl[1] \in g.dir
  BY <1>2, ReadableChain DEF GuardDir, HeadOrNone
<1>6. free = <<>> \/ (free \in Places /\ free[1] \in g.dir /\ Loose(g, RowIn(d.data, free)))
  <2>1. CASE dir \in Entries
    <3>1. free = <<>> \/ free \in S
      <4> HIDE DEF S, ch
      <4> QED
        BY <1>5, <2>1, FirstOfIs
    <3>2. free \in S => free \in PlacesOf(Readable(ch)) /\ RowAt(d, free) \in {Zero, Gone}
      <4> HIDE DEF free
      <4> QED
        OBVIOUS
    <3> QED
      BY <1>5, <2>1, <3>1, <3>2 DEF Loose, RowAt, RowIn
  <2>2. CASE dir \notin Entries
    <3>1. ch = <<>> /\ <<>> \in Seq(Entries) /\ ToSet(<<>>) = {}
      BY <1>4, <2>2, ToSetEmpty
    <3>2. Readable(ch) \in Seq(2..LastCluster) /\ ToSet(Readable(ch)) = {}
      BY <3>1, ReadableIs
    <3> HIDE DEF S, ch
    <3> QED
      BY <3>2, FirstOfIs
  <2> QED
    BY <2>1, <2>2, SMTT(30)
<1>7. new = 0 \/ (new \in Entries /\ d.fat[new] = 0)
  BY <1>2, FindFreeIs
<1> HIDE DEF free, new
<1>8. CASE free # <<>>
  <2>1. Guards(g, SetRow(d, free, entry))
    BY <1>3, <1>6, <1>8, GuardRow
  <2> QED
    BY <1>1, <1>8, <2>1
<1>9. CASE free = <<>> /\ (ch = <<>> \/ Readable(ch) # ch \/ new = 0)
  BY <1>1, <1>9, GuardFails
<1>10. CASE free = <<>> /\ ~ (ch = <<>> \/ Readable(ch) # ch \/ new = 0)
  <2> DEFINE d1 == FatWrite(d, new, Eoc)
             z  == Last(ch)
             d2 == FatWrite(d1, z, new)
             d3 == WriteCluster(d2, new, Blank)
             d4 == SetRow(d3, <<new, 1>>, entry)
  <2>1. IsHead(d.fat, dir) /\ new \in Entries /\ d.fat[new] = 0 /\ Outside(g, new)
    BY <1>4, <1>7, <1>10, GuardUsed DEF GuardDir, HeadOrNone
  <2>2. z \in Entries /\ z \in g.dir /\ d.fat[z] = Eoc
    BY <1>5, <2>1, ClustersAre DEF GuardDir, IsHead
  <2>3. new # 0 /\ Eoc # 0 /\ Eoc \in Links0 /\ new \in Links0
    BY <2>1, EntriesAre DEF Links0
  <2>4. DirAddEntry(d, dir, entry) = d4
    BY <1>1, <1>10 DEF Lengthen
  <2> HIDE DEF z
  <2>5. Guards(g, d1)
    BY <2>1, <2>3, GuardFat
  <2>6. d1.fat[z] = Eoc
    <3>1. d1.fat = [d.fat EXCEPT ![new] = Eoc] /\ d.fat \in Fats
      BY <1>2, <2>1, <2>3, FatWriteIs DEF IsDisk
    <3> QED
      BY <2>2, <3>1 DEF Fats
  <2> HIDE DEF d1
  <2>7. Guards(g, d2)
    BY <2>1, <2>2, <2>3, <2>5, <2>6, GuardFat
  <2> HIDE DEF d2
  <2>8. Guards(g, d3)
    BY <2>1, <2>7, BlankIs, GuardCluster
  <2> HIDE DEF d3
  <2>9. CASE OnDisk(new)
    <3>1. <<new, 1>> \in Places /\ <<new, 1>>[1] = new
      BY <2>1, <2>9, EntriesAre DEF Places
    <3>2. Guards(g, d4)
      BY <1>3, <2>1, <2>8, <3>1, GuardRow
    <3> QED
      BY <2>4, <3>2
  <2>10. CASE ~ OnDisk(new)
    <3>1. d4 = Fails(d3)
      BY <2>10, SetRowOff
    <3> QED
      BY <2>4, <2>8, <3>1, GuardFails
  <2> QED
    BY <2>9, <2>10
<1> QED
  BY <1>8, <1>9, <1>10

\* The chain that was taken is freed when the call fails.
LEMMA GuardFreeAndFail ==
  ASSUME NEW g, IsGuard(g), NEW d, Guards(g, d), Links(d.fat), NEW ch,
         ch # <<>> => /\ IsHead(d.fat, ch[1])
                      /\ \A x \in ClustersOf(d.fat, ch[1]) : Outside(g, x)
  PROVE  Guards(g, FreeAndFail(d, ch))
<1>1. CASE ch = <<>>
  BY <1>1, GuardFails DEF FreeAndFail
<1>2. CASE ch # <<>>
  <2>1. Guards(g, FatFreeChain(d, ch[1]))
    BY <1>2, GuardFreeChain DEF HeadOrNone
  <2> QED
    BY <1>2, <2>1, GuardFails DEF FreeAndFail
<1> QED
  BY <1>1, <1>2

\* The directory stays what the guard holds.
LEMMA GuardDirStays ==
  ASSUME NEW g, NEW fat, NEW dir, GuardDir(g, fat, dir), NEW fat2,
         IsHead(fat, dir) => IsHead(fat2, dir) /\ ChainIn(fat2, dir) = ChainIn(fat, dir)
  PROVE  GuardDir(g, fat2, dir)
BY DEF GuardDir, HeadOrNone, ClustersOf, IsHead

\* The old file goes.
LEMMA GuardGone ==
  ASSUME NEW g, IsGuard(g), NEW d, Guards(g, d), Healthy(d), NEW T, NEW p \in Seq(T), p # <<>>,
         g.name = Last(p), GuardDir(g, d.fat, Parent(d, p)),
         IsHead(d.fat, ResolvePath(d, p)) =>
           \A x \in ClustersOf(d.fat, ResolvePath(d, p)) : Outside(g, x)
  PROVE  LET e == DeleteEntry(FatFreeChain(d, ResolvePath(d, p)), Parent(d, p), Last(p))
         IN  Guards(g, e) /\ GuardDir(g, e.fat, Parent(d, p))
<1> DEFINE c   == ResolvePath(d, p)
           dir == Parent(d, p)
           f   == FatFreeChain(d, c)
           e   == DeleteEntry(f, dir, Last(p))
<1>1. Links(d.fat) /\ Good(d) /\ c \in Entries \cup {0} /\ HeadOrNone(d.fat, c)
  BY HealthyIs, ParentIs DEF Guards
<1>2. c # 0 => c # dir
  BY ParentApart
<1>3. GuardDir(g, d.fat, dir)
  OBVIOUS
<1>4. HeadOrNone(d.fat, dir)
  BY <1>3 DEF GuardDir
<1> HIDE DEF c, dir
<1>5. Guards(g, f)
  BY <1>1, GuardFreeChain DEF c
<1>6. c \notin Entries => f = d
  BY <1>1, FreeNone
<1>7. c \in Entries => /\ IsHead(d.fat, c) /\ c # Root /\ f.fat = Freed(d.fat, ClustersOf(d.fat, c))
  <2> HAVE c \in Entries
  <2>1. IsHead(d.fat, c) /\ c # 0
    BY <1>1, EntriesAre DEF HeadOrNone
  <2>2. c # Root
    BY <2>1, ParentIs, IntoIs DEF c
  <2> QED
    BY <1>1, <2>1, <2>2, FreeChainIs
<1> HIDE DEF f
<1>8. Links(f.fat) /\ (IsHead(d.fat, dir) => IsHead(f.fat, dir) /\ ChainIn(f.fat, dir) = ChainIn(d.fat, dir))
  <2>1. CASE c \notin Entries
    BY <1>1, <1>6, <2>1
  <2>2. CASE c \in Entries
    <3>1. c # dir
      BY <1>2, <2>2, EntriesAre
    <3> QED
      BY <1>1, <1>7, <2>2, <3>1, FreedLinks
  <2> QED
    BY <2>1, <2>2
<1>9. GuardDir(g, f.fat, dir)
  BY <1>3, <1>8, GuardDirStays
<1>10. Guards(g, e)
  BY <1>5, <1>8, <1>9, GuardDelete
<1>11. e.fat = f.fat
  <2>1. Good(f) /\ IsDisk(f)
    BY <1>5, GoodDisk DEF Guards
  <2>2. FindEntry(f, dir, Last(p)) = <<>> \/ FindEntry(f, dir, Last(p)) \in Places
    BY <1>8, <1>9, <2>1, FindEntryIs DEF GuardDir, EntryPlace
  <2> QED
    BY <2>1, <2>2, DeleteEntryIs
<1> HIDE DEF e
<1> QED
  BY <1>9, <1>10, <1>11 DEF e, f, c, dir

\* The new text comes.
LEMMA GuardText ==
  ASSUME NEW g, IsGuard(g), NEW d, Guards(g, d), Healthy(d), NEW dir, GuardDir(g, d.fat, dir),
         g.name \in {Short[x] : x \in DOMAIN Short}, NEW s \in Seq(PlainRows), s # <<>>
  PROVE  Guards(g, WriteText(AllocChain(d, Need(s)), dir, g.name, s))
<1> DEFINE m  == Need(s)
           a  == AllocChain(d, m)
           ch == a.ch
           h  == ch[1]
           n  == g.name
           entry == TextEntry(n, s, h)
           f  == Fill(a.d, ch, s)
           e  == DirAddEntry(f, dir, entry)
<1>1. WriteText(a, dir, n, s) = IF a.full THEN FreeAndFail(a.d, ch)
                                ELSE IF ~ f.ok THEN FreeAndFail(f, ch)
                                ELSE IF ~ e.ok THEN FreeAndFail(e, ch) ELSE e
  BY WriteTextEnds
<1>2. m \in Nat /\ Good(d) /\ Links(d.fat) /\ HeadOrNone(d.fat, dir)
  BY NeedIs, HealthyIs DEF Guards, GuardDir
<1>3. ~ a.full => Filled(d, dir, n, s, a, f)
  BY <1>2, FilledIs
<1>4. a \in Makings /\ Growing(d, a) /\ Guards(g, a.d) /\ \A x \in ToSet(ch) : Outside(g, x)
  BY <1>2, AllocIs, GuardAlloc
<1>5. ch \in Seq(Entries)
  BY <1>4 DEF Makings
<1>6. Guards(g, f)
  BY <1>4, <1>5, GuardFill
<1> HIDE DEF a, m, f
<1>7. /\ Links(a.d.fat) /\ ch # <<>> => IsHead(a.d.fat, h) /\ ChainIn(a.d.fat, h) = ch
      /\ IsHead(d.fat, dir) => IsHead(a.d.fat, dir) /\ ChainIn(a.d.fat, dir) = ChainIn(d.fat, dir)
  BY <1>4 DEF Growing
<1>8. CASE a.full
  <2>1. Links(a.d.fat)
    BY <1>4 DEF Growing
  <2>2. ch # <<>> => IsHead(a.d.fat, h) /\ \A x \in ClustersOf(a.d.fat, h) : Outside(g, x)
    BY <1>4, <1>7, <2>1 DEF ClustersOf
  <2>3. Guards(g, FreeAndFail(a.d, ch))
    BY <1>4, <2>1, <2>2, GuardFreeAndFail
  <2> QED
    BY <1>1, <1>8, <2>3 DEF a, m
<1>9. CASE ~ a.full
  <2>1. /\ ch # <<>> /\ Good(f) /\ f.fat = a.d.fat /\ IsHead(f.fat, h) /\ ChainIn(f.fat, h) = ch
        /\ Sound(f.fat, f.data, Used(d.fat))
        /\ f.ok => /\ Healthy(f) /\ NamedNowhere(f, h) /\ HeadOrNone(f.fat, dir) /\ h # dir
                   /\ entry \in EntryRows /\ NameHead(f.fat, entry)
    BY <1>3, <1>9 DEF Filled
  <2>2. Links(f.fat)
    BY <2>1 DEF Sound
  <2>3. entry.first = h /\ entry.name = n
    BY DEF TextEntry
  <2> HIDE DEF entry
  <2>4. CASE ~ f.ok
    <3>1. \A x \in ClustersOf(f.fat, h) : Outside(g, x)
      BY <1>4, <2>1 DEF ClustersOf
    <3>2. Guards(g, FreeAndFail(f, ch))
      BY <1>6, <2>1, <2>2, <3>1, GuardFreeAndFail
    <3> QED
      BY <1>1, <1>9, <2>4, <3>2 DEF a, m
  <2>5. CASE f.ok
    <3>1. GuardDir(g, f.fat, dir)
      BY <1>7, <2>1, GuardDirStays
    <3>2. Guards(g, e)
      BY <1>6, <2>1, <2>2, <2>3, <2>5, <3>1, GuardAdd
    <3>3. Good(e) /\ Healthy(e) /\ HeadsStay(f, e, dir)
      BY <2>1, <2>3, <2>5, AddIs
    <3> HIDE DEF e
    <3>4. CASE e.ok
      BY <1>1, <1>9, <2>5, <3>2, <3>4 DEF a, m
    <3>5. CASE ~ e.ok
      <4>1. Links(e.fat) /\ IsHead(e.fat, h) /\ ChainIn(e.fat, h) = ch
        BY <2>1, <2>5, <3>3, HealthyIs DEF HeadsStay
      <4>2. \A x \in ClustersOf(e.fat, h) : Outside(g, x)
        BY <1>4, <4>1 DEF ClustersOf
      <4>3. Guards(g, FreeAndFail(e, ch))
        BY <3>2, <4>1, <4>2, GuardFreeAndFail
      <4> QED
        BY <1>1, <1>9, <2>5, <3>5, <4>3 DEF a, m
    <3> QED
      BY <3>4, <3>5
  <2> QED
    BY <2>4, <2>5
<1> QED
  BY <1>8, <1>9

\* The guard of a call on p: its name, its directory and what its path leads to are
\* outside of what is spared.
GuardPath(g, d, p) ==
  /\ IsGuard(g) /\ Guards(g, d) /\ g.name = Last(p) /\ GuardDir(g, d.fat, Parent(d, p))
  /\ IsHead(d.fat, ResolvePath(d, p)) =>
       \A x \in ClustersOf(d.fat, ResolvePath(d, p)) : Outside(g, x)

\* fat32_write spares what is not on its path.
LEMMA GuardWrite ==
  ASSUME NEW d, Healthy(d), NEW p \in Seq(ShortNames), p # <<>>, NEW g, GuardPath(g, d, p),
         NEW s \in Seq(PlainRows)
  PROVE  Guards(g, WriteFile(d, p, s))
<1> DEFINE dir  == Parent(d, p)
           gone == DeleteEntry(FatFreeChain(d, ResolvePath(d, p)), dir, Last(p))
           f    == WriteText(AllocChain(gone, Need(s)), dir, Last(p), s)
<1>1. WriteFile(d, p, s) = IF dir = 0 THEN Fails(d) ELSE IF s = <<>> THEN gone ELSE f
  BY DEF WriteFile, WriteIn, Need
<1>2. Good(d) /\ IsGuard(g) /\ Guards(g, d) /\ g.name = Last(p)
  BY DEF GuardPath, Guards
<1>3. Healthy(gone)
  BY <1>2, FileGone
<1>4. Guards(g, gone) /\ GuardDir(g, gone.fat, dir)
  BY GuardGone DEF GuardPath
<1>5. g.name \in {Short[x] : x \in DOMAIN Short}
  BY <1>2, FrontIs, ZenonT(60) DEF ShortNames
<1> HIDE DEF gone, dir
<1>6. s # <<>> => Guards(g, f)
  BY <1>2, <1>3, <1>4, <1>5, GuardText
<1>7. Guards(g, Fails(d))
  BY <1>2, GuardFails
<1> HIDE DEF f
<1> QED
  BY <1>1, <1>4, <1>6, <1>7

\* So does fat32_delete.
LEMMA GuardDeleteFile ==
  ASSUME NEW d, Healthy(d), NEW p \in Seq(ShortNames), p # <<>>, NEW g, GuardPath(g, d, p)
  PROVE  Guards(g, DeleteFile(d, p))
<1> DEFINE gone == DeleteEntry(FatFreeChain(d, ResolvePath(d, p)), Parent(d, p), Last(p))
<1>1. DeleteFile(d, p) = IF Parent(d, p) = 0 \/ ~ Found(d, p) THEN Fails(d) ELSE gone
  BY DEF DeleteFile
<1>2. Guards(g, gone)
  BY GuardGone DEF GuardPath
<1>3. Guards(g, Fails(d))
  BY GuardFails DEF GuardPath
<1> HIDE DEF gone
<1> QED
  BY <1>1, <1>2, <1>3

\* And fat32_create.
LEMMA GuardCreate ==
  ASSUME NEW d, Healthy(d), NEW p \in Seq(ShortNames), p # <<>>, NEW g, GuardPath(g, d, p),
         NEW dir \in BOOLEAN
  PROVE  Guards(g, CreateEntry(d, p, dir))
<1> DEFINE parent == Parent(d, p)
           c      == FatFindFree(d)
           dots   == [i \in 1..Rows |-> IF i <= 2 THEN Dot ELSE Zero]
           d1     == FatWrite(d, c, Eoc)
           made   == WriteCluster(d1, c, dots)
           New(first) == [kind |-> "entry", name |-> Last(p), dir |-> dir, first |-> first, size |-> 0]
<1>1. CreateEntry(d, p, dir)
        = IF parent = 0 \/ ResolvePath(d, p) # 0 THEN Fails(d)
          ELSE IF ~ dir THEN DirAddEntry(d, parent, New(0))
          ELSE IF c = 0 THEN Fails(d)
          ELSE IF ~ made.ok THEN FreeAndFail(made, <<c>>)
          ELSE DirAddEntry(made, parent, New(c))
  BY DEF CreateEntry, CreateIn
<1>2. Good(d) /\ IsGuard(g) /\ Guards(g, d) /\ g.name = Last(p) /\ GuardDir(g, d.fat, parent)
  BY DEF GuardPath, Guards
<1>3. Links(d.fat) /\ Last(p) \in ShortNames
  BY HealthyIs, FrontIs
<1>4. Guards(g, Fails(d))
  BY <1>2, GuardFails
<1>5. \A x \in Entries \cup {0} : New(x) \in EntryRows /\ New(x).name = g.name
  BY <1>2, <1>3 DEF EntryRows, AnyEntry, ShortNames
<1>6. dots \in PlainClusters /\ dots \in Clusters
  BY RowKinds DEF PlainClusters, Clusters
<1>7. c = 0 \/ (c \in Entries /\ d.fat[c] = 0)
  BY <1>2, FindFreeIs
<1> HIDE DEF New, c, parent, dots
<1>8. Guards(g, DirAddEntry(d, parent, New(0)))
  BY <1>2, <1>3, <1>5, GuardAdd
<1>9. ASSUME c # 0
      PROVE  /\ Guards(g, FreeAndFail(made, <<c>>))
             /\ made.ok => Guards(g, DirAddEntry(made, parent, New(c)))
  <2>0. c \in Entries /\ d.fat[c] = 0
    BY <1>7, <1>9
  <2>1. Outside(g, c) /\ Eoc \in Links0
    BY <1>2, <2>0, GuardUsed DEF Links0
  <2>2. /\ Good(made) /\ Sound(made.fat, made.data, Used(d.fat))
        /\ IsHead(made.fat, c) /\ ChainIn(made.fat, c) = <<c>> /\ c # Root
        /\ \A h : IsHead(d.fat, h) => h # c /\ IsHead(made.fat, h) /\ ChainIn(made.fat, h) = ChainIn(d.fat, h)
        /\ \A pl \in Used(made.fat) : pl \in Used(d.fat) \/ pl[1] = c
        /\ \A pl \in Used(d.fat) : ~ Names(made.data, pl, c)
        /\ made.ok => d.ok /\ Healthy(made) /\ NamedNowhere(made, c)
    BY <1>2, <1>6, <2>0, MadeIs
  <2>3. Guards(g, d1)
    BY <1>2, <2>0, <2>1, GuardFat
  <2> HIDE DEF d1
  <2>4. Guards(g, made)
    BY <1>2, <1>6, <2>0, <2>1, <2>3, GuardCluster
  <2> HIDE DEF made
  <2>5. Links(made.fat) /\ ClustersOf(made.fat, c) = {c}
    <3>1. ToSet(<<c>>) = {c}
      <4> DEFINE u == <<c>>
      <4>1. u \in Seq({c}) /\ Len(u) = 1 /\ u[1] = c
        OBVIOUS
      <4> HIDE DEF u
      <4>2. ToSet(u) = {u[k] : k \in 1..Len(u)}
        BY <4>1, ToSetIs
      <4>3. ToSet(u) = {c}
        BY <4>1, <4>2
      <4> QED
        BY <4>3 DEF u
    <3> QED
      BY <2>2, <3>1 DEF Sound, ClustersOf
  <2> DEFINE ch == <<c>>
  <2>6. ch # <<>> /\ ch[1] = c
    OBVIOUS
  <2> HIDE DEF ch
  <2>7. Guards(g, FreeAndFail(made, ch))
    BY <1>2, <2>1, <2>2, <2>4, <2>5, <2>6, GuardFreeAndFail
  <2>8. GuardDir(g, made.fat, parent)
    BY <1>2, <2>2, GuardDirStays
  <2>9. Guards(g, DirAddEntry(made, parent, New(c)))
    BY <1>2, <1>5, <2>0, <2>4, <2>5, <2>8, GuardAdd
  <2> QED
    BY <2>7, <2>9 DEF ch
<1> HIDE DEF made
<1> QED
  BY <1>1, <1>4, <1>8, <1>9

\* An entry that is found is still found when the directory gets longer, and when
\* entries of another name come or go.
LEMMA FindKept ==
  ASSUME NEW g, NEW d, d.data = g.data, NEW e, NEW s \in Seq(2..LastCluster), NEW ch \in Seq(2..LastCluster),
         Begun(s, ch), NEW n, n # g.name, FindIn(d, s, n) # <<>>,
         \A pl \in PlacesOf(s) : SameRow(g, e.data, pl) \/ NewRow(g, e.data, pl)
  PROVE  FindIn(e, ch, n) = FindIn(d, s, n) /\ RowAt(e, FindIn(d, s, n)) = RowAt(d, FindIn(d, s, n))
<1> DEFINE f == FirstOf(s, Hits(d, s, n))
<1>1. FindIn(d, s, n) = f /\ f # <<>> /\ RowAt(d, f) # Zero
  BY FindInHits DEF IfUsed
<1>2. PICK k, i : IsFirst(s, Hits(d, s, n), k, i) /\ f = <<s[k], i>>
  BY <1>1, FirstOfFirst
<1>3. /\ k \in 1..Len(s) /\ i \in 1..Rows /\ f \in Hits(d, s, n)
      /\ \A l \in 1..Len(s) : \A j \in 1..Rows : <<s[l], j>> \in Hits(d, s, n) => k < l \/ (k = l /\ i <= j)
  BY <1>2 DEF IsFirst
<1>4. f \in PlacesOf(s) /\ Hit(RowAt(d, f), n)
  BY <1>3 DEF Hits
<1>5. \A pl : RowAt(e, pl) = RowIn(e.data, pl) /\ RowAt(d, pl) = RowIn(g.data, pl)
  BY DEF RowAt, RowIn
<1> HIDE DEF f
<1>6. RowAt(e, f) = RowAt(d, f)
  <2>1. ~ Loose(g, RowAt(d, f))
    BY <1>1, <1>4 DEF Loose, Hit, Gone, Zero
  <2> QED
    BY <1>4, <1>5, <2>1 DEF SameRow, NewRow
<1>7. /\ Len(s) \in Nat /\ Len(ch) \in Nat /\ Len(s) <= Len(ch) /\ \A l \in 1..Len(s) : ch[l] = s[l]
      /\ Rows \in Nat
  BY EntriesAre, SMTT(30) DEF Begun
<1>8. k \in 1..Len(ch) /\ <<ch[k], i>> = f /\ f \in PlacesOf(ch)
  <2>1. k \in 1..Len(ch) /\ <<ch[k], i>> = f
    BY <1>2, <1>3, <1>7
  <2>2. <<ch[k], i>> \in PlacesOf(ch)
    BY <1>3, <2>1, PlaceIn
  <2> QED
    BY <2>1, <2>2
<1>9. f \in Hits(e, ch, n)
  BY <1>4, <1>6, <1>8 DEF Hits
<1>10. ASSUME NEW l \in 1..Len(ch), NEW j \in 1..Rows, <<ch[l], j>> \in Hits(e, ch, n)
       PROVE  k < l \/ (k = l /\ i <= j)
  <2>1. CASE l > Len(s)
    BY <1>3, <1>7, <2>1
  <2>2. CASE l <= Len(s)
    <3> DEFINE pl == <<s[l], j>>
    <3>1. l \in 1..Len(s) /\ pl = <<ch[l], j>>
      BY <1>7, <2>2
    <3>2. pl \in PlacesOf(s)
      BY <3>1, PlaceIn
    <3>3. Hit(RowAt(e, pl), n)
      BY <1>10, <3>1 DEF Hits
    <3> HIDE DEF pl
    <3>4. SameRow(g, e.data, pl) \/ NewRow(g, e.data, pl)
      BY <3>2
    <3>5. ~ NewRow(g, e.data, pl)
      BY <1>5, <3>3 DEF NewRow, Loose, Hit, Gone, Zero
    <3>6. Hit(RowAt(d, pl), n)
      BY <1>5, <3>3, <3>4, <3>5 DEF SameRow
    <3>7. pl \in Hits(d, s, n)
      BY <3>2, <3>6 DEF Hits
    <3> QED
      BY <1>3, <3>1, <3>7 DEF pl
  <2> QED
    BY <1>7, <2>1, <2>2
<1>11. IsFirst(ch, Hits(e, ch, n), k, i)
  BY <1>3, <1>8, <1>9, <1>10 DEF IsFirst
<1>12. FirstOf(ch, Hits(e, ch, n)) = f
  BY <1>8, <1>11, FirstOfAt
<1>13. FindIn(e, ch, n) = f
  BY <1>1, <1>6, <1>12, FindInHits DEF IfUsed
<1> QED
  BY <1>1, <1>6, <1>13
=============================================================================
