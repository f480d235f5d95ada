----------------------------- MODULE HeapProofs -----------------------------
(***************************************************************************)
(* Proofs about Heap for every size of page, growth, memory and request:   *)
(* the blocks tile the heap, the magic of every header is true, and malloc *)
(* and free implement Allocator.                                           *)
(***************************************************************************)
EXTENDS Heap, TLAPS

\* The blocks B, of the sizes size, tile the words 0..(cur - 1).
Tiles(B, size, cur) ==
  /\ B \subseteq Addr /\ size \in [Addr -> 0..Limit] /\ cur \in Addr
  /\ \A b \in B : b < cur /\ size[b] > Header /\ b + size[b] \in B \cup {cur}
  /\ \A b, c \in B : b < c => b + size[b] <= c
  /\ 0 \in B \cup {cur}

\* The magics say which block is in the list and which is held.
Tells(list, magic, own, cur) ==
  /\ list \in Seq(Addr) /\ magic \in [Addr -> {"none", "free", "used"}] /\ own \subseteq Addr
  /\ \A a \in Addr : magic[a] = "used" <=> a \in own
  /\ \A i \in DOMAIN list : magic[list[i]] = "free"
  /\ \A a \in Addr : a >= cur => magic[a] = "none"
  /\ \A i, j \in DOMAIN list : list[i] = list[j] => i = j

Listed(list) == {list[i] : i \in DOMAIN list}

\* A state h of the allocator whose clients hold the blocks own.
Good(h, own) ==
  /\ h = [list |-> h.list, size |-> h.size, magic |-> h.magic,
          cur |-> h.cur, max |-> h.max, frames |-> h.frames]
  /\ h.max \in Addr /\ h.frames \in 0..Frames /\ h.cur <= h.max
  /\ h.max + h.frames * PageWords <= Limit
  /\ Tiles(Listed(h.list) \cup own, h.size, h.cur)
  /\ Tells(h.list, h.magic, own, h.cur)

Asked == [Addr -> Sizes \cup {0}]

IInv == Good(heap, owned) /\ asked \in Asked /\ hung \in BOOLEAN

-----------------------------------------------------------------------------
LEMMA LimitIsNat == Limit \in Nat /\ 0 \in Addr
<1>1. \A x, y \in Nat : x * y \in Nat
  OBVIOUS
<1> QED
  BY <1>1, HeapAssumption DEF Limit, Addr

\* The same facts about numbers.
LEMMA TilesFacts ==
  ASSUME NEW B, NEW size, NEW cur, Tiles(B, size, cur)
  PROVE  /\ cur \in Nat /\ cur \in Addr /\ Limit \in Nat /\ cur <= Limit /\ Header = 3
         /\ B \subseteq Addr /\ size \in [Addr -> 0..Limit]
         /\ \A b \in B : /\ b \in Nat /\ size[b] \in Nat /\ b < cur /\ size[b] > 3
                         /\ b + size[b] <= cur /\ b + size[b] \in B \cup {cur}
         /\ \A b, c \in B : b < c => b + size[b] <= c
         /\ 0 \in B \cup {cur}
<1>1. cur \in Nat /\ cur \in Addr /\ Limit \in Nat /\ cur <= Limit /\ Header = 3
  BY LimitIsNat DEF Tiles, Addr, Header
<1>2. \A b \in B : b \in Addr /\ b \in Nat /\ size[b] \in Nat /\ b < cur /\ size[b] > 3
  BY <1>1 DEF Tiles, Addr
<1>3. ASSUME NEW b \in B PROVE b + size[b] <= cur /\ b + size[b] \in B \cup {cur}
  <2>1. b + size[b] \in B \cup {cur}
    BY DEF Tiles
  <2>2. \A c \in B \cup {cur} : c <= cur
    BY <1>1, <1>2
  <2> QED
    BY <2>1, <2>2
<1> QED
  BY <1>1, <1>2, <1>3 DEF Tiles

LEMMA TilesGrow ==
  ASSUME NEW B, NEW size, NEW cur, NEW top \in Addr,
         Tiles(B, size, cur), top > cur + Header
  PROVE  Tiles(B \cup {cur}, [size EXCEPT ![cur] = top - cur], top)
<1> DEFINE new == [size EXCEPT ![cur] = top - cur]
<1>1. /\ cur \in Nat /\ cur \in Addr /\ Limit \in Nat /\ cur <= Limit /\ Header = 3
      /\ B \subseteq Addr /\ size \in [Addr -> 0..Limit] /\ 0 \in B \cup {cur}
      /\ \A b \in B : /\ b \in Nat /\ size[b] \in Nat /\ b < cur /\ size[b] > 3
                      /\ b + size[b] <= cur /\ b + size[b] \in B \cup {cur}
      /\ \A b, c \in B : b < c => b + size[b] <= c
  BY TilesFacts
<1>2. top \in Nat /\ top - cur \in 0..Limit /\ top > cur + 3
  BY <1>1 DEF Addr
<1>3. new \in [Addr -> 0..Limit] /\ new[cur] = top - cur
  BY <1>1, <1>2
<1>4. \A b \in B : new[b] = size[b]
  BY <1>1
<1> HIDE DEF new
<1>5. \A b \in B \cup {cur} : b < top /\ new[b] > 3 /\ b + new[b] \in B \cup {cur, top}
  BY <1>1, <1>2, <1>3, <1>4
<1>6. ASSUME NEW b \in B \cup {cur}, NEW c \in B \cup {cur}, b < c PROVE b + new[b] <= c
  <2>1. b \in B
    BY <1>1, <1>6
  <2> QED
    BY <1>1, <1>4, <1>6, <2>1
<1> QED
  BY <1>1, <1>3, <1>5, <1>6 DEF Tiles, new

LEMMA TilesSplit ==
  ASSUME NEW B, NEW size, NEW cur, NEW b \in B, NEW need \in Nat,
         Tiles(B, size, cur), need > Header, size[b] - need > Header
  PROVE  /\ b + need \in Addr /\ b + need \notin B /\ b + need < cur
         /\ Tiles(B \cup {b + need},
                  [size EXCEPT ![b] = need, ![b + need] = size[b] - need], cur)
<1> DEFINE rest == b + need
           left == size[b] - need
           new  == [size EXCEPT ![b] = need, ![rest] = left]
<1>1. /\ cur \in Nat /\ cur \in Addr /\ Limit \in Nat /\ cur <= Limit /\ Header = 3
      /\ B \subseteq Addr /\ size \in [Addr -> 0..Limit] /\ 0 \in B \cup {cur}
      /\ \A c \in B : /\ c \in Nat /\ size[c] \in Nat /\ c < cur /\ size[c] > 3
                      /\ c + size[c] <= cur /\ c + size[c] \in B \cup {cur}
      /\ \A c, d \in B : c < d => c + size[c] <= d
  BY TilesFacts
<1>2. b \in Nat /\ size[b] \in Nat /\ b + size[b] <= cur
  BY <1>1
<1>3. /\ rest \in Nat /\ left \in Nat /\ need > 3 /\ left > 3
      /\ rest < cur /\ rest > b /\ rest + left = b + size[b]
      /\ rest \in Addr /\ need \in 0..Limit /\ left \in 0..Limit
  <2>1. need > 3 /\ left > 3 /\ left \in Nat /\ rest \in Nat
    BY <1>1, <1>2
  <2>2. rest + left = b + size[b] /\ rest > b /\ rest < cur /\ need <= Limit /\ left <= Limit
    BY <1>1, <1>2, <2>1
  <2> QED
    BY <1>1, <2>1, <2>2 DEF Addr
<1>4. rest \notin B
  <2>1. b < rest /\ ~ (b + size[b] <= rest)
    BY <1>2, <1>3
  <2> QED
    BY <1>1, <2>1
<1>5. new \in [Addr -> 0..Limit] /\ new[b] = need /\ new[rest] = left
  BY <1>1, <1>3
<1>6. \A c \in B : c # b => new[c] = size[c]
  BY <1>1, <1>3, <1>4
<1>7. b + need = rest
  OBVIOUS
<1> HIDE DEF new, rest, left
<1>8. ASSUME NEW c \in B \cup {rest}
      PROVE  c < cur /\ new[c] > 3 /\ c + new[c] \in B \cup {rest, cur}
  <2>1. CASE c = b
    <3>1. b < cur /\ b + need = rest /\ need > 3
      BY <1>1, <1>3, <1>7
    <3> QED
      BY <1>5, <2>1, <3>1
  <2>2. CASE c = rest
    BY <1>1, <1>3, <1>5, <2>2
  <2>3. CASE c \in B /\ c # b
    BY <1>1, <1>6, <2>3
  <2> QED
    BY <2>1, <2>2, <2>3
<1>9. ASSUME NEW c \in B \cup {rest}, NEW d \in B \cup {rest}, c < d PROVE c + new[c] <= d
  <2>1. CASE c = b /\ d = rest
    BY <1>5, <1>7, <2>1, <1>3
  <2>2. CASE c = b /\ d \in B
    BY <1>1, <1>2, <1>3, <1>5, <1>9, <2>2
  <2>3. CASE c = rest
    <3>1. d \in B /\ b < d
      BY <1>1, <1>2, <1>3, <1>9, <2>3
    <3> QED
      BY <1>1, <1>2, <1>3, <1>5, <2>3, <3>1
  <2>4. CASE c \in B /\ c # b /\ d = rest
    <3>1. c < b
      BY <1>1, <1>2, <1>3, <1>9, <2>4
    <3> QED
      BY <1>1, <1>2, <1>3, <1>6, <2>4, <3>1
  <2>5. CASE c \in B /\ c # b /\ d \in B
    BY <1>1, <1>6, <1>9, <2>5
  <2> QED
    BY <2>1, <2>2, <2>3, <2>4, <2>5
<1>10. Tiles(B \cup {rest}, new, cur)
  BY <1>1, <1>3, <1>5, <1>8, <1>9 DEF Tiles
<1> QED
  BY <1>3, <1>4, <1>10 DEF new, rest, left

LEMMA TilesJoin ==
  ASSUME NEW B, NEW size, NEW cur, NEW b \in B, Tiles(B, size, cur), b + size[b] \in B
  PROVE  LET next == b + size[b]
         IN  /\ next # b
             /\ Tiles(B \ {next}, [size EXCEPT ![b] = size[b] + size[next]], cur)
<1> DEFINE next == b + size[b]
           both == size[b] + size[next]
           new  == [size EXCEPT ![b] = both]
<1>1. /\ cur \in Nat /\ cur \in Addr /\ Limit \in Nat /\ cur <= Limit /\ Header = 3
      /\ B \subseteq Addr /\ size \in [Addr -> 0..Limit] /\ 0 \in B \cup {cur}
      /\ \A c \in B : /\ c \in Nat /\ size[c] \in Nat /\ c < cur /\ size[c] > 3
                      /\ c + size[c] <= cur /\ c + size[c] \in B \cup {cur}
      /\ \A c, d \in B : c < d => c + size[c] <= d
  BY TilesFacts
<1>2. b \in Nat /\ size[b] \in Nat /\ size[b] > 3 /\ next \in B
  BY <1>1
<1>3. next \in Nat /\ size[next] \in Nat /\ size[next] > 3 /\ next + size[next] <= cur
      /\ next + size[next] \in B \cup {cur}
  BY <1>1, <1>2
<1>4. next > b /\ both \in Nat /\ both > 3 /\ b + both = next + size[next] /\ both \in 0..Limit
  BY <1>1, <1>2, <1>3
<1>5. new \in [Addr -> 0..Limit] /\ new[b] = both /\ \A c \in B : c # b => new[c] = size[c]
  BY <1>1, <1>4
<1>6. next = b + size[b]
  OBVIOUS
<1> HIDE DEF new, next, both
<1>7. ASSUME NEW c \in B, c # b PROVE c + size[c] # next
  <2>1. CASE c < b
    BY <1>1, <1>2, <1>4, <2>1
  <2>2. CASE c > b
    <3>1. next <= c
      BY <1>1, <1>6, <2>2
    <3> QED
      BY <1>1, <1>3, <3>1
  <2> QED
    BY <1>1, <1>2, <1>7, <2>1, <2>2
<1>8. ASSUME NEW c \in B \ {next}
      PROVE  c < cur /\ new[c] > 3 /\ c + new[c] \in (B \ {next}) \cup {cur}
  <2>1. CASE c = b
    <3>1. b + new[b] = next + size[next] /\ next + size[next] # next
      BY <1>3, <1>4, <1>5
    <3> QED
      BY <1>1, <1>3, <1>4, <1>5, <2>1, <3>1
  <2>2. CASE c # b
    BY <1>1, <1>5, <1>7, <2>2
  <2> QED
    BY <2>1, <2>2
<1>9. ASSUME NEW c \in B \ {next}, NEW d \in B \ {next}, c < d PROVE c + new[c] <= d
  <2>1. CASE c = b
    <3>1. next <= d /\ d # next /\ d \in Nat
      BY <1>1, <1>6, <1>9, <2>1
    <3>2. next < d
      BY <1>3, <3>1
    <3>3. next + size[next] <= d
      BY <1>1, <1>2, <3>2
    <3> QED
      BY <1>4, <1>5, <2>1, <3>3
  <2>2. CASE c # b
    BY <1>1, <1>5, <1>9, <2>2
  <2> QED
    BY <2>1, <2>2
<1>10. 0 \in (B \ {next}) \cup {cur} /\ next # b
  BY <1>1, <1>2, <1>4
<1>11. Tiles(B \ {next}, new, cur)
  BY <1>1, <1>5, <1>8, <1>9, <1>10 DEF Tiles
<1> QED
  BY <1>10, <1>11 DEF new, next, both

-----------------------------------------------------------------------------
\* The three ways in which the free list changes.
Once(list) == \A i, j \in DOMAIN list : list[i] = list[j] => i = j

LEMMA ReplaceListed ==
  ASSUME NEW list \in Seq(Addr), Once(list), NEW i \in DOMAIN list,
         NEW rest \in Addr, rest \notin Listed(list)
  PROVE  LET new == ReplaceAt(list, i, rest)
         IN  /\ new \in Seq(Addr) /\ Once(new)
             /\ Listed(new) = (Listed(list) \ {list[i]}) \cup {rest}
<1> DEFINE new == ReplaceAt(list, i, rest)
<1>1. new \in Seq(Addr) /\ DOMAIN new = DOMAIN list /\ new[i] = rest
      /\ \A k \in DOMAIN list : k # i => new[k] = list[k]
  BY DEF ReplaceAt
<1> HIDE DEF new
<1>2. Once(new)
  BY <1>1 DEF Once, Listed
<1>3. Listed(new) = (Listed(list) \ {list[i]}) \cup {rest}
  BY <1>1 DEF Once, Listed
<1> QED
  BY <1>1, <1>2, <1>3 DEF new

LEMMA RemoveListed ==
  ASSUME NEW list \in Seq(Addr), Once(list), NEW i \in DOMAIN list
  PROVE  LET new == RemoveAt(list, i)
         IN  /\ new \in Seq(Addr) /\ Once(new)
             /\ Listed(new) = Listed(list) \ {list[i]}
<1> DEFINE new == RemoveAt(list, i)
           n   == Len(list)
<1>1. n \in Nat /\ DOMAIN list = 1..n /\ i \in 1..n
  OBVIOUS
<1>2. new \in Seq(Addr) /\ Len(new) = n - 1 /\ DOMAIN new = 1..(n - 1)
  BY <1>1 DEF RemoveAt
<1>3. \A k \in 1..(n - 1) : new[k] = IF k < i THEN list[k] ELSE list[k + 1]
  <2> DEFINE front == SubSeq(list, 1, i - 1)
             back  == SubSeq(list, i + 1, n)
  <2>1. /\ front \in Seq(Addr) /\ Len(front) = i - 1
        /\ \A k \in 1..(i - 1) : front[k] = list[k]
    BY <1>1
  <2>2. /\ back \in Seq(Addr) /\ Len(back) = n - i
        /\ \A k \in 1..(n - i) : back[k] = list[i + k]
    BY <1>1
  <2>3. new = front \o back
    BY DEF RemoveAt
  <2> HIDE DEF front, back, new, n
  <2>4. ASSUME NEW k \in 1..(n - 1), k < i PROVE new[k] = list[k]
    BY <1>1, <2>1, <2>2, <2>3, <2>4
  <2>5. ASSUME NEW k \in 1..(n - 1), ~ (k < i) PROVE new[k] = list[k + 1]
    <3>1. k - (i - 1) \in 1..(n - i) /\ i + (k - (i - 1)) = k + 1
      BY <1>1, <2>5
    <3>2. new[k] = back[k - (i - 1)]
      BY <1>1, <2>1, <2>2, <2>3, <2>5
    <3> QED
      BY <2>2, <3>1, <3>2
  <2> QED
    BY <2>4, <2>5
<1> HIDE DEF new, n
<1>4. Once(new)
  <2>1. ASSUME NEW j \in 1..(n - 1), NEW k \in 1..(n - 1), new[j] = new[k] PROVE j = k
    <3>1. /\ j \in 1..n /\ j + 1 \in 1..n /\ k \in 1..n /\ k + 1 \in 1..n
          /\ j # k => j + 1 # k + 1
      BY <1>1
    <3>2. j < i /\ k < i => j = k
      BY <1>1, <1>3, <2>1, <3>1 DEF Once
    <3>3. ~ (j < i) /\ ~ (k < i) => j + 1 = k + 1
      BY <1>1, <1>3, <2>1, <3>1 DEF Once
    <3>4. j < i /\ ~ (k < i) => j = k + 1
      BY <1>1, <1>3, <2>1, <3>1 DEF Once
    <3>5. ~ (j < i) /\ k < i => j + 1 = k
      BY <1>1, <1>3, <2>1, <3>1 DEF Once
    <3> QED
      BY <1>1, <3>1, <3>2, <3>3, <3>4, <3>5
  <2> QED
    BY <1>2, <2>1 DEF Once
<1>5. Listed(new) = Listed(list) \ {list[i]}
  <2>1. ASSUME NEW k \in 1..(n - 1) PROVE new[k] \in Listed(list) \ {list[i]}
    BY <1>1, <1>3 DEF Once, Listed
  <2>2. ASSUME NEW k \in 1..n, k # i PROVE list[k] \in Listed(new)
    <3>1. CASE k < i
      <4>1. k \in 1..(n - 1) /\ new[k] = list[k]
        BY <1>1, <1>3, <3>1
      <4> QED
        BY <1>2, <4>1 DEF Listed
    <3>2. CASE k > i
      <4>1. k - 1 \in 1..(n - 1) /\ ~ (k - 1 < i) /\ (k - 1) + 1 = k
        BY <1>1, <3>2
      <4>2. new[k - 1] = list[k]
        BY <1>3, <4>1
      <4> QED
        BY <1>2, <4>1, <4>2 DEF Listed
    <3> QED
      BY <1>1, <2>2, <3>1, <3>2
  <2> QED
    BY <1>1, <1>2, <2>1, <2>2 DEF Listed
<1> QED
  BY <1>2, <1>4, <1>5 DEF new

LEMMA ConsListed ==
  ASSUME NEW list \in Seq(Addr), Once(list), NEW b \in Addr, b \notin Listed(list)
  PROVE  LET new == <<b>> \o list
         IN  /\ new \in Seq(Addr) /\ Once(new) /\ new # <<>>
             /\ Listed(new) = Listed(list) \cup {b}
<1> DEFINE new == <<b>> \o list
           n   == Len(list)
<1>1. n \in Nat /\ DOMAIN list = 1..n
  OBVIOUS
<1>2. new \in Seq(Addr) /\ DOMAIN new = 1..(n + 1) /\ new # <<>>
  BY <1>1
<1>3. new[1] = b /\ \A k \in 1..n : new[k + 1] = list[k]
  BY <1>1
<1> HIDE DEF new, n
<1>4. \A k \in 1..(n + 1) : k = 1 \/ (k - 1 \in 1..n /\ new[k] = list[k - 1])
  <2>1. ASSUME NEW k \in 1..(n + 1), k # 1 PROVE k - 1 \in 1..n /\ new[k] = list[k - 1]
    <3>1. k - 1 \in 1..n /\ (k - 1) + 1 = k
      BY <1>1, <2>1
    <3> QED
      BY <1>3, <3>1
  <2> QED
    BY <2>1
<1>5. Once(new)
  <2>1. ASSUME NEW j \in 1..(n + 1), NEW k \in 1..(n + 1), new[j] = new[k] PROVE j = k
    <3>1. CASE j = 1 /\ k # 1
      BY <1>1, <1>3, <1>4, <2>1, <3>1 DEF Listed
    <3>2. CASE j # 1 /\ k = 1
      BY <1>1, <1>3, <1>4, <2>1, <3>2 DEF Listed
    <3>3. CASE j # 1 /\ k # 1
      <4>1. j - 1 = k - 1
        BY <1>1, <1>4, <2>1, <3>3 DEF Once
      <4> QED
        BY <1>1, <4>1
    <3> QED
      BY <3>1, <3>2, <3>3
  <2> QED
    BY <1>2, <2>1 DEF Once
<1>6. Listed(new) = Listed(list) \cup {b}
  <2>1. \A k \in 1..(n + 1) : new[k] \in Listed(list) \cup {b}
    BY <1>1, <1>3, <1>4 DEF Listed
  <2>2. \A k \in 1..n : list[k] \in Listed(new)
    <3>1. \A k \in 1..n : k + 1 \in 1..(n + 1)
      BY <1>1
    <3> QED
      BY <1>2, <1>3, <3>1 DEF Listed
  <2>3. b \in Listed(new)
    BY <1>1, <1>2, <1>3 DEF Listed
  <2> QED
    BY <1>1, <1>2, <2>1, <2>2, <2>3 DEF Listed
<1> QED
  BY <1>2, <1>5, <1>6 DEF new

LEMMA RemoveFirstListed ==
  ASSUME NEW list \in Seq(Addr), Once(list), NEW e \in Listed(list)
  PROVE  LET new == RemoveFirst(list, e)
         IN  /\ new \in Seq(Addr) /\ Once(new)
             /\ Listed(new) = Listed(list) \ {e}
<1>1. PICK i \in 1..Len(list) : list[i] = e
  BY DEF Listed
<1> DEFINE Test(v) == v = e
           I == {k \in 1..Len(list) : list[k] = e}
<1>2. I = {i}
  BY <1>1 DEF Once
<1>3. SelectInSeq(list, Test) = i
  BY <1>1, <1>2 DEF SelectInSeq, Min
<1>4. RemoveFirst(list, e) = RemoveAt(list, i)
  BY <1>1, <1>3 DEF RemoveFirst
<1> QED
  BY <1>1, <1>4, RemoveListed

-----------------------------------------------------------------------------
\* What Good says, field by field.
LEMMA GoodFacts ==
  ASSUME NEW h, NEW own, Good(h, own)
  PROVE  /\ h.cur \in Nat /\ h.max \in Nat /\ h.frames \in Nat /\ Limit \in Nat
         /\ h.cur \in Addr /\ h.max \in Addr /\ h.frames \in 0..Frames /\ h.cur <= h.max
         /\ h.frames * PageWords \in Nat /\ h.max + h.frames * PageWords <= Limit
         /\ h.list \in Seq(Addr) /\ Once(h.list)
         /\ h.magic \in [Addr -> {"none", "free", "used"}]
         /\ own \subseteq Addr
         /\ \A a \in Addr : h.magic[a] = "used" <=> a \in own
         /\ \A a \in Listed(h.list) : a \in Addr /\ h.magic[a] = "free" /\ a \notin own
         /\ \A a \in Addr : a >= h.cur => h.magic[a] = "none"
         /\ Tiles(Listed(h.list) \cup own, h.size, h.cur)
<1>1. \A x, y \in Nat : x * y \in Nat
  OBVIOUS
<1>2. Limit \in Nat /\ h.cur \in Addr /\ h.max \in Addr /\ h.frames \in 0..Frames
  BY LimitIsNat DEF Good, Tiles
<1>3. h.cur \in Nat /\ h.max \in Nat /\ h.frames \in Nat
  BY <1>2, HeapAssumption DEF Addr
<1>4. h.frames * PageWords \in Nat
  BY <1>1, <1>3, HeapAssumption
<1>5. \A a \in Listed(h.list) : a \in Addr /\ h.magic[a] = "free" /\ a \notin own
  BY DEF Good, Tells, Listed
<1> QED
  BY <1>2, <1>3, <1>4, <1>5 DEF Good, Tells, Once

LEMMA GrowIsGood ==
  ASSUME NEW h, NEW own, Good(h, own)
  PROVE  Good(Grow(h), own)
<1>1. /\ h.cur \in Nat /\ h.max \in Nat /\ h.frames \in Nat /\ Limit \in Nat
      /\ h.cur \in Addr /\ h.max \in Addr /\ h.frames \in 0..Frames /\ h.cur <= h.max
      /\ h.frames * PageWords \in Nat /\ h.max + h.frames * PageWords <= Limit
      /\ h.list \in Seq(Addr) /\ Once(h.list)
      /\ h.magic \in [Addr -> {"none", "free", "used"}]
      /\ own \subseteq Addr
      /\ \A a \in Addr : h.magic[a] = "used" <=> a \in own
      /\ \A a \in Listed(h.list) : a \in Addr /\ h.magic[a] = "free" /\ a \notin own
      /\ \A a \in Addr : a >= h.cur => h.magic[a] = "none"
      /\ Tiles(Listed(h.list) \cup own, h.size, h.cur)
  BY GoodFacts
<1>2. CASE h.frames < GrowPages
  <2> DEFINE more == h.frames * PageWords
  <2>1. Grow(h) = [list |-> h.list, size |-> h.size, magic |-> h.magic,
                   cur |-> h.cur, max |-> h.max + more, frames |-> 0]
    <3>1. h = [list |-> h.list, size |-> h.size, magic |-> h.magic,
               cur |-> h.cur, max |-> h.max, frames |-> h.frames]
      BY DEF Good
    <3>2. Grow(h) = [h EXCEPT !.max = h.max + more, !.frames = 0]
      BY <1>2 DEF Grow
    <3> QED
      BY <3>1, <3>2
  <2>2. 0 * PageWords = 0 /\ 0 \in 0..Frames
    BY HeapAssumption
  <2>3. h.max + more \in Addr /\ h.cur <= h.max + more
    BY <1>1 DEF Addr
  <2>4. h.max + more + 0 * PageWords <= Limit
    BY <1>1, <2>2
  <2> HIDE DEF more
  <2> QED
    BY <2>1, <2>2, <2>3, <2>4 DEF Good
<1>3. CASE ~ (h.frames < GrowPages)
  <2> DEFINE top   == h.max + GrowPages * PageWords
             list  == <<h.cur>> \o h.list
             size  == [h.size EXCEPT ![h.cur] = top - h.cur]
             magic == [h.magic EXCEPT ![h.cur] = "free"]
             left  == h.frames - GrowPages
  <2>1. Grow(h) = [list |-> list, size |-> size, magic |-> magic,
                   cur |-> top, max |-> top, frames |-> left]
    BY <1>3 DEF Grow
  <2>2. GrowPages * PageWords \in Nat /\ left \in Nat /\ left * PageWords \in Nat
    <3>1. \A x, y \in Nat : x * y \in Nat
      OBVIOUS
    <3>2. left \in Nat
      BY <1>1, <1>3, HeapAssumption
    <3> QED
      BY <3>1, <3>2, HeapAssumption
  <2>3. h.frames * PageWords = GrowPages * PageWords + left * PageWords
    <3>1. \A x, y, z \in Int : (x + y) * z = x * z + y * z
      OBVIOUS
    <3>2. h.frames = GrowPages + left
      BY <1>1, HeapAssumption
    <3> HIDE DEF left
    <3> QED
      BY <2>2, <3>1, <3>2, HeapAssumption
  <2>4. /\ top \in Addr /\ top > h.cur + Header /\ left \in 0..Frames
        /\ top + left * PageWords <= Limit
    <3> DEFINE grown == GrowPages * PageWords
               kept  == left * PageWords
               all   == h.frames * PageWords
    <3>1. grown \in Nat /\ kept \in Nat /\ all = grown + kept /\ grown > 3 /\ Header = 3
      BY <2>2, <2>3, HeapAssumption DEF Header
    <3>2. top = h.max + grown /\ h.max + all <= Limit /\ left <= h.frames /\ h.frames <= Frames
      BY <1>1, HeapAssumption
    <3> HIDE DEF grown, kept, all, top
    <3>3. top \in 0..Limit /\ top > h.cur + 3 /\ top + kept <= Limit
      BY <1>1, <3>1, <3>2
    <3>4. left \in 0..Frames
      BY <2>2, <1>1, <3>2, HeapAssumption
    <3> QED
      BY <3>1, <3>3, <3>4 DEF Addr, kept
  <2>5. h.cur \notin Listed(h.list) /\ h.cur \notin own
    BY <1>1
  <2>6. list \in Seq(Addr) /\ Once(list) /\ Listed(list) = Listed(h.list) \cup {h.cur}
    BY <1>1, <2>5, ConsListed
  <2> HIDE DEF top, left
  <2>7. Tiles(Listed(h.list) \cup own \cup {h.cur}, size, top)
    BY <1>1, <2>4, TilesGrow
  <2>8. /\ magic \in [Addr -> {"none", "free", "used"}] /\ magic[h.cur] = "free"
        /\ \A a \in Addr : a # h.cur => magic[a] = h.magic[a]
    BY <1>1
  <2> HIDE DEF list, size, magic
  <2>9. Tells(list, magic, own, top)
    <3>1. \A a \in Addr : magic[a] = "used" <=> a \in own
      BY <1>1, <2>5, <2>8
    <3>2. \A a \in Listed(list) : magic[a] = "free"
      BY <1>1, <2>6, <2>8
    <3>3. ASSUME NEW a \in Addr, a >= top PROVE magic[a] = "none"
      <4>1. a # h.cur /\ a >= h.cur
        BY <1>1, <2>4, <3>3 DEF Addr, Header
      <4> QED
        BY <1>1, <2>8, <4>1
    <3> QED
      BY <1>1, <2>6, <2>8, <3>1, <3>2, <3>3 DEF Tells, Once, Listed
  <2>10. Tiles(Listed(list) \cup own, size, top)
    <3>1. Listed(list) \cup own = Listed(h.list) \cup own \cup {h.cur}
      BY <2>6
    <3> QED
      BY <2>7, <3>1
  <2>11. top <= top
    BY <2>4 DEF Addr
  <2> QED
    BY <2>1, <2>4, <2>9, <2>10, <2>11 DEF Good
<1> QED
  BY <1>2, <1>3

LEMMA TakeIsGood ==
  ASSUME NEW h, NEW own, Good(h, own), NEW i \in DOMAIN h.list,
         NEW need \in Nat, need > Header, h.size[h.list[i]] >= need
  PROVE  LET b == h.list[i]
             t == Take(h, i, need)
         IN  /\ Good(t, own \cup {b})
             /\ b \notin own /\ t.size[b] >= need
             /\ \A c \in own : t.size[c] = h.size[c]
<1> DEFINE b    == h.list[i]
           rest == b + need
           left == h.size[b] - need
           B    == Listed(h.list) \cup own
<1>1. /\ h.cur \in Nat /\ h.max \in Nat /\ h.frames \in Nat /\ Limit \in Nat
      /\ h.cur \in Addr /\ h.max \in Addr /\ h.frames \in 0..Frames /\ h.cur <= h.max
      /\ h.frames * PageWords \in Nat /\ h.max + h.frames * PageWords <= Limit
      /\ h.list \in Seq(Addr) /\ Once(h.list)
      /\ h.magic \in [Addr -> {"none", "free", "used"}]
      /\ own \subseteq Addr
      /\ \A a \in Addr : h.magic[a] = "used" <=> a \in own
      /\ \A a \in Listed(h.list) : a \in Addr /\ h.magic[a] = "free" /\ a \notin own
      /\ \A a \in Addr : a >= h.cur => h.magic[a] = "none"
      /\ Tiles(Listed(h.list) \cup own, h.size, h.cur)
  BY GoodFacts
<1>2. /\ Header = 3
      /\ \A c \in B : /\ c \in Nat /\ h.size[c] \in Nat /\ c < h.cur /\ h.size[c] > 3
                      /\ c + h.size[c] <= h.cur
      /\ h.size \in [Addr -> 0..Limit]
  <2>1. Tiles(B, h.size, h.cur)
    BY <1>1
  <2> HIDE DEF B, b, rest, left
  <2> QED
    BY <2>1, TilesFacts
<1>3. b \in Listed(h.list) /\ b \in B /\ b \notin own /\ b \in Addr /\ b \in Nat /\ h.size[b] \in Nat
  BY <1>1, <1>2 DEF Listed
<1>4. h = [list |-> h.list, size |-> h.size, magic |-> h.magic,
           cur |-> h.cur, max |-> h.max, frames |-> h.frames]
  BY DEF Good
<1>5. CASE left >= Header + 1
  <2> DEFINE list  == ReplaceAt(h.list, i, rest)
             size  == [h.size EXCEPT ![b] = need, ![rest] = left]
             magic == [h.magic EXCEPT ![rest] = "free", ![b] = "used"]
  <2>1. Take(h, i, need) = [list |-> list, size |-> size, magic |-> magic,
                            cur |-> h.cur, max |-> h.max, frames |-> h.frames]
    <3>1. Take(h, i, need) = [h EXCEPT !.list = list, !.size = size, !.magic = magic]
      BY <1>5 DEF Take
    <3> HIDE DEF list, size, magic
    <3> QED
      BY <1>4, <3>1
  <2>2. h.size[b] - need > Header
    BY <1>2, <1>3, <1>5
  <2>3. rest \in Addr /\ rest \notin B /\ rest < h.cur /\ Tiles(B \cup {rest}, size, h.cur)
    <3> HIDE DEF B, b
    <3> QED
      BY <1>1, <1>3, <2>2, TilesSplit DEF B
  <2>4. list \in Seq(Addr) /\ Once(list) /\ Listed(list) = (Listed(h.list) \ {b}) \cup {rest}
    BY <1>1, <2>3, ReplaceListed
  <2>5. rest # b /\ rest \notin own
    BY <1>3, <2>3
  <2>6. /\ magic \in [Addr -> {"none", "free", "used"}] /\ magic[b] = "used" /\ magic[rest] = "free"
        /\ \A a \in Addr : a # b /\ a # rest => magic[a] = h.magic[a]
    BY <1>1, <1>3, <2>3, <2>5
  <2>7. size[b] = need /\ \A c \in own : size[c] = h.size[c]
    BY <1>1, <1>2, <1>3, <2>3, <2>5
  <2> HIDE DEF list, size, magic, rest, b
  <2>8. Tells(list, magic, own \cup {b}, h.cur)
    <3>1. \A a \in Addr : magic[a] = "used" <=> a \in own \cup {b}
      BY <1>1, <2>5, <2>6
    <3>2. \A a \in Listed(list) : magic[a] = "free"
      BY <1>1, <2>4, <2>6
    <3>3. ASSUME NEW a \in Addr, a >= h.cur PROVE magic[a] = "none"
      <4>1. a # b /\ a # rest
        BY <1>1, <1>2, <1>3, <2>3, <3>3 DEF Addr
      <4> QED
        BY <1>1, <2>6, <3>3, <4>1
    <3> QED
      BY <1>1, <1>3, <2>4, <2>6, <3>1, <3>2, <3>3 DEF Tells, Once, Listed
  <2>9. Tiles(Listed(list) \cup (own \cup {b}), size, h.cur)
    <3>1. Listed(list) \cup (own \cup {b}) = B \cup {rest}
      BY <1>3, <2>4
    <3> QED
      BY <2>3, <3>1
  <2>10. Good(Take(h, i, need), own \cup {b})
    <3> HIDE DEF B
    <3> QED
      BY <1>1, <2>1, <2>8, <2>9 DEF Good
  <2>11. Take(h, i, need).size = size
    BY <2>1
  <2> QED
    BY <1>3, <2>7, <2>10, <2>11 DEF b
<1>6. CASE ~ (left >= Header + 1)
  <2> DEFINE list  == RemoveAt(h.list, i)
             magic == [h.magic EXCEPT ![b] = "used"]
  <2>1. Take(h, i, need) = [list |-> list, size |-> h.size, magic |-> magic,
                            cur |-> h.cur, max |-> h.max, frames |-> h.frames]
    <3>1. Take(h, i, need) = [h EXCEPT !.list = list, !.magic = magic]
      BY <1>6 DEF Take
    <3> HIDE DEF list, magic
    <3> QED
      BY <1>4, <3>1
  <2>2. list \in Seq(Addr) /\ Once(list) /\ Listed(list) = Listed(h.list) \ {b}
    BY <1>1, RemoveListed
  <2>3. /\ magic \in [Addr -> {"none", "free", "used"}] /\ magic[b] = "used"
        /\ \A a \in Addr : a # b => magic[a] = h.magic[a]
    BY <1>1, <1>3
  <2> HIDE DEF list, magic, b
  <2>4. Tells(list, magic, own \cup {b}, h.cur)
    <3>1. \A a \in Addr : magic[a] = "used" <=> a \in own \cup {b}
      BY <1>1, <2>3
    <3>2. \A a \in Listed(list) : magic[a] = "free"
      BY <1>1, <2>2, <2>3
    <3>3. ASSUME NEW a \in Addr, a >= h.cur PROVE magic[a] = "none"
      <4>1. a # b
        BY <1>1, <1>2, <1>3, <3>3 DEF Addr
      <4> QED
        BY <1>1, <2>3, <3>3, <4>1
    <3> QED
      BY <1>1, <1>3, <2>2, <2>3, <3>1, <3>2, <3>3 DEF Tells, Once, Listed
  <2>5. Tiles(Listed(list) \cup (own \cup {b}), h.size, h.cur)
    <3>1. Listed(list) \cup (own \cup {b}) = B
      BY <1>3, <2>2
    <3> QED
      BY <1>1, <3>1
  <2>6. Good(Take(h, i, need), own \cup {b})
    <3> HIDE DEF B
    <3> QED
      BY <1>1, <2>1, <2>4, <2>5 DEF Good
  <2>7. Take(h, i, need).size = h.size
    BY <2>1
  <2> QED
    BY <1>3, <2>6, <2>7 DEF b
<1> QED
  BY <1>5, <1>6

\* What free makes of the state h when the block b is in use.
Freed(h, b) ==
  LET j == Joined([h EXCEPT !.magic = [h.magic EXCEPT ![b] = "free"]], b)
  IN  [j EXCEPT !.list = <<b>> \o j.list]

LEMMA FreeIsGood ==
  ASSUME NEW h, NEW own, Good(h, own), NEW b \in Addr, h.magic[b] = "used"
  PROVE  /\ Good(Freed(h, b), own \ {b}) /\ b \in own
         /\ \A c \in own \ {b} : Freed(h, b).size[c] = h.size[c]
<1> DEFINE magic == [h.magic EXCEPT ![b] = "free"]
           B     == Listed(h.list) \cup own
           next  == b + h.size[b]
           mid   == [h EXCEPT !.magic = magic]
<1>1. /\ h.cur \in Nat /\ h.max \in Nat /\ h.frames \in Nat /\ Limit \in Nat
      /\ h.cur \in Addr /\ h.max \in Addr /\ h.frames \in 0..Frames /\ h.cur <= h.max
      /\ h.frames * PageWords \in Nat /\ h.max + h.frames * PageWords <= Limit
      /\ h.list \in Seq(Addr) /\ Once(h.list)
      /\ h.magic \in [Addr -> {"none", "free", "used"}]
      /\ own \subseteq Addr
      /\ \A a \in Addr : h.magic[a] = "used" <=> a \in own
      /\ \A a \in Listed(h.list) : a \in Addr /\ h.magic[a] = "free" /\ a \notin own
      /\ \A a \in Addr : a >= h.cur => h.magic[a] = "none"
      /\ Tiles(Listed(h.list) \cup own, h.size, h.cur)
  BY GoodFacts
<1>2. /\ Header = 3
      /\ \A c \in B : /\ c \in Nat /\ h.size[c] \in Nat /\ c < h.cur /\ h.size[c] > 3
                      /\ c + h.size[c] <= h.cur /\ c + h.size[c] \in B \cup {h.cur}
      /\ h.size \in [Addr -> 0..Limit] /\ B \subseteq Addr
  BY <1>1, TilesFacts
<1>3. b \in own /\ b \in B /\ b \notin Listed(h.list) /\ b \in Nat /\ h.size[b] \in Nat /\ h.size[b] > 3
  BY <1>1, <1>2
<1>4. h = [list |-> h.list, size |-> h.size, magic |-> h.magic,
           cur |-> h.cur, max |-> h.max, frames |-> h.frames]
  BY DEF Good
<1>5. mid = [list |-> h.list, size |-> h.size, magic |-> magic,
             cur |-> h.cur, max |-> h.max, frames |-> h.frames]
  <2> HIDE DEF magic
  <2> QED
    BY <1>4
<1>6. /\ magic \in [Addr -> {"none", "free", "used"}] /\ magic[b] = "free"
      /\ \A a \in Addr : a # b => magic[a] = h.magic[a]
  BY <1>1
<1>7. Freed(h, b) = [Joined(mid, b) EXCEPT !.list = <<b>> \o Joined(mid, b).list]
  BY DEF Freed
<1>8. \A a \in Addr : a >= h.cur => magic[a] = "none"
  <2>1. \A a \in Addr : a >= h.cur => a # b
    BY <1>1, <1>2, <1>3 DEF Addr
  <2> QED
    BY <1>1, <1>6, <2>1
<1>9. CASE next < h.max /\ magic[next] = "free"
  <2> DEFINE rem  == RemoveFirst(h.list, next)
             list == <<b>> \o rem
             size == [h.size EXCEPT ![b] = h.size[b] + h.size[next]]
  <2>1. next \in Listed(h.list) /\ next # b
    <3>1. next # b /\ next \in B \cup {h.cur} /\ next \in Addr
      BY <1>1, <1>2, <1>3
    <3>2. h.magic[next] = "free"
      BY <1>6, <1>9, <3>1
    <3>3. next # h.cur /\ next \notin own
      BY <1>1, <3>2
    <3> QED
      BY <3>1, <3>3
  <2>2. Joined(mid, b) = [list |-> rem, size |-> size, magic |-> magic,
                          cur |-> h.cur, max |-> h.max, frames |-> h.frames]
    <3>1. mid.list = h.list /\ mid.size = h.size /\ mid.magic = magic /\ mid.max = h.max
      BY <1>5
    <3>2. Joined(mid, b) = [mid EXCEPT !.list = rem, !.size = size]
      BY <1>9, <3>1 DEF Joined
    <3> HIDE DEF mid, rem, size, magic
    <3> QED
      BY <1>5, <3>2
  <2>3. Freed(h, b) = [list |-> list, size |-> size, magic |-> magic,
                       cur |-> h.cur, max |-> h.max, frames |-> h.frames]
    <3>1. Joined(mid, b).list = rem
      <4> HIDE DEF mid, rem, size, magic
      <4> QED
        BY <2>2
    <3>2. Freed(h, b) = [Joined(mid, b) EXCEPT !.list = list]
      BY <1>7, <3>1
    <3> HIDE DEF mid, rem, size, magic, list
    <3> QED
      BY <2>2, <3>2
  <2>4. rem \in Seq(Addr) /\ Once(rem) /\ Listed(rem) = Listed(h.list) \ {next}
    BY <1>1, <2>1, RemoveFirstListed
  <2> HIDE DEF rem
  <2>5. list \in Seq(Addr) /\ Once(list) /\ Listed(list) = (Listed(h.list) \ {next}) \cup {b}
    BY <1>3, <2>4, ConsListed
  <2>6. Tiles(B \ {next}, size, h.cur)
    <3>1. b + h.size[b] \in B
      BY <2>1
    <3> HIDE DEF B
    <3> QED
      BY <1>1, <1>3, <3>1, TilesJoin DEF B
  <2>7. \A c \in own \ {b} : size[c] = h.size[c]
    BY <1>1, <1>2
  <2> HIDE DEF list, size, magic, next, mid
  <2>8. Tells(list, magic, own \ {b}, h.cur)
    <3>1. \A a \in Addr : magic[a] = "used" <=> a \in own \ {b}
      BY <1>1, <1>6
    <3>2. \A a \in Listed(list) : magic[a] = "free"
      BY <1>1, <1>6, <2>5
    <3> QED
      BY <1>1, <1>6, <1>8, <2>5, <3>1, <3>2 DEF Tells, Once, Listed
  <2>9. Tiles(Listed(list) \cup (own \ {b}), size, h.cur)
    <3>1. next \notin own
      BY <1>1, <2>1
    <3>2. Listed(list) \cup (own \ {b}) = B \ {next}
      BY <1>3, <2>1, <2>5, <3>1
    <3> QED
      BY <2>6, <3>2
  <2>10. Good(Freed(h, b), own \ {b})
    <3> HIDE DEF B
    <3> QED
      BY <1>1, <2>3, <2>8, <2>9 DEF Good
  <2>11. Freed(h, b).size = size
    BY <2>3
  <2> QED
    BY <1>3, <2>7, <2>10, <2>11
<1>10. CASE ~ (next < h.max /\ magic[next] = "free")
  <2> DEFINE list == <<b>> \o h.list
  <2>1. Joined(mid, b) = mid
    <3>1. mid.size = h.size /\ mid.magic = magic /\ mid.max = h.max
      BY <1>5
    <3> QED
      BY <1>10, <3>1 DEF Joined
  <2>2. Freed(h, b) = [list |-> list, size |-> h.size, magic |-> magic,
                       cur |-> h.cur, max |-> h.max, frames |-> h.frames]
    <3>1. mid.list = h.list
      BY <1>5
    <3>2. Freed(h, b) = [mid EXCEPT !.list = list]
      BY <1>7, <2>1, <3>1
    <3> HIDE DEF mid, magic, list
    <3> QED
      BY <1>5, <3>2
  <2>3. list \in Seq(Addr) /\ Once(list) /\ Listed(list) = Listed(h.list) \cup {b}
    BY <1>1, <1>3, ConsListed
  <2> HIDE DEF list, magic, mid
  <2>4. Tells(list, magic, own \ {b}, h.cur)
    <3>1. \A a \in Addr : magic[a] = "used" <=> a \in own \ {b}
      BY <1>1, <1>6
    <3>2. \A a \in Listed(list) : magic[a] = "free"
      BY <1>1, <1>6, <2>3
    <3> QED
      BY <1>1, <1>6, <1>8, <2>3, <3>1, <3>2 DEF Tells, Once, Listed
  <2>5. Tiles(Listed(list) \cup (own \ {b}), h.size, h.cur)
    <3>1. Listed(list) \cup (own \ {b}) = B
      BY <1>3, <2>3
    <3> QED
      BY <1>1, <3>1
  <2>6. Good(Freed(h, b), own \ {b})
    <3> HIDE DEF B
    <3> QED
      BY <1>1, <2>2, <2>4, <2>5 DEF Good
  <2> QED
    BY <1>3, <2>2, <2>6
<1> QED
  BY <1>9, <1>10

\* alloc_frame gives a frame to somebody else.
LEMMA TakeFrameIsGood ==
  ASSUME NEW h, NEW own, Good(h, own), h.frames > 0
  PROVE  Good([h EXCEPT !.frames = h.frames - 1], own)
<1> DEFINE t    == [h EXCEPT !.frames = h.frames - 1]
           left == h.frames - 1
<1>1. /\ h.cur \in Nat /\ h.max \in Nat /\ h.frames \in Nat /\ Limit \in Nat
      /\ h.cur \in Addr /\ h.max \in Addr /\ h.frames \in 0..Frames /\ h.cur <= h.max
      /\ h.max + h.frames * PageWords <= Limit
  BY GoodFacts
<1>2. left \in Nat /\ h.frames = left + 1 /\ left \in 0..Frames
  BY <1>1, HeapAssumption
<1>3. h.max + left * PageWords <= Limit
  <2>1. \A x, z \in Int : (x + 1) * z = x * z + z
    OBVIOUS
  <2> HIDE DEF left
  <2>2. h.frames * PageWords = left * PageWords + PageWords /\ left * PageWords \in Int
    BY <1>2, <2>1, HeapAssumption
  <2> QED
    BY <1>1, <2>2, HeapAssumption
<1>4. t = [list |-> h.list, size |-> h.size, magic |-> h.magic,
           cur |-> h.cur, max |-> h.max, frames |-> left]
  <2>1. h = [list |-> h.list, size |-> h.size, magic |-> h.magic,
             cur |-> h.cur, max |-> h.max, frames |-> h.frames]
    BY DEF Good
  <2> QED
    BY <2>1
<1> HIDE DEF t, left
<1>5. Good(t, own)
  BY <1>1, <1>2, <1>3, <1>4 DEF Good
<1> QED
  BY <1>5 DEF t

LEMMA InitIsGood == Init => IInv
<1> SUFFICES ASSUME Init PROVE Good(heap, owned) /\ asked \in Asked /\ hung \in BOOLEAN
  BY DEF IInv
<1>1. /\ heap = [list |-> heap.list, size |-> heap.size, magic |-> heap.magic,
                 cur |-> heap.cur, max |-> heap.max, frames |-> heap.frames]
      /\ heap.list = <<>> /\ heap.size = [a \in Addr |-> 0] /\ heap.magic = [a \in Addr |-> "none"]
      /\ heap.cur = 0 /\ heap.max = 0 /\ heap.frames = Frames
      /\ owned = {}
  BY DEF Init
<1>2. Limit \in Nat /\ 0 \in Addr /\ 0 \in 0..Limit
  BY LimitIsNat DEF Addr
<1>3. Listed(heap.list) = {} /\ heap.list \in Seq(Addr) /\ DOMAIN heap.list = {}
  BY <1>1 DEF Listed
<1>4. Tiles(Listed(heap.list) \cup owned, heap.size, heap.cur)
  BY <1>1, <1>2, <1>3 DEF Tiles
<1>5. Tells(heap.list, heap.magic, owned, heap.cur)
  BY <1>1, <1>3 DEF Tells
<1>6. heap.max + heap.frames * PageWords <= Limit
  BY <1>1, <1>2 DEF Limit
<1>7. heap.frames \in 0..Frames /\ heap.cur <= heap.max /\ heap.max \in Addr
  BY <1>1, <1>2, HeapAssumption
<1>8. asked \in Asked /\ hung \in BOOLEAN
  BY DEF Init, Asked
<1> QED
  BY <1>1, <1>4, <1>5, <1>6, <1>7, <1>8 DEF Good

\* The three outcomes of malloc and the two of free, in one place.
LEMMA MallocSteps ==
  ASSUME NEW n \in Sizes, Malloc(n), IInv
  PROVE  \E h : /\ Good(h, owned) /\ h.size \in [Addr -> 0..Limit]
                /\ \A b \in owned : h.size[b] = heap.size[b]
                /\ \/ heap' = h /\ owned' = owned /\ asked' = asked
                   \/ \E i \in DOMAIN h.list :
                        /\ h.size[h.list[i]] >= Header + n
                        /\ heap' = Take(h, i, Header + n)
                        /\ owned' = owned \cup {h.list[i]}
                        /\ asked' = [asked EXCEPT ![h.list[i]] = n]
                /\ hung' \in BOOLEAN
<1>1. Good(heap, owned) /\ hung \in BOOLEAN
  BY DEF IInv
<1>2. \A h : Good(h, owned) => /\ Good(Grow(h), owned)
                               /\ \A b \in owned : Grow(h).size[b] = h.size[b]
  <2> SUFFICES ASSUME NEW h, Good(h, owned)
               PROVE  /\ Good(Grow(h), owned)
                      /\ \A b \in owned : Grow(h).size[b] = h.size[b]
    OBVIOUS
  <2>1. Tiles(Listed(h.list) \cup owned, h.size, h.cur)
    BY DEF Good
  <2>2. h.size \in [Addr -> 0..Limit] /\ \A b \in owned : b \in Addr /\ b # h.cur
    <3> DEFINE B == Listed(h.list) \cup owned
    <3>1. owned \subseteq B /\ Tiles(B, h.size, h.cur)
      BY <2>1
    <3> HIDE DEF B
    <3>2. /\ h.cur \in Nat /\ B \subseteq Addr /\ h.size \in [Addr -> 0..Limit]
          /\ \A b \in B : b \in Nat /\ b < h.cur
      BY <3>1, TilesFacts
    <3> QED
      BY <3>1, <3>2
  <2>3. h = [list |-> h.list, size |-> h.size, magic |-> h.magic,
             cur |-> h.cur, max |-> h.max, frames |-> h.frames]
    BY DEF Good
  <2>4. Grow(h).size = h.size \/ \E x : Grow(h).size = [h.size EXCEPT ![h.cur] = x]
    <3>1. CASE h.frames < GrowPages
      <4> DEFINE max == h.max + h.frames * PageWords
      <4>1. Grow(h) = [h EXCEPT !.max = max, !.frames = 0]
        BY <3>1 DEF Grow
      <4> HIDE DEF max
      <4> QED
        BY <2>3, <4>1
    <3>2. CASE ~ (h.frames < GrowPages)
      BY <3>2 DEF Grow
    <3> QED
      BY <3>1, <3>2
  <2>5. \A b \in owned : Grow(h).size[b] = h.size[b]
    BY <2>2, <2>4
  <2> QED
    BY <2>5, GrowIsGood
<1> DEFINE h == IF heap.list = <<>> THEN Grow(heap) ELSE heap
<1>3. Good(h, owned) /\ \A b \in owned : h.size[b] = heap.size[b]
  BY <1>1, <1>2
<1>4. Good(Grow(h), owned) /\ \A b \in owned : Grow(h).size[b] = heap.size[b]
  BY <1>2, <1>3
<1>5. \A k : Good(k, owned) => k.size \in [Addr -> 0..Limit]
  BY DEF Good, Tiles
<1>6. \/ heap' = h /\ owned' = owned /\ asked' = asked /\ hung' = hung
      \/ /\ hung' = hung
         /\ \E i \in DOMAIN h.list : /\ FirstFit(h, Header + n, i)
                                     /\ heap' = Take(h, i, Header + n)
                                     /\ owned' = owned \cup {h.list[i]}
                                     /\ asked' = [asked EXCEPT ![h.list[i]] = n]
      \/ /\ heap' = Grow(h) /\ owned' = owned /\ asked' = asked
         /\ hung' = (Grow(h).max > Grow(h).cur)
  BY DEF Malloc
<1> HIDE DEF h
<1>7. CASE heap' = h /\ owned' = owned /\ asked' = asked /\ hung' = hung
  BY <1>1, <1>3, <1>5, <1>7
<1>8. ASSUME hung' = hung, NEW i \in DOMAIN h.list, FirstFit(h, Header + n, i),
             heap' = Take(h, i, Header + n), owned' = owned \cup {h.list[i]},
             asked' = [asked EXCEPT ![h.list[i]] = n]
      PROVE  /\ h.size[h.list[i]] >= Header + n /\ heap' = Take(h, i, Header + n)
             /\ owned' = owned \cup {h.list[i]} /\ asked' = [asked EXCEPT ![h.list[i]] = n]
             /\ hung' \in BOOLEAN
  <2>1. h.size[h.list[i]] >= Header + n
    BY <1>8 DEF FirstFit
  <2>2. hung' \in BOOLEAN
    BY <1>1, <1>8
  <2> QED
    BY <1>8, <2>1, <2>2
<1>9. CASE /\ heap' = Grow(h) /\ owned' = owned /\ asked' = asked
           /\ hung' = (Grow(h).max > Grow(h).cur)
  <2>1. hung' \in BOOLEAN
    BY <1>9
  <2> QED
    BY <1>4, <1>5, <1>9, <2>1
<1> QED
  BY <1>3, <1>5, <1>6, <1>7, <1>8, <1>9

\* The block that malloc takes for a request of n words.
LEMMA TakenIsGood ==
  ASSUME NEW h, Good(h, owned), NEW n \in Sizes,
         NEW i \in DOMAIN h.list, h.size[h.list[i]] >= Header + n
  PROVE  /\ Good(Take(h, i, Header + n), owned \cup {h.list[i]})
         /\ h.list[i] \notin owned /\ Take(h, i, Header + n).size[h.list[i]] >= Header + n
         /\ \A c \in owned : Take(h, i, Header + n).size[c] = h.size[c]
<1> DEFINE need == Header + n
<1>1. need \in Nat /\ need > Header /\ h.size[h.list[i]] >= need
  BY HeapAssumption DEF Header
<1> HIDE DEF need
<1>2. LET b == h.list[i]
          t == Take(h, i, need)
      IN  /\ Good(t, owned \cup {b})
          /\ b \notin owned /\ t.size[b] >= need
          /\ \A c \in owned : t.size[c] = h.size[c]
  BY <1>1, TakeIsGood
<1> QED
  BY <1>2 DEF need

LEMMA FreeSteps ==
  ASSUME NEW b \in Headers, Free(b)
  PROVE  /\ b \in Addr /\ hung' = hung
         /\ \/ heap' = heap /\ owned' = owned /\ asked' = asked
            \/ /\ heap.magic[b] = "used" /\ heap' = Freed(heap, b) /\ owned' = owned \ {b}
               /\ asked' = [asked EXCEPT ![b] = 0]
  BY DEF Free, Freed, Headers

LEMMA StepIsGood == IInv /\ [Next]_vars => IInv'
<1> SUFFICES ASSUME IInv, [Next]_vars PROVE Good(heap', owned') /\ asked' \in Asked /\ hung' \in BOOLEAN
  BY DEF IInv
<1>1. Good(heap, owned) /\ asked \in Asked /\ hung \in BOOLEAN
  BY DEF IInv
<1>2. ASSUME NEW n \in Sizes, Malloc(n)
      PROVE  Good(heap', owned') /\ asked' \in Asked /\ hung' \in BOOLEAN
  <2>1. PICK h : /\ Good(h, owned)
                 /\ \/ heap' = h /\ owned' = owned /\ asked' = asked
                    \/ \E i \in DOMAIN h.list :
                         /\ h.size[h.list[i]] >= Header + n
                         /\ heap' = Take(h, i, Header + n)
                         /\ owned' = owned \cup {h.list[i]}
                         /\ asked' = [asked EXCEPT ![h.list[i]] = n]
                 /\ hung' \in BOOLEAN
    BY <1>2, MallocSteps
  <2>2. CASE heap' = h /\ owned' = owned /\ asked' = asked
    BY <1>1, <2>1, <2>2
  <2>3. ASSUME NEW i \in DOMAIN h.list, h.size[h.list[i]] >= Header + n,
               heap' = Take(h, i, Header + n), owned' = owned \cup {h.list[i]}
        PROVE  Good(heap', owned')
    BY <2>1, <2>3, TakenIsGood
  <2>4. asked' \in Asked
    BY <1>1, <2>1 DEF Asked
  <2> QED
    BY <2>1, <2>2, <2>3, <2>4
<1>3. ASSUME NEW b \in Headers, Free(b)
      PROVE  Good(heap', owned') /\ asked' \in Asked /\ hung' \in BOOLEAN
  <2>1. asked' \in Asked
    BY <1>1, <1>3, FreeSteps DEF Asked
  <2>2. Good(heap', owned') /\ hung' \in BOOLEAN
    BY <1>1, <1>3, FreeSteps, FreeIsGood
  <2> QED
    BY <2>1, <2>2
<1>4. CASE TakeFrame
  BY <1>1, <1>4, TakeFrameIsGood DEF TakeFrame
<1>5. CASE Recurse \/ UNCHANGED vars
  BY <1>1, <1>5 DEF Recurse, vars
<1> QED
  BY <1>2, <1>3, <1>4, <1>5 DEF Next

(***************************************************************************)
(* The state of the heap is good whatever malloc, free and the loss of     *)
(* page frames have made of it (mm.c:24-126).                              *)
(***************************************************************************)
THEOREM Invariance == Spec => []IInv
<1> QED
  BY InitIsGood, StepIsGood, PTL DEF Spec

(***************************************************************************)
(* Every field of the allocator keeps to its range: no header lies outside *)
(* the heap, and heap_max never passes the frames there are.               *)
(***************************************************************************)
THEOREM TypeCorrectness == Spec => []TypeOK
<1>1. IInv => TypeOK
  <2> SUFFICES ASSUME IInv PROVE TypeOK
    OBVIOUS
  <2>1. Good(heap, owned) /\ hung \in BOOLEAN
    BY DEF IInv
  <2>2. /\ heap = [list |-> heap.list, size |-> heap.size, magic |-> heap.magic,
                   cur |-> heap.cur, max |-> heap.max, frames |-> heap.frames]
        /\ heap.list \in Seq(Addr) /\ heap.size \in [Addr -> 0..Limit]
        /\ heap.magic \in [Addr -> {"none", "free", "used"}]
        /\ heap.cur \in Addr /\ heap.max \in Addr /\ heap.frames \in 0..Frames
        /\ owned \subseteq Addr /\ asked \in [Addr -> Sizes \cup {0}]
        /\ heap.cur <= heap.max /\ heap.max + heap.frames * PageWords <= Limit
    BY <2>1 DEF IInv, Asked, Good, Tiles, Tells
  <2> QED
    BY <2>1, <2>2 DEF TypeOK
<1> QED
  BY <1>1, Invariance, PTL

(***************************************************************************)
(* No two blocks overlap and no word is lost, after any splits, joins and  *)
(* growths, for every size of page, growth, memory and request.            *)
(***************************************************************************)
THEOREM BlocksTile == Spec => []Tiling
<1>1. IInv => Tiling
  <2>1. ASSUME IInv PROVE Tiles(Blocks, heap.size, heap.cur)
    BY <2>1 DEF IInv, Good, Blocks, FreeBlocks, Listed
  <2> QED
    BY <2>1 DEF Tiles, Tiling, EndOf
<1> QED
  BY <1>1, Invariance, PTL

(***************************************************************************)
(* A header reads as in use exactly when its block is held, so that free   *)
(* sees every second free (mm.c:105).                                      *)
(***************************************************************************)
THEOREM MagicTells == Spec => []MagicIsTrue
<1>1. IInv => MagicIsTrue
  BY DEF IInv, Good, Tells, MagicIsTrue, FreeBlocks
<1> QED
  BY <1>1, Invariance, PTL

-----------------------------------------------------------------------------
Piece(h, ask, b) == <<b + Header, h.size[b] - Header, ask[b]>>
Pieces(h, ask, own) == {Piece(h, ask, b) : b \in own}

\* A block that malloc takes is a piece that Allocator may grant.
LEMMA TakenIsFree ==
  ASSUME NEW t, NEW own, NEW b \in Addr, b \notin own, Good(t, own \cup {b}),
         NEW ask, NEW n \in Nat, t.size[b] >= Header + n
  PROVE  /\ b + Header \in 0..Limit
         /\ t.size[b] - Header \in n..(Limit - (b + Header))
         /\ \A c \in own : Abstract!Words(Piece(t, ask, b)) \cap Abstract!Words(Piece(t, ask, c)) = {}
<1> DEFINE B == Listed(t.list) \cup (own \cup {b})
<1>1. Tiles(B, t.size, t.cur)
  BY DEF Good
<1> HIDE DEF B
<1>2. /\ t.cur \in Nat /\ Limit \in Nat /\ t.cur <= Limit /\ Header = 3
      /\ \A c \in B : c \in Nat /\ t.size[c] \in Nat /\ c + t.size[c] <= t.cur
      /\ \A c, d \in B : c < d => c + t.size[c] <= d
  BY <1>1, TilesFacts
<1>3. b \in B /\ own \subseteq B
  BY DEF B
<1>4. /\ b + Header \in 0..Limit
      /\ t.size[b] - Header \in n..(Limit - (b + Header))
  BY <1>2, <1>3
<1>5. ASSUME NEW c \in own
      PROVE  Abstract!Words(Piece(t, ask, b)) \cap Abstract!Words(Piece(t, ask, c)) = {}
  <2>1. /\ c \in Nat /\ t.size[c] \in Nat /\ b \in Nat /\ t.size[b] \in Nat
        /\ c + t.size[c] <= b \/ b + t.size[b] <= c
    BY <1>2, <1>3
  <2>2. /\ Abstract!Words(Piece(t, ask, b)) = (b + 3)..(b + 3 + (t.size[b] - 3) - 1)
        /\ Abstract!Words(Piece(t, ask, c)) = (c + 3)..(c + 3 + (t.size[c] - 3) - 1)
    BY <1>2 DEF Piece, Abstract!Words
  <2> SUFFICES ASSUME NEW x \in Abstract!Words(Piece(t, ask, b)), x \in Abstract!Words(Piece(t, ask, c))
               PROVE  FALSE
    OBVIOUS
  <2>3. /\ x \in (b + 3)..(b + 3 + (t.size[b] - 3) - 1)
        /\ x \in (c + 3)..(c + 3 + (t.size[c] - 3) - 1)
    BY <2>2, Zenon
  <2> DEFINE p == t.size[b]
             q == t.size[c]
  <2>4. /\ c \in Nat /\ q \in Nat /\ b \in Nat /\ p \in Nat /\ (c + q <= b \/ b + p <= c)
        /\ x \in (b + 3)..(b + 3 + (p - 3) - 1) /\ x \in (c + 3)..(c + 3 + (q - 3) - 1)
    BY <2>1, <2>3
  <2> HIDE DEF p, q
  <2> QED
    BY <2>4
<1> QED
  BY <1>4, <1>5

LEMMA StepRefines ==
  ASSUME IInv, [Next]_vars
  PROVE  Abstract!Next \/ Pieces(heap', asked', owned') = Pieces(heap, asked, owned)
<1>1. Good(heap, owned) /\ asked \in Asked
  BY DEF IInv
<1>2. \A k, ask : (\A b \in owned : k.size[b] = heap.size[b] /\ ask[b] = asked[b])
                   => Pieces(k, ask, owned) = Pieces(heap, asked, owned)
  BY DEF Pieces, Piece
<1>3. ASSUME NEW n \in Sizes, Malloc(n)
      PROVE  Abstract!Next \/ Pieces(heap', asked', owned') = Pieces(heap, asked, owned)
  <2>1. PICK h : /\ Good(h, owned)
                 /\ \A b \in owned : h.size[b] = heap.size[b]
                 /\ \/ heap' = h /\ owned' = owned /\ asked' = asked
                    \/ \E i \in DOMAIN h.list :
                         /\ h.size[h.list[i]] >= Header + n
                         /\ heap' = Take(h, i, Header + n)
                         /\ owned' = owned \cup {h.list[i]}
                         /\ asked' = [asked EXCEPT ![h.list[i]] = n]
    BY <1>3, MallocSteps
  <2>2. n \in Nat /\ Header + n \in Nat /\ Header + n > Header
    BY HeapAssumption DEF Header
  <2>3. CASE heap' = h /\ owned' = owned /\ asked' = asked
    BY <1>2, <2>1, <2>3
  <2>4. ASSUME NEW i \in DOMAIN h.list, h.size[h.list[i]] >= Header + n,
               heap' = Take(h, i, Header + n), owned' = owned \cup {h.list[i]},
               asked' = [asked EXCEPT ![h.list[i]] = n]
        PROVE  Abstract!Next
    <3> DEFINE b == h.list[i]
               t == Take(h, i, Header + n)
    <3>1. /\ Good(t, owned \cup {b}) /\ b \notin owned
          /\ t.size[b] >= Header + n
          /\ \A c \in owned : t.size[c] = h.size[c]
      BY <2>1, <2>4, TakenIsGood
    <3>2. b \in Addr
      BY <3>1 DEF Good, Tells
    <3>3. /\ heap' = t /\ owned' = owned \cup {b}
          /\ asked' = [asked EXCEPT ![b] = n]
      BY <2>4
    <3> HIDE DEF b, t
    <3>4. /\ b + Header \in 0..Limit
          /\ t.size[b] - Header \in n..(Limit - (b + Header))
          /\ \A c \in owned :
               Abstract!Words(Piece(t, asked', b)) \cap Abstract!Words(Piece(t, asked', c)) = {}
      BY <2>2, <3>1, <3>2, TakenIsFree
    <3>5. asked'[b] = n /\ \A c \in owned : asked'[c] = asked[c]
      BY <1>1, <3>1, <3>2, <3>3 DEF Asked
    <3>6. Pieces(t, asked', owned) = Pieces(heap, asked, owned)
      BY <1>2, <2>1, <3>1, <3>5
    <3>7. Pieces(heap', asked', owned') = Pieces(heap, asked, owned) \cup {Piece(t, asked', b)}
      BY <3>3, <3>6 DEF Pieces
    <3>8. \A e \in Pieces(heap, asked, owned) :
            Abstract!Words(Piece(t, asked', b)) \cap Abstract!Words(e) = {}
      BY <3>4, <3>6 DEF Pieces
    <3>9. Piece(t, asked', b) = <<b + Header, t.size[b] - Header, n>>
      BY <3>5 DEF Piece
    <3>10. Abstract!Grant(n)
      BY <3>4, <3>7, <3>8, <3>9 DEF Abstract!Grant, Pieces, Piece
    <3> QED
      BY <3>10 DEF Abstract!Next
  <2> QED
    BY <2>1, <2>3, <2>4
<1>4. ASSUME NEW b \in Headers, Free(b)
      PROVE  Abstract!Next \/ Pieces(heap', asked', owned') = Pieces(heap, asked, owned)
  <2>1. CASE heap' = heap /\ owned' = owned /\ asked' = asked
    BY <2>1
  <2>2. CASE /\ heap.magic[b] = "used" /\ heap' = Freed(heap, b) /\ owned' = owned \ {b}
             /\ asked' = [asked EXCEPT ![b] = 0]
    <3>1. /\ Good(Freed(heap, b), owned \ {b}) /\ b \in owned
          /\ \A c \in owned \ {b} : Freed(heap, b).size[c] = heap.size[c]
      <4>1. b \in Addr
        BY <1>4, FreeSteps
      <4>2. Good(heap, owned) /\ heap.magic[b] = "used"
        BY <1>1, <2>2
      <4> QED
        BY ONLY <4>1, <4>2, FreeIsGood
    <3>2. \A c \in owned \ {b} : asked'[c] = asked[c]
      <4>1. owned \subseteq Addr
        BY <1>1 DEF Good, Tells
      <4> QED
        BY <1>1, <2>2, <4>1 DEF Asked
    <3>3. owned \subseteq Nat
      <4>1. Tiles(Listed(heap.list) \cup owned, heap.size, heap.cur)
        BY <1>1 DEF Good
      <4> QED
        BY <4>1, TilesFacts
    <3>4. \A c \in owned : Piece(heap, asked, c) = Piece(heap, asked, b) => c = b
      <4>1. \A c \in owned : Piece(heap, asked, c)[1] = c + 3
        BY DEF Piece, Header
      <4> QED
        BY <3>1, <3>3, <4>1
    <3>5. Pieces(heap', asked', owned') = {Piece(heap, asked, c) : c \in owned \ {b}}
      BY <2>2, <3>1, <3>2 DEF Pieces, Piece
    <3>6. Pieces(heap', asked', owned') = Pieces(heap, asked, owned) \ {Piece(heap, asked, b)}
      BY <3>1, <3>4, <3>5 DEF Pieces
    <3>7. Piece(heap, asked, b) \in Pieces(heap, asked, owned)
      BY <3>1 DEF Pieces
    <3>8. Abstract!Release
      BY <3>6, <3>7 DEF Abstract!Release, Pieces, Piece
    <3> QED
      BY <3>8 DEF Abstract!Next
  <2> QED
    BY <1>4, <2>1, <2>2, FreeSteps
<1>5. CASE TakeFrame
  <2>1. heap.size = heap'.size /\ owned' = owned /\ asked' = asked
    BY <1>5 DEF TakeFrame
  <2> QED
    BY <1>2, <2>1
<1>6. CASE Recurse \/ UNCHANGED vars
  BY <1>6 DEF Recurse, vars
<1> QED
  BY <1>3, <1>4, <1>5, <1>6 DEF Next

(***************************************************************************)
(* malloc and free keep the promises of Allocator: what malloc(n) returns  *)
(* has n words behind its header (mm.c:62), the pieces that clients hold   *)
(* do not overlap, and they do not change until they are given back.       *)
(***************************************************************************)
THEOREM KeepsThePromises == Spec => ImplementsAllocator
<1>1. Init => Abstract!Init
  BY DEF Init, Abstract!Init
<1>2. IInv /\ [Next]_vars =>
        [Abstract!Next]_({<<b + Header, heap.size[b] - Header, asked[b]>> : b \in owned})
  BY StepRefines DEF Pieces, Piece
<1> QED
  BY <1>1, <1>2, Invariance, PTL DEF Spec, ImplementsAllocator, Abstract!Spec
=============================================================================
