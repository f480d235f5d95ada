--------------------------- MODULE AddressSpaces ---------------------------
(***************************************************************************)
(* What processes are promised about memory: a process begins with what    *)
(* its file says, alone, and finds later what it has written itself; the   *)
(* heap is common to all.  Addresses are in words.                         *)
(***************************************************************************)
EXTENDS Integers, Sequences

CONSTANTS
  Entries,      \* words of a page
  Images,       \* files, each with its segments
  PrivatePage,  \* the page that tells a process who it is
  Stores, Written   \* where programs write, and what

VARIABLES
  spaces,   \* for each process, the words of each of its pages
  heap      \* the words of each page of the heap

vars == <<spaces, heap>>

Loaded(image) == {s \in {image.segs[k] : k \in DOMAIN image.segs} : s.load}

\* The pages that the segments of a file touch.
Touched(image) ==
  UNION {{a \div Entries : a \in s.vaddr..(s.vaddr + s.memsz - 1)} : s \in Loaded(image)}

\* The word at address a: what the last segment that has one puts there, or zero.
FileWord(image, a) ==
  LET here == {k \in DOMAIN image.segs :
                 LET s == image.segs[k]
                 IN  s.load /\ s.vaddr <= a /\ a < s.vaddr + Len(s.data)}
  IN  IF here = {} THEN 0
      ELSE LET s == image.segs[CHOOSE k \in here : \A j \in here : j <= k]
           IN  s.data[a - s.vaddr + 1]

\* The page v of a new process p; the private one begins with the PID and a zero.
Fresh(p, image, v) ==
  IF v = PrivatePage THEN [i \in 0..1 |-> IF i = 0 THEN p ELSE 0]
  ELSE [i \in 0..(Entries - 1) |-> FileWord(image, v * Entries + i)]

Init == spaces = [p \in {} |-> <<>>] /\ heap = [v \in {} |-> <<>>]

\* A process comes; a page of it is missing when memory is short.
Spawn(p, image) ==
  /\ p \notin DOMAIN spaces
  /\ DOMAIN spaces' = DOMAIN spaces \cup {p}
  /\ \A q \in DOMAIN spaces : spaces'[q] = spaces[q]
  /\ DOMAIN spaces'[p] \subseteq Touched(image) \cup {PrivatePage}
  /\ \A v \in DOMAIN spaces'[p] : spaces'[p][v] = Fresh(p, image, v)
  /\ UNCHANGED heap

Exit(p) ==
  /\ spaces' = [q \in DOMAIN spaces \ {p} |-> spaces[q]]
  /\ UNCHANGED heap

Store(p, a) ==
  /\ a \div Entries \in DOMAIN spaces[p]
  /\ spaces' = [spaces EXCEPT ![p][a \div Entries][a % Entries] = Written]
  /\ UNCHANGED heap

StoreInHeap(a) ==
  /\ a \div Entries \in DOMAIN heap
  /\ heap' = [heap EXCEPT ![a \div Entries][a % Entries] = Written]
  /\ UNCHANGED spaces

\* The heap grows; what is new there holds anything.
Grow ==
  /\ DOMAIN heap \subseteq DOMAIN heap'
  /\ \A v \in DOMAIN heap : heap'[v] = heap[v]
  /\ UNCHANGED spaces

Next ==
  \/ \E p \in DOMAIN spaces' : \E image \in Images : Spawn(p, image)
  \/ \E p \in DOMAIN spaces : Exit(p) \/ \E a \in Stores : Store(p, a)
  \/ \E a \in Stores : StoreInHeap(a)
  \/ Grow

Spec == Init /\ [][Next]_vars
=============================================================================
