----------------------------- MODULE Allocator -----------------------------
(***************************************************************************)
(* What malloc and free promise: a request is refused or gets a piece of   *)
(* memory that is as long as this request asked for and overlaps no piece  *)
(* that clients hold, and a piece stays what it is until it is given back. *)
(* Heap implements this specification.                                     *)
(***************************************************************************)
EXTENDS Integers

CONSTANTS
  Sizes,    \* the sizes that are asked for, in words
  Limit     \* memory is the words 0..(Limit - 1)

\* The pieces that clients hold, as <<first word, length, request>>.
VARIABLE held

Words(e) == e[1]..(e[1] + e[2] - 1)

Init == held = {}

\* The piece that a request of n words gets.
Grant(n) ==
  \E first \in 0..Limit : \E len \in n..(Limit - first) :
    /\ \A e \in held : Words(<<first, len, n>>) \cap Words(e) = {}
    /\ held' = held \cup {<<first, len, n>>}

Release == \E e \in held : held' = held \ {e}

Next == (\E n \in Sizes : Grant(n)) \/ Release

Spec == Init /\ [][Next]_held
=============================================================================
