----------------------------- MODULE TypeAhead -----------------------------
(***************************************************************************)
(* What the console promises: keys that are typed wait in order, one is    *)
(* lost only when as many wait as there is room for, and the reader of a   *)
(* line takes each of the others once.                                     *)
(***************************************************************************)
EXTENDS Naturals, Sequences

CONSTANTS
  Events,    \* what can be typed
  Room,      \* how many can wait
  NoEvent

VARIABLES
  typed,     \* the event typed last; odd tells two of a kind apart
  waiting,   \* the events that were typed and not taken
  hand       \* the event the reader took last and has not used yet

vars == <<typed, waiting, hand>>

Init ==
  /\ typed = [ev |-> NoEvent, odd |-> FALSE]
  /\ waiting = <<>> /\ hand = NoEvent

\* No key is typed in silence: it waits, or it was one too many.
Press(e) == typed' = [ev |-> e, odd |-> ~ typed.odd]

Type ==
  /\ Len(waiting) < Room
  /\ \E e \in Events : Press(e) /\ waiting' = Append(waiting, e)
  /\ UNCHANGED hand

Lose ==
  /\ Len(waiting) = Room
  /\ \E e \in Events : Press(e)
  /\ UNCHANGED <<waiting, hand>>

Take ==
  /\ hand = NoEvent /\ waiting # <<>>
  /\ hand' = Head(waiting)
  /\ waiting' = Tail(waiting)
  /\ UNCHANGED typed

Use ==
  /\ hand # NoEvent
  /\ hand' = NoEvent
  /\ UNCHANGED <<typed, waiting>>

Next == Type \/ Lose \/ Take \/ Use

Spec == Init /\ [][Next]_vars
=============================================================================
