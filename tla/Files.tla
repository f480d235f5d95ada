------------------------------- MODULE Files -------------------------------
(***************************************************************************)
(* What the file system promises: a call on a path concerns that path,     *)
(* what is below it, and nothing else; what is written is what is found,   *)
(* or nothing is.  Fat32 implements this specification.                    *)
(***************************************************************************)
EXTENDS Sequences, SequencesExt

CONSTANTS Paths, Texts

VARIABLE files   \* from the paths that exist to what is there

NoFiles == [p \in {} |-> <<>>]

Init == files = NoFiles

Below(p) == {q \in Paths : IsStrictPrefix(p, q)}
OnTheWay(p) == {q \in Paths : IsStrictPrefix(q, p)}

Keeps(q) ==
  /\ q \in DOMAIN files <=> q \in DOMAIN files'
  /\ q \in DOMAIN files => files'[q] = files[q]

\* A file on the way to p serves as a directory: its rows may be written.
Serves(q) ==
  /\ q \in DOMAIN files <=> q \in DOMAIN files'
  /\ q \in DOMAIN files /\ files[q].dir => files'[q] = files[q]

Concerns(p) ==
  /\ \A q \in Paths \ (Below(p) \cup OnTheWay(p) \cup {p}) : Keeps(q)
  /\ \A q \in OnTheWay(p) : Serves(q)

Gone(p) == ({p} \cup Below(p)) \cap DOMAIN files' = {}

\* The text is there or, when the disk is full or the text is empty, nothing.
Write(p, s) ==
  /\ Concerns(p)
  /\ Below(p) \cap DOMAIN files' = {}
  /\ p \in DOMAIN files' => s # <<>> /\ files'[p] = [dir |-> FALSE, text |-> s]

Create(p, dir) ==
  /\ p \notin DOMAIN files
  /\ Concerns(p)
  /\ Below(p) \cap DOMAIN files' = {}
  /\ p \in DOMAIN files' => files'[p] = [dir |-> dir, text |-> <<>>]

Delete(p) == Concerns(p) /\ Gone(p)

Next ==
  \E p \in Paths :
    \/ \E s \in Texts : Write(p, s)
    \/ \E dir \in BOOLEAN : Create(p, dir)
    \/ Delete(p)

Spec == Init /\ [][Next]_files
=============================================================================
