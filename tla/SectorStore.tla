---------------------------- MODULE SectorStore ----------------------------
(***************************************************************************)
(* What a disk promises to who reads and writes its sectors: a call fails  *)
(* or it does what it says; of a write that failed it is not known whether *)
(* it was done, until the sector is read.                                  *)
(***************************************************************************)
CONSTANTS Sectors, Values

VARIABLES
  reply,  \* of the last call: op, lba, value, ok; nothing while one runs
  may     \* what each sector may hold, as far as the caller can know

vars == <<reply, may>>

Init == reply = {} /\ may = [l \in Sectors |-> Values]

Reply(op, l, v, ok) == {[op |-> op, lba |-> l, value |-> v, ok |-> ok]}

Read(l, v) ==
  /\ v \in may[l]
  /\ reply' = Reply("read", l, v, TRUE)
  /\ may' = [may EXCEPT ![l] = {v}]

Write(l, v) ==
  /\ reply' = Reply("write", l, v, TRUE)
  /\ may' = [may EXCEPT ![l] = {v}]

Begin == reply' = {} /\ UNCHANGED may

\* A sector that does not exist can only be failed upon.
Fail ==
  /\ reply' # {} /\ \A r \in reply' : ~ r.ok
  /\ \A r \in reply' : \A l \in Sectors :
       may'[l] = IF r.op = "write" /\ l = r.lba THEN may[l] \cup {r.value} ELSE may[l]

Next == Begin \/ Fail \/ \E l \in Sectors, v \in Values : Read(l, v) \/ Write(l, v)
=============================================================================
