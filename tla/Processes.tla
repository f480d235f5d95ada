----------------------------- MODULE Processes -----------------------------
(***************************************************************************)
(* What deva's process calls promise to programs, with no task table, no   *)
(* ring and no saved contexts: a set of live processes, some of them       *)
(* blocked in waitpid on another live process, one of them running.  A     *)
(* blocked process runs again only after the process it waits for is gone. *)
(* ShellSystem implements this specification.                              *)
(***************************************************************************)
EXTENDS Integers

CONSTANT Root      \* the PID of the kernel, which never blocks or exits

VARIABLES
  live,     \* the PIDs of the live processes
  awaits,   \* what a live process is blocked on; 0 when it is not blocked
  running,  \* the process that has the CPU
  issued    \* the last PID handed out

pvars == <<live, awaits, running, issued>>

Ready(w) == {p \in DOMAIN w : w[p] = 0}

Init ==
  /\ live = {Root}
  /\ awaits = [p \in {Root} |-> 0]
  /\ running = Root
  /\ issued = Root

\* A PID is never handed out twice.
Spawn ==
  /\ issued' = issued + 1
  /\ live' = live \cup {issued'}
  /\ awaits' = [p \in live' |-> IF p = issued' THEN 0 ELSE awaits[p]]
  /\ UNCHANGED running

\* The CPU goes to a process that is not blocked.
Dispatch ==
  /\ running' \in Ready(awaits)
  /\ UNCHANGED <<live, awaits, issued>>

WaitFor(p) ==
  /\ p \in live \ {running}
  /\ running # Root
  /\ awaits' = [awaits EXCEPT ![running] = p]
  /\ running' \in Ready(awaits')
  /\ UNCHANGED <<live, issued>>

\* The processes blocked on the one that exits, and no others, are woken.
Exit ==
  /\ running # Root
  /\ live' = live \ {running}
  /\ awaits' = [p \in live' |-> IF awaits[p] = running THEN 0 ELSE awaits[p]]
  /\ running' \in Ready(awaits')
  /\ UNCHANGED issued

Next == Spawn \/ Dispatch \/ (\E p \in live : WaitFor(p)) \/ Exit

Spec == Init /\ [][Next]_pvars
=============================================================================
