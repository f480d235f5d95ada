---------------------------- MODULE ShellSystem ----------------------------
(***************************************************************************)
(* The kernel of module Tasks running the programs deva is shipped with.   *)
(* programs/sh.c waits for each child before it spawns another, and no     *)
(* program exits while it has a child it has not waited for.  Any process  *)
(* may spawn here, so shells nest; any process but the kernel may exit.    *)
(* kmain's own spawn_elf is one step here; BootRace takes it apart.        *)
(***************************************************************************)
EXTENDS Tasks

\* kmain spawns the shell and goes to its loop of hlt.
Boot ==
  /\ cpu.at = "boot"
  /\ \/ SpawnElf(At(cpu.pid, "halt"))
     \/ SpawnFails(At(cpu.pid, "halt"))

\* The program on the CPU is free to do what it likes next.
InProgram == cpu.at = "user"

Spawn ==
  /\ InProgram
  /\ SpawnElf([At(cpu.pid, "spawned") EXCEPT !.child = next_pid])

\* sh reports "comando no encontrado" and goes on.
SpawnRefused ==
  /\ InProgram
  /\ SpawnFails(cpu)

Wait ==
  /\ cpu.at = "spawned"
  /\ \/ WaitpidBlocks(cpu.child)
     \/ WaitpidFails(cpu.child, At(cpu.pid, "user"))

Exit ==
  /\ InProgram
  /\ SysExit

Yield ==
  /\ InProgram
  /\ SysYield

Next == Boot \/ Tick \/ Spawn \/ SpawnRefused \/ Wait \/ WaitpidReturns
          \/ Exit \/ Yield

Spec == InitTasks /\ [][Next]_vars

\* The PIT interrupts at 100 Hz for ever.  A tick may catch a process between
\* the sti of context_switch and the last assignment of SYS_WAITPID, a window
\* of a few instructions, but not in every time slice: strong fairness.
Fairness == WF_vars(Tick) /\ SF_vars(WaitpidReturns)

FairSpec == Spec /\ Fairness

-----------------------------------------------------------------------------
Live == 0..(task_count - 1)   \* the entries of task_table that hold a process

LivePids == {id[s] : s \in Live}

\* Where the process of entry s is: on the CPU, or saved at its esp.
ContextOf(s) == IF s = current_task THEN cpu ELSE esp[s]

TypeOK ==
  /\ id \in [Slots -> 0..MaxPid + 1]
  /\ state \in [Slots -> {"running", "waiting"}]
  /\ waiting_for_pid \in [Slots -> 0..MaxPid + 1 \cup {NoPid}]
  /\ next \in [Slots -> Slots \cup {NoSlot}]
  /\ cr3 \in [Slots -> 0..MaxPid + 1]
  /\ esp \in [Slots -> Contexts \cup {Wild}]
  /\ task_count \in 1..MaxTasks
  /\ next_pid \in 2..(MaxPid + 2)
  /\ current_task \in Slots
  /\ current_dir \in 1..(MaxPid + 1)
  /\ cpu \in Contexts

(***************************************************************************)
(* Whoever runs runs as itself: the context on the CPU belongs to the      *)
(* process of current_task, which is not blocked, and each other live      *)
(* entry's esp leads back into its own process.  schedule() and SYS_EXIT   *)
(* move the CPU and current_task by separate assignments.                  *)
(***************************************************************************)
ContextsAreOwn ==
  /\ state[current_task] = "running"
  /\ \A s \in Live : ContextOf(s).pid = id[s]

(***************************************************************************)
(* task_count doubles as the number of live tasks and as the index of the  *)
(* entry that task_alloc takes next, while remove_task leaves a hole where *)
(* the task was: the ring that schedule() follows has exactly the first    *)
(* task_count entries, so task_alloc never takes one that is in use.       *)
(***************************************************************************)
RingIsTablePrefix ==
  LET w == Walk(current_task, next, MaxTasks)
  IN  {w[k] : k \in 0..MaxTasks} = Live

(***************************************************************************)
(* A blocked process has somebody to wake it: the process it waits for is  *)
(* live (SYS_WAITPID looks for it, then blocks; SYS_EXIT wakes, then goes). *)
(***************************************************************************)
NoLostWakeup ==
  \A s \in Live : state[s] = "waiting" => waiting_for_pid[s] \in LivePids

\* The process that runs sees its own memory: switching skips the load of
\* CR3 when the directory is null or already loaded.
OwnAddressSpace == current_dir = cr3[current_task] /\ current_dir = cpu.pid

(***************************************************************************)
(* A blocked process is made ready by the exit of the process it waits for *)
(* and by nothing else: not by another exit, not by a spawn that takes its *)
(* entry, not by SYS_WAITPID's own last assignment.                        *)
(***************************************************************************)
WokenOnlyByExit ==
  [][\A s \in Live : state[s] = "waiting" /\ state'[s] = "running"
        => waiting_for_pid[s] \in LivePids \ {id'[t] : t \in Live'}]_vars

(***************************************************************************)
(* Round robin starves nobody: a live process that is not blocked gets the *)
(* CPU, however many others spawn, wait, yield and exit.                   *)
(***************************************************************************)
ReadyRuns ==
  \A s \in Slots : (s \in Live /\ state[s] = "running") ~> (current_task = s)

(***************************************************************************)
(* waitpid returns to its caller once the process it waits for is gone:    *)
(* SYS_EXIT wakes the waiter and the scheduler comes back to it.           *)
(***************************************************************************)
WaiterReturns ==
  \A s \in Slots :
    (/\ s \in Live /\ ContextOf(s).at = "wake"
     /\ ~ (state[s] = "waiting" /\ waiting_for_pid[s] \in LivePids))
      ~> (current_task = s /\ cpu.at = "user")

-----------------------------------------------------------------------------
(* Why the table stays compact.  With programs that wait for one child      *)
(* before they spawn the next, the live processes are a chain: entry s + 1  *)
(* holds the child of entry s, only the last may spawn or exit.             *)

\* The live entries in table order, then the kernel again.
RingInOrder ==
  /\ current_task \in Live
  /\ \A s \in Live : next[s] = IF s = task_count - 1 THEN 0 ELSE s + 1

\* Entries are filled in the order of their PIDs, the kernel's first.
PidsInOrder ==
  /\ id[0] = Kernel
  /\ \A s \in Live : id[s] < next_pid /\ cr3[s] = id[s]
  /\ \A s, t \in Live : s < t => id[s] < id[t]

\* What a live process is doing, given its place in the chain.
Chained(s) ==
  LET c == ContextOf(s) IN
  /\ s = 0 => c.at \in {"boot", "halt"} /\ (c.at = "boot" => task_count = 1)
  /\ s > 0 => c.at \in {"user", "spawned", "wake"}
  /\ s > 0 /\ s < task_count - 1 =>
       \/ state[s] = "running" /\ c.at = "spawned" /\ c.child = id[s + 1]
       \/ state[s] = "waiting" /\ c.at = "wake" /\ waiting_for_pid[s] = id[s + 1]
  /\ s \in {0, task_count - 1} => state[s] = "running"
  /\ c.at = "spawned" => c.child > id[s]
  /\ c.at = "wake" => c.me = s

\* The inductive invariant: each of the invariants above follows from it.
IInv ==
  /\ TypeOK
  /\ RingInOrder
  /\ PidsInOrder
  /\ ContextsAreOwn
  /\ OwnAddressSpace
  /\ \A s \in Live : Chained(s)

-----------------------------------------------------------------------------
SlotOf(p) == CHOOSE s \in Live : id[s] = p

\* What a live process is blocked on.
Awaits == [p \in LivePids |-> IF state[SlotOf(p)] = "waiting"
                                THEN waiting_for_pid[SlotOf(p)] ELSE 0]

Abstract == INSTANCE Processes WITH
  Root <- Kernel, live <- LivePids, awaits <- Awaits, running <- cpu.pid,
  issued <- next_pid - 1

\* The process table, ring and saved contexts implement Processes.
ImplementsProcesses == Abstract!Spec
=============================================================================
