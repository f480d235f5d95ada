------------------------------ MODULE BootRace ------------------------------
(***************************************************************************)
(* kmain calls spawn_elf with interrupts on (init_stage2 has enabled       *)
(* them), so the timer may fire between any two of its steps.  task_alloc  *)
(* links the new task into the ring before build_user_stack gives it a     *)
(* context and before it has a page directory.                             *)
(***************************************************************************)
EXTENDS Tasks

\* kmain's progress through spawn_elf; "done" is its loop of hlt.
VARIABLE step

Steps == <<"alloc", "stack", "cr3", "done">>

bvars == <<vars, step>>

Init == InitTasks /\ step = "alloc"

KernelRuns == cpu.pid = Kernel

Alloc ==
  /\ KernelRuns /\ step = "alloc" /\ step' = "stack"
  /\ next_pid <= MaxPid
  /\ TaskAlloc
  /\ cr3' = [cr3 EXCEPT ![task_count] = NoDir]
  /\ UNCHANGED <<esp, current_task, current_dir, cpu>>

BuildUserStack ==
  /\ KernelRuns /\ step = "stack" /\ step' = "cr3"
  /\ esp' = [esp EXCEPT ![task_count - 1] = At(next_pid - 1, "user")]
  /\ UNCHANGED <<table, task_count, next_pid, current_task, current_dir, cpu>>

SetDirectory ==
  /\ KernelRuns /\ step = "cr3" /\ step' = "done"
  /\ cr3' = [cr3 EXCEPT ![task_count - 1] = next_pid - 1]
  /\ UNCHANGED <<id, state, waiting_for_pid, next, esp, task_count, next_pid,
                 current_task, current_dir, cpu>>

Interrupt ==
  /\ cpu # Wild
  /\ Tick
  /\ UNCHANGED step

Next == Alloc \/ BuildUserStack \/ SetDirectory \/ Interrupt

Spec == Init /\ [][Next]_bvars

(***************************************************************************)
(* task.c:7 says that context_switch saves the context of one task and     *)
(* changes to the ESP of the next: there is a context at that ESP.         *)
(***************************************************************************)
SwitchesToAContext == cpu # Wild
=============================================================================
