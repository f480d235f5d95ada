---------------------------- MODULE AnyProgram ----------------------------
(***************************************************************************)
(* The kernel of module Tasks running programs without the discipline of   *)
(* ShellSystem: a process may exit while its children live, and may wait   *)
(* for any PID.  programs/sh.c never does the first; nothing in the system *)
(* calls forbids it, and SYS_EXEC, which no shipped program calls, does it *)
(* by itself.  The comments about task_count and SYS_EXEC do not survive.  *)
(***************************************************************************)
EXTENDS Tasks

Boot ==
  /\ cpu.at = "boot"
  /\ SpawnElf(At(cpu.pid, "halt"))

InProgram == cpu.at = "user"

Spawn == InProgram /\ SpawnElf(cpu)

Wait ==
  /\ InProgram
  /\ \E pid \in 1..(next_pid - 1) : WaitpidBlocks(pid) \/ WaitpidFails(pid, cpu)

Exit == InProgram /\ SysExit

Yield == InProgram /\ SysYield

AnyNext == Boot \/ Tick \/ Spawn \/ Wait \/ WaitpidReturns \/ Exit \/ Yield

AnySpec == InitTasks /\ [][AnyNext]_vars

\* The ring that schedule() follows.
Ring == LET w == Walk(current_task, next, MaxTasks)
        IN  {w[k] : k \in 0..MaxTasks}

-----------------------------------------------------------------------------
(***************************************************************************)
(* SYS_EXEC: spawn_elf, then kill_task of the caller, then yield().        *)
(* kill_task moves current_task on to the new task t, the caller's         *)
(* successor in the ring, and schedule() then saves the context of the     *)
(* caller at the esp of t.                                                 *)
(***************************************************************************)
SysExec ==
  LET me     == current_task
      t      == task_count
      linked == [next EXCEPT ![t] = next[me], ![me] = t]
      before == CHOOSE s \in Ring : linked[s] = me
      ring   == [linked EXCEPT ![before] = t]
      w      == Walk(t, ring, MaxTasks)
      Stop(j) == state[w[j]] # "waiting" \/ w[j] = t
  IN  /\ next_pid <= MaxPid
      /\ task_count < MaxTasks
      /\ id' = [id EXCEPT ![t] = next_pid]
      /\ next_pid' = next_pid + 1
      /\ state' = [state EXCEPT ![t] = "running"]
      /\ waiting_for_pid' = [waiting_for_pid EXCEPT ![t] = NoPid]
      /\ cr3' = [cr3 EXCEPT ![t] = next_pid]
      /\ next' = ring
      /\ UNCHANGED task_count         \* ++ in task_alloc, -- in remove_task
      /\ \E j \in 1..MaxTasks :
           /\ FirstStop(1, MaxTasks, j, Stop)
           /\ IF w[j] = t
                THEN /\ current_task' = t
                     /\ cpu' = cpu
                     /\ esp' = [esp EXCEPT ![t] = At(next_pid, "user")]
                     /\ UNCHANGED current_dir
                ELSE /\ current_task' = w[j]
                     /\ SwitchTo(t, w[j], cpu)

Exec == InProgram /\ SysExec

ExecNext == Boot \/ Tick \/ Exec \/ Yield

ExecSpec == InitTasks /\ [][ExecNext]_vars

-----------------------------------------------------------------------------
(***************************************************************************)
(* task.c:11 says that task_count is how many tasks are alive: the ring    *)
(* that schedule() follows has that many.                                  *)
(***************************************************************************)
TaskCountIsAlive == Cardinality(Ring) = task_count

(***************************************************************************)
(* syscall.c:113 says that SYS_EXEC kills the old task and jumps to the    *)
(* new one: what runs is always a process of the ring.                     *)
(***************************************************************************)
KilledTaskIsGone == cpu.pid \in {id[t] : t \in Ring}
=============================================================================
