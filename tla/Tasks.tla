------------------------------- MODULE Tasks -------------------------------
(***************************************************************************)
(* Deva's process table and scheduler: kernel/drivers/task/task.c, the     *)
(* process cases of syscall_handler (kernel/arch/i686/syscall.c), the      *)
(* timer interrupt (irq.c) and context_switch.asm.                         *)
(*                                                                         *)
(* This module has the kernel's state and one action per kernel entry      *)
(* point.  What programs do with them is left to the modules that extend   *)
(* it: ShellSystem (programs that use spawn and waitpid the way the shell  *)
(* does), AnyProgram (no discipline) and BootRace (spawn_elf run with      *)
(* interrupts on).                                                         *)
(*                                                                         *)
(* int 0x80 is an interrupt gate, so a system call runs with interrupts    *)
(* off and is one step; only its tail after a context switch runs with     *)
(* them on, because context_switch ends in sti.                            *)
(***************************************************************************)
EXTENDS Integers, FiniteSets

CONSTANTS
  MaxTasks,   \* MAX_TASKS, the number of entries of task_table
  MaxPid      \* bound of the model: the largest PID that is handed out

ASSUME TasksAssumption ==
  /\ MaxTasks \in Nat /\ MaxTasks > 1
  /\ MaxPid \in Nat

Slots  == 0..(MaxTasks - 1)   \* a task_t * is the index of its entry
NoSlot == -1                  \* the null task_t *
NoPid  == -1                  \* waiting_for_pid of a task that does not wait
NoDir  == 0                   \* a null page directory
Kernel == 1                   \* PID of the kernel's own task

VARIABLES
  id, state, waiting_for_pid, next, cr3,   \* fields of task_table[i]
  esp,            \* the context that task_table[i].esp points at
  task_count, next_pid, current_task,      \* static variables of task.c
  current_dir,    \* paging.c: the page directory that CR3 holds
  cpu             \* the context that runs now

table  == <<id, state, waiting_for_pid, next, cr3>>
vars   == <<table, esp, task_count, next_pid, current_task, current_dir, cpu>>

(***************************************************************************)
(* A context is a point in the execution of one process:                   *)
(*   "boot"     kmain, before it spawns the shell                          *)
(*   "halt"     kmain's final loop of hlt                                  *)
(*   "user"     the program, free to do what it likes next                 *)
(*   "spawned"  the program, with the PID of a child it has not waited for *)
(*   "wake"     inside SYS_WAITPID, after its yield() has returned; the    *)
(*              local variable me is kept in the field of that name        *)
(*   "exit"     inside SYS_EXIT, after its context_switch                  *)
(***************************************************************************)
Places == {"boot", "halt", "user", "spawned", "wake", "exit"}

Contexts == [pid : 1..(MaxPid + 1), at : Places, me : Slots \cup {NoSlot},
             child : 0..(MaxPid + 1)]

Wild == [pid |-> 0, at |-> "wild", me |-> NoSlot, child |-> 0]
  \* what runs when an esp that holds no context is loaded

At(p, place) == [pid |-> p, at |-> place, me |-> NoSlot, child |-> 0]

-----------------------------------------------------------------------------
\* init_multitasking: the kernel is the only task, its own successor.
InitTasks ==
  /\ id = [s \in Slots |-> IF s = 0 THEN Kernel ELSE 0]
  /\ state = [s \in Slots |-> "running"]
  /\ waiting_for_pid = [s \in Slots |-> IF s = 0 THEN NoPid ELSE 0]
  /\ next = [s \in Slots |-> IF s = 0 THEN 0 ELSE NoSlot]
  /\ cr3 = [s \in Slots |-> IF s = 0 THEN Kernel ELSE NoDir]
  /\ esp = [s \in Slots |-> Wild]
  /\ task_count = 1
  /\ next_pid = Kernel + 1
  /\ current_task = 0
  /\ current_dir = Kernel
  /\ cpu = At(Kernel, "boot")

\* The tasks a loop that follows succ from start comes to, in order.
Walk(start, succ, n) ==
  LET w[k \in 0..n] == IF k = 0 THEN start ELSE succ[w[k - 1]]
  IN  w

\* j is the first of the steps from..n of a walk at which Stop holds.
FirstStop(from, n, j, Stop(_)) ==
  /\ j \in from..n
  /\ Stop(j)
  /\ \A i \in from..(j - 1) : ~ Stop(i)

\* Mutant of SwitchTo: CR3 is not loaded.
SwitchToKeepsDirectory(old, new, c) ==
  /\ esp' = [esp EXCEPT ![old] = c]
  /\ cpu' = esp[new]
  /\ UNCHANGED current_dir

\* Mutant of SwitchTo: the context is saved through current_task, after
\* current_task has been moved on.
SwitchToSavesInNew(old, new, c) ==
  /\ current_dir' = IF cr3[new] # NoDir THEN cr3[new] ELSE current_dir
  /\ esp' = [esp EXCEPT ![new] = c]
  /\ cpu' = esp[new]

\* The address space and the CPU are handed from task old, whose context is
\* saved as c, to task new.
SwitchTo(old, new, c) ==
  /\ current_dir' = IF cr3[new] # NoDir THEN cr3[new] ELSE current_dir
  /\ esp' = [esp EXCEPT ![old] = c]
  /\ cpu' = esp[new]

\* Mutant of Schedule: the search begins at the kernel's task each time.
ScheduleFromTheTop(st, c) ==
  LET w       == Walk(0, next, MaxTasks)
      Stop(j) == st[w[j]] # "waiting" \/ w[j] = current_task
  IN  \E j \in 1..MaxTasks :
        /\ FirstStop(1, MaxTasks, j, Stop)
        /\ IF w[j] = current_task
             THEN /\ cpu' = c
                  /\ UNCHANGED <<esp, current_task, current_dir>>
             ELSE /\ current_task' = w[j]
                  /\ SwitchTo(current_task, w[j], c)

\* Mutant of Schedule: blocked tasks are not skipped.
ScheduleBlockedToo(st, c) ==
  IF next[current_task] = current_task
    THEN /\ cpu' = c
         /\ UNCHANGED <<esp, current_task, current_dir>>
    ELSE /\ current_task' = next[current_task]
         /\ SwitchTo(current_task, next[current_task], c)

\* schedule(), called with the states st; c is the caller's context.
Schedule(st, c) ==
  LET w       == Walk(current_task, next, MaxTasks)
      Stop(j) == st[w[j]] # "waiting" \/ w[j] = current_task
  IN  \E j \in 1..MaxTasks :
        /\ FirstStop(1, MaxTasks, j, Stop)
        /\ IF w[j] = current_task
             THEN /\ cpu' = c
                  /\ UNCHANGED <<esp, current_task, current_dir>>
             ELSE /\ current_task' = w[j]
                  /\ SwitchTo(current_task, w[j], c)

-----------------------------------------------------------------------------
\* The timer interrupt preempts whatever runs with interrupts on.
Tick ==
  /\ Schedule(state, cpu)
  /\ UNCHANGED <<table, task_count, next_pid>>

\* SYS_YIELD
SysYield ==
  /\ Schedule(state, cpu)
  /\ UNCHANGED <<table, task_count, next_pid>>

\* Mutant of TaskAlloc: the table is taken to have one more entry.
TaskAllocPastTheEnd ==
  LET t == task_count IN
  /\ task_count <= MaxTasks
  /\ task_count' = task_count + 1
  /\ id' = [id EXCEPT ![t] = next_pid]
  /\ next_pid' = next_pid + 1
  /\ state' = [state EXCEPT ![t] = "running"]
  /\ waiting_for_pid' = [waiting_for_pid EXCEPT ![t] = NoPid]
  /\ next' = [next EXCEPT ![t] = next[current_task], ![current_task] = t]

\* task_alloc: the next entry of the table, linked in behind the caller.
TaskAlloc ==
  LET t == task_count IN
  /\ task_count < MaxTasks
  /\ task_count' = task_count + 1
  /\ id' = [id EXCEPT ![t] = next_pid]
  /\ next_pid' = next_pid + 1
  /\ state' = [state EXCEPT ![t] = "running"]
  /\ waiting_for_pid' = [waiting_for_pid EXCEPT ![t] = NoPid]
  /\ next' = [next EXCEPT ![t] = next[current_task], ![current_task] = t]

\* spawn_elf that succeeds; c is the caller's context when it has returned.
\* A page directory is named after the PID of the task it is created for.
SpawnElf(c) ==
  /\ next_pid <= MaxPid
  /\ TaskAlloc
  /\ esp' = [esp EXCEPT ![task_count] = At(next_pid, "user")]
  /\ cr3' = [cr3 EXCEPT ![task_count] = next_pid]
  /\ cpu' = c
  /\ UNCHANGED <<current_task, current_dir>>

\* spawn_elf that returns -1: no such program, or no free entry.
SpawnFails(c) ==
  /\ cpu' = c
  /\ UNCHANGED <<table, esp, task_count, next_pid, current_task, current_dir>>

\* find_task_by_pid, unblock_waiter and kill_task look at the first
\* task_count tasks from the current one.
Looked == LET w == Walk(current_task, next, task_count - 1)
          IN  {w[i] : i \in 0..(task_count - 1)}

\* SYS_WAITPID of a PID that find_task_by_pid does not find
WaitpidFails(pid, c) ==
  /\ \A t \in Looked : id[t] # pid
  /\ cpu' = c
  /\ UNCHANGED <<table, esp, task_count, next_pid, current_task, current_dir>>

\* SYS_WAITPID up to and including its yield()
WaitpidBlocks(pid) ==
  LET st == [state EXCEPT ![current_task] = "waiting"] IN
  /\ \E t \in Looked : id[t] = pid
  /\ state' = st
  /\ waiting_for_pid' = [waiting_for_pid EXCEPT ![current_task] = pid]
  /\ Schedule(st, [At(cpu.pid, "wake") EXCEPT !.me = current_task])
  /\ UNCHANGED <<id, next, cr3, task_count, next_pid>>

\* The rest of SYS_WAITPID, once the scheduler has come back to it; it runs
\* with interrupts on.
WaitpidReturns ==
  /\ cpu.at = "wake"
  /\ state' = [state EXCEPT ![cpu.me] = "running"]
  /\ cpu' = At(cpu.pid, "user")
  /\ UNCHANGED <<id, waiting_for_pid, next, cr3, esp, task_count, next_pid,
                 current_task, current_dir>>

\* Mutant of Woken: whoever waits is woken, whatever it waits for.
WokenWhoeverWaits(pid) == {t \in Looked : state[t] = "waiting"}

\* Mutant of Woken: the loop ends one task early.
WokenButTheLast(pid) ==
  LET w == Walk(current_task, next, task_count - 1)
  IN  {t \in {w[i] : i \in 0..(task_count - 2)} :
          state[t] = "waiting" /\ waiting_for_pid[t] = pid}

\* The tasks that unblock_waiter(pid) wakes.
Woken(pid) ==
  {t \in Looked : state[t] = "waiting" /\ waiting_for_pid[t] = pid}

UnblockWaiter(pid) ==
  /\ state' = [t \in Slots |-> IF t \in Woken(pid) THEN "running" ELSE state[t]]
  /\ waiting_for_pid' =
       [t \in Slots |-> IF t \in Woken(pid) THEN NoPid ELSE waiting_for_pid[t]]

\* Mutant of RemoveCurrent: the predecessor still points at the task.
RemoveCurrentLinked ==
  /\ current_task' = next[current_task]
  /\ task_count' = task_count - 1
  /\ UNCHANGED next

\* remove_task of the current task, which kill_task finds at once.
RemoveCurrent ==
  LET w       == Walk(current_task, next, MaxTasks)
      Stop(k) == next[w[k]] = current_task
  IN  \E k \in 0..MaxTasks :
        /\ FirstStop(0, MaxTasks, k, Stop)
        /\ next' = [next EXCEPT ![w[k]] = next[current_task]]
        /\ current_task' = next[current_task]
        /\ task_count' = task_count - 1

\* SYS_EXIT: wake the waiters, leave the ring, run the first task that can.
\* current_task is not moved on to the task that is picked.
SysExit ==
  LET me      == current_task
      w       == Walk(current_task', next', MaxTasks)
      Stop(j) == state'[w[j]] = "running" \/ (j > 0 /\ w[j] = w[0])
  IN  /\ UnblockWaiter(id[me])
      /\ RemoveCurrent
      /\ \E j \in 0..MaxTasks :
           /\ FirstStop(0, MaxTasks, j, Stop)
           /\ IF state'[w[j]] = "running"
                THEN SwitchTo(me, w[j], At(cpu.pid, "exit"))
                ELSE cpu' = cpu /\ UNCHANGED <<esp, current_dir>>
      /\ UNCHANGED <<id, cr3, next_pid>>
=============================================================================
