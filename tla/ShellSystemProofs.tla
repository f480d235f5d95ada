------------------------- MODULE ShellSystemProofs -------------------------
(***************************************************************************)
(* Proofs about ShellSystem for every size of the task table: IInv is an   *)
(* inductive invariant, and the safety properties follow from it.          *)
(***************************************************************************)
EXTENDS ShellSystem, WellFoundedInduction, TLAPS

-----------------------------------------------------------------------------
(***************************************************************************)
(* Lemmas about Walk and FirstStop of module Tasks: what a loop that       *)
(* follows the ring's next pointers visits.                                *)
(***************************************************************************)

(***************************************************************************)
(* A set of naturals that has an element has a least one.                  *)
(***************************************************************************)
LEMMA LeastNat ==
  ASSUME NEW T, T \subseteq Nat, T # {}
  PROVE  \E x \in T : \A y \in T : x <= y
<1>1. PICK x \in T : \A y \in T : ~ (<<y, x>> \in OpToRel(<, Nat))
  BY NatLessThanWellFounded, WFMin
<1>2. \A y \in T : ~ (y < x)
  BY <1>1 DEF OpToRel
<1> QED
  BY <1>2

(***************************************************************************)
(* Walk is the function its definition writes down: it begins at start and *)
(* each step follows succ.                                                 *)
(***************************************************************************)
IsWalk(h, start, succ, m) ==
  h = [k \in 0..m |-> IF k = 0 THEN start ELSE succ[h[k - 1]]]

LEMMA WalkExists ==
  ASSUME NEW start, NEW succ, NEW n \in Nat
  PROVE  \E h : IsWalk(h, start, succ, n)
<1> DEFINE T == {m \in Nat : ~ \E h : IsWalk(h, start, succ, m)}
<1> SUFFICES ASSUME T # {} PROVE FALSE
  OBVIOUS
<1>1. PICK m \in T : \A y \in T : m <= y
  BY LeastNat
<1>2. CASE m = 0
  <2> DEFINE h == [k \in 0..0 |-> start]
  <2>1. \A k \in 0..0 : k = 0
    OBVIOUS
  <2>2. h = [k \in 0..0 |-> IF k = 0 THEN start ELSE succ[h[k - 1]]]
    BY <2>1
  <2> QED
    BY <1>1, <1>2, <2>2 DEF IsWalk
<1>3. CASE m # 0
  <2>1. m - 1 \in Nat /\ m - 1 \notin T
    BY <1>1, <1>3
  <2>2. PICK h : IsWalk(h, start, succ, m - 1)
    BY <2>1
  <2> DEFINE g == [k \in 0..m |-> IF k = m THEN succ[h[m - 1]] ELSE h[k]]
  <2>3. \A k \in 0..(m - 1) : h[k] = IF k = 0 THEN start ELSE succ[h[k - 1]]
    BY <2>2, <2>1, Zenon DEF IsWalk
  <2>4. ASSUME NEW k \in 0..m
        PROVE  g[k] = IF k = 0 THEN start ELSE succ[g[k - 1]]
    <3>1. CASE k = m
      BY <3>1, <1>1, <1>3
    <3>2. CASE k # m
      <4>1. k \in 0..(m - 1) /\ (k # 0 => k - 1 \in 0..m /\ k - 1 # m)
        BY <3>2, <1>1
      <4> QED
        BY <3>2, <4>1, <2>3
    <3> QED
      BY <3>1, <3>2
  <2>5. g = [k \in 0..m |-> IF k = 0 THEN start ELSE succ[g[k - 1]]]
    BY <2>4
  <2> QED
    BY <2>5, <1>1 DEF IsWalk
<1> QED
  BY <1>2, <1>3

LEMMA WalkSteps ==
  ASSUME NEW start, NEW succ, NEW n \in Nat
  PROVE  /\ Walk(start, succ, n)[0] = start
         /\ \A k \in 1..n :
              Walk(start, succ, n)[k] = succ[Walk(start, succ, n)[k - 1]]
<1> DEFINE w == Walk(start, succ, n)
<1>1. \E h : h = [k \in 0..n |-> IF k = 0 THEN start ELSE succ[h[k - 1]]]
  <2>1. PICK h : IsWalk(h, start, succ, n)
    BY WalkExists
  <2>2. h = [k \in 0..n |-> IF k = 0 THEN start ELSE succ[h[k - 1]]]
    BY <2>1 DEF IsWalk
  <2> QED
    BY <2>2
<1>2. w = [k \in 0..n |-> IF k = 0 THEN start ELSE succ[w[k - 1]]]
  BY <1>1, Zenon DEF Walk
<1> HIDE DEF w
<1>3. \A k \in 0..n : w[k] = IF k = 0 THEN start ELSE succ[w[k - 1]]
  BY <1>2, Zenon
<1>4. w[0] = start /\ \A k \in 1..n : w[k] = succ[w[k - 1]]
  BY <1>3
<1> QED
  BY <1>4 DEF w

(***************************************************************************)
(* A walk does not leave a set that succ does not leave.                   *)
(***************************************************************************)
LEMMA WalkStays ==
  ASSUME NEW start, NEW succ, NEW n \in Nat, NEW L,
         start \in L, \A x \in L : succ[x] \in L
  PROVE  \A k \in 0..n : Walk(start, succ, n)[k] \in L
<1> DEFINE w == Walk(start, succ, n)
           T == {k \in 0..n : w[k] \notin L}
<1> HIDE DEF w
<1>1. w[0] = start /\ \A k \in 1..n : w[k] = succ[w[k - 1]]
  BY WalkSteps DEF w
<1>2. ASSUME T # {} PROVE FALSE
  <2>1. PICK k \in T : \A y \in T : k <= y
    <3>1. T \subseteq Nat
      OBVIOUS
    <3> HIDE DEF T
    <3> QED
      BY <1>2, <3>1, LeastNat
  <2>2. k # 0
    BY <1>1, <2>1
  <2>3. k - 1 \in 0..n /\ w[k - 1] \in L
    BY <2>1, <2>2
  <2> QED
    BY <1>1, <2>1, <2>2, <2>3
<1>3. \A k \in 0..n : w[k] \in L
  BY <1>2
<1> QED
  BY <1>3 DEF w

(***************************************************************************)
(* In a ring of the first n entries in order, k steps from entry c lead to *)
(* the entry k further on, counted round.                                  *)
(***************************************************************************)
LEMMA RingWalk ==
  ASSUME NEW n \in Nat, NEW c \in 0..(n - 1), NEW succ, NEW m \in Nat,
         \A s \in 0..(n - 1) : succ[s] = IF s = n - 1 THEN 0 ELSE s + 1
  PROVE  \A k \in 0..m : k <= n =>
           Walk(c, succ, m)[k] = IF c + k < n THEN c + k ELSE c + k - n
<1> DEFINE w == Walk(c, succ, m)
           P(k) == w[k] = IF c + k < n THEN c + k ELSE c + k - n
           T == {k \in 0..m : k <= n /\ ~ P(k)}
<1> HIDE DEF w
<1>1. w[0] = c /\ \A k \in 1..m : w[k] = succ[w[k - 1]]
  BY WalkSteps DEF w
<1>2. ASSUME T # {} PROVE FALSE
  <2>1. PICK k \in T : \A y \in T : k <= y
    <3>1. T \subseteq Nat
      OBVIOUS
    <3> HIDE DEF T
    <3> QED
      BY <1>2, <3>1, LeastNat
  <2>2. k # 0
    BY <1>1, <2>1
  <2>3. k - 1 \in 0..m /\ P(k - 1)
    BY <2>1, <2>2
  <2>4. w[k - 1] \in 0..(n - 1)
    BY <2>1, <2>2, <2>3
  <2>5. w[k] = succ[w[k - 1]]
    BY <1>1, <2>1, <2>2
  <2> QED
    BY <2>1, <2>2, <2>3, <2>4, <2>5
<1>3. \A k \in 0..m : k <= n => P(k)
  BY <1>2
<1> QED
  BY <1>3 DEF w

-----------------------------------------------------------------------------

(***************************************************************************)
(* The contexts of live processes are contexts, never Wild.                *)
(***************************************************************************)
LEMMA LiveContexts ==
  ASSUME IInv
  PROVE  /\ task_count \in 1..MaxTasks /\ MaxTasks \in Nat /\ MaxPid \in Nat
         /\ Live \subseteq Slots
         /\ \A s \in Live : ContextOf(s) \in Contexts
<1>1. task_count \in 1..MaxTasks /\ MaxTasks \in Nat /\ MaxPid \in Nat
  BY TasksAssumption DEF IInv, TypeOK
<1>2. Live \subseteq Slots
  BY <1>1 DEF Live, Slots
<1>3. ASSUME NEW s \in Live PROVE ContextOf(s) \in Contexts
  <2>1. cpu \in Contexts /\ esp[s] \in Contexts \cup {Wild}
    BY <1>2 DEF IInv, TypeOK
  <2>2. ContextOf(s).at # "wild"
    BY <1>1 DEF IInv, Chained, Live
  <2>3. Wild.at = "wild"
    BY DEF Wild
  <2> QED
    BY <2>1, <2>2, <2>3 DEF ContextOf
<1> QED
  BY <1>1, <1>2, <1>3

(***************************************************************************)
(* Every walk of the ring stays among the live entries, and the loops over *)
(* task_count tasks see each of them.                                      *)
(***************************************************************************)
LEMMA RingIsLive ==
  ASSUME IInv, NEW m \in Nat
  PROVE  \A k \in 0..m : Walk(current_task, next, m)[k] \in Live
<1>1. current_task \in Live /\ \A s \in Live : next[s] \in Live
  BY LiveContexts DEF IInv, RingInOrder, Live
<1> QED
  BY <1>1, WalkStays

LEMMA LookedIsLive ==
  ASSUME IInv
  PROVE  Looked = Live
<1> DEFINE n == task_count
           w == Walk(current_task, next, n - 1)
<1>1. n \in Nat /\ n > 0 /\ current_task \in 0..(n - 1)
  BY LiveContexts DEF IInv, RingInOrder, Live
<1>2. \A k \in 0..(n - 1) : w[k] \in Live
  BY <1>1, RingIsLive
<1>3. \A k \in 0..(n - 1) : k <= n =>
        w[k] = IF current_task + k < n THEN current_task + k ELSE current_task + k - n
  <2>1. \A s \in 0..(n - 1) : next[s] = IF s = n - 1 THEN 0 ELSE s + 1
    BY DEF IInv, RingInOrder, Live
  <2>2. n - 1 \in Nat
    BY <1>1
  <2> QED
    BY <1>1, <2>1, <2>2, RingWalk
<1> HIDE DEF w
<1>4. ASSUME NEW s \in Live PROVE \E k \in 0..(n - 1) : w[k] = s
  <2>1. CASE s >= current_task
    <3>1. s - current_task \in 0..(n - 1) /\ w[s - current_task] = s
      BY <1>1, <1>3, <2>1 DEF Live
    <3> QED
      BY <3>1
  <2>2. CASE s < current_task
    <3>1. s - current_task + n \in 0..(n - 1) /\ w[s - current_task + n] = s
      BY <1>1, <1>3, <2>2 DEF Live
    <3> QED
      BY <3>1
  <2> QED
    BY <1>1, <2>1, <2>2 DEF Live
<1> QED
  BY <1>2, <1>4 DEF Looked, w

(***************************************************************************)
(* What schedule() does, whatever it is called for: it leaves the CPU with *)
(* a live task that is not blocked, in its own address space, and every    *)
(* live process with the context it had, the caller with c.                *)
(***************************************************************************)
LEMMA ScheduleEffect ==
  ASSUME IInv, NEW st, NEW c \in Contexts, Schedule(st, c), st[0] # "waiting"
  PROVE  /\ current_task' \in Live
         /\ st[current_task'] # "waiting"
         /\ current_dir' = cr3[current_task']
         /\ esp' \in [Slots -> Contexts \cup {Wild}]
         /\ \A s \in Live :
              (IF s = current_task' THEN cpu' ELSE esp'[s])
                = IF s = current_task THEN c ELSE ContextOf(s)
<1> DEFINE n == task_count
           cur == current_task
           w == Walk(current_task, next, MaxTasks)
           Stop(j) == st[w[j]] # "waiting" \/ w[j] = current_task
<1>1. /\ n \in 1..MaxTasks /\ MaxTasks \in Nat
      /\ cur \in 0..(n - 1) /\ Live = 0..(n - 1) /\ Live \subseteq Slots
  BY LiveContexts DEF IInv, RingInOrder, Live
<1>2. \A k \in 0..MaxTasks : w[k] \in Live
  BY <1>1, RingIsLive
<1>3. PICK j \in 1..MaxTasks :
        /\ FirstStop(1, MaxTasks, j, Stop)
        /\ IF w[j] = current_task
             THEN /\ cpu' = c
                  /\ UNCHANGED <<esp, current_task, current_dir>>
             ELSE /\ current_task' = w[j]
                  /\ SwitchTo(current_task, w[j], c)
  BY Zenon DEF Schedule
<1>4. Stop(j) /\ \A i \in 1..(j - 1) : ~ Stop(i)
  BY <1>3 DEF FirstStop
<1>5. esp \in [Slots -> Contexts \cup {Wild}] /\ cur \in Slots
  BY <1>1 DEF IInv, TypeOK
<1>6. CASE w[j] = cur
  <2>1. ASSUME st[cur] = "waiting" PROVE FALSE
    <3>1. cur # 0
      BY <2>1
    <3>2. \A k \in 0..MaxTasks : k <= n =>
            w[k] = IF cur + k < n THEN cur + k ELSE cur + k - n
      <4>1. \A s \in 0..(n - 1) : next[s] = IF s = n - 1 THEN 0 ELSE s + 1
        BY DEF IInv, RingInOrder, Live
      <4>2. n \in Nat /\ MaxTasks \in Nat /\ cur \in 0..(n - 1)
        BY <1>1
      <4> QED
        BY <4>1, <4>2, RingWalk
    <3> HIDE DEF w
    <3>3. n - cur \in 1..MaxTasks /\ w[n - cur] = 0
      BY <1>1, <3>1, <3>2
    <3>4. j <= n - cur
      BY <1>1, <1>4, <3>3
    <3>5. w[j] # cur
      BY <1>1, <3>1, <3>2, <3>4
    <3> QED
      BY <1>6, <3>5
  <2>2. cpu' = c /\ esp' = esp /\ current_task' = cur /\ current_dir' = current_dir
    BY <1>3, <1>6, Zenon
  <2>3. current_dir = cr3[cur]
    BY DEF IInv, OwnAddressSpace
  <2> QED
    BY <1>1, <1>5, <2>1, <2>2, <2>3 DEF ContextOf
<1>7. CASE w[j] # cur
  <2>1. w[j] \in Live /\ st[w[j]] # "waiting"
    BY <1>2, <1>4, <1>7
  <2>2. current_task' = w[j] /\ SwitchTo(cur, w[j], c)
    BY <1>3, <1>7, Zenon
  <2> HIDE DEF w
  <2>3. cr3[w[j]] # NoDir
    <3>1. cr3[w[j]] = id[w[j]] /\ id[w[j]] = ContextOf(w[j]).pid
      BY <2>1 DEF IInv, PidsInOrder, ContextsAreOwn
    <3>2. ContextOf(w[j]).pid \in 1..(MaxPid + 1) /\ MaxPid \in Nat
      BY <2>1, LiveContexts DEF Contexts
    <3> QED
      BY <3>1, <3>2 DEF NoDir
  <2>4. /\ current_dir' = cr3[w[j]]
        /\ esp' = [esp EXCEPT ![cur] = c]
        /\ cpu' = esp[w[j]]
    BY <2>2, <2>3 DEF SwitchTo
  <2>5. ASSUME NEW s \in Live
        PROVE  (IF s = current_task' THEN cpu' ELSE esp'[s])
                 = IF s = current_task THEN c ELSE ContextOf(s)
    BY <1>1, <1>5, <1>7, <2>2, <2>4 DEF ContextOf
  <2> QED
    BY <1>5, <2>1, <2>2, <2>4, <2>5
<1> QED
  BY <1>6, <1>7

-----------------------------------------------------------------------------
(***************************************************************************)
(* The initial state: the kernel alone.                                    *)
(***************************************************************************)
LEMMA InitIInv == InitTasks => IInv
<1> SUFFICES ASSUME InitTasks PROVE IInv
  OBVIOUS
<1> USE TasksAssumption
<1>1. Live = {0} /\ 0 \in Slots
  BY DEF InitTasks, Live, Slots
<1>2. TypeOK
  BY DEF InitTasks, TypeOK, Slots, NoSlot, NoPid, NoDir, Kernel, Wild, At, Contexts, Places
<1>3. RingInOrder /\ PidsInOrder /\ ContextsAreOwn /\ OwnAddressSpace
  BY <1>1 DEF InitTasks, RingInOrder, PidsInOrder, ContextsAreOwn, OwnAddressSpace,
              ContextOf, At, Kernel, Slots, Live
<1>4. \A s \in Live : Chained(s)
  BY <1>1 DEF InitTasks, Chained, ContextOf, At
<1> QED
  BY <1>2, <1>3, <1>4 DEF IInv

(***************************************************************************)
(* Where a process is in the chain follows from what it is doing: one that *)
(* is free in its program is the last, and so is the kernel before it has  *)
(* spawned the shell.                                                      *)
(***************************************************************************)
LEMMA FreeIsLast ==
  ASSUME IInv
  PROVE  /\ current_task \in Live /\ cpu = ContextOf(current_task)
         /\ cpu.at = "user" => current_task = task_count - 1 /\ current_task > 0
         /\ cpu.at = "boot" => current_task = 0 /\ task_count = 1
         /\ cpu.at = "wake" => current_task = task_count - 1 /\ current_task > 0
         /\ cpu.at = "spawned" => current_task > 0
<1>1. current_task \in Live /\ cpu = ContextOf(current_task)
  BY DEF IInv, RingInOrder, ContextOf
<1>2. Chained(current_task) /\ state[current_task] = "running"
  BY <1>1 DEF IInv, ContextsAreOwn
<1>3. task_count \in Nat /\ current_task \in 0..(task_count - 1)
  BY <1>1, LiveContexts DEF Live
<1> QED
  BY <1>1, <1>2, <1>3 DEF Chained

(***************************************************************************)
(* A preemption or a yield keeps IInv: only who has the CPU changes.       *)
(***************************************************************************)
LEMMA SwitchKeepsIInv ==
  ASSUME IInv, Schedule(state, cpu), UNCHANGED <<table, task_count, next_pid>>
  PROVE  IInv'
<1>1. /\ cpu \in Contexts /\ state[0] # "waiting"
      /\ current_task \in Live /\ cpu = ContextOf(current_task)
  <2>1. 0 \in Live
    BY LiveContexts DEF Live
  <2> QED
    BY <2>1, FreeIsLast, LiveContexts DEF IInv, Chained
<1>2. /\ current_task' \in Live
      /\ state[current_task'] # "waiting"
      /\ current_dir' = cr3[current_task']
      /\ esp' \in [Slots -> Contexts \cup {Wild}]
      /\ \A s \in Live :
           (IF s = current_task' THEN cpu' ELSE esp'[s])
             = IF s = current_task THEN cpu ELSE ContextOf(s)
  BY <1>1, ScheduleEffect
<1>3. /\ id' = id /\ state' = state /\ waiting_for_pid' = waiting_for_pid
      /\ next' = next /\ cr3' = cr3 /\ task_count' = task_count
      /\ next_pid' = next_pid /\ Live' = Live
  BY DEF table, Live
<1>4. \A s \in Live : ContextOf(s)' = ContextOf(s)
  BY <1>1, <1>2 DEF ContextOf
<1>5. cpu' = ContextOf(current_task')
  BY <1>2, <1>4 DEF ContextOf
<1>6. current_task' \in Slots /\ state[current_task'] = "running"
  BY <1>2, LiveContexts DEF IInv, TypeOK
<1>7. TypeOK'
  <2>1. cpu' \in Contexts
    BY <1>2, <1>5, LiveContexts
  <2>2. current_dir' \in 1..(MaxPid + 1)
    BY <1>2, LiveContexts DEF IInv, PidsInOrder, ContextsAreOwn, Contexts
  <2> QED
    BY <1>2, <1>3, <1>6, <2>1, <2>2 DEF IInv, TypeOK
<1>8. RingInOrder' /\ PidsInOrder'
  BY <1>2, <1>3 DEF IInv, RingInOrder, PidsInOrder
<1>9. ContextsAreOwn'
  BY <1>3, <1>4, <1>6 DEF IInv, ContextsAreOwn
<1>10. OwnAddressSpace'
  BY <1>2, <1>3, <1>5 DEF IInv, OwnAddressSpace, PidsInOrder, ContextsAreOwn
<1>11. (\A s \in Live : Chained(s))'
  BY <1>3, <1>4 DEF IInv, Chained
<1> QED
  BY <1>7, <1>8, <1>9, <1>10, <1>11 DEF IInv

(***************************************************************************)
(* spawn_elf by the last process of the chain makes the chain longer by    *)
(* one, in the entry behind it.                                            *)
(***************************************************************************)
LEMMA SpawnKeepsIInv ==
  ASSUME IInv, NEW c \in Contexts, SpawnElf(c),
         current_task = task_count - 1, c.pid = cpu.pid,
         \/ cpu.at = "boot" /\ c.at = "halt"
         \/ cpu.at = "user" /\ c.at = "spawned" /\ c.child = next_pid
  PROVE  IInv'
<1> PICK n : n = task_count
  OBVIOUS
<1>1. /\ n \in 1..MaxTasks /\ n < MaxTasks /\ MaxTasks \in Nat /\ MaxPid \in Nat
      /\ next_pid \in 2..MaxPid
      /\ n \in Slots /\ n - 1 \in Slots /\ Slots = 0..(MaxTasks - 1)
      /\ Live = 0..(n - 1) /\ Live' = 0..n
  BY LiveContexts DEF IInv, TypeOK, SpawnElf, TaskAlloc, Live, Slots
<1>2. /\ id' = [id EXCEPT ![n] = next_pid]
      /\ state' = [state EXCEPT ![n] = "running"]
      /\ waiting_for_pid' = [waiting_for_pid EXCEPT ![n] = NoPid]
      /\ next' = [next EXCEPT ![n] = next[n - 1], ![n - 1] = n]
      /\ cr3' = [cr3 EXCEPT ![n] = next_pid]
      /\ esp' = [esp EXCEPT ![n] = At(next_pid, "user")]
      /\ task_count' = n + 1 /\ next_pid' = next_pid + 1
      /\ cpu' = c /\ current_task' = n - 1 /\ current_dir' = current_dir
  BY DEF SpawnElf, TaskAlloc
<1>3. At(next_pid, "user") \in Contexts
  BY <1>1 DEF At, Contexts, Places
<1>4. /\ id \in [Slots -> 0..MaxPid + 1] /\ state \in [Slots -> {"running", "waiting"}]
      /\ waiting_for_pid \in [Slots -> 0..MaxPid + 1 \cup {NoPid}]
      /\ next \in [Slots -> Slots \cup {NoSlot}] /\ cr3 \in [Slots -> 0..MaxPid + 1]
      /\ esp \in [Slots -> Contexts \cup {Wild}] /\ current_dir \in 1..(MaxPid + 1)
  BY DEF IInv, TypeOK
<1>5. /\ \A s \in Live : /\ id'[s] = id[s] /\ state'[s] = state[s] /\ cr3'[s] = cr3[s]
                         /\ waiting_for_pid'[s] = waiting_for_pid[s]
      /\ id'[n] = next_pid /\ state'[n] = "running" /\ cr3'[n] = next_pid
  <2>1. \A s \in Live : s \in Slots /\ s # n
    BY <1>1
  <2>2. \A s \in Live : id'[s] = id[s] /\ state'[s] = state[s]
    BY <1>2, <1>4, <2>1
  <2>3. \A s \in Live : cr3'[s] = cr3[s] /\ waiting_for_pid'[s] = waiting_for_pid[s]
    BY <1>2, <1>4, <2>1
  <2>4. id'[n] = next_pid /\ state'[n] = "running" /\ cr3'[n] = next_pid
    BY <1>1, <1>2, <1>4
  <2> QED
    BY <2>2, <2>3, <2>4
<1>6. /\ \A s \in 0..(n - 2) : ContextOf(s)' = ContextOf(s)
      /\ ContextOf(n - 1)' = c /\ ContextOf(n)' = At(next_pid, "user")
      /\ ContextOf(n - 1) = cpu
  BY <1>1, <1>2, <1>4 DEF ContextOf
<1>7. TypeOK'
  <2>1. /\ id' \in [Slots -> 0..MaxPid + 1] /\ cr3' \in [Slots -> 0..MaxPid + 1]
        /\ state' \in [Slots -> {"running", "waiting"}]
    BY <1>1, <1>2, <1>4
  <2>2. waiting_for_pid' \in [Slots -> 0..MaxPid + 1 \cup {NoPid}]
    BY <1>2, <1>4
  <2>3. next' \in [Slots -> Slots \cup {NoSlot}]
    BY <1>1, <1>2, <1>4
  <2>4. esp' \in [Slots -> Contexts \cup {Wild}]
    BY <1>2, <1>3, <1>4
  <2>5. /\ task_count' \in 1..MaxTasks /\ next_pid' \in 2..(MaxPid + 2)
        /\ current_task' \in Slots /\ current_dir' \in 1..(MaxPid + 1)
        /\ cpu' \in Contexts
    BY <1>1, <1>2, <1>4
  <2> QED
    BY <2>1, <2>2, <2>3, <2>4, <2>5 DEF TypeOK
<1>8. RingInOrder'
  <2>1. next'[n] = 0 /\ next'[n - 1] = n /\ \A s \in 0..(n - 2) : next'[s] = s + 1
    <3>1. \A s \in 0..(n - 1) : next[s] = IF s = n - 1 THEN 0 ELSE s + 1
      BY <1>1 DEF IInv, RingInOrder
    <3>2. n # n - 1 /\ next[n - 1] = 0
      BY <1>1, <3>1
    <3>3. next'[n] = 0 /\ next'[n - 1] = n
      BY <1>1, <1>2, <1>4, <3>2
    <3>4. \A s \in 0..(n - 2) : s \in 0..(n - 1) /\ s # n - 1 /\ s # n /\ s \in Slots
      BY <1>1
    <3>5. \A s \in 0..(n - 2) : next'[s] = next[s]
      BY <1>2, <1>4, <3>4
    <3> QED
      BY <3>1, <3>3, <3>4, <3>5
  <2>2. current_task' \in Live'
    BY <1>1, <1>2
  <2>3. \A s \in 0..n : next'[s] = IF s = n THEN 0 ELSE s + 1
    BY <1>1, <2>1
  <2> QED
    <3>1. task_count' - 1 = n
      BY <1>1, <1>2
    <3> QED
      BY <1>1, <2>2, <2>3, <3>1 DEF RingInOrder
<1>9. PidsInOrder'
  <2>1. id'[0] = Kernel
    BY <1>1, <1>5 DEF IInv, PidsInOrder
  <2>2. \A s \in Live' : id'[s] < next_pid' /\ cr3'[s] = id'[s]
    BY <1>1, <1>2, <1>4, <1>5 DEF IInv, PidsInOrder
  <2>3. \A s, t \in Live' : s < t => id'[s] < id'[t]
    BY <1>1, <1>5 DEF IInv, PidsInOrder
  <2> QED
    BY <2>1, <2>2, <2>3 DEF PidsInOrder
<1>10. ContextsAreOwn'
  <2>1. state'[current_task'] = "running"
    BY <1>1, <1>2, <1>5 DEF IInv, ContextsAreOwn
  <2>2. \A s \in Live' : ContextOf(s)'.pid = id'[s]
    BY <1>1, <1>5, <1>6 DEF IInv, ContextsAreOwn, At
  <2>3. Live' = 0..n /\ \A s \in 0..n : ContextOf(s)'.pid = id'[s]
    BY <1>1, <2>2
  <2> QED
    BY <2>1, <2>2 DEF ContextsAreOwn
<1>11. OwnAddressSpace'
  <2>1. cr3'[n - 1] = cr3[n - 1]
    BY <1>1, <1>5
  <2> QED
    BY <1>2, <2>1 DEF IInv, OwnAddressSpace
<1>12. ASSUME NEW s \in Live' PROVE Chained(s)'
  <2>1. CASE s = n
    BY <1>1, <1>2, <1>5, <1>6, <2>1 DEF Chained, At
  <2>2. CASE s = n - 1
    <3>1. Chained(n - 1) /\ state[n - 1] = "running" /\ id[n - 1] < next_pid
      BY <1>1 DEF IInv, ContextsAreOwn, PidsInOrder
    <3>2. (n - 1 = 0) <=> cpu.at = "boot"
      BY <1>1, <1>6, <3>1 DEF Chained
    <3> QED
      BY <1>1, <1>2, <1>5, <1>6, <2>2, <3>1, <3>2 DEF Chained
  <2>3. CASE s \in 0..(n - 2)
    <3>1. Chained(s) /\ n > 1
      BY <1>1, <2>3 DEF IInv
    <3>2. /\ id'[s + 1] = id[s + 1] /\ state'[s] = state[s] /\ id'[s] = id[s]
          /\ waiting_for_pid'[s] = waiting_for_pid[s] /\ ContextOf(s)' = ContextOf(s)
      BY <1>1, <1>5, <1>6, <2>3
    <3> QED
      BY <1>1, <1>2, <2>3, <3>1, <3>2 DEF Chained
  <2> QED
    BY <1>1, <2>1, <2>2, <2>3
<1> QED
  BY <1>7, <1>8, <1>9, <1>10, <1>11, <1>12 DEF IInv

(***************************************************************************)
(* A step that only changes where the last process of the chain is in its  *)
(* program keeps IInv.                                                     *)
(***************************************************************************)
LEMMA StepKeepsIInv ==
  ASSUME IInv, NEW c \in Contexts, cpu' = c, c.pid = cpu.pid,
         UNCHANGED <<table, esp, task_count, next_pid, current_task, current_dir>>,
         current_task = task_count - 1,
         \/ cpu.at = "boot" /\ c.at = "halt"
         \/ c.at = "user" /\ current_task > 0
  PROVE  IInv'
<1>1. /\ id' = id /\ state' = state /\ waiting_for_pid' = waiting_for_pid
      /\ next' = next /\ cr3' = cr3 /\ esp' = esp /\ task_count' = task_count
      /\ next_pid' = next_pid /\ current_task' = current_task
      /\ current_dir' = current_dir /\ Live' = Live
  BY DEF table, Live
<1>2. /\ \A s \in Live : s # current_task => ContextOf(s)' = ContextOf(s)
      /\ ContextOf(current_task)' = c /\ ContextOf(current_task) = cpu
      /\ current_task \in Live
  BY <1>1, FreeIsLast DEF ContextOf
<1>3. TypeOK' /\ RingInOrder' /\ PidsInOrder' /\ OwnAddressSpace'
  BY <1>1 DEF IInv, TypeOK, RingInOrder, PidsInOrder, OwnAddressSpace
<1>4. ContextsAreOwn'
  BY <1>1, <1>2 DEF IInv, ContextsAreOwn, ContextOf
<1>5. ASSUME NEW s \in Live' PROVE Chained(s)'
  <2>1. s \in Live /\ Chained(s) /\ Chained(current_task)
    BY <1>1, <1>2 DEF IInv
  <2>2. task_count \in Nat /\ task_count > 0 /\ Live = 0..(task_count - 1)
    BY LiveContexts DEF Live
  <2>3. CASE s = current_task
    <3>1. ContextOf(s)' = c /\ ContextOf(s) = cpu
      BY <1>1, <1>2, <2>3 DEF ContextOf
    <3> QED
      BY <1>1, <2>1, <2>2, <2>3, <3>1 DEF Chained
  <2>4. CASE s # current_task
    BY <1>1, <1>2, <2>1, <2>4 DEF Chained
  <2> QED
    BY <2>3, <2>4
<1> QED
  BY <1>3, <1>4, <1>5 DEF IInv

(***************************************************************************)
(* SYS_WAITPID that blocks: the caller is not the last of the chain, and   *)
(* it waits for the process of the next entry.                             *)
(***************************************************************************)
LEMMA BlockKeepsIInv ==
  ASSUME IInv, cpu.at = "spawned", WaitpidBlocks(cpu.child)
  PROVE  IInv'
<1> PICK me : me = current_task
  OBVIOUS
<1> DEFINE c  == [At(cpu.pid, "wake") EXCEPT !.me = me]
           st == [state EXCEPT ![me] = "waiting"]
<1>1. /\ me \in Live /\ me > 0 /\ me \in Slots /\ cpu = ContextOf(me)
      /\ task_count \in Nat /\ Live = 0..(task_count - 1) /\ Live \subseteq Slots
  BY FreeIsLast, LiveContexts DEF Live
<1>2. /\ id' = id /\ next' = next /\ cr3' = cr3 /\ task_count' = task_count
      /\ next_pid' = next_pid /\ Live' = Live /\ state' = st
      /\ waiting_for_pid' = [waiting_for_pid EXCEPT ![me] = cpu.child]
      /\ Schedule(st, c)
  BY DEF WaitpidBlocks, Live
<1>3. me < task_count - 1 /\ cpu.child = id[me + 1]
  <2>1. PICK t \in Live : id[t] = cpu.child
    BY LookedIsLive DEF WaitpidBlocks
  <2>2. Chained(me)
    BY <1>1 DEF IInv
  <2>3. cpu.child > id[me]
    BY <1>1, <2>2 DEF Chained
  <2>4. id[t] \in Nat /\ id[me] \in Nat
    BY <1>1, <2>1 DEF IInv, TypeOK
  <2>5. t > me
    BY <1>1, <2>1, <2>3, <2>4 DEF IInv, PidsInOrder
  <2>6. me < task_count - 1
    BY <1>1, <2>1, <2>5
  <2> QED
    BY <1>1, <2>2, <2>6 DEF Chained
<1>4. c = [pid |-> cpu.pid, at |-> "wake", me |-> me, child |-> 0] /\ c \in Contexts
  <2>1. cpu.pid \in 1..(MaxPid + 1) /\ MaxPid \in Nat
    BY <1>1, LiveContexts DEF Contexts
  <2> QED
    BY <1>1, <2>1 DEF At, Contexts, Places
<1>5. /\ st \in [Slots -> {"running", "waiting"}] /\ st[me] = "waiting"
      /\ \A s \in Live : s # me => st[s] = state[s]
  BY <1>1 DEF IInv, TypeOK
<1>6. st[0] # "waiting"
  <2>1. 0 \in Live /\ 0 # me /\ state[0] = "running"
    BY <1>1 DEF IInv, Chained
  <2> QED
    BY <1>5, <2>1
<1>7. /\ current_task' \in Live
      /\ st[current_task'] # "waiting"
      /\ current_dir' = cr3[current_task']
      /\ esp' \in [Slots -> Contexts \cup {Wild}]
      /\ \A s \in Live :
           (IF s = current_task' THEN cpu' ELSE esp'[s])
             = IF s = current_task THEN c ELSE ContextOf(s)
  <2> HIDE DEF c, st
  <2> QED
    BY <1>2, <1>4, <1>6, ScheduleEffect
<1> HIDE DEF c, st
<1>8. /\ \A s \in Live : s # me => ContextOf(s)' = ContextOf(s)
      /\ ContextOf(me)' = c
  BY <1>1, <1>7 DEF ContextOf
<1>9. /\ current_task' # me /\ current_task' \in Slots
      /\ state[current_task'] = "running" /\ state'[current_task'] = "running"
      /\ cpu' = ContextOf(current_task')
  <2>1. current_task' # me
    BY <1>5, <1>7
  <2>2. cpu' = ContextOf(current_task')
    BY <1>7, <2>1
  <2> QED
    BY <1>1, <1>2, <1>5, <1>7, <2>1, <2>2 DEF IInv, TypeOK
<1>10. TypeOK'
  <2>1. cpu' \in Contexts
    BY <1>7, <1>9, LiveContexts
  <2>2. current_dir' \in 1..(MaxPid + 1)
    BY <1>7, LiveContexts DEF IInv, PidsInOrder, ContextsAreOwn, Contexts
  <2>3. waiting_for_pid' \in [Slots -> 0..MaxPid + 1 \cup {NoPid}]
    <3>1. cpu.child \in 0..(MaxPid + 1)
      BY <1>1, LiveContexts DEF Contexts
    <3> QED
      BY <1>2, <3>1 DEF IInv, TypeOK
  <2> QED
    BY <1>2, <1>5, <1>7, <1>9, <2>1, <2>2, <2>3 DEF IInv, TypeOK
<1>11. RingInOrder' /\ PidsInOrder'
  BY <1>2, <1>7 DEF IInv, RingInOrder, PidsInOrder
<1>12. ContextsAreOwn'
  <2>1. c.pid = id[me]
    BY <1>1, <1>4 DEF IInv, ContextsAreOwn
  <2>2. \A s \in Live : ContextOf(s)'.pid = id[s]
    BY <1>8, <2>1 DEF IInv, ContextsAreOwn
  <2> QED
    BY <1>2, <1>9, <2>2 DEF ContextsAreOwn
<1>13. OwnAddressSpace'
  BY <1>2, <1>7, <1>9 DEF IInv, OwnAddressSpace, PidsInOrder, ContextsAreOwn
<1>14. ASSUME NEW s \in Live' PROVE Chained(s)'
  <2>1. CASE s = me
    <3>1. waiting_for_pid'[me] = id[me + 1]
      BY <1>1, <1>2, <1>3 DEF IInv, TypeOK
    <3>2. /\ ContextOf(s)' = [pid |-> cpu.pid, at |-> "wake", me |-> me, child |-> 0]
          /\ state'[s] = "waiting"
      BY <1>2, <1>4, <1>5, <1>8, <2>1
    <3> QED
      BY <1>1, <1>2, <1>3, <2>1, <3>1, <3>2 DEF Chained
  <2>2. CASE s # me
    <3>1. /\ s \in Live /\ Chained(s) /\ ContextOf(s)' = ContextOf(s)
          /\ state'[s] = state[s] /\ waiting_for_pid'[s] = waiting_for_pid[s]
      BY <1>1, <1>2, <1>5, <1>8, <2>2 DEF IInv, TypeOK
    <3> QED
      BY <1>2, <3>1 DEF Chained
  <2> QED
    BY <2>1, <2>2
<1> QED
  BY <1>10, <1>11, <1>12, <1>13, <1>14 DEF IInv

(***************************************************************************)
(* The tail of SYS_WAITPID, which runs with interrupts on, finds the state *)
(* it assigns already there.                                               *)
(***************************************************************************)
LEMMA ReturnKeepsIInv ==
  ASSUME IInv, WaitpidReturns
  PROVE  IInv'
<1> DEFINE c == At(cpu.pid, "user")
<1>1. /\ current_task \in Live /\ current_task = task_count - 1 /\ current_task > 0
      /\ cpu \in Contexts /\ MaxPid \in Nat
  BY FreeIsLast, LiveContexts DEF WaitpidReturns
<1>2. cpu.me = current_task /\ state[current_task] = "running"
  BY <1>1, FreeIsLast DEF IInv, Chained, ContextsAreOwn, WaitpidReturns
<1>3. state' = state
  BY <1>2 DEF WaitpidReturns, IInv, TypeOK
<1>4. c \in Contexts /\ c.at = "user" /\ c.pid = cpu.pid
  BY <1>1 DEF At, Contexts, Places
<1>5. UNCHANGED <<table, esp, task_count, next_pid, current_task, current_dir>>
  BY <1>3 DEF WaitpidReturns, table
<1>6. cpu' = c
  BY DEF WaitpidReturns
<1> HIDE DEF c
<1> QED
  BY <1>1, <1>4, <1>5, <1>6, StepKeepsIInv

(***************************************************************************)
(* SYS_EXIT by the last process of the chain: its entry is the one that    *)
(* task_count gives up, the parent is woken if it waits, and the kernel,   *)
(* its successor in the ring, gets the CPU.                                *)
(***************************************************************************)
LEMMA ExitEffect ==
  ASSUME IInv, cpu.at = "user", SysExit, NEW n \in Nat, n = task_count
  PROVE  /\ n > 1 /\ n <= MaxTasks /\ current_task = n - 1
         /\ next' = [next EXCEPT ![n - 2] = 0]
         /\ task_count' = n - 1 /\ current_task' = 0
         /\ state' = [t \in Slots |-> IF t \in Woken(id[n - 1]) THEN "running"
                                                               ELSE state[t]]
         /\ waiting_for_pid' = [t \in Slots |-> IF t \in Woken(id[n - 1])
                                                  THEN NoPid ELSE waiting_for_pid[t]]
         /\ current_dir' = cr3[0] /\ cpu' = esp[0]
         /\ esp' = [esp EXCEPT ![n - 1] = At(cpu.pid, "exit")]
         /\ UNCHANGED <<id, cr3, next_pid>>
<1>1. /\ n > 1 /\ n <= MaxTasks /\ current_task = n - 1 /\ MaxTasks \in Nat
      /\ Live = 0..(n - 1)
  BY FreeIsLast, LiveContexts DEF Live
<1>2. \A s \in 0..(n - 1) : next[s] = IF s = n - 1 THEN 0 ELSE s + 1
  BY <1>1 DEF IInv, RingInOrder
<1>3. /\ next' = [next EXCEPT ![n - 2] = 0]
      /\ task_count' = n - 1 /\ current_task' = 0
  <2> DEFINE w == Walk(current_task, next, MaxTasks)
             Stop(k) == next[w[k]] = current_task
  <2>1. PICK k \in 0..MaxTasks :
          /\ FirstStop(0, MaxTasks, k, Stop)
          /\ next' = [next EXCEPT ![w[k]] = next[current_task]]
          /\ current_task' = next[current_task]
          /\ task_count' = task_count - 1
    BY Zenon DEF SysExit, RemoveCurrent
  <2>2. w[k] \in 0..(n - 1) /\ next[w[k]] = current_task
    BY <1>1, <2>1, RingIsLive DEF FirstStop
  <2> HIDE DEF w
  <2>3. w[k] = n - 2 /\ next[current_task] = 0
    BY <1>1, <1>2, <2>2
  <2> QED
    BY <2>1, <2>3
<1>4. /\ state' = [t \in Slots |-> IF t \in Woken(id[n - 1]) THEN "running"
                                                            ELSE state[t]]
      /\ waiting_for_pid' = [t \in Slots |-> IF t \in Woken(id[n - 1])
                                               THEN NoPid ELSE waiting_for_pid[t]]
      /\ UNCHANGED <<id, cr3, next_pid>>
  BY <1>1 DEF SysExit, UnblockWaiter
<1>5. 0 \in Live /\ 0 \in Slots /\ state[0] = "running" /\ state'[0] = "running"
  <2>1. 0 \in Live /\ 0 \in Slots
    BY <1>1, LiveContexts
  <2>2. state[0] = "running"
    BY <2>1 DEF IInv, Chained
  <2> QED
    BY <1>4, <2>1, <2>2
<1>6. SwitchTo(n - 1, 0, At(cpu.pid, "exit"))
  <2> DEFINE w == Walk(current_task', next', MaxTasks)
             Stop(j) == state'[w[j]] = "running" \/ (j > 0 /\ w[j] = w[0])
  <2>1. PICK j \in 0..MaxTasks :
          /\ FirstStop(0, MaxTasks, j, Stop)
          /\ IF state'[w[j]] = "running"
               THEN SwitchTo(current_task, w[j], At(cpu.pid, "exit"))
               ELSE cpu' = cpu /\ UNCHANGED <<esp, current_dir>>
    BY Zenon DEF SysExit
  <2>2. w[0] = 0
    BY <1>1, <1>3, WalkSteps
  <2>3. \A i \in 0..(j - 1) : ~ Stop(i)
    BY <2>1 DEF FirstStop
  <2>4. j = 0
    BY <1>5, <2>1, <2>2, <2>3
  <2>5. state'[w[j]] = "running" /\ w[j] = 0
    BY <1>5, <2>2, <2>4
  <2> QED
    BY <1>1, <2>1, <2>5
<1>7. cr3[0] # NoDir
  BY <1>5 DEF IInv, PidsInOrder, Kernel, NoDir
<1> QED
  BY <1>1, <1>3, <1>4, <1>6, <1>7 DEF SwitchTo

LEMMA ExitKeepsIInv ==
  ASSUME IInv, cpu.at = "user", SysExit
  PROVE  IInv'
<1> PICK n \in Nat : n = task_count
  BY LiveContexts
<1>1. /\ n > 1 /\ n <= MaxTasks /\ current_task = n - 1
      /\ next' = [next EXCEPT ![n - 2] = 0]
      /\ task_count' = n - 1 /\ current_task' = 0
      /\ current_dir' = cr3[0] /\ cpu' = esp[0]
      /\ esp' = [esp EXCEPT ![n - 1] = At(cpu.pid, "exit")]
      /\ id' = id /\ cr3' = cr3 /\ next_pid' = next_pid
  BY ExitEffect
<1>2. /\ state' = [t \in Slots |-> IF t \in Woken(id[n - 1]) THEN "running"
                                                            ELSE state[t]]
      /\ waiting_for_pid' = [t \in Slots |-> IF t \in Woken(id[n - 1])
                                               THEN NoPid ELSE waiting_for_pid[t]]
  BY ExitEffect
<1>3. /\ Live = 0..(n - 1) /\ Live' = 0..(n - 2) /\ Slots = 0..(MaxTasks - 1)
      /\ MaxTasks \in Nat /\ MaxPid \in Nat /\ Live \subseteq Slots
  BY <1>1, LiveContexts DEF Live, Slots
<1>4. /\ id \in [Slots -> 0..MaxPid + 1] /\ state \in [Slots -> {"running", "waiting"}]
      /\ waiting_for_pid \in [Slots -> 0..MaxPid + 1 \cup {NoPid}]
      /\ next \in [Slots -> Slots \cup {NoSlot}] /\ cr3 \in [Slots -> 0..MaxPid + 1]
      /\ esp \in [Slots -> Contexts \cup {Wild}] /\ cpu \in Contexts
  BY DEF IInv, TypeOK
<1>5. \A s \in 0..(n - 2) : ContextOf(s)' = ContextOf(s)
  BY <1>1, <1>3, <1>4 DEF ContextOf
<1>6. /\ state'[n - 2] = "running"
      /\ \A s \in 0..(n - 3) : /\ state'[s] = state[s]
                               /\ waiting_for_pid'[s] = waiting_for_pid[s]
  <2>1. ASSUME NEW s \in 0..(n - 2), state[s] = "waiting"
        PROVE  waiting_for_pid[s] = id[s + 1]
    <3>1. Chained(s) /\ s \in Live
      BY <1>3, <2>1 DEF IInv
    <3> QED
      BY <1>1, <2>1, <3>1 DEF Chained
  <2>2. ASSUME NEW s \in 0..(n - 3) PROVE s \notin Woken(id[n - 1])
    <3>1. s + 1 \in Live /\ n - 1 \in Live /\ s + 1 < n - 1
      BY <1>1, <1>3
    <3>2. id[s + 1] # id[n - 1]
      <4>1. id[s + 1] < id[n - 1]
        BY <3>1 DEF IInv, PidsInOrder
      <4>2. s + 1 \in Slots /\ n - 1 \in Slots
        BY <1>3, <3>1
      <4>3. id[s + 1] \in 0..(MaxPid + 1) /\ id[n - 1] \in 0..(MaxPid + 1)
        BY <1>4, <4>2
      <4> QED
        BY <1>3, <4>1, <4>3
    <3>3. s \in 0..(n - 2)
      BY <1>1
    <3> QED
      BY <2>1, <3>2, <3>3 DEF Woken
  <2>3. state[n - 2] = "waiting" => n - 2 \in Woken(id[n - 1])
    <3>1. n - 2 \in Live /\ n - 2 \in 0..(n - 2) /\ (n - 2) + 1 = n - 1
      BY <1>1, <1>3
    <3> QED
      BY <2>1, <3>1, LookedIsLive DEF Woken
  <2>4. n - 2 \in Slots /\ \A s \in 0..(n - 3) : s \in Slots
    BY <1>1, <1>3
  <2> QED
    BY <1>2, <1>4, <2>2, <2>3, <2>4
<1>7. TypeOK'
  <2>1. At(cpu.pid, "exit") \in Contexts
    BY <1>3, <1>4 DEF At, Contexts, Places
  <2>2. esp' \in [Slots -> Contexts \cup {Wild}]
    BY <1>1, <1>4, <2>1
  <2>3. cpu' \in Contexts
    <3>1. 0 \in Live /\ 0 # current_task
      BY <1>1, <1>3
    <3> QED
      BY <1>1, <3>1, LiveContexts DEF ContextOf
  <2>4. current_dir' \in 1..(MaxPid + 1)
    BY <1>1, <1>3 DEF IInv, PidsInOrder, Kernel
  <2>5. /\ state' \in [Slots -> {"running", "waiting"}]
        /\ waiting_for_pid' \in [Slots -> 0..MaxPid + 1 \cup {NoPid}]
    BY <1>2, <1>4
  <2>6. next' \in [Slots -> Slots \cup {NoSlot}] /\ current_task' \in Slots
    BY <1>1, <1>3, <1>4
  <2>7. task_count' \in 1..MaxTasks /\ next_pid' \in 2..(MaxPid + 2)
    BY <1>1, <1>3 DEF IInv, TypeOK
  <2> QED
    BY <1>1, <1>4, <2>2, <2>3, <2>4, <2>5, <2>6, <2>7 DEF TypeOK
<1>8. RingInOrder'
  <2>1. \A s \in 0..(n - 2) : next'[s] = IF s = n - 2 THEN 0 ELSE s + 1
    <3>1. \A s \in 0..(n - 2) : s \in Slots /\ (s # n - 2 => next[s] = s + 1)
      BY <1>1, <1>3 DEF IInv, RingInOrder
    <3> QED
      BY <1>1, <1>4, <3>1
  <2>2. task_count' - 1 = n - 2 /\ current_task' \in Live'
    BY <1>1, <1>3
  <2> QED
    BY <1>3, <2>1, <2>2 DEF RingInOrder
<1>9. PidsInOrder'
  BY <1>1, <1>3 DEF IInv, PidsInOrder
<1>10. ContextsAreOwn'
  <2>1. state'[0] = "running"
    <3>1. state[0] = "running"
      BY <1>3, <1>1 DEF IInv, Chained
    <3> QED
      BY <1>1, <1>6, <3>1
  <2>2. \A s \in 0..(n - 2) : ContextOf(s)'.pid = id[s]
    BY <1>3, <1>5 DEF IInv, ContextsAreOwn
  <2> QED
    BY <1>1, <1>3, <2>1, <2>2 DEF ContextsAreOwn
<1>11. OwnAddressSpace'
  <2>1. 0 \in Live /\ 0 # current_task
    BY <1>1, <1>3
  <2>2. esp[0].pid = id[0] /\ cr3[0] = id[0]
    BY <2>1 DEF IInv, ContextsAreOwn, ContextOf, PidsInOrder
  <2> QED
    BY <1>1, <2>2 DEF OwnAddressSpace
<1>12. ASSUME NEW s \in Live' PROVE Chained(s)'
  <2>1. s \in 0..(n - 2) /\ Chained(s)
    BY <1>3 DEF IInv
  <2>2. ContextOf(s)' = ContextOf(s) /\ id' = id /\ task_count' = n - 1
    BY <1>1, <1>5, <2>1
  <2>3. CASE s = n - 2
    BY <1>1, <1>6, <2>1, <2>2, <2>3 DEF Chained
  <2>4. CASE s \in 0..(n - 3)
    <3>1. state'[s] = state[s] /\ waiting_for_pid'[s] = waiting_for_pid[s]
      BY <1>6, <2>4
    <3> QED
      BY <1>1, <2>1, <2>2, <2>4, <3>1 DEF Chained
  <2> QED
    BY <1>1, <2>1, <2>3, <2>4
<1> QED
  BY <1>7, <1>8, <1>9, <1>10, <1>11, <1>12 DEF IInv

-----------------------------------------------------------------------------
(***************************************************************************)
(* Every step keeps IInv, whichever entry of the kernel it takes.          *)
(***************************************************************************)
LEMMA NextKeepsIInv == IInv /\ [Next]_vars => IInv'
<1> SUFFICES ASSUME IInv, [Next]_vars PROVE IInv'
  OBVIOUS
<1>1. /\ cpu \in Contexts /\ MaxPid \in Nat
      /\ next_pid \in Nat
  BY FreeIsLast, LiveContexts DEF IInv, TypeOK
<1>2. CASE Boot
  <2> DEFINE c == At(cpu.pid, "halt")
  <2>1. c \in Contexts /\ c.at = "halt" /\ c.pid = cpu.pid
    BY <1>1 DEF At, Contexts, Places
  <2>2. cpu.at = "boot" /\ current_task = task_count - 1
    BY <1>2, FreeIsLast DEF Boot
  <2>3. SpawnElf(c) \/ SpawnFails(c)
    BY <1>2 DEF Boot
  <2> HIDE DEF c
  <2>4. CASE SpawnElf(c)
    BY <2>1, <2>2, <2>4, SpawnKeepsIInv
  <2>5. CASE SpawnFails(c)
    BY <2>1, <2>2, <2>5, StepKeepsIInv DEF SpawnFails
  <2> QED
    BY <2>3, <2>4, <2>5
<1>3. CASE Tick
  BY <1>3, SwitchKeepsIInv DEF Tick
<1>4. CASE Spawn
  <2> DEFINE c == [At(cpu.pid, "spawned") EXCEPT !.child = next_pid]
  <2>1. next_pid \in 1..MaxPid
    BY <1>4 DEF Spawn, SpawnElf, IInv, TypeOK
  <2>2. /\ c \in Contexts /\ c.at = "spawned" /\ c.pid = cpu.pid /\ c.child = next_pid
    BY <1>1, <2>1 DEF At, Contexts, Places
  <2>3. cpu.at = "user" /\ current_task = task_count - 1 /\ SpawnElf(c)
    BY <1>4, FreeIsLast DEF Spawn, InProgram
  <2> HIDE DEF c
  <2> QED
    BY <2>2, <2>3, SpawnKeepsIInv
<1>5. CASE SpawnRefused
  <2>1. cpu.at = "user" /\ current_task = task_count - 1 /\ current_task > 0
    BY <1>5, FreeIsLast DEF SpawnRefused, InProgram
  <2> QED
    BY <1>1, <1>5, <2>1, StepKeepsIInv DEF SpawnRefused, SpawnFails
<1>6. CASE Wait
  <2>1. cpu.at = "spawned"
    BY <1>6 DEF Wait
  <2>2. CASE WaitpidBlocks(cpu.child)
    BY <2>1, <2>2, BlockKeepsIInv
  <2>3. CASE WaitpidFails(cpu.child, At(cpu.pid, "user"))
    <3> DEFINE c == At(cpu.pid, "user")
    <3>1. c \in Contexts /\ c.at = "user" /\ c.pid = cpu.pid
      BY <1>1 DEF At, Contexts, Places
    <3>2. /\ current_task \in Live /\ current_task > 0
          /\ cpu = ContextOf(current_task) /\ Chained(current_task)
          /\ state[current_task] = "running"
      BY <2>1, FreeIsLast DEF IInv, ContextsAreOwn
    <3>3. \A t \in Live : id[t] # cpu.child
      BY <2>3, LookedIsLive DEF WaitpidFails
    <3>4. current_task = task_count - 1
      <4>1. task_count \in Nat /\ current_task \in 0..(task_count - 1)
        BY <3>2, LiveContexts DEF Live
      <4>2. ASSUME current_task < task_count - 1 PROVE FALSE
        <5>1. current_task + 1 \in Live /\ cpu.child = id[current_task + 1]
          BY <3>2, <4>1, <4>2 DEF Chained, Live
        <5> QED
          BY <3>3, <5>1
      <4> QED
        BY <4>1, <4>2
    <3>5. /\ cpu' = c
          /\ UNCHANGED <<table, esp, task_count, next_pid, current_task, current_dir>>
      BY <2>3 DEF WaitpidFails
    <3> HIDE DEF c
    <3> QED
      BY <3>1, <3>2, <3>4, <3>5, StepKeepsIInv
  <2> QED
    BY <1>6, <2>2, <2>3 DEF Wait
<1>7. CASE WaitpidReturns
  BY <1>7, ReturnKeepsIInv
<1>8. CASE Exit
  BY <1>8, ExitKeepsIInv DEF Exit, InProgram
<1>9. CASE Yield
  BY <1>9, SwitchKeepsIInv DEF Yield, SysYield
<1>10. CASE UNCHANGED vars
  BY <1>10 DEF vars, table, IInv, TypeOK, RingInOrder, PidsInOrder, ContextsAreOwn,
               OwnAddressSpace, ContextOf, Chained, Live
<1> QED
  BY <1>2, <1>3, <1>4, <1>5, <1>6, <1>7, <1>8, <1>9, <1>10 DEF Next

(***************************************************************************)
(* IInv holds in every state the system reaches.                           *)
(***************************************************************************)
THEOREM Invariance == Spec => []IInv
<1>1. InitTasks => IInv
  BY InitIInv
<1>2. IInv /\ [Next]_vars => IInv'
  BY NextKeepsIInv
<1> QED
  BY <1>1, <1>2, PTL DEF Spec

(***************************************************************************)
(* Each field of the table, each saved context and each counter keeps to   *)
(* its range.                                                              *)
(***************************************************************************)
THEOREM TypeCorrectness == Spec => []TypeOK
<1>1. IInv => TypeOK
  BY DEF IInv
<1> QED
  BY <1>1, Invariance, PTL

(***************************************************************************)
(* Whoever runs runs as itself, and so will every process that waits.      *)
(***************************************************************************)
THEOREM RunsAsItself == Spec => []ContextsAreOwn
<1>1. IInv => ContextsAreOwn
  BY DEF IInv
<1> QED
  BY <1>1, Invariance, PTL

(***************************************************************************)
(* Whoever runs sees its own memory: the load of CR3 that a switch skips   *)
(* was never needed (task.c:227).                                          *)
(***************************************************************************)
THEOREM RunsInItsMemory == Spec => []OwnAddressSpace
<1>1. IInv => OwnAddressSpace
  BY DEF IInv
<1> QED
  BY <1>1, Invariance, PTL

(***************************************************************************)
(* The ring is the first task_count entries of the table, so task_alloc    *)
(* never takes an entry that is in use.                                    *)
(***************************************************************************)
THEOREM RingStaysCompact == Spec => []RingIsTablePrefix
<1>1. IInv => RingIsTablePrefix
  <2> SUFFICES ASSUME IInv PROVE RingIsTablePrefix
    OBVIOUS
  <2> DEFINE w == Walk(current_task, next, MaxTasks)
  <2>1. /\ task_count \in 1..MaxTasks /\ MaxTasks \in Nat
        /\ current_task \in 0..(task_count - 1) /\ Live = 0..(task_count - 1)
    BY LiveContexts DEF IInv, RingInOrder, Live
  <2>2. \A k \in 0..MaxTasks : w[k] \in Live
    BY <2>1, RingIsLive
  <2>3. \A k \in 0..MaxTasks : k <= task_count =>
          w[k] = IF current_task + k < task_count THEN current_task + k
                                                  ELSE current_task + k - task_count
    <3>1. \A s \in 0..(task_count - 1) :
            next[s] = IF s = task_count - 1 THEN 0 ELSE s + 1
      BY DEF IInv, RingInOrder, Live
    <3>2. task_count \in Nat /\ MaxTasks \in Nat
      BY <2>1
    <3> QED
      BY <2>1, <3>1, <3>2, RingWalk
  <2> HIDE DEF w
  <2>4. ASSUME NEW s \in Live PROVE \E k \in 0..MaxTasks : w[k] = s
    <3>1. CASE s >= current_task
      <4>1. s - current_task \in 0..MaxTasks /\ w[s - current_task] = s
        BY <2>1, <2>3, <3>1
      <4> QED
        BY <4>1
    <3>2. CASE s < current_task
      <4>1. /\ s - current_task + task_count \in 0..MaxTasks
            /\ w[s - current_task + task_count] = s
        BY <2>1, <2>3, <3>2
      <4> QED
        BY <4>1
    <3> QED
      BY <2>1, <3>1, <3>2
  <2> QED
    BY <2>2, <2>4 DEF RingIsTablePrefix, w
<1> QED
  BY <1>1, Invariance, PTL

(***************************************************************************)
(* A blocked process waits for a process that is live.                     *)
(***************************************************************************)
THEOREM NoWakeupIsLost == Spec => []NoLostWakeup
<1>1. IInv => NoLostWakeup
  <2> SUFFICES ASSUME IInv, NEW s \in Live, state[s] = "waiting"
               PROVE  waiting_for_pid[s] \in LivePids
    BY DEF NoLostWakeup
  <2>1. Chained(s) /\ task_count \in Nat /\ s \in 0..(task_count - 1)
    BY LiveContexts DEF IInv, Live
  <2>2. s + 1 \in Live /\ waiting_for_pid[s] = id[s + 1]
    BY <2>1 DEF Chained, Live
  <2> QED
    BY <2>2 DEF LivePids
<1> QED
  BY <1>1, Invariance, PTL

-----------------------------------------------------------------------------
(***************************************************************************)
(* Proofs that the process table implements Processes, and that a blocked  *)
(* process is woken by one event only, for every size of the table.        *)
(***************************************************************************)

(***************************************************************************)
(* The refinement mapping, entry by entry: PIDs name live entries uniquely.*)
(***************************************************************************)
LEMMA SlotOfPid ==
  ASSUME IInv, NEW s \in Live
  PROVE  /\ SlotOf(id[s]) = s /\ id[s] \in LivePids
         /\ Awaits[id[s]] = IF state[s] = "waiting" THEN waiting_for_pid[s] ELSE 0
<1>1. \A t \in Live : id[t] = id[s] => t = s
  <2>1. \A t \in Live : t \in Nat /\ id[t] \in Nat
    BY LiveContexts DEF IInv, TypeOK, Live, Slots
  <2> QED
    BY <2>1 DEF IInv, PidsInOrder
<1>2. SlotOf(id[s]) = s
  BY <1>1 DEF SlotOf
<1>3. id[s] \in LivePids
  BY DEF LivePids
<1> QED
  BY <1>2, <1>3 DEF Awaits

\* The same after a step.
AwaitsBySlot ==
  \A s \in Live :
    Awaits[id[s]] = IF state[s] = "waiting" THEN waiting_for_pid[s] ELSE 0

LEMMA AwaitsAfter == IInv' => AwaitsBySlot'
<1>1. IInv => AwaitsBySlot
  BY SlotOfPid DEF AwaitsBySlot
<1> QED
  BY <1>1, PTL

(***************************************************************************)
(* A process whose entry is not blocked is ready.                          *)
(***************************************************************************)
LEMMA RunningIsReady ==
  ASSUME IInv
  PROVE  /\ cpu.pid = id[current_task] /\ current_task \in Live
         /\ Awaits[cpu.pid] = 0 /\ cpu.pid \in LivePids
<1>1. current_task \in Live /\ cpu.pid = id[current_task]
  BY FreeIsLast DEF IInv, ContextsAreOwn
<1>2. state[current_task] # "waiting"
  BY DEF IInv, ContextsAreOwn
<1> QED
  BY <1>1, <1>2, SlotOfPid

LEMMA ReadyAfter == IInv' => (Awaits[cpu.pid] = 0 /\ cpu.pid \in LivePids)'
<1>1. IInv => Awaits[cpu.pid] = 0 /\ cpu.pid \in LivePids
  BY RunningIsReady
<1> QED
  BY <1>1, PTL

(***************************************************************************)
(* When the table does not change, neither do the live processes nor what  *)
(* they are blocked on.                                                    *)
(***************************************************************************)
LEMMA SameTable ==
  ASSUME UNCHANGED <<id, state, waiting_for_pid, task_count>>
  PROVE  Live' = Live /\ LivePids' = LivePids /\ Awaits' = Awaits
BY DEF Live, LivePids, Awaits, SlotOf

LEMMA SpawnIsSpawn ==
  ASSUME IInv, IInv', NEW c, SpawnElf(c), c.pid = cpu.pid
  PROVE  Abstract!Spawn
<1> PICK n : n = task_count
  OBVIOUS
<1>1. /\ n \in Nat /\ n > 0 /\ n \in Slots /\ Live = 0..(n - 1) /\ Live' = 0..n
      /\ Live \subseteq Slots
  BY LiveContexts DEF SpawnElf, TaskAlloc, Live, Slots
<1>2. /\ id' = [id EXCEPT ![n] = next_pid]
      /\ state' = [state EXCEPT ![n] = "running"]
      /\ waiting_for_pid' = [waiting_for_pid EXCEPT ![n] = NoPid]
      /\ next_pid' = next_pid + 1 /\ cpu' = c /\ next_pid \in Nat
  BY DEF SpawnElf, TaskAlloc, IInv, TypeOK
<1>3. \A s \in Live : /\ id'[s] = id[s] /\ state'[s] = state[s]
                      /\ waiting_for_pid'[s] = waiting_for_pid[s]
  <2>1. \A s \in Live : s \in Slots /\ s # n
    BY <1>1
  <2> QED
    BY <1>2, <2>1 DEF IInv, TypeOK
<1>4. id'[n] = next_pid /\ state'[n] = "running" /\ n \in Live'
  BY <1>1, <1>2 DEF IInv, TypeOK
<1>5. next_pid' - 1 = next_pid /\ next_pid = (next_pid - 1) + 1
  BY <1>2
<1>6. Live' = Live \cup {n}
  BY <1>1
<1>7. LivePids' = LivePids \cup {next_pid}
  BY <1>3, <1>4, <1>6 DEF LivePids
<1>8. Awaits' = [p \in LivePids' |-> IF p = next_pid THEN 0 ELSE Awaits[p]]
  <2>1. ASSUME NEW p \in LivePids'
        PROVE  Awaits'[p] = IF p = next_pid THEN 0 ELSE Awaits[p]
    <3>1. PICK t \in Live' : p = id'[t]
      BY <2>1 DEF LivePids
    <3>2. Awaits'[id'[t]] = IF state'[t] = "waiting" THEN waiting_for_pid'[t] ELSE 0
      BY <3>1, AwaitsAfter DEF AwaitsBySlot
    <3>3. CASE t = n
      BY <1>4, <3>1, <3>2, <3>3
    <3>4. CASE t \in Live
      <4>1. id[t] < next_pid /\ id[t] \in Nat
        BY <1>1, <3>4, LiveContexts DEF IInv, PidsInOrder, TypeOK
      <4>2. Awaits[id[t]] = IF state[t] = "waiting" THEN waiting_for_pid[t] ELSE 0
        BY <3>4, SlotOfPid
      <4>3. p # next_pid
        BY <1>2, <1>3, <3>1, <3>4, <4>1
      <4> QED
        BY <1>3, <3>1, <3>2, <3>4, <4>2, <4>3
    <3> QED
      BY <1>6, <3>1, <3>3, <3>4
  <2>2. Awaits' = [p \in LivePids' |-> Awaits'[p]]
    BY DEF Awaits
  <2> QED
    BY <2>1, <2>2
<1> QED
  BY <1>2, <1>5, <1>7, <1>8 DEF Abstract!Spawn

LEMMA BlockIsWaitFor ==
  ASSUME IInv, IInv', cpu.at = "spawned", WaitpidBlocks(cpu.child)
  PROVE  \E p \in LivePids : Abstract!WaitFor(p)
<1> PICK me : me = current_task
  OBVIOUS
<1>1. /\ me \in Live /\ me > 0 /\ me \in Slots /\ cpu.pid = id[me]
      /\ cpu = ContextOf(me) /\ Chained(me)
  BY FreeIsLast, LiveContexts, RunningIsReady DEF IInv
<1>2. /\ id' = id /\ task_count' = task_count /\ next_pid' = next_pid
      /\ Live' = Live /\ LivePids' = LivePids
      /\ state' = [state EXCEPT ![me] = "waiting"]
      /\ waiting_for_pid' = [waiting_for_pid EXCEPT ![me] = cpu.child]
  BY DEF WaitpidBlocks, Live, LivePids
<1>3. /\ state'[me] = "waiting" /\ waiting_for_pid'[me] = cpu.child
      /\ \A s \in Live : s # me => /\ state'[s] = state[s]
                                   /\ waiting_for_pid'[s] = waiting_for_pid[s]
  <2>1. Live \subseteq Slots
    BY LiveContexts
  <2> QED
    BY <1>1, <1>2, <2>1 DEF IInv, TypeOK
<1>4. cpu.child \in LivePids \ {cpu.pid}
  <2>1. cpu.child \in LivePids
    BY LookedIsLive DEF WaitpidBlocks, LivePids
  <2>2. cpu.child > id[me]
    BY <1>1 DEF Chained
  <2>3. id[me] \in Nat
    BY <1>1, LiveContexts DEF IInv, TypeOK
  <2> QED
    BY <1>1, <2>1, <2>2, <2>3
<1>5. cpu.pid # Kernel
  <2>1. 0 \in Live /\ 0 < me
    BY <1>1, LiveContexts DEF Live
  <2>2. id[0] < id[me] /\ id[0] = Kernel
    BY <1>1, <2>1 DEF IInv, PidsInOrder
  <2> QED
    BY <1>1, <2>2 DEF Kernel
<1>6. Awaits' = [Awaits EXCEPT ![cpu.pid] = cpu.child]
  <2>1. ASSUME NEW p \in LivePids
        PROVE  Awaits'[p] = IF p = cpu.pid THEN cpu.child ELSE Awaits[p]
    <3>1. PICK t \in Live : p = id[t]
      BY DEF LivePids
    <3>2. /\ Awaits'[p] = IF state'[t] = "waiting" THEN waiting_for_pid'[t] ELSE 0
          /\ Awaits[p] = IF state[t] = "waiting" THEN waiting_for_pid[t] ELSE 0
      BY <1>2, <3>1, AwaitsAfter, SlotOfPid DEF AwaitsBySlot
    <3>3. t = me <=> p = cpu.pid
      BY <1>1, <3>1, SlotOfPid
    <3> QED
      BY <1>3, <3>1, <3>2, <3>3
  <2>2. Awaits' = [p \in LivePids |-> Awaits'[p]]
    BY <1>2 DEF Awaits
  <2>3. Awaits = [p \in LivePids |-> Awaits[p]]
    BY DEF Awaits
  <2> QED
    BY <2>1, <2>2, <2>3
<1>7. cpu'.pid \in Abstract!Ready(Awaits')
  <2>1. (Awaits[cpu.pid] = 0 /\ cpu.pid \in LivePids)'
    BY ReadyAfter
  <2>2. DOMAIN Awaits' = LivePids'
    BY DEF Awaits
  <2> QED
    BY <2>1, <2>2 DEF Abstract!Ready
<1> QED
  BY <1>2, <1>4, <1>5, <1>6, <1>7 DEF Abstract!WaitFor

LEMMA SwitchIsDispatch ==
  ASSUME IInv', UNCHANGED <<id, state, waiting_for_pid, task_count, next_pid>>
  PROVE  Abstract!Dispatch
<1>1. (Awaits[cpu.pid] = 0 /\ cpu.pid \in LivePids)'
  BY ReadyAfter
<1>2. LivePids' = LivePids /\ Awaits' = Awaits /\ DOMAIN Awaits = LivePids
  BY SameTable DEF Awaits
<1> QED
  BY <1>1, <1>2 DEF Abstract!Dispatch, Abstract!Ready

LEMMA ExitIsExit ==
  ASSUME IInv, IInv', cpu.at = "user", SysExit
  PROVE  Abstract!Exit
<1> PICK n \in Nat : n = task_count
  BY LiveContexts
<1>1. /\ n > 1 /\ current_task = n - 1 /\ task_count' = n - 1
      /\ id' = id /\ next_pid' = next_pid
  BY ExitEffect
<1>2. /\ state' = [t \in Slots |-> IF t \in Woken(id[n - 1]) THEN "running"
                                                            ELSE state[t]]
      /\ waiting_for_pid' = [t \in Slots |-> IF t \in Woken(id[n - 1])
                                               THEN NoPid ELSE waiting_for_pid[t]]
  BY ExitEffect
<1>3. /\ Live = 0..(n - 1) /\ Live' = 0..(n - 2) /\ Live \subseteq Slots
      /\ Live = Live' \cup {n - 1} /\ n - 1 \in Live /\ n - 1 \notin Live'
  BY <1>1, LiveContexts DEF Live
<1>4. cpu.pid = id[n - 1]
  BY <1>1, RunningIsReady
<1>5. \A t \in Live' : id[t] # id[n - 1]
  <2>1. \A t \in Live' : t \in Live /\ t # n - 1
    BY <1>3
  <2> QED
    BY <1>3, <2>1, SlotOfPid
<1>6. LivePids' = LivePids \ {cpu.pid}
  BY <1>1, <1>3, <1>4, <1>5 DEF LivePids
<1>7. cpu.pid # Kernel
  <2>1. 0 \in Live' /\ id[0] = Kernel
    BY <1>1, <1>3 DEF IInv, PidsInOrder
  <2> QED
    BY <1>4, <1>5, <2>1
<1>8. Awaits' = [q \in LivePids' |-> IF Awaits[q] = cpu.pid THEN 0 ELSE Awaits[q]]
  <2>1. ASSUME NEW q \in LivePids'
        PROVE  Awaits'[q] = IF Awaits[q] = cpu.pid THEN 0 ELSE Awaits[q]
    <3>1. PICK t \in Live' : q = id'[t]
      BY <2>1 DEF LivePids
    <3>2. Awaits'[q] = IF state'[t] = "waiting" THEN waiting_for_pid'[t] ELSE 0
      BY <3>1, AwaitsAfter DEF AwaitsBySlot
    <3>3. /\ t \in Live /\ t \in Slots /\ q = id[t]
          /\ Awaits[q] = IF state[t] = "waiting" THEN waiting_for_pid[t] ELSE 0
      BY <1>1, <1>3, <3>1, SlotOfPid
    <3>4. t \in Woken(id[n - 1]) <=>
            state[t] = "waiting" /\ waiting_for_pid[t] = id[n - 1]
      BY <3>3, LookedIsLive DEF Woken
    <3>5. id[n - 1] # 0
      <4>1. cpu.pid \in 1..(MaxPid + 1) /\ MaxPid \in Nat
        BY FreeIsLast, LiveContexts DEF Contexts
      <4> QED
        BY <1>4, <4>1
    <3>6. CASE t \in Woken(id[n - 1])
      BY <1>2, <1>4, <3>2, <3>3, <3>4, <3>6
    <3>7. CASE t \notin Woken(id[n - 1])
      <4>1. state'[t] = state[t] /\ waiting_for_pid'[t] = waiting_for_pid[t]
        BY <1>2, <3>3, <3>7
      <4>2. Awaits[q] # cpu.pid
        BY <1>4, <3>3, <3>4, <3>5, <3>7
      <4> QED
        BY <3>2, <3>3, <4>1, <4>2
    <3> QED
      BY <3>6, <3>7
  <2>2. Awaits' = [q \in LivePids' |-> Awaits'[q]]
    BY DEF Awaits
  <2> QED
    BY <2>1, <2>2
<1>9. cpu'.pid \in Abstract!Ready(Awaits')
  <2>1. (Awaits[cpu.pid] = 0 /\ cpu.pid \in LivePids)'
    BY ReadyAfter
  <2>2. DOMAIN Awaits' = LivePids'
    BY DEF Awaits
  <2> QED
    BY <2>1, <2>2 DEF Abstract!Ready
<1> QED
  BY <1>1, <1>6, <1>7, <1>8, <1>9 DEF Abstract!Exit

LEMMA InitIsInit == InitTasks => Abstract!Init
<1> SUFFICES ASSUME InitTasks PROVE Abstract!Init
  OBVIOUS
<1>1. IInv
  BY InitIInv
<1>2. Live = {0} /\ id[0] = Kernel /\ state[0] = "running" /\ LivePids = {Kernel}
  BY TasksAssumption DEF InitTasks, Live, Slots, LivePids
<1>3. Awaits[Kernel] = 0
  BY <1>1, <1>2, SlotOfPid
<1>4. Awaits = [p \in {Kernel} |-> 0]
  BY <1>2, <1>3 DEF Awaits
<1>5. cpu.pid = Kernel /\ next_pid - 1 = Kernel
  BY DEF InitTasks, At, Kernel
<1> QED
  BY <1>2, <1>4, <1>5 DEF Abstract!Init

(***************************************************************************)
(* Every step of the kernel is a step of Processes, or none.               *)
(***************************************************************************)
LEMMA NextIsNext == IInv /\ IInv' /\ [Next]_vars => [Abstract!Next]_(Abstract!pvars)
<1> SUFFICES ASSUME IInv, IInv', [Next]_vars
             PROVE  Abstract!Next \/ UNCHANGED Abstract!pvars
  OBVIOUS
<1>1. CASE Boot
  <2>1. At(cpu.pid, "halt").pid = cpu.pid
    BY DEF At
  <2>2. CASE SpawnElf(At(cpu.pid, "halt"))
    BY <2>1, <2>2, SpawnIsSpawn DEF Abstract!Next
  <2>3. CASE SpawnFails(At(cpu.pid, "halt"))
    <3>1. UNCHANGED <<id, state, waiting_for_pid, task_count, next_pid>>
      BY <2>3 DEF SpawnFails, table
    <3> QED
      BY <3>1, SwitchIsDispatch DEF Abstract!Next
  <2> QED
    BY <1>1, <2>2, <2>3 DEF Boot
<1>2. CASE Tick \/ Yield \/ SpawnRefused
  <2>1. UNCHANGED <<id, state, waiting_for_pid, task_count, next_pid>>
    BY <1>2 DEF Tick, Yield, SysYield, SpawnRefused, SpawnFails, table
  <2> QED
    BY <2>1, SwitchIsDispatch DEF Abstract!Next
<1>3. CASE Spawn
  <2>1. [At(cpu.pid, "spawned") EXCEPT !.child = next_pid].pid = cpu.pid
    BY DEF At
  <2> QED
    BY <1>3, <2>1, SpawnIsSpawn DEF Spawn, Abstract!Next
<1>4. CASE Wait
  <2>1. CASE WaitpidBlocks(cpu.child)
    BY <1>4, <2>1, BlockIsWaitFor DEF Wait, Abstract!Next
  <2>2. CASE WaitpidFails(cpu.child, At(cpu.pid, "user"))
    <3>1. UNCHANGED <<id, state, waiting_for_pid, task_count, next_pid>>
      BY <2>2 DEF WaitpidFails, table
    <3> QED
      BY <3>1, SwitchIsDispatch DEF Abstract!Next
  <2> QED
    BY <1>4, <2>1, <2>2 DEF Wait
<1>5. CASE WaitpidReturns
  <2>1. cpu.me = current_task /\ state[current_task] = "running"
    BY <1>5, FreeIsLast DEF IInv, Chained, ContextsAreOwn, WaitpidReturns
  <2>2. state' = state
    BY <1>5, <2>1 DEF WaitpidReturns, IInv, TypeOK
  <2>3. UNCHANGED <<id, state, waiting_for_pid, task_count, next_pid>>
    BY <1>5, <2>2 DEF WaitpidReturns
  <2> QED
    BY <2>3, SwitchIsDispatch DEF Abstract!Next
<1>6. CASE Exit
  BY <1>6, ExitIsExit DEF Exit, InProgram, Abstract!Next
<1>7. CASE UNCHANGED vars
  <2>1. UNCHANGED <<id, state, waiting_for_pid, task_count, next_pid, cpu>>
    BY <1>7 DEF vars, table
  <2> QED
    BY <2>1, SameTable DEF Abstract!pvars
<1> QED
  BY <1>1, <1>2, <1>3, <1>4, <1>5, <1>6, <1>7 DEF Next

(***************************************************************************)
(* The process table, the ring and the saved contexts implement Processes. *)
(***************************************************************************)
THEOREM Refinement == Spec => ImplementsProcesses
<1>1. InitTasks => Abstract!Init
  BY InitIsInit
<1>2. IInv /\ IInv' /\ [Next]_vars => [Abstract!Next]_(Abstract!pvars)
  BY NextIsNext
<1> QED
  BY <1>1, <1>2, Invariance, PTL DEF Spec, Abstract!Spec, ImplementsProcesses

(***************************************************************************)
(* Only the exit of the process it waits for makes a blocked process ready.*)
(***************************************************************************)
THEOREM OnlyExitWakes == Spec => WokenOnlyByExit
<1> DEFINE A == \A s \in Live : state[s] = "waiting" /\ state'[s] = "running"
                  => waiting_for_pid[s] \in LivePids \ {id'[t] : t \in Live'}
<1>1. ASSUME IInv, [Next]_vars, ~ A PROVE FALSE
  <2>1. PICK s \in Live :
          /\ state[s] = "waiting" /\ state'[s] = "running"
          /\ waiting_for_pid[s] \notin LivePids \ {id'[t] : t \in Live'}
    BY <1>1
  <2>2. s \in Slots /\ task_count \in Nat /\ s < task_count
    BY <1>1, LiveContexts DEF Live
  <2>3. state' # state
    BY <2>1
  <2>4. CASE Exit
    <3> PICK n \in Nat : n = task_count
      BY <2>2
    <3>1. /\ n > 1 /\ current_task = n - 1 /\ task_count' = n - 1 /\ id' = id
          /\ state' = [t \in Slots |-> IF t \in Woken(id[n - 1]) THEN "running"
                                                                ELSE state[t]]
      BY <1>1, <2>4, ExitEffect DEF Exit, InProgram
    <3>2. waiting_for_pid[s] = id[n - 1]
      BY <2>1, <2>2, <3>1 DEF Woken
    <3>3. n - 1 \in Live /\ \A t \in Live' : t \in Live /\ t # n - 1
      BY <3>1 DEF Live
    <3>4. \A t \in Live' : id'[t] # id[n - 1]
      BY <1>1, <3>1, <3>3, SlotOfPid
    <3> QED
      BY <2>1, <3>2, <3>3, <3>4 DEF LivePids
  <2>5. CASE WaitpidReturns
    <3>1. cpu.me = current_task /\ state[current_task] = "running"
      BY <1>1, <2>5, FreeIsLast DEF IInv, Chained, ContextsAreOwn, WaitpidReturns
    <3> QED
      BY <1>1, <2>3, <2>5, <3>1 DEF WaitpidReturns, IInv, TypeOK
  <2>6. CASE Wait
    <3>1. state' = state \/ state' = [state EXCEPT ![current_task] = "waiting"]
      BY <2>6 DEF Wait, WaitpidFails, WaitpidBlocks, table
    <3> QED
      BY <1>1, <2>1, <2>2, <3>1 DEF IInv, TypeOK
  <2>7. CASE Boot \/ Spawn
    <3>1. state' = state \/ state' = [state EXCEPT ![task_count] = "running"]
      BY <2>7 DEF Boot, Spawn, SpawnElf, SpawnFails, TaskAlloc, table
    <3> QED
      BY <1>1, <2>1, <2>2, <3>1 DEF IInv, TypeOK
  <2>8. CASE Tick \/ Yield \/ SpawnRefused \/ UNCHANGED vars
    BY <2>3, <2>8 DEF Tick, Yield, SysYield, SpawnRefused, SpawnFails, vars, table
  <2> QED
    BY <1>1, <2>4, <2>5, <2>6, <2>7, <2>8 DEF Next
<1>2. IInv /\ [Next]_vars => [A]_vars
  BY <1>1
<1> QED
  BY <1>2, Invariance, PTL DEF Spec, WokenOnlyByExit
=============================================================================
