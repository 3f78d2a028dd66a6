---------------------------- MODULE SchedProofs ----------------------------
(***************************************************************************)
(* Proofs about the scheduler, for any number of CPUs and any tasks: its   *)
(* types, its queues, and, for tasks of which those that sleep are pinned, *)
(* as the user task of kernel_main is, that it neither runs a task twice   *)
(* nor loses one, that the sleep list is exact, that pinned tasks are safe *)
(* from preemption and that a sleep never ends early.                      *)
(***************************************************************************)
EXTENDS Sched, Iteration, SequenceTheorems, TLAPS

USE SchedAssumption DEF CPU, Bsp

-----------------------------------------------------------------------------
(* Typing.                                                                 *)

\* A task queued by ready_enqueue leaves queues of tasks and typed fields.
LEMMA EnqueueType ==
  ASSUME TypeOK, NEW c \in CPU, NEW t \in Task, ready_enqueue(c, t)
  PROVE  /\ g_rq' \in [CPU -> Seq(Task)]
         /\ on_ready' \in [Task -> BOOLEAN]
         /\ cpu' \in [Task -> CPU]
<1>1. Append(g_rq[c], t) \in Seq(Task)
  <2>1. g_rq[c] \in Seq(Task)
    BY DEF TypeOK
  <2> QED
    BY <2>1, AppendProperties
<1>2. CASE on_ready[t]
  BY <1>2 DEF TypeOK, ready_enqueue, queueVars
<1>3. CASE ~on_ready[t]
  <2>1. /\ g_rq' = [g_rq EXCEPT ![c] = Append(g_rq[c], t)]
        /\ on_ready' = [on_ready EXCEPT ![t] = TRUE]
        /\ cpu' = [cpu EXCEPT ![t] = c]
    BY <1>3 DEF ready_enqueue
  <2>2. g_rq' \in [CPU -> Seq(Task)]
    BY <1>1, <2>1 DEF TypeOK
  <2>3. on_ready' \in [Task -> BOOLEAN]
    BY <2>1 DEF TypeOK
  <2>4. cpu' \in [Task -> CPU]
    BY <2>1 DEF TypeOK
  <2> QED
    BY <2>2, <2>3, <2>4
<1> QED
  BY <1>2, <1>3

\* So does taking the head of a queue.
LEMMA DequeueType ==
  ASSUME TypeOK, NEW c \in CPU, NEW v \in CPU, g_rq[v] # <<>>,
         ready_dequeue(c, v)
  PROVE  /\ g_rq' \in [CPU -> Seq(Task)]
         /\ on_ready' \in [Task -> BOOLEAN]
         /\ cpu' \in [Task -> CPU]
         /\ next' \in [CPU -> Task \cup {Idle, Null}]
         /\ next'[c] \in Task
<1>1. Tail(g_rq[v]) \in Seq(Task) /\ Head(g_rq[v]) \in Task
  <2>1. g_rq[v] \in Seq(Task)
    BY DEF TypeOK
  <2> QED
    BY <2>1, HeadTailProperties
<1> QED
  BY <1>1 DEF TypeOK, ready_dequeue

\* The CPU chosen for a new task exists.
LEMMA CreateTargetType ==
  ASSUME TypeOK, NEW c \in CPU, NEW t \in Task
  PROVE  create_target(c, t) \in CPU
<1>1. ASSUME NEW n \in Int PROVE n % NCpus \in CPU
  BY <1>1
<1>2. pick_create_cpu(c) \in CPU
  <2> DEFINE Online(i) == g_current[(g_rr_create + i) % NCpus] # Null
             first == {i \in CPU : Online(i) /\ \A j \in 0 .. i-1 : ~Online(j)}
  <2>1. CASE first = {}
    BY <2>1 DEF pick_create_cpu
  <2>2. CASE first # {}
    <3>1. (CHOOSE i \in first : TRUE) \in first
      BY <2>2, Zenon
    <3>2. (CHOOSE i \in first : TRUE) \in CPU
      BY <3>1
    <3>3. pick_create_cpu(c) = (g_rr_create + CHOOSE i \in first : TRUE) % NCpus
      BY <2>2 DEF pick_create_cpu
    <3> HIDE DEF first
    <3>4. g_rr_create + (CHOOSE i \in first : TRUE) \in Int
      BY <3>2 DEF TypeOK
    <3> QED
      BY <3>3, <3>4, <1>1
  <2> QED
    BY <2>1, <2>2
<1> QED
  BY <1>2 DEF create_target

\* The locals of the code CPU c is in the middle of: what its next step
\* dereferences is there.
CpuCodeInv(c) ==
  /\ pc[c] # "off" => g_current[c] # Null
  /\ pc[c] = "requeue" => g_current[c] \in Task
  /\ pc[c] = "install" => next[c] # Null
  /\ pc[c] = "sleep_cs" => stk[c] \in Task /\ tpc[stk[c]] = "sleep_lock"

\* The same for what task t holds in a register.
LocInv(t) ==
  /\ tpc[t] \in {"boot_cur", "sleep_cur"} =>
       loc[t] \in CPU /\ pc[loc[t]] # "off"
  /\ tpc[t] = "sleep_lock" => loc[t] \in Task

CodeInv == (\A c \in CPU : CpuCodeInv(c)) /\ (\A t \in Task : LocInv(t))

\* The inductive invariant behind typing and the lock.
BaseInv == TypeOK /\ LockDiscipline /\ CodeInv

\* The initial state satisfies it.
LEMMA InitBase == Init => BaseInv
<1> SUFFICES ASSUME Init PROVE BaseInv
  OBVIOUS
<1>1. <<>> \in Seq(Task)
  OBVIOUS
<1>2. TypeOK
  BY <1>1 DEF Init, TypeOK, CpuLocs, TaskLocs
<1>3. LockDiscipline /\ CodeInv
  BY DEF Init, LockDiscipline, CodeInv, CpuCodeInv, LocInv
<1> QED
  BY <1>2, <1>3 DEF BaseInv

\* A step of a handler on CPU c leaves the locals of everyone else alone.
LEMMA CodeStep ==
  ASSUME TypeOK, CodeInv, NEW c \in CPU, NEW l \in CpuLocs \ {"off"},
         Goto(c, l), UNCHANGED <<tpc, loc>>,
         \A d \in CPU \ {c} : /\ g_current'[d] = g_current[d]
                              /\ next'[d] = next[d]
                              /\ stk'[d] = stk[d],
         CpuCodeInv(c)'
  PROVE  CodeInv'
<1>1. ASSUME NEW d \in CPU PROVE CpuCodeInv(d)'
  <2>1. CASE d = c
    BY <2>1
  <2>2. CASE d # c
    <3>1. CpuCodeInv(d)
      BY DEF CodeInv
    <3>2. pc'[d] = pc[d]
      BY <2>2 DEF TypeOK, Goto
    <3>3. g_current'[d] = g_current[d] /\ next'[d] = next[d] /\ stk'[d] = stk[d] /\ tpc' = tpc
      BY <2>2
    <3> QED
      BY <3>1, <3>2, <3>3, Zenon DEF CpuCodeInv
  <2> QED
    BY <2>1, <2>2
<1>2. ASSUME NEW t \in Task PROVE LocInv(t)'
  BY DEF TypeOK, CodeInv, LocInv, Goto
<1> QED
  BY <1>1, <1>2 DEF CodeInv

\* A step that neither enters nor leaves a critical section keeps the lock.
LEMMA LockStep ==
  ASSUME TypeOK, LockDiscipline, NEW c \in CPU, NEW l \in CpuLocs,
         Goto(c, l), UNCHANGED g_sched_lock,
         pc[c] \notin {"sleep_cs", "wake"}, l \notin {"sleep_cs", "wake"}
  PROVE  LockDiscipline'
BY DEF TypeOK, LockDiscipline, Goto

\* Typing and code positions over a step of sched_cpu_init.
LEMMA Base_sched_cpu_init ==
  ASSUME BaseInv, NEW c \in CPU, sched_cpu_init(c) PROVE BaseInv'
<1> USE DEF BaseInv, sched_cpu_init, taskVars, fieldVars, queueVars
<1>1. TypeOK'
  BY DEF TypeOK, CpuLocs, Goto
<1>2. LockDiscipline'
  BY LockStep DEF CpuLocs
<1>3. CpuCodeInv(c)'
  BY DEF TypeOK, CpuCodeInv, Goto
<1>4. CodeInv'
  BY <1>3, CodeStep DEF TypeOK, CpuLocs
<1> QED
  BY <1>1, <1>2, <1>4

\* Typing and code positions over a step of kernel_main_sti.
LEMMA Base_kernel_main_sti ==
  ASSUME BaseInv, kernel_main_sti PROVE BaseInv'
<1> USE DEF BaseInv, kernel_main_sti, taskVars, fieldVars, queueVars, cpuVars
<1>1. TypeOK'
  BY DEF TypeOK, CpuLocs, Goto
<1>2. LockDiscipline'
  BY LockStep DEF CpuLocs
<1>3. CpuCodeInv(Bsp)'
  BY DEF TypeOK, CodeInv, CpuCodeInv, Goto
<1>4. Bsp \in CPU /\ "task" \in CpuLocs \ {"off"}
  BY DEF CpuLocs
<1> HIDE DEF Bsp, CPU
<1>5. CodeInv'
  BY <1>3, <1>4, CodeStep
<1> QED
  BY <1>1, <1>2, <1>5

\* Typing and code positions over a step of handler_timer.
LEMMA Base_handler_timer ==
  ASSUME BaseInv, NEW c \in CPU, handler_timer(c) PROVE BaseInv'
<1> USE DEF BaseInv, handler_timer, irq_enabled, taskVars, fieldVars,
            queueVars, cpuVars
<1>1. jiffies' \in Nat
  BY DEF TypeOK, tick
<1>2. TypeOK'
  BY <1>1 DEF TypeOK, CpuLocs, Goto
<1>3. LockDiscipline'
  BY LockStep DEF CpuLocs
<1>4. CpuCodeInv(c)'
  BY DEF TypeOK, CodeInv, CpuCodeInv, Goto
<1>5. CodeInv'
  BY <1>4, CodeStep DEF TypeOK, CpuLocs
<1> QED
  BY <1>2, <1>3, <1>5

\* Typing and code positions over a step of wake_lock.
LEMMA Base_wake_lock ==
  ASSUME BaseInv, NEW c \in CPU, wake_lock(c) PROVE BaseInv'
<1> USE DEF BaseInv, wake_lock, taskVars, fieldVars, queueVars, cpuVars
<1>1. TypeOK'
  BY DEF TypeOK, CpuLocs, Goto, spin_lock
<1>2. LockDiscipline'
  BY DEF TypeOK, LockDiscipline, Goto, spin_lock
<1>3. CpuCodeInv(c)'
  BY DEF TypeOK, CodeInv, CpuCodeInv, Goto
<1>4. CodeInv'
  BY <1>3, CodeStep DEF TypeOK, CpuLocs
<1> QED
  BY <1>1, <1>2, <1>4

\* Typing and code positions over a step of wake_done.
LEMMA Base_wake_done ==
  ASSUME BaseInv, NEW c \in CPU, wake_done(c) PROVE BaseInv'
<1> USE DEF BaseInv, wake_done, taskVars, fieldVars, queueVars
<1>1. TypeOK'
  <2>1. pos' \in [CPU -> Nat \ {0}] /\ pc' \in [CPU -> CpuLocs]
    BY DEF TypeOK, CpuLocs, Goto
  <2> QED
    BY <2>1 DEF TypeOK
<1>2. LockDiscipline'
  BY DEF TypeOK, LockDiscipline, Goto
<1>3. CpuCodeInv(c)'
  BY DEF TypeOK, CodeInv, CpuCodeInv, Goto
<1>4. CodeInv'
  BY <1>3, CodeStep DEF TypeOK, CpuLocs
<1> QED
  BY <1>1, <1>2, <1>4

\* What sched_out does to the fields, by the kind of task it leaves.
LEMMA SchedOutCases ==
  ASSUME TypeOK, CodeInv, NEW c \in CPU, sched_out(c)
  PROVE  \/ /\ g_current[c] = Idle
            /\ Goto(c, "pick")
            /\ UNCHANGED on_cpu
         \/ /\ g_current[c] \in Task
            /\ g_sched_lock = Null
            /\ on_cpu' = [on_cpu EXCEPT ![g_current[c]] = FALSE]
            /\ state[g_current[c]] = "READY"
            /\ Goto(c, "requeue")
         \/ /\ g_current[c] \in Task
            /\ g_sched_lock = Null
            /\ on_cpu' = [on_cpu EXCEPT ![g_current[c]] = FALSE]
            /\ state[g_current[c]] = "SLEEPING"
            /\ Goto(c, "pick")
<1>1. g_current[c] \in Task \cup {Idle}
  BY DEF TypeOK, CodeInv, CpuCodeInv, sched_out
<1>2. CASE g_current[c] = Idle
  BY <1>2 DEF sched_out
<1>3. CASE g_current[c] \in Task
  <2>1. /\ g_sched_lock = Null
        /\ on_cpu' = [on_cpu EXCEPT ![g_current[c]] = FALSE]
        /\ Goto(c, IF state[g_current[c]] = "READY" THEN "requeue" ELSE "pick")
    BY <1>3 DEF sched_out
  <2>2. state[g_current[c]] \in {"READY", "SLEEPING"}
    BY <1>3 DEF TypeOK
  <2>3. CASE state[g_current[c]] = "READY"
    BY <1>3, <2>1, <2>3
  <2>4. CASE state[g_current[c]] = "SLEEPING"
    BY <1>3, <2>1, <2>4
  <2> QED
    BY <2>2, <2>3, <2>4
<1> QED
  BY <1>1, <1>2, <1>3

\* Typing and code positions over a step of sched_out.
LEMMA Base_sched_out ==
  ASSUME BaseInv, NEW c \in CPU, sched_out(c) PROVE BaseInv'
<1> USE DEF BaseInv
<1>0. /\ pc[c] = "sched"
      /\ UNCHANGED <<taskVars, state, wake_jiffies, queueVars, cpuVars,
                     g_sleep, g_sched_lock, g_rr_create, jiffies>>
  BY DEF sched_out
<1>1. PICK l \in {"requeue", "pick"} :
        /\ Goto(c, l)
        /\ l = "requeue" => g_current[c] \in Task
        /\ \/ UNCHANGED on_cpu
           \/ /\ g_current[c] \in Task
              /\ on_cpu' = [on_cpu EXCEPT ![g_current[c]] = FALSE]
  BY SchedOutCases
<1>2. on_cpu' \in [Task -> BOOLEAN]
  BY <1>1 DEF TypeOK
<1>3. TypeOK'
  BY <1>0, <1>1, <1>2
     DEF TypeOK, CpuLocs, Goto, taskVars, queueVars, cpuVars
<1>4. LockDiscipline'
  BY <1>0, <1>1, LockStep DEF CpuLocs
<1>5. CpuCodeInv(c)'
  BY <1>0, <1>1 DEF TypeOK, CodeInv, CpuCodeInv, Goto, cpuVars
<1>6. CodeInv'
  BY <1>0, <1>1, <1>5, CodeStep DEF TypeOK, CpuLocs, cpuVars, taskVars
<1> QED
  BY <1>3, <1>4, <1>6

\* Typing and code positions over a step of sched_idle.
LEMMA Base_sched_idle ==
  ASSUME BaseInv, NEW c \in CPU, sched_idle(c) PROVE BaseInv'
<1> USE DEF BaseInv, sched_idle, taskVars, fieldVars, queueVars
<1>1. TypeOK'
  BY DEF TypeOK, CpuLocs, Goto
<1>2. LockDiscipline'
  BY LockStep DEF CpuLocs
<1>3. CpuCodeInv(c)'
  BY DEF TypeOK, CodeInv, CpuCodeInv, Goto
<1>4. CodeInv'
  BY <1>3, CodeStep DEF TypeOK, CpuLocs
<1> QED
  BY <1>1, <1>2, <1>4

\* Typing and code positions over a step of sched_install.
LEMMA Base_sched_install ==
  ASSUME BaseInv, NEW c \in CPU, sched_install(c) PROVE BaseInv'
<1> USE DEF BaseInv
<1>0. next[c] \in Task \cup {Idle}
  BY DEF TypeOK, CodeInv, CpuCodeInv, sched_install
<1>1. on_cpu' \in [Task -> BOOLEAN] /\ cpu' \in [Task -> CPU]
  <2>1. CASE next[c] = Idle
    BY <2>1 DEF TypeOK, sched_install
  <2>2. CASE next[c] # Idle
    <3>1. /\ on_cpu' = [on_cpu EXCEPT ![next[c]] = TRUE]
          /\ cpu' = [cpu EXCEPT ![next[c]] = c]
      BY <2>2 DEF sched_install
    <3> QED
      BY <1>0, <3>1 DEF TypeOK
  <2> QED
    BY <2>1, <2>2
<1> USE DEF sched_install, taskVars
<1>2. TypeOK'
  BY <1>0, <1>1 DEF TypeOK, CpuLocs, Goto
<1>3. LockDiscipline'
  BY LockStep DEF CpuLocs
<1>4. CpuCodeInv(c)'
  BY <1>0 DEF TypeOK, CodeInv, CpuCodeInv, Goto
<1>5. CodeInv'
  BY <1>4, CodeStep DEF TypeOK, CpuLocs
<1> QED
  BY <1>2, <1>3, <1>5

\* Typing and code positions over a step of iret.
LEMMA Base_iret ==
  ASSUME BaseInv, NEW c \in CPU, iret(c) PROVE BaseInv'
<1> USE DEF BaseInv, iret, taskVars, fieldVars, queueVars
<1>1. TypeOK'
  BY DEF TypeOK, CodeInv, CpuCodeInv, CpuLocs, Goto
<1>2. LockDiscipline'
  BY LockStep DEF CpuLocs
<1>3. CpuCodeInv(c)'
  BY DEF TypeOK, CodeInv, CpuCodeInv, Goto
<1>4. CodeInv'
  BY <1>3, CodeStep DEF TypeOK, CpuLocs
<1> QED
  BY <1>1, <1>2, <1>4

\* What wake_step does, by whether the task it looks at is due.
LEMMA WakeStepCases ==
  ASSUME TypeOK, NEW c \in CPU, wake_step(c)
  PROVE  /\ g_sleep[pos[c]] \in Task
         /\ pos[c] \in 1 .. Len(g_sleep)
         /\ \/ /\ wake_due(g_sleep[pos[c]])
               /\ g_sleep' = RemoveAt(g_sleep, pos[c])
               /\ state' = [state EXCEPT ![g_sleep[pos[c]]] = "READY"]
               /\ wake_enqueue(g_sleep[pos[c]])
               /\ UNCHANGED pos
            \/ /\ pos' = [pos EXCEPT ![c] = pos[c] + 1]
               /\ UNCHANGED <<g_sleep, state, queueVars>>
<1>1. pos[c] \in 1 .. Len(g_sleep)
  BY DEF TypeOK, wake_step
<1>2. g_sleep[pos[c]] \in Task
  BY <1>1 DEF TypeOK
<1>3. CASE wake_due(g_sleep[pos[c]])
  BY <1>1, <1>2, <1>3 DEF wake_step, wake_unlink
<1>4. CASE ~wake_due(g_sleep[pos[c]])
  BY <1>1, <1>2, <1>4 DEF wake_step
<1> QED
  BY <1>3, <1>4

\* Moving on in a list keeps pos positive.
LEMMA PosNextType ==
  ASSUME TypeOK, NEW c \in CPU, pos' = [pos EXCEPT ![c] = pos[c] + 1]
  PROVE  pos' \in [CPU -> Nat \ {0}]
<1>1. pos[c] + 1 \in Nat \ {0}
  BY DEF TypeOK
<1> QED
  BY <1>1 DEF TypeOK

\* Typing and code positions over a step of wake_step.
LEMMA Base_wake_step ==
  ASSUME BaseInv, NEW c \in CPU, wake_step(c) PROVE BaseInv'
<1> USE DEF BaseInv
<1> DEFINE t == g_sleep[pos[c]]
<1>0. UNCHANGED <<taskVars, wake_jiffies, on_cpu, g_current, stk, next,
                  g_sched_lock, g_rr_create, jiffies, pc>>
  BY DEF wake_step
<1>1. /\ g_sleep' \in Seq(Task)
      /\ state' \in [Task -> {"READY", "SLEEPING"}]
      /\ pos' \in [CPU -> Nat \ {0}]
      /\ g_rq' \in [CPU -> Seq(Task)]
      /\ on_ready' \in [Task -> BOOLEAN]
      /\ cpu' \in [Task -> CPU]
  <2>1. CASE /\ g_sleep' = RemoveAt(g_sleep, pos[c])
             /\ state' = [state EXCEPT ![t] = "READY"]
             /\ wake_enqueue(t)
             /\ UNCHANGED pos
    <3>1. t \in Task /\ pos[c] \in 1 .. Len(g_sleep)
      BY WakeStepCases
    <3>2. g_sleep' \in Seq(Task)
      <4>1. g_sleep \in Seq(Task)
        BY DEF TypeOK
      <4> QED
        BY <2>1, <3>1, <4>1, RemoveAtProperties
    <3>3. /\ g_rq' \in [CPU -> Seq(Task)]
          /\ on_ready' \in [Task -> BOOLEAN]
          /\ cpu' \in [Task -> CPU]
      <4>1. CASE on_cpu[t]
        BY <2>1, <4>1 DEF TypeOK, wake_enqueue, queueVars
      <4>2. CASE ~on_cpu[t]
        <5>1. cpu[t] \in CPU
          BY <3>1 DEF TypeOK
        <5>2. ready_enqueue(cpu[t], t)
          BY <2>1, <4>2 DEF wake_enqueue
        <5> HIDE DEF t, CPU
        <5> QED
          BY <3>1, <5>1, <5>2, EnqueueType
      <4> QED
        BY <4>1, <4>2
    <3>4. state' \in [Task -> {"READY", "SLEEPING"}] /\ pos' \in [CPU -> Nat \ {0}]
      BY <2>1, <3>1 DEF TypeOK
    <3> QED
      BY <3>2, <3>3, <3>4
  <2>2. CASE /\ pos' = [pos EXCEPT ![c] = pos[c] + 1]
             /\ UNCHANGED <<g_sleep, state, queueVars>>
    <3>1. pos' \in [CPU -> Nat \ {0}]
      BY <2>2, PosNextType
    <3> QED
      BY <2>2, <3>1 DEF TypeOK, queueVars
  <2> QED
    BY <2>1, <2>2, WakeStepCases
<1>2. TypeOK'
  BY <1>0, <1>1 DEF TypeOK, taskVars
<1>3. LockDiscipline'
  BY <1>0 DEF LockDiscipline
<1>4. CodeInv'
  BY <1>0 DEF CodeInv, CpuCodeInv, LocInv, taskVars
<1> QED
  BY <1>2, <1>3, <1>4

\* Typing and code positions over a step of sched_requeue.
LEMMA Base_sched_requeue ==
  ASSUME BaseInv, NEW c \in CPU, sched_requeue(c) PROVE BaseInv'
<1> USE DEF BaseInv, sched_requeue, taskVars, fieldVars, cpuVars
<1>0. g_current[c] \in Task
  BY DEF CodeInv, CpuCodeInv
<1>1. /\ g_rq' \in [CPU -> Seq(Task)]
      /\ on_ready' \in [Task -> BOOLEAN]
      /\ cpu' \in [Task -> CPU]
  BY <1>0, EnqueueType
<1>2. TypeOK'
  BY <1>1 DEF TypeOK, CpuLocs, Goto
<1>3. LockDiscipline'
  BY LockStep DEF CpuLocs
<1>4. CpuCodeInv(c)'
  BY DEF TypeOK, CodeInv, CpuCodeInv, Goto
<1>5. CodeInv'
  BY <1>4, CodeStep DEF TypeOK, CpuLocs
<1> QED
  BY <1>2, <1>3, <1>5

\* Typing and code positions over a step of sched_pick.
LEMMA Base_sched_pick ==
  ASSUME BaseInv, NEW c \in CPU, sched_pick(c) PROVE BaseInv'
<1> USE DEF BaseInv
<1>0. /\ pc[c] = "pick"
      /\ UNCHANGED <<taskVars, fieldVars, g_current, stk, pos,
                     g_sleep, g_sched_lock, g_rr_create, jiffies>>
  BY DEF sched_pick
<1>1. PICK l \in {"install", "steal"} :
        /\ Goto(c, l)
        /\ g_rq' \in [CPU -> Seq(Task)]
        /\ on_ready' \in [Task -> BOOLEAN]
        /\ cpu' \in [Task -> CPU]
        /\ next' \in [CPU -> Task \cup {Idle, Null}]
        /\ l = "install" => next'[c] # Null
        /\ \A d \in CPU \ {c} : next'[d] = next[d]
  <2>1. CASE g_rq[c] # <<>>
    <3>1. Goto(c, "install") /\ ready_dequeue(c, c)
      BY <2>1 DEF sched_pick
    <3>2. \A d \in CPU \ {c} : next'[d] = next[d]
      BY <3>1 DEF TypeOK, ready_dequeue
    <3> QED
      BY <2>1, <3>1, <3>2, DequeueType
  <2>2. CASE g_rq[c] = <<>>
    BY <2>2 DEF TypeOK, sched_pick, queueVars
  <2> QED
    BY <2>1, <2>2
<1>2. TypeOK'
  BY <1>0, <1>1 DEF TypeOK, CpuLocs, Goto, taskVars, fieldVars
<1>3. LockDiscipline'
  <2>1. /\ l \in CpuLocs /\ l \notin {"sleep_cs", "wake"} /\ pc[c] \notin {"sleep_cs", "wake"}
        /\ Goto(c, l) /\ UNCHANGED g_sched_lock
    BY <1>0, <1>1 DEF CpuLocs
  <2>2. TypeOK /\ LockDiscipline
    OBVIOUS
  <2> QED
    BY <2>1, <2>2, LockStep
<1>4. CpuCodeInv(c)'
  BY <1>0, <1>1 DEF TypeOK, CodeInv, CpuCodeInv, Goto
<1>5. CodeInv'
  BY <1>0, <1>1, <1>4, CodeStep DEF TypeOK, CpuLocs, taskVars
<1> QED
  BY <1>2, <1>3, <1>5

\* The CPU after the next, cyclically, is a CPU.
LEMMA VictimType ==
  ASSUME TypeOK, NEW c \in CPU PROVE (c + pos[c]) % NCpus \in CPU
<1>1. c + pos[c] \in Int
  BY DEF TypeOK
<1> QED
  BY <1>1

\* Typing and code positions over a step of rq_steal_one.
LEMMA Base_rq_steal_one ==
  ASSUME BaseInv, NEW c \in CPU, rq_steal_one(c) PROVE BaseInv'
<1> USE DEF BaseInv
<1> DEFINE v == (c + pos[c]) % NCpus
<1>v. v \in CPU
  BY VictimType
<1>0. /\ pc[c] = "steal"
      /\ UNCHANGED <<taskVars, fieldVars, g_current, stk,
                     g_sleep, g_sched_lock, g_rr_create, jiffies>>
  BY DEF rq_steal_one
<1>1. PICK l \in {"install", "steal"} :
        /\ Goto(c, l)
        /\ g_rq' \in [CPU -> Seq(Task)]
        /\ on_ready' \in [Task -> BOOLEAN]
        /\ cpu' \in [Task -> CPU]
        /\ next' \in [CPU -> Task \cup {Idle, Null}]
        /\ pos' \in [CPU -> Nat \ {0}]
        /\ l = "install" => next'[c] # Null
        /\ \A d \in CPU \ {c} : next'[d] = next[d]
  <2>1. CASE may_steal(v)
    <3>1. /\ Goto(c, "install")
          /\ ready_dequeue(c, v)
          /\ pos' = [pos EXCEPT ![c] = 1]
      BY <2>1 DEF rq_steal_one
    <3>2. g_rq[v] # <<>>
      BY <2>1 DEF may_steal
    <3>3. \A d \in CPU \ {c} : next'[d] = next[d]
      BY <3>1 DEF TypeOK, ready_dequeue
    <3>4. pos' \in [CPU -> Nat \ {0}]
      BY <3>1 DEF TypeOK
    <3> HIDE DEF v
    <3> QED
      BY <1>v, <3>1, <3>2, <3>3, <3>4, DequeueType
  <2>2. CASE ~may_steal(v)
    <3>1. /\ pos' = [pos EXCEPT ![c] = pos[c] + 1]
          /\ UNCHANGED <<queueVars, next, pc>>
      BY <2>2 DEF rq_steal_one
    <3>2. Goto(c, "steal")
      BY <1>0, <3>1 DEF TypeOK, Goto
    <3>3. pos' \in [CPU -> Nat \ {0}]
      BY <3>1, PosNextType
    <3> QED
      BY <3>1, <3>2, <3>3 DEF TypeOK, queueVars
  <2> QED
    BY <2>1, <2>2
<1>2. TypeOK'
  BY <1>0, <1>1 DEF TypeOK, CpuLocs, Goto, taskVars, fieldVars
<1>3. LockDiscipline'
  <2>1. /\ l \in CpuLocs /\ l \notin {"sleep_cs", "wake"} /\ pc[c] \notin {"sleep_cs", "wake"}
        /\ Goto(c, l) /\ UNCHANGED g_sched_lock
    BY <1>0, <1>1 DEF CpuLocs
  <2>2. TypeOK /\ LockDiscipline
    OBVIOUS
  <2> QED
    BY <2>1, <2>2, LockStep
<1>4. CpuCodeInv(c)'
  BY <1>0, <1>1, SMTT(30) DEF TypeOK, CodeInv, CpuCodeInv, Goto
<1>5. CodeInv'
  BY <1>0, <1>1, <1>4, CodeStep DEF TypeOK, CpuLocs, taskVars
<1> QED
  BY <1>2, <1>3, <1>5

\* Typing and code positions over a step of task_create_ex.
LEMMA Base_task_create_ex ==
  ASSUME BaseInv, NEW c \in CPU, NEW t \in Task, task_create_ex(c, t)
  PROVE  BaseInv'
<1> USE DEF BaseInv
<1>0. /\ created' = created \cup {t}
      /\ ready_enqueue(create_target(c, t), t)
      /\ UNCHANGED <<tpc, loc, entry, fieldVars, cpuVars,
                     g_sleep, g_sched_lock, jiffies, pc>>
  BY DEF task_create_ex
<1>1. /\ g_rq' \in [CPU -> Seq(Task)]
      /\ on_ready' \in [Task -> BOOLEAN]
      /\ cpu' \in [Task -> CPU]
  <2>1. create_target(c, t) \in CPU
    BY CreateTargetType
  <2> HIDE DEF CPU
  <2> QED
    BY <1>0, <2>1, EnqueueType
<1>2. g_rr_create' \in CPU
  <2>1. CASE t \in Pinned
    BY <2>1 DEF TypeOK, task_create_ex
  <2>2. CASE t \notin Pinned
    <3>1. g_rr_create' = (g_rr_create + 1) % NCpus
      BY <2>2 DEF task_create_ex
    <3> QED
      BY <3>1, SMTT(30) DEF TypeOK
  <2> QED
    BY <2>1, <2>2
<1>3. TypeOK'
  BY <1>0, <1>1, <1>2 DEF TypeOK, fieldVars, cpuVars
<1>4. LockDiscipline'
  BY <1>0 DEF LockDiscipline
<1>5. CodeInv'
  BY <1>0 DEF CodeInv, CpuCodeInv, LocInv, cpuVars
<1> QED
  BY <1>3, <1>4, <1>5

\* Typing and code positions over a step of a task's own code, other than the
\* critical section of sched_sleep_jiffies.
LEMMA Base_TaskStep ==
  ASSUME BaseInv, NEW c \in CPU, NEW t \in Task,
         NEW from \in TaskLocs \ {"sleep_lock"}, NEW to \in TaskLocs,
         TaskStep(c, t, from, to),
         UNCHANGED pc \/ Goto(c, "sched"),
         loc' \in [Task -> Task \cup CPU \cup {Null}],
         \A u \in Task \ {t} : loc'[u] = loc[u],
         to \in {"boot_cur", "sleep_cur"} => loc'[t] = c,
         to = "sleep_lock" => loc'[t] \in Task,
         entry' \in [Task -> Task \cup {Null}]
  PROVE  BaseInv'
<1> USE DEF BaseInv
<1>0. /\ pc[c] = "task"
      /\ tpc[t] = from
      /\ tpc' = [tpc EXCEPT ![t] = to]
      /\ UNCHANGED <<created, fieldVars, queueVars, cpuVars,
                     g_sleep, g_sched_lock, g_rr_create, jiffies>>
  BY DEF TaskStep, Executes, TaskGoto
<1>1. PICK l \in {"task", "sched"} : Goto(c, l)
  <2>1. CASE UNCHANGED pc
    BY <1>0, <2>1 DEF TypeOK, Goto
  <2> QED
    BY <2>1
<1>2. TypeOK'
  BY <1>0, <1>1
     DEF TypeOK, CpuLocs, Goto, fieldVars, queueVars, cpuVars
<1>3. LockDiscipline'
  BY <1>0, <1>1, LockStep DEF CpuLocs
<1>4. ASSUME NEW d \in CPU PROVE CpuCodeInv(d)'
  <2>1. CASE d = c
    BY <1>0, <1>1, <2>1 DEF TypeOK, CodeInv, CpuCodeInv, Goto, cpuVars
  <2>2. CASE d # c
    <3>1. pc'[d] = pc[d] /\ CpuCodeInv(d)
      BY <1>1, <2>2 DEF TypeOK, CodeInv, Goto
    <3>2. pc[d] = "sleep_cs" => stk[d] # t
      BY <1>0, <3>1 DEF CpuCodeInv
    <3>3. \A u \in Task \ {t} : tpc'[u] = tpc[u]
      BY <1>0 DEF TypeOK
    <3> QED
      BY <1>0, <3>1, <3>2, <3>3 DEF CpuCodeInv, cpuVars
  <2> QED
    BY <2>1, <2>2
<1>5. ASSUME NEW u \in Task PROVE LocInv(u)'
  <2>1. \A d \in CPU : pc[d] # "off" => pc'[d] # "off"
    BY <1>1 DEF TypeOK, Goto
  <2>2. CASE u = t
    <3>1. tpc'[u] = to /\ pc'[c] # "off"
      BY <1>0, <1>1, <2>2 DEF TypeOK, Goto
    <3> QED
      BY <3>1, <2>2 DEF LocInv
  <2>3. CASE u # t
    <3>1. tpc'[u] = tpc[u] /\ loc'[u] = loc[u] /\ LocInv(u)
      BY <1>0, <2>3 DEF TypeOK, CodeInv
    <3> QED
      BY <2>1, <3>1 DEF LocInv
  <2> QED
    BY <2>2, <2>3
<1> QED
  BY <1>2, <1>3, <1>4, <1>5 DEF CodeInv

\* Typing and code positions over the spin of sched_sleep_jiffies.
LEMMA Base_sleep_lock ==
  ASSUME BaseInv, NEW c \in CPU, NEW t \in Task, sleep_lock(c, t)
  PROVE  BaseInv'
<1> USE DEF BaseInv, sleep_lock, Executes, taskVars, fieldVars, queueVars,
            cpuVars
<1>1. TypeOK'
  BY DEF TypeOK, CpuLocs, Goto, spin_lock
<1>2. LockDiscipline'
  BY DEF TypeOK, LockDiscipline, Goto, spin_lock
<1>3. CpuCodeInv(c)'
  BY DEF TypeOK, CodeInv, CpuCodeInv, Goto
<1>4. CodeInv'
  BY <1>3, CodeStep DEF TypeOK, CpuLocs
<1> QED
  BY <1>1, <1>2, <1>4

\* Typing and code positions over the critical section of sched_sleep_jiffies.
LEMMA Base_sleep_unlock ==
  ASSUME BaseInv, NEW c \in CPU, NEW t \in Task, NEW jf \in 1 .. MaxSleep,
         sleep_unlock(c, t, jf)
  PROVE  BaseInv'
<1> USE DEF BaseInv
<1>0. /\ pc[c] = "sleep_cs" /\ stk[c] = t
      /\ tpc' = [tpc EXCEPT ![t] = "sleep_yield"]
      /\ loc' = [loc EXCEPT ![t] = Null]
      /\ pc' = [pc EXCEPT ![c] = "task"]
      /\ wake_jiffies' = [wake_jiffies EXCEPT ![loc[t]] = jiffies + jf]
      /\ state' = [state EXCEPT ![loc[t]] = "SLEEPING"]
      /\ g_sleep' = <<loc[t]>> \o g_sleep
      /\ g_sched_lock' = Null
      /\ UNCHANGED <<created, entry, on_cpu, queueVars, cpuVars,
                     g_rr_create, jiffies>>
  BY DEF sleep_unlock, Goto, TaskGoto
<1>1. loc[t] \in Task
  BY <1>0 DEF CodeInv, CpuCodeInv, LocInv
<1>2. TypeOK'
  <2>1. g_sleep' \in Seq(Task)
    <3>1. g_sleep \in Seq(Task)
      BY DEF TypeOK
    <3> QED
      BY <1>0, <1>1, <3>1, PushProperties
  <2>2. wake_jiffies' \in [Task -> Nat]
    <3>1. jiffies + jf \in Nat
      BY DEF TypeOK
    <3>2. wake_jiffies \in [Task -> Nat]
      BY DEF TypeOK
    <3>3. wake_jiffies' = [wake_jiffies EXCEPT ![loc[t]] = jiffies + jf]
      BY <1>0
    <3> QED
      BY <1>1, <3>1, <3>2, <3>3
  <2> QED
    BY <1>0, <1>1, <2>1, <2>2
       DEF TypeOK, CpuLocs, TaskLocs, queueVars, cpuVars
<1>3. LockDiscipline'
  BY <1>0 DEF TypeOK, LockDiscipline
<1>4. ASSUME NEW d \in CPU PROVE CpuCodeInv(d)'
  <2>1. CASE d = c
    BY <1>0, <2>1 DEF TypeOK, CodeInv, CpuCodeInv, cpuVars
  <2>2. CASE d # c
    <3>1. pc'[d] = pc[d] /\ CpuCodeInv(d)
      BY <1>0, <2>2 DEF TypeOK, CodeInv
    <3>2. pc[d] # "sleep_cs"
      BY <1>0, <2>2 DEF LockDiscipline
    <3> QED
      BY <1>0, <3>1, <3>2 DEF CpuCodeInv, cpuVars
  <2> QED
    BY <2>1, <2>2
<1>5. ASSUME NEW u \in Task PROVE LocInv(u)'
  <2>1. \A d \in CPU : pc[d] # "off" => pc'[d] # "off"
    BY <1>0 DEF TypeOK
  <2>2. CASE u = t
    BY <1>0, <2>2 DEF TypeOK, LocInv
  <2>3. CASE u # t
    <3>1. tpc'[u] = tpc[u] /\ loc'[u] = loc[u] /\ LocInv(u)
      BY <1>0, <2>3 DEF TypeOK, CodeInv
    <3> QED
      BY <2>1, <3>1 DEF LocInv
  <2> QED
    BY <2>2, <2>3
<1> QED
  BY <1>2, <1>3, <1>4, <1>5 DEF CodeInv

\* Typing and code positions over any step of a task's own code.
LEMMA Base_TaskCode ==
  ASSUME BaseInv, NEW c \in CPU, NEW t \in Task, TaskCode(c, t)
  PROVE  BaseInv'
<1>0. TypeOK /\ LocInv(t) /\ CodeInv
  BY DEF BaseInv, CodeInv
<1>a. pc[c] = "task" => g_current[c] \in Task \cup {Idle}
  BY <1>0 DEF TypeOK, CodeInv, CpuCodeInv
<1>b. tpc[t] \in {"boot_cur", "sleep_cur"} =>
        g_current[loc[t]] \in Task \cup {Idle}
  BY <1>0 DEF TypeOK, CodeInv, CpuCodeInv, LocInv
<1>c. {"boot", "boot_cur", "run", "sleep_cur", "sleep_yield", "sleep_ret",
       "halt"} = TaskLocs \ {"sleep_lock"}
  BY DEF TaskLocs
<1>1. CASE bootstrap_index(c, t)
  <2>1. /\ TaskStep(c, t, "boot", "boot_cur")
        /\ loc' = [loc EXCEPT ![t] = c]
        /\ UNCHANGED <<entry, pc>>
    BY <1>1 DEF bootstrap_index
  <2>2. /\ loc' \in [Task -> Task \cup CPU \cup {Null}]
        /\ \A u \in Task \ {t} : loc'[u] = loc[u]
        /\ loc'[t] = c
        /\ entry' \in [Task -> Task \cup {Null}]
    BY <1>0, <2>1 DEF TypeOK
  <2> QED
    BY <1>c, <2>1, <2>2, Base_TaskStep
<1>2. CASE bootstrap_entry(c, t)
  <2> DEFINE cur == g_current[loc[t]]
  <2>1. PICK to \in {"halt", "run"} :
          /\ TaskStep(c, t, "boot_cur", to)
          /\ entry' = [entry EXCEPT ![t] = IF cur = Idle THEN Null ELSE cur]
          /\ loc' = [loc EXCEPT ![t] = Null]
          /\ UNCHANGED pc
    BY <1>2 DEF bootstrap_entry
  <2>2. cur \in Task \cup {Idle}
    BY <1>b, <2>1 DEF TaskStep, Executes
  <2>3. /\ loc' \in [Task -> Task \cup CPU \cup {Null}]
        /\ \A u \in Task \ {t} : loc'[u] = loc[u]
        /\ entry' \in [Task -> Task \cup {Null}]
    BY <1>0, <2>1, <2>2 DEF TypeOK
  <2> QED
    BY <1>c, <2>1, <2>3, Base_TaskStep
<1>3. CASE bootstrap_return(c, t)
  <2>1. TaskStep(c, t, "run", "halt") /\ UNCHANGED <<loc, entry, pc>>
    BY <1>3 DEF bootstrap_return
  <2> QED
    BY <1>0, <1>c, <2>1, Base_TaskStep DEF TypeOK
<1>4. CASE yield(c, t)
  <2>1. Goto(c, "sched") /\ UNCHANGED <<loc, entry>>
    BY <1>4 DEF yield
  <2>2. CASE TaskStep(c, t, "run", "run")
    BY <1>0, <1>c, <2>1, <2>2, Base_TaskStep DEF TypeOK
  <2>3. CASE TaskStep(c, t, "sleep_yield", "sleep_ret")
    BY <1>0, <1>c, <2>1, <2>3, Base_TaskStep DEF TypeOK
  <2> QED
    BY <1>4, <2>2, <2>3 DEF yield
<1>5. CASE sleep_index(c, t)
  <2>1. /\ TaskStep(c, t, "run", "sleep_cur")
        /\ loc' = [loc EXCEPT ![t] = c]
        /\ UNCHANGED <<entry, pc>>
    BY <1>5 DEF sleep_index
  <2>2. /\ loc' \in [Task -> Task \cup CPU \cup {Null}]
        /\ \A u \in Task \ {t} : loc'[u] = loc[u]
        /\ loc'[t] = c
        /\ entry' \in [Task -> Task \cup {Null}]
    BY <1>0, <2>1 DEF TypeOK
  <2> QED
    BY <1>c, <2>1, <2>2, Base_TaskStep
<1>6. CASE sleep_current(c, t)
  <2> DEFINE cur == g_current[loc[t]]
             to == IF cur = Idle THEN "run" ELSE "sleep_lock"
             lc == IF cur = Idle THEN Null ELSE cur
  <2>1. /\ TaskStep(c, t, "sleep_cur", to)
        /\ loc' = [loc EXCEPT ![t] = lc]
        /\ UNCHANGED <<entry, pc>>
    BY <1>6 DEF sleep_current
  <2>2. cur \in Task \cup {Idle}
    BY <1>b, <2>1 DEF TaskStep, Executes
  <2>3. /\ loc' \in [Task -> Task \cup CPU \cup {Null}]
        /\ \A u \in Task \ {t} : loc'[u] = loc[u]
        /\ to = "sleep_lock" => loc'[t] \in Task
        /\ entry' \in [Task -> Task \cup {Null}]
    BY <1>0, <2>1, <2>2 DEF TypeOK
  <2>4. to \in {"run", "sleep_lock"} /\ to \in TaskLocs
    BY DEF TaskLocs
  <2> HIDE DEF to, lc
  <2> QED
    BY <1>c, <2>1, <2>3, <2>4, Base_TaskStep
<1>7. CASE sleep_lock(c, t)
  BY <1>7, Base_sleep_lock
<1>8. CASE \E jf \in 1 .. MaxSleep : sleep_unlock(c, t, jf)
  BY <1>8, Base_sleep_unlock
<1>9. CASE sleep_return(c, t)
  <2>1. TaskStep(c, t, "sleep_ret", "run") /\ UNCHANGED <<loc, entry, pc>>
    BY <1>9 DEF sleep_return
  <2> QED
    BY <1>0, <1>c, <2>1, Base_TaskStep DEF TypeOK
<1> QED
  BY <1>1, <1>2, <1>3, <1>4, <1>5, <1>6, <1>7, <1>8, <1>9 DEF TaskCode

-----------------------------------------------------------------------------
(* The ready queues.                                                       *)

\* ready_enqueue keeps the queues exact.
LEMMA EnqueueExact ==
  ASSUME TypeOK, QueuesExact, NEW c \in CPU, NEW t \in Task,
         ready_enqueue(c, t)
  PROVE  QueuesExact'
<1>1. CASE on_ready[t]
  <2>1. UNCHANGED <<g_rq, on_ready>>
    BY <1>1 DEF ready_enqueue, queueVars
  <2> QED
    BY <2>1, SMTT(30) DEF QueuesExact, Queued
<1>2. CASE ~on_ready[t]
  <2> DEFINE q == g_rq[c]
             n == Len(g_rq[c])
  <2>1. /\ g_rq' = [g_rq EXCEPT ![c] = Append(q, t)]
        /\ on_ready' = [on_ready EXCEPT ![t] = TRUE]
    BY <1>2 DEF ready_enqueue
  <2>2. \A d \in CPU : \A i \in 1 .. Len(g_rq[d]) : g_rq[d][i] # t
    BY <1>2 DEF QueuesExact, Queued
  <2>3. q \in Seq(Task) /\ n \in Nat
    BY DEF TypeOK
  <2>4. /\ Len(Append(q, t)) = n + 1
        /\ \A i \in 1 .. n : Append(q, t)[i] = q[i]
        /\ Append(q, t)[n+1] = t
    BY <2>3, AppendProperties
  <2>5. /\ Len(g_rq'[c]) = n + 1
        /\ \A i \in 1 .. n : g_rq'[c][i] = q[i]
        /\ g_rq'[c][n+1] = t
        /\ \A d \in CPU \ {c} : g_rq'[d] = g_rq[d]
    BY <2>1, <2>4 DEF TypeOK
  <2>8. ASSUME NEW d \in CPU, NEW i \in 1 .. Len(g_rq'[d])
        PROVE  \/ d = c /\ i = n + 1 /\ g_rq'[d][i] = t
               \/ i \in 1 .. Len(g_rq[d]) /\ g_rq'[d][i] = g_rq[d][i]
    <3>1. CASE d = c
      BY <2>3, <2>5, <3>1
    <3>2. CASE d # c
      BY <2>5, <3>2
    <3> QED
      BY <3>1, <3>2
  <2>6. ASSUME NEW u \in Task
        PROVE  on_ready'[u] <=> \E d \in CPU : Queued(u, d)'
    <3>1. CASE u = t
      <4>1. on_ready'[u]
        BY <2>1, <3>1 DEF TypeOK
      <4>2. n + 1 \in 1 .. Len(g_rq'[c]) /\ g_rq'[c][n+1] = u
        BY <2>3, <2>5, <3>1
      <4>3. Queued(u, c)'
        BY <4>2 DEF Queued
      <4> QED
        BY <4>1, <4>3
    <3>2. CASE u # t
      <4>1. on_ready'[u] <=> on_ready[u]
        BY <2>1, <3>2 DEF TypeOK
      <4>2. ASSUME NEW d \in CPU PROVE Queued(u, d)' <=> Queued(u, d)
        <5>1. CASE d = c
          <6>1. 1 .. Len(g_rq'[d]) = 1 .. n + 1
            BY <2>5, <5>1
          <6>2. Queued(u, d)' => Queued(u, d)
            BY <2>3, <2>8, <3>2 DEF Queued
          <6>3. Queued(u, d) => Queued(u, d)'
            BY <2>3, <2>5, <5>1, <6>1 DEF Queued
          <6> QED
            BY <6>2, <6>3
        <5>2. CASE d # c
          BY <2>5, <5>2 DEF Queued
        <5> QED
          BY <5>1, <5>2
      <4> QED
        BY <4>1, <4>2 DEF QueuesExact
    <3> QED
      BY <3>1, <3>2
  <2>7. ASSUME NEW d \in CPU, NEW e \in CPU,
               NEW i \in 1 .. Len(g_rq'[d]), NEW j \in 1 .. Len(g_rq'[e]),
               g_rq'[d][i] = g_rq'[e][j]
        PROVE  d = e /\ i = j
    <3>1. \/ d = c /\ i = n + 1 /\ g_rq'[d][i] = t
          \/ i \in 1 .. Len(g_rq[d]) /\ g_rq'[d][i] = g_rq[d][i]
      BY <2>8
    <3>2. \/ e = c /\ j = n + 1 /\ g_rq'[e][j] = t
          \/ j \in 1 .. Len(g_rq[e]) /\ g_rq'[e][j] = g_rq[e][j]
      BY <2>8
    <3>3. i \in 1 .. Len(g_rq[d]) /\ j \in 1 .. Len(g_rq[e])
            /\ g_rq[d][i] = g_rq[e][j] => d = e /\ i = j
      BY DEF QueuesExact
    <3> HIDE DEF n, q, CPU
    <3> QED
      BY <2>2, <2>7, <3>1, <3>2, <3>3
  <2> QED
    BY <2>6, <2>7 DEF QueuesExact
<1> QED
  BY <1>1, <1>2

\* ready_dequeue keeps the queues exact.
LEMMA DequeueExact ==
  ASSUME TypeOK, QueuesExact, NEW c \in CPU, NEW v \in CPU, g_rq[v] # <<>>,
         ready_dequeue(c, v)
  PROVE  QueuesExact'
<1> DEFINE q == g_rq[v]
           h == Head(q)
<1>1. /\ g_rq' = [g_rq EXCEPT ![v] = Tail(q)]
      /\ on_ready' = [on_ready EXCEPT ![h] = FALSE]
  BY DEF ready_dequeue
<1>2. q \in Seq(Task) /\ Len(q) \in Nat \ {0}
  BY EmptySeq DEF TypeOK
<1>3. /\ h \in Task /\ h = q[1]
      /\ Len(Tail(q)) = Len(q) - 1
      /\ \A i \in 1 .. Len(q) - 1 : Tail(q)[i] = q[i+1]
  BY <1>2, HeadTailProperties
<1>4. /\ Len(g_rq'[v]) = Len(q) - 1
      /\ \A i \in 1 .. Len(q) - 1 : g_rq'[v][i] = q[i+1]
      /\ \A d \in CPU \ {v} : g_rq'[d] = g_rq[d]
  BY <1>1, <1>3 DEF TypeOK
<1>5. \A d \in CPU : \A i \in 1 .. Len(g_rq[d]) :
        g_rq[d][i] = h => d = v /\ i = 1
  <2>1. 1 \in 1 .. Len(g_rq[v])
    BY <1>2
  <2>2. \A d \in CPU : \A i \in 1 .. Len(g_rq[d]) :
          g_rq[d][i] = g_rq[v][1] => d = v /\ i = 1
    BY <2>1 DEF QueuesExact
  <2> QED
    BY <1>3, <2>2
<1> HIDE DEF h
<1>6. ASSUME NEW u \in Task
      PROVE  on_ready'[u] <=> \E d \in CPU : Queued(u, d)'
  <2>1. CASE u = h
    <3>1. ~on_ready'[u]
      BY <1>1, <2>1 DEF TypeOK
    <3>2. ASSUME NEW d \in CPU, Queued(u, d)' PROVE FALSE
      <4>1. PICK i \in 1 .. Len(g_rq'[d]) : g_rq'[d][i] = h
        BY <2>1, <3>2 DEF Queued
      <4>2. CASE d = v
        <5>1. i \in 1 .. Len(q) - 1 /\ i + 1 \in 1 .. Len(q) /\ i + 1 # 1
          BY <1>2, <1>4, <4>1, <4>2
        <5>2. q[i + 1] = h
          BY <1>4, <4>1, <4>2, <5>1
        <5> QED
          BY <1>5, <5>1, <5>2
      <4>3. CASE d # v
        BY <1>4, <1>5, <4>1, <4>3
      <4> QED
        BY <4>2, <4>3
    <3> QED
      BY <3>1, <3>2
  <2>2. CASE u # h
    <3>1. on_ready'[u] <=> on_ready[u]
      BY <1>1, <2>2 DEF TypeOK
    <3>2. ASSUME NEW d \in CPU PROVE Queued(u, d)' <=> Queued(u, d)
      <4>1. CASE d = v
        <5>1. ASSUME NEW i \in 1 .. Len(q), q[i] = u
              PROVE  i - 1 \in 1 .. Len(q) - 1 /\ g_rq'[v][i-1] = u
          BY <1>2, <1>3, <1>4, <2>2, <5>1
        <5>2. ASSUME NEW i \in 1 .. Len(q) - 1, g_rq'[v][i] = u
              PROVE  i + 1 \in 1 .. Len(q) /\ q[i+1] = u
          BY <1>2, <1>4, <5>2
        <5> HIDE DEF CPU
        <5> QED
          BY <1>4, <4>1, <5>1, <5>2 DEF Queued
      <4>2. CASE d # v
        BY <1>4, <4>2 DEF Queued
      <4> QED
        BY <4>1, <4>2
    <3> QED
      BY <3>1, <3>2 DEF QueuesExact
  <2> QED
    BY <2>1, <2>2
<1>8. ASSUME NEW d \in CPU, NEW i \in 1 .. Len(g_rq'[d])
      PROVE  LET x == IF d = v THEN i + 1 ELSE i
             IN x \in 1 .. Len(g_rq[d]) /\ g_rq'[d][i] = g_rq[d][x]
  <2>1. CASE d = v
    <3>1. i \in 1 .. Len(q) - 1
      BY <1>4, <2>1
    <3>2. i + 1 \in 1 .. Len(q)
      BY <1>2, <3>1
    <3> QED
      BY <1>4, <2>1, <3>1, <3>2
  <2>2. CASE d # v
    BY <1>4, <2>2
  <2> QED
    BY <2>1, <2>2
<1>7. ASSUME NEW d \in CPU, NEW e \in CPU,
             NEW i \in 1 .. Len(g_rq'[d]), NEW j \in 1 .. Len(g_rq'[e]),
             g_rq'[d][i] = g_rq'[e][j]
      PROVE  d = e /\ i = j
  <2> DEFINE x == IF d = v THEN i + 1 ELSE i
             y == IF e = v THEN j + 1 ELSE j
  <2>1. x \in 1 .. Len(g_rq[d]) /\ g_rq'[d][i] = g_rq[d][x]
    BY <1>8
  <2>2. y \in 1 .. Len(g_rq[e]) /\ g_rq'[e][j] = g_rq[e][y]
    BY <1>8
  <2>3. d = e /\ x = y
    <3> HIDE DEF x, y, CPU
    <3>1. g_rq[d][x] = g_rq[e][y]
      BY <1>7, <2>1, <2>2, Zenon
    <3>2. \A a \in 1 .. Len(g_rq[d]), b \in 1 .. Len(g_rq[e]) :
            g_rq[d][a] = g_rq[e][b] => d = e /\ a = b
      BY DEF QueuesExact
    <3> QED
      BY <2>1, <2>2, <3>1, <3>2, Zenon
  <2>4. i \in Nat /\ j \in Nat
    <3>1. Len(g_rq'[d]) \in Int /\ Len(g_rq'[e]) \in Int
      BY <1>2, <1>4 DEF TypeOK
    <3> QED
      BY <3>1
  <2> QED
    BY <2>3, <2>4
<1> QED
  BY <1>6, <1>7 DEF QueuesExact

\* Every step keeps the queues exact.
LEMMA NextQueues ==
  ASSUME BaseInv, QueuesExact, Next PROVE QueuesExact'
<1>0. TypeOK /\ CodeInv
  BY DEF BaseInv
<1>a. ASSUME UNCHANGED <<g_rq, on_ready>> PROVE QueuesExact'
  BY <1>a DEF QueuesExact, Queued
<1>b. ASSUME UNCHANGED queueVars PROVE QueuesExact'
  BY <1>a, <1>b DEF queueVars
<1>1. CASE kernel_main_sti
  BY <1>1, <1>b DEF kernel_main_sti
<1>2. SUFFICES ASSUME NEW c \in CPU,
                      \/ sched_cpu_init(c)
                      \/ handler_timer(c)
                      \/ Handler(c)
                      \/ \E t \in Task : task_create_ex(c, t) \/ TaskCode(c, t)
               PROVE  QueuesExact'
  BY <1>1 DEF Next
<1>3. CASE sched_cpu_init(c) \/ handler_timer(c)
  BY <1>3, <1>b DEF sched_cpu_init, handler_timer
<1>4. CASE wake_lock(c) \/ wake_done(c) \/ sched_out(c) \/ sched_idle(c) \/ iret(c)
  BY <1>4, <1>b DEF wake_lock, wake_done, sched_out, sched_idle, iret
<1>5. CASE wake_step(c)
  <2> DEFINE t == g_sleep[pos[c]]
  <2>1. t \in Task
    BY <1>0, <1>5, WakeStepCases
  <2>2. CASE wake_enqueue(t)
    <3>1. CASE on_cpu[t]
      BY <1>b, <2>2, <3>1 DEF wake_enqueue
    <3>2. CASE ~on_cpu[t]
      <4>1. cpu[t] \in CPU /\ ready_enqueue(cpu[t], t)
        BY <1>0, <2>1, <2>2, <3>2 DEF TypeOK, wake_enqueue
      <4> HIDE DEF t, CPU
      <4> QED
        BY <1>0, <2>1, <4>1, EnqueueExact
    <3> QED
      BY <3>1, <3>2
  <2>3. CASE UNCHANGED queueVars
    BY <2>3, <1>b
  <2>4. wake_enqueue(t) \/ UNCHANGED queueVars
    BY <1>0, <1>5, WakeStepCases
  <2> QED
    BY <2>2, <2>3, <2>4
<1>6. CASE sched_requeue(c)
  <2>1. g_current[c] \in Task /\ ready_enqueue(c, g_current[c])
    BY <1>0, <1>6 DEF CodeInv, CpuCodeInv, sched_requeue
  <2> HIDE DEF CPU
  <2> QED
    BY <1>0, <2>1, EnqueueExact
<1>7. CASE sched_pick(c)
  <2>1. CASE g_rq[c] # <<>>
    BY <1>0, <1>7, <2>1, DequeueExact DEF sched_pick
  <2>2. CASE g_rq[c] = <<>>
    BY <1>7, <1>b, <2>2 DEF sched_pick
  <2> QED
    BY <2>1, <2>2
<1>8. CASE rq_steal_one(c)
  <2> DEFINE v == (c + pos[c]) % NCpus
  <2>1. v \in CPU
    BY <1>0, VictimType
  <2>2. CASE may_steal(v)
    <3>1. ready_dequeue(c, v) /\ g_rq[v] # <<>>
      BY <1>8, <2>2 DEF rq_steal_one, may_steal
    <3> HIDE DEF v, CPU
    <3> QED
      BY <1>0, <2>1, <3>1, DequeueExact
  <2>3. CASE ~may_steal(v)
    BY <1>8, <1>b, <2>3 DEF rq_steal_one
  <2> QED
    BY <2>2, <2>3
<1>9. CASE sched_install(c)
  BY <1>9, <1>a DEF sched_install
<1>10. CASE \E t \in Task : task_create_ex(c, t)
  <2>1. PICK t \in Task : task_create_ex(c, t)
    BY <1>10
  <2>2. create_target(c, t) \in CPU /\ ready_enqueue(create_target(c, t), t)
    BY <1>0, <2>1, CreateTargetType DEF task_create_ex
  <2> HIDE DEF CPU
  <2> QED
    BY <1>0, <2>2, EnqueueExact
<1>11. CASE \E t \in Task : TaskCode(c, t)
  <2>1. PICK t \in Task : TaskCode(c, t)
    BY <1>11
  <2>2. UNCHANGED queueVars
    BY <2>1 DEF TaskCode, bootstrap_index, bootstrap_entry, bootstrap_return,
                yield, sleep_index, sleep_current, sleep_lock, sleep_unlock,
                sleep_return, TaskStep
  <2> QED
    BY <2>2, <1>b
<1> QED
  BY <1>2, <1>3, <1>4, <1>5, <1>6, <1>7, <1>8, <1>9, <1>10, <1>11 DEF Handler

-----------------------------------------------------------------------------
(* Theorems.                                                               *)

\* Every step keeps types, the lock and the code positions.
LEMMA NextBase == BaseInv /\ [Next]_vars => BaseInv'
<1> SUFFICES ASSUME BaseInv, [Next]_vars PROVE BaseInv'
  OBVIOUS
<1>1. CASE Next
  <2>1. CASE kernel_main_sti
    BY <2>1, Base_kernel_main_sti
  <2>2. ASSUME NEW c \in CPU, sched_cpu_init(c) \/ handler_timer(c)
        PROVE  BaseInv'
    BY <2>2, Base_sched_cpu_init, Base_handler_timer
  <2>3. ASSUME NEW c \in CPU, Handler(c) PROVE BaseInv'
    BY <2>3, Base_wake_lock, Base_wake_step, Base_wake_done, Base_sched_out,
       Base_sched_requeue, Base_sched_pick, Base_rq_steal_one,
       Base_sched_idle, Base_sched_install, Base_iret DEF Handler
  <2>4. ASSUME NEW c \in CPU, NEW t \in Task,
               task_create_ex(c, t) \/ TaskCode(c, t)
        PROVE  BaseInv'
    BY <2>4, Base_task_create_ex, Base_TaskCode
  <2> QED
    BY <1>1, <2>1, <2>2, <2>3, <2>4 DEF Next
<1>2. CASE UNCHANGED vars
  BY <1>2 DEF BaseInv, TypeOK, LockDiscipline, CodeInv, CpuCodeInv, LocInv,
              vars, taskVars, fieldVars, queueVars, cpuVars
<1> QED
  BY <1>1, <1>2

\* The base invariant is an invariant of the scheduler.
THEOREM BaseCorrect == Spec => []BaseInv
BY InitBase, NextBase, PTL DEF Spec

\* Whatever is created, preempted, woken, stolen or put to sleep, the state of
\* the scheduler stays well typed, for every number of CPUs and tasks.
THEOREM TypeCorrect == Spec => []TypeOK
<1>1. BaseInv => TypeOK
  BY DEF BaseInv
<1> QED
  BY <1>1, BaseCorrect, PTL

\* g_sched_lock is held exactly inside the critical sections, by one CPU.
THEOREM LockCorrect == Spec => []LockDiscipline
<1>1. BaseInv => LockDiscipline
  BY DEF BaseInv
<1> QED
  BY <1>1, BaseCorrect, PTL

\* The ready queues are exact for every number of CPUs and tasks, also for
\* tasks that migrate, sleep and put the wrong task to sleep.
THEOREM QueuesCorrect == Spec => []QueuesExact
<1>1. Init => QueuesExact
  BY DEF Init, QueuesExact, Queued
<1>2. BaseInv /\ QueuesExact /\ [Next]_vars => QueuesExact'
  <2>1. ASSUME QueuesExact, UNCHANGED vars PROVE QueuesExact'
    BY <2>1 DEF QueuesExact, Queued, vars, queueVars
  <2> QED
    BY <2>1, NextQueues
<1> QED
  BY <1>1, <1>2, BaseCorrect, PTL DEF Spec

-----------------------------------------------------------------------------
(* Safety.                                                                 *)

HIDE SchedAssumption DEF CPU, Bsp

\* The idle task and NULL are no tasks.
LEMMA NoTask == Idle \notin Task /\ Null \notin Task /\ Idle # Null
BY SchedAssumption

-----------------------------------------------------------------------------
(* The inductive invariant.                                                *)

\* Where schedule_from_irq has cleared on_cpu of the task in g_current.
Left == {"requeue", "pick", "steal", "install"}

\* A CPU executes on the stack of its current task, except between the store
\* to g_current and the switch.
StackInv ==
  \A c \in CPU :
    /\ pc[c] = "off" => g_current[c] = Null /\ stk[c] = Idle
    /\ pc[c] = "boot" => g_current[c] = Idle
    /\ pc[c] \notin {"off", "switch"} => stk[c] = g_current[c]

\* CPU c is still using t, on its own behalf or t's.
Uses(c, t) ==
  g_current[c] = t \/ stk[c] = t \/ (pc[c] = "install" /\ next[c] = t)

\* What a CPU uses exists, a pinned task only on its home; the home of a
\* queued task is the CPU whose queue it is in.
HomeInv ==
  /\ \A c \in CPU, t \in Task :
       Uses(c, t) => t \in created /\ (t \in Pinned => cpu[t] = c)
  /\ \A c \in CPU, t \in Task : Queued(t, c) => cpu[t] = c

\* on_cpu says exactly which tasks a CPU runs and has not begun to leave: what
\* sched_wake_sleepers relies on when it leaves the queueing to that CPU.
OnCpuInv ==
  \A t \in Task :
    on_cpu[t] <=> \E c \in CPU : g_current[c] = t /\ pc[c] \notin Left

\* Places that a task only reaches, or only stays in, while it is READY.
ReadyInv ==
  /\ \A t \in Task : on_ready[t] => t \in created /\ state[t] = "READY"
  /\ \A c \in CPU, t \in Task :
       /\ pc[c] = "install" /\ next[c] = t => state[t] = "READY"
       /\ g_current[c] = t /\ pc[c] \in {"requeue", "switch"}
            => state[t] = "READY"
       /\ g_current[c] = t /\ pc[c] \in {"task", "sleep_cs", "wake_lock", "wake"}
            /\ tpc[t] # "sleep_yield" => state[t] = "READY"

\* A task's own code: only a sleeper is in sched_sleep_jiffies, a pinned task
\* goes on where it read the CPU number, and a task sleeps only inside the
\* function and leaves SLEEPING only when it is due.
OwnCodeInv ==
  \A t \in Task :
    /\ tpc[t] # "boot" => t \in created
    /\ tpc[t] \in {"sleep_cur", "sleep_lock", "sleep_yield", "sleep_ret"}
         => t \in Sleepers
    /\ tpc[t] \in {"boot_cur", "sleep_cur"} /\ t \in Pinned => loc[t] = cpu[t]
    /\ state[t] = "SLEEPING" => tpc[t] \in {"sleep_yield", "sleep_ret"}
    /\ tpc[t] \in {"sleep_yield", "sleep_ret"} /\ state[t] = "READY"
         => jiffies >= wake_jiffies[t]

\* Everything a task's place depends on.
SafeInv ==
  /\ BaseInv /\ QueuesExact
  /\ StackInv /\ HomeInv /\ OnCpuInv /\ ReadyInv /\ OwnCodeInv
  /\ RunExclusive /\ NoLostTask
  /\ SleepListExact /\ SleepsItself /\ PinnedBootsItself

\* The initial state satisfies it.
LEMMA InitSafe == Init => SafeInv
<1> SUFFICES ASSUME Init PROVE SafeInv
  OBVIOUS
<1>1. BaseInv
  BY InitBase
<1>2. QueuesExact
  BY SchedAssumption DEF Init, QueuesExact, Queued
<1>3. \A c \in CPU, t \in Task : ~Queued(t, c)
  BY SchedAssumption DEF Init, Queued
<1>4. \A t \in Task : ~Asleep(t)
  BY DEF Init, Asleep
<1>5. StackInv /\ HomeInv /\ OnCpuInv /\ ReadyInv /\ OwnCodeInv
  BY <1>3, NoTask
     DEF Init, StackInv, HomeInv, Uses, OnCpuInv, ReadyInv, OwnCodeInv
<1>6. RunExclusive /\ NoLostTask /\ SleepsItself /\ PinnedBootsItself
  BY NoTask, SchedAssumption
     DEF Init, RunExclusive, NoLostTask, Holds, SleepsItself, PinnedBootsItself
<1>7. SleepListExact
  BY <1>4 DEF Init, SleepListExact
<1> QED
  BY <1>1, <1>2, <1>5, <1>6, <1>7 DEF SafeInv

\* A step that takes nothing from t loses no t.
LEMMA KeptStep ==
  ASSUME TypeOK, NoLostTask, NEW t \in created,
         \A d \in CPU : Holds(d, t) => Holds(d, t)',
         on_ready[t] => on_ready'[t],
         Asleep(t) => Asleep(t)'
  PROVE  NoLostTask!(t)'
<1>1. NoLostTask!(t)
  BY DEF NoLostTask
<1> QED
  BY <1>1

-----------------------------------------------------------------------------
(* Steps that move one CPU and change nothing a task's place depends on.   *)

\* CPU c moves between two locations at which it holds its current task, which
\* is still on the CPU.
LEMMA Safe_Moves ==
  ASSUME SafeInv, BaseInv', QueuesExact', NEW c \in CPU, NEW l \in CpuLocs,
         Goto(c, l),
         pc[c] \notin Left \cup {"off", "switch"},
         l \notin Left \cup {"off", "boot", "switch"},
         \A t \in Task :
           g_current[c] = t /\ l \in {"task", "sleep_cs", "wake_lock", "wake"}
             /\ tpc[t] # "sleep_yield" => state[t] = "READY",
         jiffies' \in Nat, jiffies' >= jiffies,
         UNCHANGED <<taskVars, fieldVars, queueVars, g_current, stk, next,
                     g_sleep>>
  PROVE  SafeInv'
<1> USE NoTask DEF SafeInv, taskVars, fieldVars, queueVars
<1>0. /\ pc'[c] = l
      /\ \A d \in CPU : d # c => pc'[d] = pc[d]
  BY DEF BaseInv, TypeOK, Goto
<1>1. StackInv'
  BY <1>0 DEF StackInv, Left
<1>2. HomeInv'
  BY <1>0 DEF HomeInv, Uses, Queued, Left
<1>3. OnCpuInv'
  BY <1>0 DEF OnCpuInv, Left
<1>4. ReadyInv'
  BY <1>0 DEF ReadyInv, Left
<1>5. OwnCodeInv'
  <2> SUFFICES ASSUME NEW t \in Task PROVE OwnCodeInv!(t)'
    BY DEF OwnCodeInv
  <2>1. jiffies \in Nat /\ wake_jiffies[t] \in Nat
    BY DEF BaseInv, TypeOK
  <2> QED
    BY <2>1 DEF OwnCodeInv
<1>6. RunExclusive'
  BY <1>0 DEF RunExclusive, Holds, Left
<1>7. NoLostTask'
  BY <1>0 DEF NoLostTask, Asleep, Holds, Left
<1>8. SleepListExact' /\ SleepsItself' /\ PinnedBootsItself'
  BY DEF SleepListExact, Asleep, SleepsItself, PinnedBootsItself
<1> QED
  BY <1>1, <1>2, <1>3, <1>4, <1>5, <1>6, <1>7, <1>8

\* CPU c, which runs nothing, looks for a task, or finds that there is none.
LEMMA Safe_Looks ==
  ASSUME SafeInv, BaseInv', QueuesExact', NEW c \in CPU, NEW l \in CpuLocs,
         Goto(c, l),
         \/ pc[c] \in {"pick", "steal"}
         \/ pc[c] = "sched" /\ g_current[c] = Idle,
         \/ l \in {"pick", "steal"}
         \/ l = "install" /\ next'[c] = Idle,
         \A d \in CPU : d # c => next'[d] = next[d],
         UNCHANGED <<taskVars, fieldVars, queueVars, g_current, stk, jiffies,
                     g_sleep>>
  PROVE  SafeInv'
<1> USE NoTask DEF SafeInv, taskVars, fieldVars, queueVars
<1>0. /\ pc'[c] = l
      /\ \A d \in CPU : d # c => pc'[d] = pc[d]
  BY DEF BaseInv, TypeOK, Goto
<1>1. StackInv'
  BY <1>0 DEF StackInv
<1>2. HomeInv'
  BY <1>0 DEF HomeInv, Uses, Queued
<1>3. OnCpuInv'
  BY <1>0 DEF OnCpuInv, Left
<1>4. ReadyInv'
  BY <1>0 DEF ReadyInv
<1>5. OwnCodeInv'
  BY DEF OwnCodeInv
<1>6. RunExclusive'
  BY <1>0 DEF RunExclusive, Holds
<1>7. NoLostTask'
  <2>1. ASSUME NEW t \in created, NEW d \in CPU, Holds(d, t)
        PROVE  Holds(d, t)'
    BY <1>0, <2>1 DEF Holds, BaseInv, TypeOK
  <2>2. \A t \in Task : Asleep(t) => Asleep(t)'
    BY DEF Asleep
  <2>3. TypeOK
    BY DEF BaseInv
  <2> QED
    BY <2>1, <2>2, <2>3, KeptStep DEF NoLostTask, TypeOK
<1>8. SleepListExact' /\ SleepsItself' /\ PinnedBootsItself'
  BY DEF SleepListExact, Asleep, SleepsItself, PinnedBootsItself
<1> QED
  BY <1>1, <1>2, <1>3, <1>4, <1>5, <1>6, <1>7, <1>8

\* An application processor comes online.
LEMMA Safe_sched_cpu_init ==
  ASSUME SafeInv, BaseInv', QueuesExact', NEW c \in CPU, sched_cpu_init(c)
  PROVE  SafeInv'
<1> USE NoTask DEF SafeInv, sched_cpu_init, taskVars, fieldVars, queueVars
<1>0. /\ pc[c] = "off" /\ pc'[c] = "task"
      /\ g_current'[c] = Idle
      /\ \A d \in CPU : d # c => pc'[d] = pc[d] /\ g_current'[d] = g_current[d]
  BY DEF BaseInv, TypeOK, Goto
<1>1. StackInv'
  BY <1>0 DEF StackInv
<1>2. HomeInv'
  BY <1>0 DEF HomeInv, Uses, Queued
<1>3. OnCpuInv'
  BY <1>0 DEF OnCpuInv, StackInv
<1>4. ReadyInv'
  BY <1>0 DEF ReadyInv
<1>5. OwnCodeInv'
  BY DEF OwnCodeInv
<1>6. RunExclusive'
  BY <1>0 DEF RunExclusive, Holds
<1>7. NoLostTask'
  <2>1. ASSUME NEW t \in created, NEW d \in CPU, Holds(d, t)
        PROVE  Holds(d, t)'
    BY <1>0, <2>1 DEF Holds, BaseInv, TypeOK, StackInv
  <2>2. \A t \in Task : Asleep(t) => Asleep(t)'
    BY DEF Asleep
  <2>3. TypeOK
    BY DEF BaseInv
  <2> QED
    BY <2>1, <2>2, <2>3, KeptStep DEF NoLostTask, TypeOK
<1>8. SleepListExact' /\ SleepsItself' /\ PinnedBootsItself'
  BY DEF SleepListExact, Asleep, SleepsItself, PinnedBootsItself
<1> QED
  BY <1>1, <1>2, <1>3, <1>4, <1>5, <1>6, <1>7, <1>8

-----------------------------------------------------------------------------
(* schedule_from_irq.                                                      *)

\* The CPU leaves its task: a READY one it will queue itself, a SLEEPING one
\* is left to the sleep list.
LEMMA Safe_sched_out ==
  ASSUME SafeInv, BaseInv', QueuesExact', NEW c \in CPU, sched_out(c)
  PROVE  SafeInv'
<1> USE NoTask DEF SafeInv
<1>0. /\ pc[c] = "sched"
      /\ UNCHANGED <<taskVars, state, wake_jiffies, queueVars, cpuVars,
                     g_sleep, g_sched_lock, g_rr_create, jiffies>>
  BY DEF sched_out
<1>1. CASE g_current[c] = Idle /\ Goto(c, "pick") /\ UNCHANGED on_cpu
  <2>1. \A d \in CPU : d # c => next'[d] = next[d]
    BY <1>0 DEF cpuVars
  <2>2. "pick" \in CpuLocs
    BY DEF CpuLocs
  <2> QED
    BY <1>0, <1>1, <2>1, <2>2, Safe_Looks DEF cpuVars, fieldVars
<1>2. ASSUME NEW cur \in Task, NEW l \in {"requeue", "pick"},
             cur = g_current[c], Goto(c, l),
             on_cpu' = [on_cpu EXCEPT ![cur] = FALSE],
             state[cur] = IF l = "requeue" THEN "READY" ELSE "SLEEPING"
      PROVE  SafeInv'
  <2> USE <1>2 DEF taskVars, queueVars, cpuVars
  <2>0. /\ pc'[c] = l
        /\ \A d \in CPU : d # c => pc'[d] = pc[d]
    BY DEF BaseInv, TypeOK, Goto
  <2>a. ~on_cpu'[cur] /\ \A t \in Task : t # cur => on_cpu'[t] = on_cpu[t]
    BY DEF BaseInv, TypeOK
  <2>b. \A d \in CPU : Holds(d, cur) => d = c
    BY <1>0 DEF RunExclusive, Holds
  <2>1. StackInv'
    BY <1>0, <2>0 DEF StackInv
  <2>2. HomeInv'
    BY <1>0, <2>0 DEF HomeInv, Uses, Queued
  <2>3. OnCpuInv'
    BY <1>0, <2>0, <2>a, <2>b DEF OnCpuInv, Left, Holds
  <2>4. ReadyInv'
    BY <1>0, <2>0 DEF ReadyInv
  <2>5. OwnCodeInv'
    BY <1>0 DEF OwnCodeInv
  <2>6. RunExclusive'
    BY <1>0, <2>0 DEF RunExclusive, Holds
  <2>7. NoLostTask'
    <3>1. ASSUME NEW t \in created, t # cur PROVE NoLostTask!(t)'
      <4>1. TypeOK
        BY DEF BaseInv
      <4>2. ASSUME NEW d \in CPU, Holds(d, t) PROVE Holds(d, t)'
        BY <1>0, <2>0, <3>1, <4>2 DEF Holds
      <4>3. Asleep(t) => Asleep(t)'
        BY <1>0 DEF Asleep
      <4> QED
        BY <1>0, <4>1, <4>2, <4>3, KeptStep
    <3>2. NoLostTask!(cur)'
      BY <1>0, <2>0 DEF SleepListExact, Asleep, Holds
    <3> QED
      BY <1>0, <3>1, <3>2 DEF NoLostTask
  <2>8. SleepListExact' /\ SleepsItself' /\ PinnedBootsItself'
    BY <1>0 DEF SleepListExact, Asleep, SleepsItself, PinnedBootsItself
  <2> QED
    BY <2>1, <2>2, <2>3, <2>4, <2>5, <2>6, <2>7, <2>8
<1> QED
  BY <1>1, <1>2, SchedOutCases DEF BaseInv

\* What ready_enqueue does to a task that is not queued.
LEMMA EnqueueEffect ==
  ASSUME TypeOK, NEW c \in CPU, NEW t \in Task, ~on_ready[t],
         ready_enqueue(c, t)
  PROVE  /\ on_ready'[t] /\ cpu'[t] = c
         /\ \A u \in Task : u # t => on_ready'[u] = on_ready[u] /\ cpu'[u] = cpu[u]
         /\ \A d \in CPU, u \in Task :
              Queued(u, d)' => Queued(u, d) \/ (u = t /\ d = c)
<1>1. /\ g_rq' = [g_rq EXCEPT ![c] = Append(g_rq[c], t)]
      /\ on_ready' = [on_ready EXCEPT ![t] = TRUE]
      /\ cpu' = [cpu EXCEPT ![t] = c]
  BY DEF ready_enqueue
<1>2. /\ g_rq[c] \in Seq(Task)
      /\ \A d \in CPU : d # c => g_rq'[d] = g_rq[d]
      /\ g_rq'[c] = Append(g_rq[c], t)
  BY <1>1 DEF TypeOK
<1>3. ASSUME NEW u \in Task, Queued(u, c)' PROVE Queued(u, c) \/ u = t
  <2>1. PICK i \in 1 .. Len(g_rq'[c]) : g_rq'[c][i] = u
    BY <1>3 DEF Queued
  <2>2. /\ Len(g_rq'[c]) = Len(g_rq[c]) + 1 /\ Len(g_rq[c]) \in Nat
        /\ \A k \in 1 .. Len(g_rq[c]) : g_rq'[c][k] = g_rq[c][k]
        /\ g_rq'[c][Len(g_rq[c]) + 1] = t
    BY <1>2, AppendProperties
  <2>3. CASE i = Len(g_rq[c]) + 1
    BY <2>1, <2>2, <2>3
  <2>4. CASE i \in 1 .. Len(g_rq[c])
    BY <2>1, <2>2, <2>4 DEF Queued
  <2> QED
    BY <2>2, <2>3, <2>4
<1>4. ASSUME NEW d \in CPU, NEW u \in Task, Queued(u, d)'
      PROVE  Queued(u, d) \/ (u = t /\ d = c)
  <2>1. CASE d = c
    BY <1>3, <1>4, <2>1
  <2>2. CASE d # c
    BY <1>2, <1>4, <2>2 DEF Queued
  <2> QED
    BY <2>1, <2>2
<1> QED
  BY <1>1, <1>4 DEF TypeOK

\* What ready_dequeue does: the task that CPU c takes was queued on v.
LEMMA DequeueEffect ==
  ASSUME TypeOK, QueuesExact, NEW c \in CPU, NEW v \in CPU, g_rq[v] # <<>>,
         ready_dequeue(c, v)
  PROVE  \E h \in Task :
           /\ h = Head(g_rq[v]) /\ on_ready[h] /\ Queued(h, v)
           /\ next'[c] = h /\ \A d \in CPU : d # c => next'[d] = next[d]
           /\ ~on_ready'[h]
           /\ \A u \in Task : u # h => on_ready'[u] = on_ready[u]
           /\ \A d \in CPU, u \in Task : Queued(u, d)' => Queued(u, d)
           /\ UNCHANGED cpu
<1> DEFINE h == Head(g_rq[v])
<1>1. /\ g_rq' = [g_rq EXCEPT ![v] = Tail(g_rq[v])]
      /\ on_ready' = [on_ready EXCEPT ![h] = FALSE]
      /\ next' = [next EXCEPT ![c] = h]
      /\ UNCHANGED cpu
  BY DEF ready_dequeue
<1>2. g_rq[v] \in Seq(Task) /\ Len(g_rq[v]) \in Nat \ {0}
  BY EmptySeq DEF TypeOK
<1>3. /\ h \in Task /\ h = g_rq[v][1]
      /\ Len(Tail(g_rq[v])) = Len(g_rq[v]) - 1
      /\ \A i \in 1 .. Len(g_rq[v]) - 1 : Tail(g_rq[v])[i] = g_rq[v][i+1]
  BY <1>2, HeadTailProperties
<1> HIDE DEF h
<1>4. Queued(h, v) /\ on_ready[h]
  <2>1. 1 \in 1 .. Len(g_rq[v])
    BY <1>2
  <2>2. Queued(h, v)
    BY <1>3, <2>1 DEF Queued
  <2> QED
    BY <1>3, <2>2 DEF QueuesExact
<1>5. ASSUME NEW d \in CPU, NEW u \in Task, Queued(u, d)' PROVE Queued(u, d)
  <2>1. CASE d = v
    <3>1. g_rq'[d] = Tail(g_rq[v])
      BY <1>1, <2>1 DEF TypeOK
    <3>2. PICK i \in 1 .. Len(g_rq[v]) - 1 : Tail(g_rq[v])[i] = u
      BY <1>3, <1>5, <3>1 DEF Queued
    <3>3. i + 1 \in 1 .. Len(g_rq[v]) /\ g_rq[v][i+1] = u
      BY <1>2, <1>3, <3>2
    <3> QED
      BY <2>1, <3>3 DEF Queued
  <2>2. CASE d # v
    BY <1>1, <1>5, <2>2 DEF Queued, TypeOK
  <2> QED
    BY <2>1, <2>2
<1>6. /\ next'[c] = h /\ \A d \in CPU : d # c => next'[d] = next[d]
      /\ ~on_ready'[h]
      /\ \A u \in Task : u # h => on_ready'[u] = on_ready[u]
  BY <1>1, <1>3 DEF TypeOK
<1>7. h = Head(g_rq[v])
  BY DEF h
<1> QED
  BY <1>1, <1>3, <1>4, <1>5, <1>6, <1>7, Zenon

\* The CPU puts the task it left back into its queue.
LEMMA Safe_sched_requeue ==
  ASSUME SafeInv, BaseInv', QueuesExact', NEW c \in CPU, sched_requeue(c)
  PROVE  SafeInv'
<1> USE NoTask DEF SafeInv
<1> DEFINE t == g_current[c]
<1>0. /\ pc[c] = "requeue"
      /\ ready_enqueue(c, t)
      /\ UNCHANGED <<taskVars, fieldVars, cpuVars,
                     g_sleep, g_sched_lock, g_rr_create, jiffies>>
  BY DEF sched_requeue
<1>1. TypeOK /\ t \in Task
  BY <1>0 DEF BaseInv, CodeInv, CpuCodeInv
<1>2. /\ pc'[c] = "pick"
      /\ \A d \in CPU : d # c => pc'[d] = pc[d]
  BY <1>1 DEF TypeOK, Goto, sched_requeue
<1>3. Holds(c, t)
  BY <1>0 DEF Holds
<1>4. ~on_ready[t] /\ \A d \in CPU : Holds(d, t) => d = c
  BY <1>1, <1>3 DEF RunExclusive
<1>h. t = g_current[c]
  OBVIOUS
<1> HIDE DEF t
<1>5. /\ on_ready'[t] /\ cpu'[t] = c
      /\ \A u \in Task : u # t => on_ready'[u] = on_ready[u] /\ cpu'[u] = cpu[u]
      /\ \A d \in CPU, u \in Task :
           Queued(u, d)' => Queued(u, d) \/ (u = t /\ d = c)
  BY <1>0, <1>1, <1>4, EnqueueEffect
<1> USE DEF taskVars, fieldVars, cpuVars
<1>6. /\ t \in created /\ state[t] = "READY"
      /\ t \in Pinned => cpu[t] = c
      /\ \A d \in CPU : ~Queued(t, d)
  BY <1>0, <1>1, <1>4, <1>h DEF HomeInv, Uses, ReadyInv, QueuesExact
<1>7. StackInv'
  BY <1>0, <1>2 DEF StackInv
<1>8. HomeInv'
  BY <1>0, <1>1, <1>2, <1>5, <1>6, <1>h DEF HomeInv, Uses
<1>9. OnCpuInv'
  BY <1>0, <1>2 DEF OnCpuInv, Left
<1>10. ReadyInv'
  BY <1>0, <1>1, <1>2, <1>5, <1>6 DEF ReadyInv
<1>11. OwnCodeInv'
  BY <1>0, <1>1, <1>5, <1>6 DEF OwnCodeInv
<1>12. RunExclusive'
  BY <1>0, <1>1, <1>2, <1>4, <1>5, <1>h DEF RunExclusive, Holds
<1>13. NoLostTask'
  <2>1. ASSUME NEW u \in created, u # t PROVE NoLostTask!(u)'
    <3>1. ASSUME NEW d \in CPU, Holds(d, u) PROVE Holds(d, u)'
      BY <1>0, <1>2, <1>h, <2>1, <3>1 DEF Holds
    <3>2. Asleep(u) => Asleep(u)'
      BY <1>0 DEF Asleep
    <3>3. u \in Task
      BY <1>1 DEF TypeOK
    <3> QED
      BY <1>1, <1>5, <2>1, <3>1, <3>2, <3>3, KeptStep
  <2> QED
    BY <1>0, <1>5, <2>1 DEF NoLostTask
<1>14. SleepListExact' /\ SleepsItself' /\ PinnedBootsItself'
  BY <1>0 DEF SleepListExact, Asleep, SleepsItself, PinnedBootsItself
<1> QED
  BY <1>7, <1>8, <1>9, <1>10, <1>11, <1>12, <1>13, <1>14

\* CPU c takes a task from its own queue, or a task that may move from another.
LEMMA Safe_Dequeue ==
  ASSUME SafeInv, BaseInv', QueuesExact', NEW c \in CPU, NEW v \in CPU,
         pc[c] \in {"pick", "steal"}, Goto(c, "install"),
         g_rq[v] # <<>>, ready_dequeue(c, v),
         v = c \/ Head(g_rq[v]) \notin Pinned,
         UNCHANGED <<taskVars, fieldVars, g_current, stk, g_sleep, jiffies>>
  PROVE  SafeInv'
<1> USE NoTask DEF SafeInv, taskVars, fieldVars
<1>0. TypeOK /\ QueuesExact
  BY DEF BaseInv
<1>1. /\ pc'[c] = "install"
      /\ \A d \in CPU : d # c => pc'[d] = pc[d]
  BY <1>0 DEF TypeOK, Goto
<1>2. PICK h \in Task :
        /\ h = Head(g_rq[v]) /\ on_ready[h] /\ Queued(h, v)
        /\ next'[c] = h /\ \A d \in CPU : d # c => next'[d] = next[d]
        /\ ~on_ready'[h]
        /\ \A u \in Task : u # h => on_ready'[u] = on_ready[u]
        /\ \A d \in CPU, u \in Task : Queued(u, d)' => Queued(u, d)
        /\ UNCHANGED cpu
  BY <1>0, DequeueEffect
<1>3. /\ h \in created /\ state[h] = "READY"
      /\ h \in Pinned => cpu[h] = c
      /\ \A d \in CPU : ~Holds(d, h)
  BY <1>2 DEF ReadyInv, HomeInv, RunExclusive
<1>4. StackInv'
  BY <1>1 DEF StackInv
<1>5. HomeInv'
  BY <1>1, <1>2, <1>3 DEF HomeInv, Uses
<1>6. OnCpuInv'
  BY <1>1 DEF OnCpuInv, Left
<1>7. ReadyInv'
  BY <1>1, <1>2, <1>3 DEF ReadyInv
<1>8. OwnCodeInv'
  BY <1>2 DEF OwnCodeInv
<1>9. \A u \in Task, d \in CPU : Holds(d, u)' <=> Holds(d, u) \/ (u = h /\ d = c)
  BY <1>1, <1>2 DEF Holds
<1>10. RunExclusive'
  BY <1>2, <1>3, <1>9 DEF RunExclusive
<1>11. NoLostTask'
  <2>1. ASSUME NEW u \in created, u # h PROVE NoLostTask!(u)'
    <3>1. Asleep(u) => Asleep(u)'
      BY DEF Asleep
    <3>2. u \in Task
      BY <1>0 DEF TypeOK
    <3> QED
      BY <1>0, <1>2, <1>9, <2>1, <3>1, <3>2, KeptStep
  <2>2. NoLostTask!(h)'
    BY <1>9
  <2> QED
    BY <2>1, <2>2 DEF NoLostTask
<1>12. SleepListExact' /\ SleepsItself' /\ PinnedBootsItself'
  BY DEF SleepListExact, Asleep, SleepsItself, PinnedBootsItself
<1> QED
  BY <1>4, <1>5, <1>6, <1>7, <1>8, <1>10, <1>11, <1>12

\* ready_dequeue_local.
LEMMA Safe_sched_pick ==
  ASSUME SafeInv, BaseInv', QueuesExact', NEW c \in CPU, sched_pick(c)
  PROVE  SafeInv'
<1>0. /\ pc[c] = "pick"
      /\ UNCHANGED <<taskVars, fieldVars, g_current, stk, pos,
                     g_sleep, g_sched_lock, g_rr_create, jiffies>>
  BY DEF sched_pick
<1>1. CASE g_rq[c] # <<>>
  <2>1. ready_dequeue(c, c) /\ Goto(c, "install")
    BY <1>1 DEF sched_pick
  <2> QED
    BY <1>0, <1>1, <2>1, Safe_Dequeue
<1>2. CASE g_rq[c] = <<>>
  <2>1. Goto(c, "steal") /\ UNCHANGED <<queueVars, next>>
    BY <1>2 DEF sched_pick
  <2>2. "steal" \in CpuLocs
    BY DEF CpuLocs
  <2> QED
    BY <1>0, <2>1, <2>2, Safe_Looks
<1> QED
  BY <1>1, <1>2

\* One victim of rq_steal_one.
LEMMA Safe_rq_steal_one ==
  ASSUME SafeInv, BaseInv', QueuesExact', NEW c \in CPU, rq_steal_one(c)
  PROVE  SafeInv'
<1> DEFINE v == (c + pos[c]) % NCpus
<1>t. TypeOK
  BY DEF SafeInv, BaseInv
<1>v. v \in CPU
  BY <1>t, VictimType
<1>0. /\ pc[c] = "steal"
      /\ UNCHANGED <<taskVars, fieldVars, g_current, stk,
                     g_sleep, g_sched_lock, g_rr_create, jiffies>>
  BY DEF rq_steal_one
<1>1. CASE may_steal(v)
  <2>1. ready_dequeue(c, v) /\ Goto(c, "install")
    BY <1>1 DEF rq_steal_one
  <2>2. g_rq[v] # <<>> /\ Head(g_rq[v]) \notin Pinned
    BY <1>1 DEF may_steal
  <2> HIDE DEF v
  <2> QED
    BY <1>0, <1>v, <2>1, <2>2, Safe_Dequeue
<1>2. CASE ~may_steal(v)
  <2>1. UNCHANGED <<queueVars, next, pc>>
    BY <1>2 DEF rq_steal_one
  <2>2. Goto(c, "steal") /\ "steal" \in CpuLocs
    BY <1>0, <1>t, <2>1 DEF TypeOK, Goto, CpuLocs
  <2> QED
    BY <1>0, <2>1, <2>2, Safe_Looks
<1> QED
  BY <1>1, <1>2

\* Nothing to run.
LEMMA Safe_sched_idle ==
  ASSUME SafeInv, BaseInv', QueuesExact', NEW c \in CPU, sched_idle(c)
  PROVE  SafeInv'
<1>1. /\ pc[c] = "steal" /\ Goto(c, "install") /\ "install" \in CpuLocs
      /\ UNCHANGED <<taskVars, fieldVars, queueVars, g_current, stk, jiffies,
                     g_sleep>>
  BY DEF sched_idle, CpuLocs
<1>2. next'[c] = Idle /\ \A d \in CPU : d # c => next'[d] = next[d]
  BY DEF sched_idle, SafeInv, BaseInv, TypeOK
<1> QED
  BY <1>1, <1>2, Safe_Looks

\* The task that was taken becomes the current one.
LEMMA Safe_sched_install ==
  ASSUME SafeInv, BaseInv', QueuesExact', NEW c \in CPU, sched_install(c)
  PROVE  SafeInv'
<1> USE NoTask DEF SafeInv
<1> DEFINE n == next[c]
<1>0. TypeOK /\ n \in Task \cup {Idle}
  BY DEF BaseInv, TypeOK, CodeInv, CpuCodeInv, sched_install
<1>1. /\ pc[c] = "install" /\ pc'[c] = "switch"
      /\ g_current'[c] = n
      /\ \A d \in CPU : d # c => /\ pc'[d] = pc[d]
                                 /\ g_current'[d] = g_current[d]
                                 /\ next'[d] = next[d]
      /\ UNCHANGED <<taskVars, state, wake_jiffies, g_rq, on_ready, stk, pos,
                     g_sleep, g_sched_lock, g_rr_create, jiffies>>
  BY <1>0 DEF TypeOK, Goto, sched_install
<1>2. /\ \A u \in Task : u # n => on_cpu'[u] = on_cpu[u] /\ cpu'[u] = cpu[u]
      /\ n \in Task => on_cpu'[n] /\ cpu'[n] = c
  <2>1. CASE n = Idle
    BY <1>0, <2>1 DEF sched_install
  <2>2. CASE n # Idle
    <3>1. /\ on_cpu' = [on_cpu EXCEPT ![n] = TRUE]
          /\ cpu' = [cpu EXCEPT ![n] = c]
      BY <2>2 DEF sched_install
    <3> QED
      BY <1>0, <3>1 DEF TypeOK
  <2> QED
    BY <2>1, <2>2
<1>h. n = next[c]
  OBVIOUS
<1> HIDE DEF n
<1> USE DEF taskVars
<1>3. n \in Task => /\ n \in created /\ state[n] = "READY" /\ ~on_ready[n]
                    /\ n \in Pinned => cpu[n] = c
                    /\ \A d \in CPU : ~Queued(n, d)
                    /\ \A d \in CPU : Holds(d, n) => d = c
  BY <1>1, <1>h DEF HomeInv, Uses, ReadyInv, RunExclusive, Holds, QueuesExact
<1>4. StackInv'
  BY <1>1 DEF StackInv
<1>5. HomeInv'
  <2>1. ASSUME NEW d \in CPU, NEW u \in Task, Uses(d, u)'
        PROVE  u \in created /\ (u \in Pinned => cpu'[u] = d)
    <3>1. Uses(d, u)
      BY <1>1, <1>h, <2>1 DEF Uses
    <3> QED
      BY <1>2, <1>3, <3>1 DEF HomeInv
  <2>2. ASSUME NEW d \in CPU, NEW u \in Task, Queued(u, d)' PROVE cpu'[u] = d
    BY <1>1, <1>2, <1>3, <2>2 DEF HomeInv, Queued
  <2> QED
    BY <1>1, <2>1, <2>2 DEF HomeInv
<1>6. OnCpuInv'
  <2>1. ASSUME NEW u \in Task, u # n
        PROVE  on_cpu'[u] <=> \E d \in CPU : g_current'[d] = u /\ pc'[d] \notin Left
    BY <1>1, <1>2, <2>1 DEF OnCpuInv, Left
  <2>2. ASSUME NEW u \in Task, u = n
        PROVE  on_cpu'[u] <=> \E d \in CPU : g_current'[d] = u /\ pc'[d] \notin Left
    BY <1>1, <1>2, <2>2 DEF Left
  <2> QED
    BY <2>1, <2>2 DEF OnCpuInv
<1>7. ReadyInv'
  BY <1>1, <1>3 DEF ReadyInv
<1>8. OwnCodeInv'
  BY <1>1, <1>2, <1>3 DEF OwnCodeInv
<1>9. \A u \in Task, d \in CPU : Holds(d, u)' <=> Holds(d, u)
  BY <1>1, <1>h DEF Holds
<1>10. RunExclusive'
  BY <1>1, <1>9 DEF RunExclusive
<1>11. NoLostTask'
  <2>1. ASSUME NEW u \in created PROVE NoLostTask!(u)'
    <3>1. Asleep(u) => Asleep(u)'
      BY <1>1 DEF Asleep
    <3>2. u \in Task
      BY <1>0 DEF TypeOK
    <3> QED
      BY <1>0, <1>1, <1>9, <2>1, <3>1, <3>2, KeptStep
  <2> QED
    BY <1>1, <2>1 DEF NoLostTask
<1>12. SleepListExact' /\ SleepsItself' /\ PinnedBootsItself'
  BY <1>1 DEF SleepListExact, Asleep, SleepsItself, PinnedBootsItself
<1> QED
  BY <1>4, <1>5, <1>6, <1>7, <1>8, <1>10, <1>11, <1>12

\* The handler returns on the stack of the current task.
LEMMA Safe_iret ==
  ASSUME SafeInv, BaseInv', QueuesExact', NEW c \in CPU, iret(c)
  PROVE  SafeInv'
<1> USE NoTask DEF SafeInv
<1>0. TypeOK
  BY DEF BaseInv
<1>1. /\ pc[c] = "switch" /\ pc'[c] = "task"
      /\ stk'[c] = g_current[c]
      /\ \A d \in CPU : d # c => pc'[d] = pc[d] /\ stk'[d] = stk[d]
      /\ UNCHANGED <<taskVars, fieldVars, queueVars, g_current, next, pos,
                     g_sleep, g_sched_lock, g_rr_create, jiffies>>
  BY <1>0 DEF TypeOK, Goto, iret
<1> USE DEF taskVars, fieldVars, queueVars
<1>4. StackInv'
  BY <1>1 DEF StackInv
<1>5. HomeInv'
  BY <1>1 DEF HomeInv, Uses, Queued
<1>6. OnCpuInv'
  BY <1>1 DEF OnCpuInv, Left
<1>7. ReadyInv'
  BY <1>1 DEF ReadyInv
<1>8. OwnCodeInv'
  BY <1>1 DEF OwnCodeInv
<1>9. \A u \in Task, d \in CPU : Holds(d, u)' <=> Holds(d, u)
  BY <1>1 DEF Holds
<1>10. RunExclusive'
  BY <1>1, <1>9 DEF RunExclusive
<1>11. NoLostTask'
  <2>1. ASSUME NEW u \in created PROVE NoLostTask!(u)'
    <3>1. Asleep(u) => Asleep(u)'
      BY <1>1 DEF Asleep
    <3>2. u \in Task
      BY <1>0 DEF TypeOK
    <3> QED
      BY <1>0, <1>1, <1>9, <2>1, <3>1, <3>2, KeptStep
  <2> QED
    BY <1>1, <2>1 DEF NoLostTask
<1>12. SleepListExact' /\ SleepsItself' /\ PinnedBootsItself'
  BY <1>1 DEF SleepListExact, Asleep, SleepsItself, PinnedBootsItself
<1> QED
  BY <1>4, <1>5, <1>6, <1>7, <1>8, <1>10, <1>11, <1>12

-----------------------------------------------------------------------------
(* The sleep list.                                                         *)

\* Unlinking the entry at p takes exactly that task off the list.
LEMMA UnlinkEffect ==
  ASSUME TypeOK, NEW p \in 1 .. Len(g_sleep), NEW t \in Task, t = g_sleep[p],
         \A i, j \in 1 .. Len(g_sleep) : g_sleep[i] = g_sleep[j] => i = j,
         g_sleep' = RemoveAt(g_sleep, p)
  PROVE  /\ \A u \in Task : Asleep(u)' <=> Asleep(u) /\ u # t
         /\ \A i, j \in 1 .. Len(g_sleep') : g_sleep'[i] = g_sleep'[j] => i = j
<1> DEFINE old(i) == IF i < p THEN i ELSE i + 1
<1>1. g_sleep \in Seq(Task) /\ Len(g_sleep) \in Nat
  BY DEF TypeOK
<1>2. /\ Len(g_sleep') = Len(g_sleep) - 1
      /\ \A i \in 1 .. Len(g_sleep) - 1 : g_sleep'[i] = g_sleep[old(i)]
  <2>1. \A i \in 1 .. Len(g_sleep) - 1 :
          g_sleep'[i] = IF i < p THEN g_sleep[i] ELSE g_sleep[i+1]
    BY <1>1, RemoveAtProperties
  <2> QED
    BY <1>1, <2>1, RemoveAtProperties
<1>3. ASSUME NEW i \in 1 .. Len(g_sleep')
      PROVE  old(i) \in 1 .. Len(g_sleep) /\ old(i) # p /\ g_sleep'[i] = g_sleep[old(i)]
  BY <1>1, <1>2
<1>4. \A i, j \in 1 .. Len(g_sleep') : old(i) = old(j) => i = j
  BY <1>1, <1>2
<1>5. ASSUME NEW k \in 1 .. Len(g_sleep), k # p
      PROVE  \E i \in 1 .. Len(g_sleep') : g_sleep'[i] = g_sleep[k]
  <2>1. CASE k < p
    <3>1. k \in 1 .. Len(g_sleep') /\ old(k) = k
      BY <1>1, <1>2, <2>1
    <3> QED
      BY <1>3, <3>1
  <2>2. CASE k > p
    <3>1. k - 1 \in 1 .. Len(g_sleep') /\ old(k-1) = k
      BY <1>1, <1>2, <2>2
    <3> QED
      BY <1>3, <3>1
  <2> QED
    BY <1>5, <2>1, <2>2
<1> HIDE DEF old
<1>6. ASSUME NEW u \in Task, Asleep(u)' PROVE Asleep(u) /\ u # t
  <2>1. PICK i \in 1 .. Len(g_sleep') : g_sleep'[i] = u
    BY <1>6 DEF Asleep
  <2>2. old(i) \in 1 .. Len(g_sleep) /\ old(i) # p /\ g_sleep[old(i)] = u
    BY <1>3, <2>1
  <2> QED
    BY <2>2 DEF Asleep
<1>7. ASSUME NEW u \in Task, Asleep(u), u # t PROVE Asleep(u)'
  BY <1>5, <1>7 DEF Asleep
<1>8. ASSUME NEW i \in 1 .. Len(g_sleep'), NEW j \in 1 .. Len(g_sleep'),
             g_sleep'[i] = g_sleep'[j]
      PROVE  i = j
  <2>1. /\ old(i) \in 1 .. Len(g_sleep) /\ old(j) \in 1 .. Len(g_sleep)
        /\ g_sleep[old(i)] = g_sleep[old(j)]
    BY <1>3, <1>8
  <2> QED
    BY <1>4, <2>1
<1> QED
  BY <1>6, <1>7, <1>8

\* Linking a task that is not on the list at its head.
LEMMA LinkEffect ==
  ASSUME TypeOK, NEW t \in Task, ~Asleep(t),
         \A i, j \in 1 .. Len(g_sleep) : g_sleep[i] = g_sleep[j] => i = j,
         g_sleep' = <<t>> \o g_sleep
  PROVE  /\ \A u \in Task : Asleep(u)' <=> Asleep(u) \/ u = t
         /\ \A i, j \in 1 .. Len(g_sleep') : g_sleep'[i] = g_sleep'[j] => i = j
<1>1. g_sleep \in Seq(Task) /\ Len(g_sleep) \in Nat
  BY DEF TypeOK
<1>2. /\ Len(g_sleep') = Len(g_sleep) + 1
      /\ g_sleep'[1] = t
      /\ \A i \in 1 .. Len(g_sleep) : g_sleep'[i+1] = g_sleep[i]
  BY <1>1, PushProperties
<1>3. ASSUME NEW i \in 1 .. Len(g_sleep')
      PROVE  i = 1 \/ (i - 1 \in 1 .. Len(g_sleep) /\ g_sleep'[i] = g_sleep[i-1])
  BY <1>1, <1>2
<1>4. ASSUME NEW u \in Task PROVE Asleep(u)' => Asleep(u) \/ u = t
  BY <1>2, <1>3 DEF Asleep
<1>5. ASSUME NEW u \in Task, Asleep(u) PROVE Asleep(u)'
  <2>1. PICK i \in 1 .. Len(g_sleep) : g_sleep[i] = u
    BY <1>5 DEF Asleep
  <2>2. i + 1 \in 1 .. Len(g_sleep') /\ g_sleep'[i+1] = u
    BY <1>1, <1>2, <2>1
  <2> QED
    BY <2>2 DEF Asleep
<1>6. Asleep(t)'
  <2>1. 1 \in 1 .. Len(g_sleep')
    BY <1>1, <1>2
  <2> QED
    BY <1>2, <2>1 DEF Asleep
<1>7. ASSUME NEW i \in 1 .. Len(g_sleep'), NEW j \in 1 .. Len(g_sleep'),
             g_sleep'[i] = g_sleep'[j]
      PROVE  i = j
  <2>0. \A k \in 1 .. Len(g_sleep) : g_sleep[k] # t
    BY DEF Asleep
  <2>1. CASE i = 1 \/ j = 1
    BY <1>2, <1>3, <1>7, <2>0, <2>1
  <2>2. CASE i # 1 /\ j # 1
    <3>1. /\ i - 1 \in 1 .. Len(g_sleep) /\ j - 1 \in 1 .. Len(g_sleep)
          /\ g_sleep[i-1] = g_sleep[j-1]
      BY <1>3, <1>7, <2>2
    <3>2. i - 1 = j - 1
      BY <3>1
    <3> QED
      BY <1>1, <1>2, <3>2
  <2> QED
    BY <2>1, <2>2
<1> QED
  BY <1>4, <1>5, <1>6, <1>7

\* A step of the walk in sched_wake_sleepers.
LEMMA Safe_wake_step ==
  ASSUME SafeInv, BaseInv', QueuesExact', NEW c \in CPU, wake_step(c)
  PROVE  SafeInv'
<1> USE NoTask DEF SafeInv
<1> DEFINE t == g_sleep[pos[c]]
<1>t. TypeOK
  BY DEF BaseInv
<1>0. /\ t \in Task /\ pos[c] \in 1 .. Len(g_sleep)
      /\ UNCHANGED <<taskVars, wake_jiffies, on_cpu, g_current, stk, next,
                     g_sched_lock, g_rr_create, jiffies, pc>>
  BY <1>t, WakeStepCases DEF wake_step
<1>1. CASE UNCHANGED <<g_sleep, state, queueVars>>
  <2> USE <1>0, <1>1 DEF taskVars, queueVars
  <2>1. StackInv' /\ HomeInv'
    BY DEF StackInv, HomeInv, Uses, Queued
  <2>2. OnCpuInv' /\ ReadyInv' /\ OwnCodeInv'
    BY DEF OnCpuInv, ReadyInv, OwnCodeInv
  <2>3. RunExclusive' /\ NoLostTask'
    BY DEF RunExclusive, NoLostTask, Holds, Asleep
  <2>4. SleepListExact' /\ SleepsItself' /\ PinnedBootsItself'
    BY DEF SleepListExact, Asleep, SleepsItself, PinnedBootsItself
  <2> QED
    BY <2>1, <2>2, <2>3, <2>4
<1>2. CASE /\ wake_due(t)
           /\ g_sleep' = RemoveAt(g_sleep, pos[c])
           /\ state' = [state EXCEPT ![t] = "READY"]
           /\ wake_enqueue(t)
  <2>h. t = g_sleep[pos[c]]
    OBVIOUS
  <2>1. /\ \A u \in Task : Asleep(u)' <=> Asleep(u) /\ u # t
        /\ \A i, j \in 1 .. Len(g_sleep') : g_sleep'[i] = g_sleep'[j] => i = j
    <3> HIDE DEF t
    <3> QED
      BY <1>t, <1>0, <1>2, <2>h, UnlinkEffect DEF SleepListExact
  <2>2. Asleep(t) /\ state[t] = "SLEEPING"
    BY <1>0 DEF Asleep, SleepListExact
  <2> HIDE DEF t
  <2>3. /\ state'[t] = "READY"
        /\ \A u \in Task : u # t => state'[u] = state[u]
    BY <1>t, <1>0, <1>2 DEF TypeOK
  <2>4. ~on_ready[t] /\ t \in created
    BY <1>0, <2>2 DEF ReadyInv, OwnCodeInv
  <2>5. \A d \in CPU : ~on_cpu[t] => ~Holds(d, t)
    BY <1>0, <2>2 DEF OnCpuInv, ReadyInv, Holds, Left
  <2>6. cpu[t] \in CPU
    BY <1>t, <1>0 DEF TypeOK
  <2>7. /\ \A u \in Task : cpu'[u] = cpu[u] /\ (u # t => on_ready'[u] = on_ready[u])
        /\ on_cpu[t] => ~on_ready'[t]
        /\ ~on_cpu[t] => on_ready'[t]
        /\ \A d \in CPU, u \in Task :
             Queued(u, d)' => Queued(u, d) \/ (u = t /\ d = cpu[t])
    <3>1. CASE on_cpu[t]
      BY <1>2, <2>4, <3>1 DEF wake_enqueue, queueVars, Queued
    <3>2. CASE ~on_cpu[t]
      <4>1. ready_enqueue(cpu[t], t)
        BY <1>2, <3>2 DEF wake_enqueue
      <4>2. /\ on_ready'[t] /\ cpu'[t] = cpu[t]
            /\ \A u \in Task :
                 u # t => on_ready'[u] = on_ready[u] /\ cpu'[u] = cpu[u]
            /\ \A d \in CPU, u \in Task :
                 Queued(u, d)' => Queued(u, d) \/ (u = t /\ d = cpu[t])
        BY <1>t, <1>0, <2>4, <2>6, <4>1, EnqueueEffect
      <4> QED
        BY <3>2, <4>2
    <3> QED
      BY <3>1, <3>2
  <2> USE <1>0 DEF taskVars
  <2>8. StackInv'
    BY DEF StackInv
  <2>9. HomeInv'
    BY <2>7 DEF HomeInv, Uses
  <2>10. OnCpuInv'
    BY DEF OnCpuInv
  <2>11. ReadyInv'
    BY <2>3, <2>4, <2>7 DEF ReadyInv
  <2>12. OwnCodeInv'
    BY <1>2, <2>3, <2>7 DEF OwnCodeInv, wake_due
  <2>13. \A u \in Task, d \in CPU : Holds(d, u)' <=> Holds(d, u)
    BY DEF Holds
  <2>14. RunExclusive'
    BY <2>5, <2>7, <2>13 DEF RunExclusive
  <2>15. NoLostTask'
    <3>1. ASSUME NEW u \in created, u # t PROVE NoLostTask!(u)'
      <4>1. u \in Task
        BY <1>t DEF TypeOK
      <4> QED
        BY <1>t, <2>1, <2>7, <2>13, <3>1, <4>1, KeptStep
    <3>2. ASSUME NEW u \in created, u = t PROVE NoLostTask!(u)'
      <4>1. CASE on_cpu[t]
        <5>1. PICK d \in CPU : g_current[d] = u /\ pc[d] \notin Left
          BY <3>2, <4>1 DEF OnCpuInv
        <5>2. Holds(d, u)'
          BY <5>1 DEF Holds, Left
        <5> QED
          BY <5>2
      <4>2. CASE ~on_cpu[t]
        BY <2>7, <3>2, <4>2
      <4> QED
        BY <4>1, <4>2
    <3> QED
      BY <3>1, <3>2 DEF NoLostTask
  <2>16. SleepListExact'
    BY <2>1, <2>3 DEF SleepListExact
  <2>17. SleepsItself' /\ PinnedBootsItself'
    BY DEF SleepsItself, PinnedBootsItself
  <2> QED
    BY <2>8, <2>9, <2>10, <2>11, <2>12, <2>14, <2>15, <2>16, <2>17
<1> QED
  BY <1>t, <1>1, <1>2, WakeStepCases

-----------------------------------------------------------------------------
(* Tasks.                                                                  *)

\* A new task is queued and is nowhere else.
LEMMA Safe_task_create_ex ==
  ASSUME SafeInv, BaseInv', QueuesExact', NEW c \in CPU, NEW t \in Task,
         task_create_ex(c, t)
  PROVE  SafeInv'
<1> USE NoTask DEF SafeInv
<1> DEFINE g == create_target(c, t)
<1>t. TypeOK
  BY DEF BaseInv
<1>0. /\ t \notin created /\ created' = created \cup {t}
      /\ ready_enqueue(g, t) /\ g \in CPU
      /\ UNCHANGED <<tpc, loc, entry, fieldVars, cpuVars,
                     g_sleep, g_sched_lock, jiffies, pc>>
  BY <1>t, CreateTargetType DEF task_create_ex
<1> HIDE DEF g
<1>1. /\ ~on_ready[t] /\ tpc[t] = "boot" /\ state[t] = "READY"
      /\ \A d \in CPU : ~Uses(d, t)
  BY <1>t, <1>0 DEF ReadyInv, HomeInv, OwnCodeInv, TypeOK
<1>2. /\ on_ready'[t] /\ cpu'[t] = g
      /\ \A u \in Task : u # t => on_ready'[u] = on_ready[u] /\ cpu'[u] = cpu[u]
      /\ \A d \in CPU, u \in Task :
           Queued(u, d)' => Queued(u, d) \/ (u = t /\ d = g)
  BY <1>t, <1>0, <1>1, EnqueueEffect
<1>3. \A d \in CPU : ~Holds(d, t) /\ ~Queued(t, d)
  BY <1>1 DEF Holds, Uses, QueuesExact
<1> USE DEF fieldVars, cpuVars
<1>4. StackInv'
  BY <1>0 DEF StackInv
<1>5. HomeInv'
  BY <1>0, <1>1, <1>2, <1>3 DEF HomeInv, Uses
<1>6. OnCpuInv'
  BY <1>0 DEF OnCpuInv
<1>7. ReadyInv'
  BY <1>0, <1>1, <1>2 DEF ReadyInv
<1>8. OwnCodeInv'
  BY <1>0, <1>1, <1>2 DEF OwnCodeInv
<1>9. \A u \in Task, d \in CPU : Holds(d, u)' <=> Holds(d, u)
  BY <1>0 DEF Holds
<1>10. RunExclusive'
  BY <1>2, <1>3, <1>9 DEF RunExclusive
<1>11. NoLostTask'
  <2>1. ASSUME NEW u \in created PROVE NoLostTask!(u)'
    <3>1. u \in Task /\ u # t
      BY <1>t, <1>0 DEF TypeOK
    <3>2. Asleep(u) => Asleep(u)'
      BY <1>0 DEF Asleep
    <3> QED
      BY <1>t, <1>2, <1>9, <2>1, <3>1, <3>2, KeptStep
  <2> QED
    BY <1>0, <1>2, <2>1 DEF NoLostTask
<1>12. SleepListExact' /\ SleepsItself' /\ PinnedBootsItself'
  BY <1>0 DEF SleepListExact, Asleep, SleepsItself, PinnedBootsItself
<1> QED
  BY <1>4, <1>5, <1>6, <1>7, <1>8, <1>10, <1>11, <1>12

\* A step of t's own code outside the critical section: how it may move t.
LEMMA Safe_TaskStep ==
  ASSUME SafeInv, BaseInv', QueuesExact', Sleepers \subseteq Pinned,
         NEW c \in CPU, NEW t \in Task,
         NEW from \in TaskLocs, NEW to \in TaskLocs \ {"boot"},
         TaskStep(c, t, from, to),
         (UNCHANGED pc /\ from # "sleep_yield") \/ Goto(c, "sched"),
         from = "sleep_yield" <=> to = "sleep_ret", to # "sleep_yield",
         to \in {"sleep_cur", "sleep_lock", "sleep_ret"} => t \in Sleepers,
         \A u \in Task : u # t => loc'[u] = loc[u] /\ entry'[u] = entry[u],
         to \in {"boot_cur", "sleep_cur"} => loc'[t] = c,
         to = "sleep_lock" => loc'[t] = t,
         t \in Pinned /\ to # "boot_cur" => entry'[t] = t
  PROVE  SafeInv'
<1> USE NoTask DEF SafeInv
<1>t. TypeOK
  BY DEF BaseInv
<1>0. /\ pc[c] = "task" /\ stk[c] = t /\ tpc[t] = from
      /\ tpc'[t] = to /\ \A u \in Task : u # t => tpc'[u] = tpc[u]
      /\ UNCHANGED <<created, fieldVars, queueVars, cpuVars,
                     g_sleep, g_sched_lock, g_rr_create, jiffies>>
  BY <1>t DEF TaskStep, Executes, TaskGoto, TypeOK
<1>1. /\ pc'[c] = "sched" \/ (pc'[c] = "task" /\ from # "sleep_yield")
      /\ \A d \in CPU : d # c => pc'[d] = pc[d]
  BY <1>t, <1>0 DEF TypeOK, Goto
<1>2. g_current[c] = t /\ Holds(c, t)
  BY <1>0 DEF StackInv, Holds
<1>3. /\ \A d \in CPU : Holds(d, t) => d = c
      /\ t \in created /\ (t \in Pinned => cpu[t] = c)
      /\ from # "sleep_yield" => state[t] = "READY"
  BY <1>0, <1>2 DEF RunExclusive, HomeInv, Uses, ReadyInv
<1> USE DEF fieldVars, queueVars, cpuVars
<1>4. StackInv'
  BY <1>0, <1>1 DEF StackInv
<1>5. HomeInv'
  BY <1>0, <1>1 DEF HomeInv, Uses, Queued
<1>6. OnCpuInv'
  BY <1>0, <1>1 DEF OnCpuInv, Left
<1>7. ReadyInv'
  <2>1. ASSUME NEW d \in CPU, NEW u \in Task, u # t
        PROVE  ReadyInv!2!(d, u)'
    BY <1>0, <1>1, <1>2, <2>1 DEF ReadyInv
  <2>2. ASSUME NEW d \in CPU PROVE ReadyInv!2!(d, t)'
    BY <1>0, <1>1, <1>2, <1>3 DEF ReadyInv, Holds
  <2>3. ReadyInv!1'
    BY <1>0 DEF ReadyInv
  <2> QED
    BY <2>1, <2>2, <2>3 DEF ReadyInv
<1>8. OwnCodeInv'
  <2>1. ASSUME NEW u \in Task, u # t PROVE OwnCodeInv!(u)'
    BY <1>0, <2>1 DEF OwnCodeInv
  <2>2. OwnCodeInv!(t)'
    BY <1>0, <1>1, <1>3 DEF OwnCodeInv
  <2> QED
    BY <2>1, <2>2 DEF OwnCodeInv
<1>9. \A u \in Task, d \in CPU : Holds(d, u)' <=> Holds(d, u)
  BY <1>0, <1>1, <1>2 DEF Holds
<1>10. RunExclusive'
  BY <1>0, <1>9 DEF RunExclusive
<1>11. NoLostTask'
  <2>1. ASSUME NEW u \in created PROVE NoLostTask!(u)'
    <3>1. Asleep(u) => Asleep(u)'
      BY <1>0 DEF Asleep
    <3>2. u \in Task
      BY <1>t DEF TypeOK
    <3> QED
      BY <1>t, <1>0, <1>9, <2>1, <3>1, <3>2, KeptStep
  <2> QED
    BY <1>0, <2>1 DEF NoLostTask
<1>12. SleepListExact'
  BY <1>0 DEF SleepListExact, Asleep
<1>13. SleepsItself' /\ PinnedBootsItself'
  <2>1. Pinned \subseteq Task
    BY SchedAssumption
  <2> QED
    BY <1>0, <2>1 DEF SleepsItself, PinnedBootsItself
<1> QED
  BY <1>4, <1>5, <1>6, <1>7, <1>8, <1>10, <1>11, <1>12, <1>13

\* The critical section of sched_sleep_jiffies: the task that goes to sleep is
\* the one that called it, and it is not on the list yet.
LEMMA Safe_sleep_unlock ==
  ASSUME SafeInv, BaseInv', QueuesExact', NEW c \in CPU, NEW t \in Task,
         NEW jf \in 1 .. MaxSleep, sleep_unlock(c, t, jf)
  PROVE  SafeInv'
<1> USE NoTask DEF SafeInv
<1>t. TypeOK
  BY DEF BaseInv
<1>0. pc[c] = "sleep_cs" /\ stk[c] = t /\ tpc[t] = "sleep_lock"
  BY DEF sleep_unlock, BaseInv, CodeInv, CpuCodeInv
<1>1. loc[t] = t
  BY <1>0 DEF SleepsItself
<1>2. /\ state'[t] = "SLEEPING" /\ tpc'[t] = "sleep_yield" /\ pc'[c] = "task"
      /\ \A u \in Task : u # t => /\ state'[u] = state[u]
                                  /\ tpc'[u] = tpc[u]
                                  /\ loc'[u] = loc[u]
                                  /\ wake_jiffies'[u] = wake_jiffies[u]
      /\ \A d \in CPU : d # c => pc'[d] = pc[d]
      /\ g_sleep' = <<t>> \o g_sleep
      /\ UNCHANGED <<created, entry, on_cpu, queueVars, cpuVars,
                     g_rr_create, jiffies>>
  BY <1>t, <1>1 DEF TypeOK, sleep_unlock, Goto, TaskGoto
<1>3. g_current[c] = t /\ Holds(c, t)
  BY <1>0 DEF StackInv, Holds
<1>4. /\ \A d \in CPU : Holds(d, t) => d = c
      /\ ~on_ready[t] /\ t \in created /\ t \in Sleepers
      /\ state[t] = "READY"
  BY <1>0, <1>3 DEF RunExclusive, HomeInv, Uses, ReadyInv, OwnCodeInv
<1>5. ~Asleep(t)
  BY <1>4 DEF SleepListExact
<1>6. /\ \A u \in Task : Asleep(u)' <=> Asleep(u) \/ u = t
      /\ \A i, j \in 1 .. Len(g_sleep') : g_sleep'[i] = g_sleep'[j] => i = j
  BY <1>t, <1>2, <1>5, LinkEffect DEF SleepListExact
<1> USE DEF queueVars, cpuVars
<1>7. StackInv'
  BY <1>0, <1>2 DEF StackInv
<1>8. HomeInv'
  BY <1>0, <1>2 DEF HomeInv, Uses, Queued
<1>9. OnCpuInv'
  BY <1>0, <1>2 DEF OnCpuInv, Left
<1>10. ReadyInv'
  <2>1. ASSUME NEW d \in CPU, NEW u \in Task, u # t
        PROVE  ReadyInv!2!(d, u)'
    BY <1>0, <1>2, <1>3, <2>1 DEF ReadyInv
  <2>2. ASSUME NEW d \in CPU PROVE ReadyInv!2!(d, t)'
    BY <1>0, <1>2, <1>3, <1>4 DEF ReadyInv, Holds
  <2>3. ReadyInv!1'
    BY <1>2, <1>4 DEF ReadyInv
  <2> QED
    BY <2>1, <2>2, <2>3 DEF ReadyInv
<1>11. OwnCodeInv'
  <2>1. ASSUME NEW u \in Task, u # t PROVE OwnCodeInv!(u)'
    BY <1>2, <2>1 DEF OwnCodeInv
  <2>2. OwnCodeInv!(t)'
    BY <1>2, <1>4 DEF OwnCodeInv
  <2> QED
    BY <2>1, <2>2 DEF OwnCodeInv
<1>12. \A u \in Task, d \in CPU : Holds(d, u)' <=> Holds(d, u)
  BY <1>0, <1>2 DEF Holds
<1>13. RunExclusive'
  BY <1>2, <1>12 DEF RunExclusive
<1>14. NoLostTask'
  <2>1. ASSUME NEW u \in created PROVE NoLostTask!(u)'
    <3>1. u \in Task
      BY <1>t DEF TypeOK
    <3> QED
      BY <1>t, <1>2, <1>6, <1>12, <2>1, <3>1, KeptStep
  <2> QED
    BY <1>2, <2>1 DEF NoLostTask
<1>15. SleepListExact'
  BY <1>2, <1>6 DEF SleepListExact
<1>16. SleepsItself' /\ PinnedBootsItself'
  <2>1. Pinned \subseteq Task
    BY SchedAssumption
  <2> QED
    BY <1>0, <1>2, <2>1 DEF SleepsItself, PinnedBootsItself
<1> QED
  BY <1>7, <1>8, <1>9, <1>10, <1>11, <1>13, <1>14, <1>15, <1>16

\* What a pinned task, or a task about to sleep, reads from g_current at the
\* CPU number it read before is itself.
LEMMA ReadsItself ==
  ASSUME SafeInv, NEW c \in CPU, NEW t \in Pinned,
         \E l \in {"boot_cur", "sleep_cur"} : Executes(c, t, l)
  PROVE  g_current[loc[t]] = t
<1>1. t \in Task /\ pc[c] = "task" /\ stk[c] = t /\ tpc[t] \in {"boot_cur", "sleep_cur"}
  BY SchedAssumption DEF Executes
<1>2. g_current[c] = t
  BY <1>1 DEF SafeInv, StackInv
<1>3. cpu[t] = c /\ loc[t] = cpu[t]
  BY <1>1, <1>2 DEF SafeInv, HomeInv, Uses, OwnCodeInv
<1> QED
  BY <1>2, <1>3

\* Every step of a task's own code.
LEMMA Safe_TaskCode ==
  ASSUME SafeInv, BaseInv', QueuesExact', Sleepers \subseteq Pinned,
         NEW c \in CPU, NEW t \in Task, TaskCode(c, t)
  PROVE  SafeInv'
<1>t. TypeOK /\ BaseInv /\ StackInv /\ OwnCodeInv /\ PinnedBootsItself /\ ReadyInv
  BY DEF SafeInv, BaseInv
<1>l. /\ \A l \in {"boot", "boot_cur", "run", "sleep_cur", "sleep_yield", "sleep_ret"} :
           l \in TaskLocs
      /\ \A l \in {"boot_cur", "run", "sleep_cur", "sleep_lock", "sleep_ret", "halt"} :
           l \in TaskLocs \ {"boot"}
  BY DEF TaskLocs
<1>e. t \in Pinned /\ tpc[t] \notin {"boot", "boot_cur"} => entry[t] = t
  BY <1>t DEF PinnedBootsItself
<1>s. tpc[t] \in {"sleep_cur", "sleep_lock", "sleep_yield", "sleep_ret"}
        => t \in Sleepers
  BY <1>t DEF OwnCodeInv
<1>x. \A from, to : TaskStep(c, t, from, to) => Executes(c, t, from) /\ tpc[t] = from
  BY DEF TaskStep, Executes
<1>1. CASE bootstrap_index(c, t)
  <2>1. TaskStep(c, t, "boot", "boot_cur") /\ UNCHANGED <<entry, pc>>
        /\ loc' = [loc EXCEPT ![t] = c]
    BY <1>1 DEF bootstrap_index
  <2>2. loc'[t] = c /\ \A u \in Task : u # t => loc'[u] = loc[u]
    BY <1>t, <2>1 DEF TypeOK
  <2> QED
    BY <1>l, <2>1, <2>2, Safe_TaskStep
<1>2. CASE bootstrap_entry(c, t)
  <2> DEFINE cur == g_current[loc[t]]
             to == IF cur = Idle THEN "halt" ELSE "run"
  <2>1. /\ TaskStep(c, t, "boot_cur", to) /\ UNCHANGED pc
        /\ entry' = [entry EXCEPT ![t] = IF cur = Idle THEN Null ELSE cur]
        /\ loc' = [loc EXCEPT ![t] = Null]
    BY <1>2 DEF bootstrap_entry
  <2>2. \A u \in Task : u # t => loc'[u] = loc[u] /\ entry'[u] = entry[u]
    BY <1>t, <2>1 DEF TypeOK
  <2>3. t \in Pinned => entry'[t] = t
    <3>1. t \in Pinned => cur = t
      BY <1>x, <2>1, ReadsItself
    <3> QED
      BY <1>t, <2>1, <3>1, NoTask DEF TypeOK
  <2>4. to \in {"halt", "run"}
    OBVIOUS
  <2> HIDE DEF to
  <2> QED
    BY <1>l, <2>1, <2>2, <2>3, <2>4, Safe_TaskStep
<1>3. CASE bootstrap_return(c, t)
  <2>1. TaskStep(c, t, "run", "halt") /\ UNCHANGED <<loc, entry, pc>>
    BY <1>3 DEF bootstrap_return
  <2> QED
    BY <1>l, <1>e, <1>x, <2>1, Safe_TaskStep
<1>4. CASE yield(c, t)
  <2>1. Goto(c, "sched") /\ UNCHANGED <<loc, entry>>
    BY <1>4 DEF yield
  <2>2. CASE TaskStep(c, t, "run", "run")
    BY <1>l, <1>e, <1>x, <2>1, <2>2, Safe_TaskStep
  <2>3. CASE TaskStep(c, t, "sleep_yield", "sleep_ret")
    BY <1>l, <1>e, <1>s, <1>x, <2>1, <2>3, Safe_TaskStep
  <2> QED
    BY <1>4, <2>2, <2>3 DEF yield
<1>5. CASE sleep_index(c, t)
  <2>1. /\ t \in Sleepers
        /\ TaskStep(c, t, "run", "sleep_cur") /\ UNCHANGED <<entry, pc>>
        /\ loc' = [loc EXCEPT ![t] = c]
    BY <1>5 DEF sleep_index
  <2>2. loc'[t] = c /\ \A u \in Task : u # t => loc'[u] = loc[u]
    BY <1>t, <2>1 DEF TypeOK
  <2> QED
    BY <1>l, <1>e, <1>x, <2>1, <2>2, Safe_TaskStep
<1>6. CASE sleep_current(c, t)
  <2> DEFINE cur == g_current[loc[t]]
  <2>0. TaskStep(c, t, "sleep_cur", IF cur = Idle THEN "run" ELSE "sleep_lock")
    BY <1>6 DEF sleep_current
  <2>1. t \in Sleepers /\ cur = t
    BY <1>s, <1>x, <2>0, ReadsItself
  <2>2. /\ TaskStep(c, t, "sleep_cur", "sleep_lock") /\ UNCHANGED <<entry, pc>>
        /\ loc' = [loc EXCEPT ![t] = t]
    BY <1>6, <2>1, NoTask DEF sleep_current
  <2>3. loc'[t] = t /\ \A u \in Task : u # t => loc'[u] = loc[u]
    BY <1>t, <2>2 DEF TypeOK
  <2> QED
    BY <1>l, <1>e, <1>x, <2>1, <2>2, <2>3, Safe_TaskStep
<1>7. CASE sleep_lock(c, t)
  <2>1. /\ pc[c] = "task" /\ stk[c] = t /\ tpc[t] = "sleep_lock"
        /\ Goto(c, "sleep_cs")
        /\ UNCHANGED <<taskVars, fieldVars, queueVars, cpuVars,
                       g_sleep, g_rr_create, jiffies>>
    BY <1>7 DEF sleep_lock, Executes
  <2>2. g_current[c] = t /\ state[t] = "READY"
    BY <1>t, <2>1 DEF StackInv, ReadyInv
  <2>3. jiffies' \in Nat /\ jiffies' >= jiffies
    BY <1>t, <2>1 DEF TypeOK
  <2>4. /\ "sleep_cs" \in CpuLocs
        /\ "sleep_cs" \notin Left \cup {"off", "boot", "switch"}
        /\ "task" \notin Left \cup {"off", "switch"}
    BY DEF CpuLocs, Left
  <2> QED
    BY <2>1, <2>2, <2>3, <2>4, Safe_Moves DEF cpuVars
<1>8. CASE \E jf \in 1 .. MaxSleep : sleep_unlock(c, t, jf)
  BY <1>8, Safe_sleep_unlock
<1>9. CASE sleep_return(c, t)
  <2>1. TaskStep(c, t, "sleep_ret", "run") /\ UNCHANGED <<loc, entry, pc>>
    BY <1>9 DEF sleep_return
  <2> QED
    BY <1>l, <1>e, <1>x, <2>1, Safe_TaskStep
<1> QED
  BY <1>1, <1>2, <1>3, <1>4, <1>5, <1>6, <1>7, <1>8, <1>9 DEF TaskCode

-----------------------------------------------------------------------------
(* Theorems.                                                               *)

\* The steps of the interrupt handler that only move a CPU.
LEMMA Safe_Handler ==
  ASSUME SafeInv, BaseInv', QueuesExact', NEW c \in CPU,
         \/ c = Bsp /\ kernel_main_sti
         \/ handler_timer(c) \/ wake_lock(c) \/ wake_done(c)
  PROVE  SafeInv'
<1>t. TypeOK /\ StackInv /\ ReadyInv
  BY DEF SafeInv, BaseInv
<1>1. PICK l \in {"task", "wake_lock", "wake", "sched"} :
        /\ Goto(c, l)
        /\ \/ pc[c] = "boot" /\ l = "task"
           \/ pc[c] = "task" /\ l = "wake_lock"
           \/ pc[c] = "wake_lock" /\ l = "wake"
           \/ pc[c] = "wake" /\ l = "sched"
        /\ UNCHANGED <<taskVars, fieldVars, queueVars, g_current, stk, next,
                       g_sleep>>
  BY DEF kernel_main_sti, handler_timer, irq_enabled, wake_lock, wake_done,
         cpuVars
<1>2. jiffies' \in Nat /\ jiffies' >= jiffies
  <2>1. jiffies \in Nat
    BY <1>t DEF TypeOK
  <2>2. jiffies' = jiffies \/ jiffies' = jiffies + 1
    BY DEF kernel_main_sti, handler_timer, tick, wake_lock, wake_done
  <2> QED
    BY <2>1, <2>2
<1>3. ASSUME NEW t \in Task, g_current[c] = t,
             l \in {"task", "sleep_cs", "wake_lock", "wake"},
             tpc[t] # "sleep_yield"
      PROVE  state[t] = "READY"
  BY <1>t, <1>1, <1>3, NoTask DEF StackInv, ReadyInv
<1>4. /\ l \in CpuLocs /\ l \notin Left \cup {"off", "boot", "switch"}
      /\ pc[c] \notin Left \cup {"off", "switch"}
  BY <1>1 DEF CpuLocs, Left
<1> QED
  BY <1>1, <1>2, <1>3, <1>4, Safe_Moves

\* Every step keeps the invariant when only pinned tasks sleep.
LEMMA NextSafe ==
  ASSUME Sleepers \subseteq Pinned, SafeInv, [Next]_vars PROVE SafeInv'
<1>1. CASE UNCHANGED vars
  <2> USE <1>1 DEF vars, taskVars, fieldVars, queueVars, cpuVars
  <2>1. BaseInv'
    BY NextBase DEF SafeInv
  <2>2. QueuesExact' /\ StackInv' /\ HomeInv' /\ OnCpuInv' /\ ReadyInv'
    BY DEF SafeInv, QueuesExact, Queued, StackInv, HomeInv, Uses, OnCpuInv,
           ReadyInv
  <2>3. OwnCodeInv' /\ RunExclusive' /\ NoLostTask'
    BY DEF SafeInv, OwnCodeInv, RunExclusive, NoLostTask, Holds, Asleep
  <2>4. SleepListExact' /\ SleepsItself' /\ PinnedBootsItself'
    BY DEF SafeInv, SleepListExact, Asleep, SleepsItself, PinnedBootsItself
  <2> QED
    BY <2>1, <2>2, <2>3, <2>4 DEF SafeInv
<1>2. CASE Next
  <2>1. BaseInv' /\ QueuesExact'
    BY <1>2, NextBase, NextQueues DEF SafeInv
  <2>2. CASE kernel_main_sti
    <3>1. Bsp \in CPU
      BY SchedAssumption DEF Bsp, CPU
    <3> QED
      BY <2>1, <2>2, <3>1, Safe_Handler
  <2>3. ASSUME NEW c \in CPU, sched_cpu_init(c) \/ handler_timer(c)
        PROVE  SafeInv'
    BY <2>1, <2>3, Safe_sched_cpu_init, Safe_Handler
  <2>4. ASSUME NEW c \in CPU, Handler(c) PROVE SafeInv'
    BY <2>1, <2>4, Safe_Handler, Safe_wake_step, Safe_sched_out,
       Safe_sched_requeue, Safe_sched_pick, Safe_rq_steal_one,
       Safe_sched_idle, Safe_sched_install, Safe_iret DEF Handler
  <2>5. ASSUME NEW c \in CPU, NEW t \in Task,
               task_create_ex(c, t) \/ TaskCode(c, t)
        PROVE  SafeInv'
    BY <2>1, <2>5, Safe_task_create_ex, Safe_TaskCode
  <2> QED
    BY <1>2, <2>2, <2>3, <2>4, <2>5 DEF Next
<1> QED
  BY <1>1, <1>2

\* The inductive invariant holds of the scheduler.
THEOREM SafeCorrect ==
  ASSUME Sleepers \subseteq Pinned PROVE Spec => []SafeInv
<1>1. SafeInv /\ [Next]_vars => SafeInv'
  BY NextSafe
<1> QED
  BY <1>1, InitSafe, PTL DEF Spec

\* A task that exists is in exactly one place, whatever the interleaving of a
\* sleep, its wake-up by sched_wake_sleepers on another CPU and the switch away
\* in schedule_from_irq: no two CPUs run it and it is never forgotten.
THEOREM TasksKeptCorrect ==
  ASSUME Sleepers \subseteq Pinned PROVE Spec => []TasksKept
<1>1. SafeInv => TasksKept
  BY DEF SafeInv, TasksKept
<1> QED
  BY <1>1, SafeCorrect, PTL

\* The list at g_sleep_head holds exactly the sleeping tasks, each once.
THEOREM SleepListCorrect ==
  ASSUME Sleepers \subseteq Pinned PROVE Spec => []SleepListExact
<1>1. SafeInv => SleepListExact
  BY DEF SafeInv
<1> QED
  BY <1>1, SafeCorrect, PTL

\* A task that sleeps puts itself to sleep; a pinned task starts with its own
\* entry function and shares its stack with no other CPU, although
\* sched_current() and task_bootstrap read per-CPU data with interrupts on.
THEOREM PinnedCorrect ==
  ASSUME Sleepers \subseteq Pinned PROVE Spec => []PinnedSafe
<1>1. SafeInv => PinnedStackExclusive
  BY SchedAssumption DEF SafeInv, HomeInv, Uses, PinnedStackExclusive
<1>2. SafeInv => PinnedSafe
  BY <1>1 DEF SafeInv, PinnedSafe
<1> QED
  BY <1>2, SafeCorrect, PTL

\* sched_sleep_jiffies returns only once the tick of the wake-up has come.
THEOREM SleepNotEarlyCorrect ==
  ASSUME Sleepers \subseteq Pinned PROVE Spec => SleepNotEarly
<1> DEFINE Early == \A t \in Task : tpc[t] = "sleep_ret" /\ tpc'[t] = "run"
                                     => jiffies >= wake_jiffies[t]
<1>1. SafeInv /\ [Next]_vars => [Early]_vars
  <2> SUFFICES ASSUME SafeInv, Next, NEW t \in Task,
                      tpc[t] = "sleep_ret", tpc'[t] = "run"
               PROVE  jiffies >= wake_jiffies[t]
    OBVIOUS
  <2>t. TypeOK
    BY DEF SafeInv, BaseInv
  <2>1. PICK c \in CPU, u \in Task : TaskCode(c, u) /\ tpc' # tpc
    <3>1. tpc' # tpc
      BY <2>t DEF TypeOK
    <3>2. /\ kernel_main_sti => UNCHANGED tpc
          /\ \A c \in CPU : sched_cpu_init(c) \/ handler_timer(c) => UNCHANGED tpc
          /\ \A c \in CPU, u \in Task : task_create_ex(c, u) => UNCHANGED tpc
      BY DEF kernel_main_sti, sched_cpu_init, handler_timer, task_create_ex,
             taskVars
    <3>3. \A c \in CPU : Handler(c) => UNCHANGED tpc
      BY DEF Handler, wake_lock, wake_step, wake_done, sched_out,
             sched_requeue, sched_pick, rq_steal_one, sched_idle,
             sched_install, iret, taskVars
    <3> QED
      BY <3>1, <3>2, <3>3 DEF Next
  <2>2. \E from, to : TaskStep(c, u, from, to) \/ sleep_unlock(c, u, to)
    BY <2>1 DEF TaskCode, bootstrap_index, bootstrap_entry, bootstrap_return,
                yield, sleep_index, sleep_current, sleep_lock, sleep_return,
                taskVars
  <2>3. u = t /\ pc[c] = "task" /\ stk[c] = t
    BY <2>t, <2>2 DEF TypeOK, TaskStep, Executes, TaskGoto, sleep_unlock
  <2>4. g_current[c] = t
    BY <2>3 DEF SafeInv, StackInv
  <2>5. state[t] = "READY"
    BY <2>3, <2>4 DEF SafeInv, ReadyInv
  <2> QED
    BY <2>5 DEF SafeInv, OwnCodeInv
<1> QED
  BY <1>1, SafeCorrect, PTL DEF Spec, SleepNotEarly

-----------------------------------------------------------------------------
(* The refinement of TaskLife.                                             *)

\* The task a CPU runs in TaskLife is the one it holds.
LEMMA HeldHolds ==
  ASSUME SafeInv, NEW c \in CPU
  PROVE  /\ Held(c) \in Task \cup {Null}
         /\ \A t \in Task : Held(c) = t <=> Holds(c, t)
<1>1. /\ g_current[c] \in Task \cup {Idle, Null}
      /\ next[c] \in Task \cup {Idle, Null}
      /\ pc[c] = "install" => next[c] # Null
  BY DEF SafeInv, BaseInv, TypeOK, CodeInv, CpuCodeInv
<1> QED
  BY <1>1, NoTask DEF Held, Holds

\* The variables of TaskLife as the scheduler determines them.
LifeRun == [c \in CPU |-> Held(c)]
LifeReady == {t \in Task : on_ready[t]}
LifeAsleep == {t \in created : ~on_ready[t] /\ \A c \in CPU : Held(c) # t}
LifeHome == [t \in Pinned |-> IF t \in created THEN cpu[t] ELSE Null]

\* A step that TaskLife does not see.
LEMMA LifeStutters ==
  ASSUME TypeOK,
         \A c \in CPU : Held(c)' = Held(c),
         \A t \in Task : on_ready'[t] = on_ready[t],
         created' = created,
         \A t \in Pinned : t \in created => cpu'[t] = cpu[t]
  PROVE  UNCHANGED Life!vars
<1>1. LifeRun' = LifeRun
  BY DEF LifeRun
<1>2. LifeReady' = LifeReady
  BY DEF LifeReady
<1>3. LifeAsleep' = LifeAsleep
  BY DEF LifeAsleep, TypeOK
<1>4. LifeHome' = LifeHome
  BY DEF LifeHome
<1> QED
  BY <1>1, <1>2, <1>3, <1>4
     DEF Life!vars, LifeRun, LifeReady, LifeAsleep, LifeHome

\* A CPU that stops holding the task it ran and queues it, or leaves it asleep.
LEMMA LifeLeaves ==
  ASSUME SafeInv, NEW c \in CPU, NEW t \in Task, Held(c) = t, Held(c)' = Null,
         \A d \in CPU : d # c => Held(d)' = Held(d),
         \A u \in Task : u # t => on_ready'[u] = on_ready[u],
         created' = created,
         \A u \in Pinned : u \in created => cpu'[u] = cpu[u]
  PROVE  /\ on_ready'[t] => Life!Preempt(c)
         /\ ~on_ready'[t] => Life!Sleep(c)
<1>0. /\ TypeOK /\ ~on_ready[t] /\ t \in created
      /\ \A d \in CPU : Held(d) = t => d = c
  BY HeldHolds DEF SafeInv, BaseInv, RunExclusive, HomeInv, Uses, Holds
<1>1. LifeRun' = [LifeRun EXCEPT ![c] = Null] /\ LifeRun[c] = t
  BY DEF LifeRun
<1>2. LifeHome' = LifeHome
  BY DEF LifeHome
<1>3. on_ready'[t] => LifeReady' = LifeReady \cup {t} /\ LifeAsleep' = LifeAsleep
  <2> SUFFICES ASSUME on_ready'[t]
               PROVE  LifeReady' = LifeReady \cup {t} /\ LifeAsleep' = LifeAsleep
    OBVIOUS
  <2>1. LifeReady' = LifeReady \cup {t}
    BY DEF LifeReady
  <2>2. ASSUME NEW u \in created PROVE u \in LifeAsleep' <=> u \in LifeAsleep
    <3>1. CASE u = t
      BY <3>1 DEF LifeAsleep
    <3>2. CASE u # t
      BY <3>2, <1>0, NoTask DEF LifeAsleep, TypeOK
    <3> QED
      BY <3>1, <3>2
  <2> QED
    BY <2>1, <2>2 DEF LifeAsleep
<1>4. ~on_ready'[t] => LifeReady' = LifeReady /\ LifeAsleep' = LifeAsleep \cup {t}
  <2> SUFFICES ASSUME ~on_ready'[t]
               PROVE  LifeReady' = LifeReady /\ LifeAsleep' = LifeAsleep \cup {t}
    OBVIOUS
  <2>1. LifeReady' = LifeReady
    BY <1>0 DEF LifeReady
  <2>2. ASSUME NEW u \in created
        PROVE  u \in LifeAsleep' <=> u \in LifeAsleep \/ u = t
    BY <1>0, NoTask DEF LifeAsleep, TypeOK
  <2> QED
    BY <1>0, <2>1, <2>2 DEF LifeAsleep
<1>5. LifeRun[c] # Null
  BY <1>1, NoTask
<1>6. on_ready'[t] => Life!Preempt(c)
  BY <1>1, <1>2, <1>3, <1>5
     DEF Life!Preempt, LifeRun, LifeReady, LifeAsleep, LifeHome
<1>7. ~on_ready'[t] => Life!Sleep(c)
  BY <1>1, <1>2, <1>4, <1>5
     DEF Life!Sleep, LifeRun, LifeReady, LifeAsleep, LifeHome
<1> QED
  BY <1>6, <1>7

\* A CPU that takes a task from a queue.
LEMMA LifeDispatches ==
  ASSUME SafeInv, NEW c \in CPU, NEW h \in Task, Held(c) = Null, Held(c)' = h,
         \A d \in CPU : d # c => Held(d)' = Held(d),
         on_ready[h], ~on_ready'[h],
         \A u \in Task : u # h => on_ready'[u] = on_ready[u],
         created' = created, cpu' = cpu,
         h \in Pinned => cpu[h] = c
  PROVE  Life!Dispatch(c, h)
<1>0. TypeOK /\ h \in created
  BY DEF SafeInv, BaseInv, ReadyInv
<1>1. LifeRun' = [LifeRun EXCEPT ![c] = h] /\ LifeRun[c] = Null
  BY DEF LifeRun
<1>2. LifeHome' = LifeHome /\ (h \in Pinned => LifeHome[h] = c)
  BY <1>0 DEF LifeHome
<1>3. LifeReady' = LifeReady \ {h} /\ h \in LifeReady
  BY DEF LifeReady
<1>4. LifeAsleep' = LifeAsleep
  <2>1. ASSUME NEW u \in created PROVE u \in LifeAsleep' <=> u \in LifeAsleep
    BY <1>0, NoTask DEF LifeAsleep, TypeOK
  <2> QED
    BY <2>1 DEF LifeAsleep
<1> QED
  BY <1>1, <1>2, <1>3, <1>4
     DEF Life!Dispatch, LifeRun, LifeReady, LifeAsleep, LifeHome

\* A sleeping task that no CPU holds is woken.
LEMMA LifeWakes ==
  ASSUME SafeInv, NEW t \in created, ~on_ready[t], on_ready'[t],
         \A c \in CPU : Held(c) # t, \A c \in CPU : Held(c)' = Held(c),
         \A u \in Task : cpu'[u] = cpu[u] /\ (u # t => on_ready'[u] = on_ready[u]),
         created' = created
  PROVE  Life!Wake(t)
<1>0. TypeOK /\ t \in Task
  BY DEF SafeInv, BaseInv, TypeOK
<1>1. LifeRun' = LifeRun
  BY DEF LifeRun
<1>2. LifeHome' = LifeHome
  BY SchedAssumption DEF LifeHome
<1>3. LifeReady' = LifeReady \cup {t}
  BY <1>0 DEF LifeReady
<1>4. LifeAsleep' = LifeAsleep \ {t} /\ t \in LifeAsleep
  <2>1. ASSUME NEW u \in created
        PROVE  u \in LifeAsleep' <=> u \in LifeAsleep /\ u # t
    BY <1>0 DEF LifeAsleep, TypeOK
  <2> QED
    BY <2>1 DEF LifeAsleep
<1> QED
  BY <1>1, <1>2, <1>3, <1>4
     DEF Life!Wake, LifeRun, LifeReady, LifeAsleep, LifeHome

\* A new task.
LEMMA LifeCreates ==
  ASSUME SafeInv, NEW g \in CPU, NEW t \in Task, t \notin created,
         created' = created \cup {t}, on_ready'[t], cpu'[t] = g,
         \A c \in CPU : Held(c)' = Held(c),
         \A u \in Task :
           u # t => on_ready'[u] = on_ready[u] /\ cpu'[u] = cpu[u]
  PROVE  Life!Create(g, t)
<1>0. TypeOK /\ ~on_ready[t] /\ \A c \in CPU : Held(c) # t
  BY HeldHolds DEF SafeInv, BaseInv, ReadyInv, HomeInv, Uses, Holds
<1>1. LifeRun' = LifeRun
  BY DEF LifeRun
<1>2. LifeHome' = IF t \in Pinned THEN [LifeHome EXCEPT ![t] = g] ELSE LifeHome
  <2>1. CASE t \in Pinned
    BY <2>1, SchedAssumption DEF LifeHome
  <2>2. CASE t \notin Pinned
    BY <2>2, SchedAssumption DEF LifeHome
  <2> QED
    BY <2>1, <2>2
<1>3. LifeReady' = LifeReady \cup {t}
  BY DEF LifeReady
<1>4. LifeAsleep' = LifeAsleep
  <2>1. ASSUME NEW u \in created' PROVE u \in LifeAsleep' <=> u \in LifeAsleep
    BY <1>0 DEF LifeAsleep, TypeOK
  <2>2. created \subseteq created'
    OBVIOUS
  <2> QED
    BY <2>1, <2>2 DEF LifeAsleep
<1>5. t \notin LifeReady /\ t \notin LifeAsleep /\ \A c \in CPU : LifeRun[c] # t
  BY <1>0 DEF LifeReady, LifeAsleep, LifeRun
<1> QED
  BY <1>1, <1>2, <1>3, <1>4, <1>5
     DEF Life!Create, Life!Alive, Life!Running, LifeRun, LifeReady, LifeAsleep,
         LifeHome

\* Every step of a handler is a step of TaskLife or invisible to it.
LEMMA LifeHandler ==
  ASSUME SafeInv, NEW c \in CPU, Handler(c)
  PROVE  [Life!Next]_(Life!vars)
<1>t. TypeOK /\ CodeInv
  BY DEF SafeInv, BaseInv
<1> USE NoTask
<1>n. /\ \A d \in CPU : Life!Preempt(d) \/ Life!Sleep(d) => Life!Next
      /\ \A d \in CPU, t \in Task : Life!Dispatch(d, t) => Life!Next
      /\ \A t \in Task : Life!Wake(t) => Life!Next
  BY DEF Life!Next
<1>a. ASSUME UNCHANGED <<created, queueVars>>, \A d \in CPU : Held(d)' = Held(d)
      PROVE  UNCHANGED Life!vars
  BY <1>t, <1>a, LifeStutters DEF queueVars
<1>b. ASSUME NEW l, Goto(c, l) PROVE pc'[c] = l /\ \A d \in CPU : d # c => pc'[d] = pc[d]
  BY <1>t, <1>b DEF TypeOK, Goto
<1>1. CASE wake_lock(c) \/ wake_done(c) \/ iret(c)
  <2>1. \A d \in CPU : Held(d)' = Held(d)
    BY <1>1, <1>b DEF wake_lock, wake_done, iret, Held, cpuVars
  <2> QED
    BY <1>1, <1>a, <2>1 DEF wake_lock, wake_done, iret, taskVars
<1>2. CASE wake_step(c)
  <2>1. \A d \in CPU : Held(d)' = Held(d)
    BY <1>2 DEF wake_step, Held
  <2>2. UNCHANGED created
    BY <1>2 DEF wake_step, taskVars
  <2>3. CASE UNCHANGED queueVars
    BY <1>a, <2>1, <2>2, <2>3
  <2>4. ASSUME NEW t \in Task, t = g_sleep[pos[c]], ~on_cpu[t], wake_enqueue(t),
               pos[c] \in 1 .. Len(g_sleep)
        PROVE  Life!Wake(t)
    <3>1. state[t] = "SLEEPING"
      BY <2>4 DEF SafeInv, SleepListExact, Asleep
    <3>2. /\ t \in created /\ ~on_ready[t]
          /\ \A d \in CPU : ~Holds(d, t)
      BY <2>4, <3>1
         DEF SafeInv, ReadyInv, OwnCodeInv, OnCpuInv, Holds, Left
    <3>3. ready_enqueue(cpu[t], t) /\ cpu[t] \in CPU
      BY <1>t, <2>4 DEF wake_enqueue, TypeOK
    <3>4. /\ on_ready'[t] /\ cpu'[t] = cpu[t]
          /\ \A u \in Task :
               u # t => on_ready'[u] = on_ready[u] /\ cpu'[u] = cpu[u]
      BY <1>t, <3>2, <3>3, EnqueueEffect
    <3>5. \A d \in CPU : Held(d) # t
      BY <3>2, HeldHolds
    <3> QED
      BY <2>1, <2>2, <3>2, <3>4, <3>5, LifeWakes
  <2>5. \/ UNCHANGED queueVars
        \/ \E t \in Task : /\ t = g_sleep[pos[c]] /\ ~on_cpu[t] /\ wake_enqueue(t)
                           /\ pos[c] \in 1 .. Len(g_sleep)
    BY <1>t, <1>2, WakeStepCases DEF wake_enqueue
  <2> QED
    BY <1>n, <2>3, <2>4, <2>5
<1>3. CASE sched_out(c)
  <2>0. /\ pc[c] = "sched"
        /\ UNCHANGED <<taskVars, queueVars, g_current, next>>
    BY <1>3 DEF sched_out, cpuVars
  <2>1. CASE g_current[c] = Idle /\ Goto(c, "pick")
    <3>1. \A d \in CPU : Held(d)' = Held(d)
      BY <1>b, <2>0, <2>1 DEF Held
    <3> QED
      BY <1>a, <2>0, <3>1 DEF taskVars
  <2>2. CASE g_current[c] \in Task /\ Goto(c, "requeue")
    <3>1. \A d \in CPU : Held(d)' = Held(d)
      BY <1>b, <2>0, <2>2 DEF Held
    <3> QED
      BY <1>a, <2>0, <3>1 DEF taskVars
  <2>3. ASSUME NEW t \in Task, t = g_current[c], state[t] = "SLEEPING", Goto(c, "pick")
        PROVE  Life!Sleep(c)
    <3>1. /\ Held(c) = t /\ Held(c)' = Null
          /\ \A d \in CPU : d # c => Held(d)' = Held(d)
      BY <1>b, <2>0, <2>3 DEF Held
    <3>2. ~on_ready'[t]
      BY <2>0, <2>3 DEF SafeInv, ReadyInv, queueVars
    <3> QED
      BY <2>0, <3>1, <3>2, LifeLeaves DEF queueVars, taskVars
  <2> QED
    BY <1>t, <1>n, <1>3, <2>1, <2>2, <2>3, SchedOutCases
<1>4. CASE sched_requeue(c)
  <2>1. PICK t \in Task : t = g_current[c]
    BY <1>t, <1>4 DEF CodeInv, CpuCodeInv, sched_requeue
  <2>2. /\ pc[c] = "requeue" /\ Goto(c, "pick") /\ ready_enqueue(c, t)
        /\ UNCHANGED <<created, g_current, next>>
    BY <1>4, <2>1 DEF sched_requeue, taskVars, cpuVars
  <2>3. /\ Held(c) = t /\ Held(c)' = Null
        /\ \A d \in CPU : d # c => Held(d)' = Held(d)
    BY <1>b, <2>1, <2>2 DEF Held
  <2>4. ~on_ready[t] /\ (t \in Pinned => cpu[t] = c)
    BY <2>1, <2>2 DEF SafeInv, RunExclusive, Holds, HomeInv, Uses
  <2>5. /\ on_ready'[t] /\ cpu'[t] = c
        /\ \A u \in Task : u # t => on_ready'[u] = on_ready[u] /\ cpu'[u] = cpu[u]
    BY <1>t, <2>2, <2>4, EnqueueEffect
  <2>6. \A u \in Pinned : u \in created => cpu'[u] = cpu[u]
    BY <2>4, <2>5, SchedAssumption
  <2> QED
    BY <1>n, <2>2, <2>3, <2>5, <2>6, LifeLeaves
<1>5. ASSUME NEW v \in CPU, ready_dequeue(c, v), g_rq[v] # <<>>,
             v = c \/ Head(g_rq[v]) \notin Pinned,
             pc[c] \in {"pick", "steal"}, Goto(c, "install"),
             UNCHANGED <<created, g_current>>
      PROVE  Life!Next
  <2>1. PICK h \in Task :
          /\ h = Head(g_rq[v]) /\ on_ready[h] /\ Queued(h, v)
          /\ next'[c] = h /\ \A d \in CPU : d # c => next'[d] = next[d]
          /\ ~on_ready'[h]
          /\ \A u \in Task : u # h => on_ready'[u] = on_ready[u]
          /\ \A d \in CPU, u \in Task : Queued(u, d)' => Queued(u, d)
          /\ UNCHANGED cpu
    BY <1>t, <1>5, DequeueEffect DEF SafeInv
  <2>2. /\ Held(c) = Null /\ Held(c)' = h
        /\ \A d \in CPU : d # c => Held(d)' = Held(d)
    BY <1>b, <1>5, <2>1 DEF Held
  <2>3. h \in Pinned => cpu[h] = c
    BY <1>5, <2>1 DEF SafeInv, HomeInv
  <2> QED
    BY <1>n, <1>5, <2>1, <2>2, <2>3, LifeDispatches
<1>6. CASE sched_pick(c)
  <2>1. CASE g_rq[c] # <<>>
    BY <1>5, <1>6, <2>1 DEF sched_pick, taskVars
  <2>2. CASE g_rq[c] = <<>>
    <3>1. /\ pc[c] = "pick" /\ Goto(c, "steal")
          /\ UNCHANGED <<created, queueVars, g_current, next>>
      BY <1>6, <2>2 DEF sched_pick, taskVars
    <3>2. \A d \in CPU : Held(d)' = Held(d)
      BY <1>b, <3>1 DEF Held
    <3> QED
      BY <1>a, <3>1, <3>2
  <2> QED
    BY <2>1, <2>2
<1>7. CASE rq_steal_one(c)
  <2> DEFINE v == (c + pos[c]) % NCpus
  <2>1. v \in CPU
    BY <1>t, VictimType
  <2>2. CASE may_steal(v)
    <3>1. /\ ready_dequeue(c, v) /\ Goto(c, "install") /\ pc[c] = "steal"
          /\ g_rq[v] # <<>> /\ Head(g_rq[v]) \notin Pinned
          /\ UNCHANGED <<created, g_current>>
      BY <1>7, <2>2 DEF rq_steal_one, may_steal, taskVars
    <3> HIDE DEF v
    <3> QED
      BY <1>5, <2>1, <3>1
  <2>3. CASE ~may_steal(v)
    <3>1. UNCHANGED <<created, queueVars, g_current, next, pc>>
      BY <1>7, <2>3 DEF rq_steal_one, taskVars
    <3>2. \A d \in CPU : Held(d)' = Held(d)
      BY <3>1 DEF Held
    <3> QED
      BY <1>a, <3>1, <3>2
  <2> QED
    BY <2>2, <2>3
<1>8. CASE sched_idle(c)
  <2>1. /\ pc[c] = "steal" /\ Goto(c, "install")
        /\ UNCHANGED <<created, queueVars, g_current>>
        /\ next'[c] = Idle /\ \A d \in CPU : d # c => next'[d] = next[d]
    BY <1>t, <1>8 DEF sched_idle, taskVars, TypeOK
  <2>2. \A d \in CPU : Held(d)' = Held(d)
    BY <1>b, <2>1 DEF Held
  <2> QED
    BY <1>a, <2>1, <2>2
<1>9. CASE sched_install(c)
  <2>1. /\ pc[c] = "install" /\ Goto(c, "switch")
        /\ g_current'[c] = next[c]
        /\ \A d \in CPU : d # c => g_current'[d] = g_current[d] /\ next'[d] = next[d]
        /\ UNCHANGED <<created, on_ready>>
    BY <1>t, <1>9 DEF sched_install, taskVars, TypeOK
  <2>2. \A d \in CPU : Held(d)' = Held(d)
    BY <1>b, <2>1 DEF Held
  <2>3. \A t \in Pinned : cpu'[t] = cpu[t]
    <3>1. \A t \in Pinned : t = next[c] => cpu[t] = c
      BY <2>1, SchedAssumption DEF SafeInv, HomeInv, Uses
    <3>2. CASE next[c] = Idle
      BY <1>9, <3>2 DEF sched_install
    <3>3. CASE next[c] # Idle
      <4>1. cpu' = [cpu EXCEPT ![next[c]] = c]
        BY <1>9, <3>3 DEF sched_install
      <4> QED
        BY <1>t, <3>1, <4>1, SchedAssumption DEF TypeOK
    <3> QED
      BY <3>2, <3>3
  <2> QED
    BY <1>t, <2>1, <2>2, <2>3, LifeStutters
<1> QED
  BY <1>1, <1>2, <1>3, <1>4, <1>6, <1>7, <1>8, <1>9 DEF Handler

\* Every step of the scheduler is a step of TaskLife or invisible to it.
LEMMA LifeStep ==
  ASSUME SafeInv, [Next]_vars PROVE [Life!Next]_(Life!vars)
<1>t. TypeOK
  BY DEF SafeInv, BaseInv
<1>a. ASSUME UNCHANGED <<created, queueVars>>, \A d \in CPU : Held(d)' = Held(d)
      PROVE  UNCHANGED Life!vars
  BY <1>t, <1>a, LifeStutters DEF queueVars
<1>b. ASSUME NEW c \in CPU, NEW l, Goto(c, l)
      PROVE  pc'[c] = l /\ \A d \in CPU : d # c => pc'[d] = pc[d]
  BY <1>t, <1>b DEF TypeOK, Goto
<1>0. Bsp \in CPU
  BY SchedAssumption DEF Bsp, CPU
<1>1. CASE UNCHANGED vars
  BY <1>1, <1>a DEF vars, taskVars, queueVars, cpuVars, Held
<1>2. CASE kernel_main_sti
  <2>1. \A d \in CPU : Held(d)' = Held(d)
    BY <1>0, <1>2, <1>b DEF kernel_main_sti, Held, cpuVars
  <2> QED
    BY <1>2, <1>a, <2>1 DEF kernel_main_sti, taskVars
<1>3. ASSUME NEW c \in CPU, sched_cpu_init(c) PROVE UNCHANGED Life!vars
  <2>1. g_current[c] = Null /\ g_current'[c] = Idle
        /\ \A d \in CPU : d # c => g_current'[d] = g_current[d]
    BY <1>t, <1>3 DEF SafeInv, StackInv, TypeOK, sched_cpu_init
  <2>2. \A d \in CPU : Held(d)' = Held(d)
    BY <1>3, <1>b, <2>1, NoTask DEF sched_cpu_init, Held
  <2> QED
    BY <1>3, <1>a, <2>2 DEF sched_cpu_init, taskVars
<1>4. ASSUME NEW c \in CPU, handler_timer(c) PROVE UNCHANGED Life!vars
  <2>1. \A d \in CPU : Held(d)' = Held(d)
    BY <1>4, <1>b DEF handler_timer, irq_enabled, Held, cpuVars
  <2> QED
    BY <1>4, <1>a, <2>1 DEF handler_timer, taskVars
<1>5. ASSUME NEW c \in CPU, NEW t \in Task, task_create_ex(c, t) PROVE Life!Next
  <2> DEFINE g == create_target(c, t)
  <2>1. /\ g \in CPU /\ ready_enqueue(g, t)
        /\ t \notin created /\ created' = created \cup {t}
        /\ UNCHANGED <<cpuVars, pc>>
    BY <1>t, <1>5, CreateTargetType DEF task_create_ex
  <2> HIDE DEF g
  <2>2. ~on_ready[t]
    BY <2>1 DEF SafeInv, ReadyInv
  <2>3. /\ on_ready'[t] /\ cpu'[t] = g
        /\ \A u \in Task : u # t => on_ready'[u] = on_ready[u] /\ cpu'[u] = cpu[u]
    BY <1>t, <2>1, <2>2, EnqueueEffect
  <2>4. \A d \in CPU : Held(d)' = Held(d)
    BY <2>1 DEF Held, cpuVars
  <2>5. PICK e \in CPU : e = g
    BY <2>1
  <2>6. Life!Create(e, t)
    BY <2>1, <2>3, <2>4, <2>5, LifeCreates
  <2> QED
    BY <2>6 DEF Life!Next
<1>6. ASSUME NEW c \in CPU, NEW t \in Task, TaskCode(c, t)
      PROVE  UNCHANGED Life!vars
  <2>1. UNCHANGED <<created, queueVars, g_current, next>>
    BY <1>6 DEF TaskCode, bootstrap_index, bootstrap_entry, bootstrap_return,
                yield, sleep_index, sleep_current, sleep_lock, sleep_unlock,
                sleep_return, TaskStep, taskVars, cpuVars
  <2>2. \/ UNCHANGED pc
        \/ /\ pc[c] \in {"task", "sleep_cs"}
           /\ \E l \in {"task", "sched", "sleep_cs"} : Goto(c, l)
    BY <1>6 DEF TaskCode, bootstrap_index, bootstrap_entry, bootstrap_return,
                yield, sleep_index, sleep_current, sleep_lock, sleep_unlock,
                sleep_return, TaskStep, Executes
  <2>3. \A d \in CPU : Held(d)' = Held(d)
    BY <1>b, <2>1, <2>2 DEF Held
  <2> QED
    BY <1>a, <2>1, <2>3
<1> QED
  BY <1>1, <1>2, <1>3, <1>4, <1>5, <1>6, LifeHandler DEF Next

\* The scheduler implements the life cycle of TaskLife for every number of CPUs
\* and tasks: each step of its handlers and tasks is one transition of one task,
\* made by the CPU entitled to it, or none.
THEOREM LifeCorrect ==
  ASSUME Sleepers \subseteq Pinned PROVE Spec => ImplementsTaskLife
<1>1. Init => Life!Init
  <2> SUFFICES ASSUME Init PROVE Life!Init
    OBVIOUS
  <2>1. LifeRun = [c \in CPU |-> Null]
    BY DEF Init, LifeRun, Held
  <2>2. LifeReady = {} /\ LifeAsleep = {}
    BY DEF Init, LifeReady, LifeAsleep
  <2>3. LifeHome = [t \in Pinned |-> Null]
    BY DEF Init, LifeHome
  <2> QED
    BY <2>1, <2>2, <2>3
       DEF Life!Init, LifeRun, LifeReady, LifeAsleep, LifeHome
<1>2. SafeInv /\ [Next]_vars => [Life!Next]_(Life!vars)
  BY LifeStep
<1> QED
  BY <1>1, <1>2, SafeCorrect, PTL DEF Spec, ImplementsTaskLife, Life!Spec

=============================================================================
