------------------------------- MODULE Sched -------------------------------
(***************************************************************************)
(* The SMP scheduler of src/kernel/sched.c, with the timer interrupt that  *)
(* drives it (src/kernel/acpi/timer.c, src/kernel/interrupt.S).            *)
(*                                                                         *)
(* Every CPU runs either the code of a task (or of its idle loop), with    *)
(* interrupts on, or the timer / yield handler, with interrupts off.  A    *)
(* step is one access to shared memory, or one critical section of a spin  *)
(* lock.  g_sched_lock is held over several steps (the walk over the sleep *)
(* list) and is a variable; every critical section of a g_rq[cpu].lock is  *)
(* one step, since the queue and its links are only touched inside one.    *)
(*                                                                         *)
(* A ready queue and the sleep list are sequences, head first.             *)
(***************************************************************************)
EXTENDS Integers, Sequences, SequencesExt

CONSTANTS
  NCpus,       \* stands for SCHED_MAX_CPUS; CPU 0 is the bootstrap processor
  Task,        \* the task_t structures that may be allocated
  Pinned,      \* those made by task_create_pinned, the others by task_create
  Sleepers,    \* those whose code calls msleep
  Idle,        \* &g_idle[c], the idle task of whichever CPU c it is read on
  Null,        \* NULL
  MaxJiffies,  \* bound: no sleep begins at or after this tick
  MaxSleep     \* bound: longest sleep, in ticks

ASSUME SchedAssumption ==
  /\ NCpus \in Nat \ {0}
  /\ Pinned \subseteq Task
  /\ Sleepers \subseteq Task
  /\ Idle \notin Task /\ Null \notin Task /\ Idle # Null
  /\ (0 .. NCpus-1) \cap (Task \cup {Idle, Null}) = {}
  /\ MaxJiffies \in Nat
  /\ MaxSleep \in Nat \ {0}

CPU == 0 .. NCpus-1
Bsp == 0

\* The tick at which the bounded clock stops: every sleep ends by then.
Horizon == MaxJiffies + MaxSleep

VARIABLES
  g_current,    \* g_current[c]: NULL until CPU c is online
  g_rq,         \* g_rq[c]: ready queue of CPU c
  g_sleep,      \* the list at g_sleep_head
  g_sched_lock, \* the CPU that holds it, or Null
  g_rr_create,  \* round-robin start of the next unpinned creation
  jiffies,
  created,      \* the tasks that exist
  state,        \* t->state
  wake_jiffies, \* t->wake_jiffies
  on_ready,     \* t->on_ready
  on_cpu,       \* t->on_cpu
  cpu,          \* t->cpu
  pc,           \* pc[c]: where the code that CPU c executes is
  stk,          \* stk[c]: the task whose stack CPU c executes on
  next,         \* next[c]: local of schedule_from_irq
  pos,          \* pos[c]: place in the walk over g_sleep, or over the victims
  tpc,          \* tpc[t]: where t is in its own code
  loc,          \* loc[t]: what t holds in a register across a preemption
  entry         \* entry[t]: the task whose entry function t has called

taskVars == <<created, tpc, loc, entry>>
fieldVars == <<state, wake_jiffies, on_cpu>>
queueVars == <<g_rq, on_ready, cpu>>
cpuVars == <<g_current, stk, next, pos>>
vars == <<taskVars, fieldVars, queueVars, cpuVars,
          g_sleep, g_sched_lock, g_rr_create, jiffies, pc>>

\* Locations of the code a CPU executes; only at "task" are interrupts on.
CpuLocs == {"off", "boot", "task", "sleep_cs", "wake_lock", "wake",
            "sched", "requeue", "pick", "steal", "install", "switch"}

\* Locations of a task in its own code.
TaskLocs == {"boot", "boot_cur", "run", "sleep_cur", "sleep_lock",
             "sleep_yield", "sleep_ret", "halt"}

Goto(c, l) == pc' = [pc EXCEPT ![c] = l]
TaskGoto(t, l) == tpc' = [tpc EXCEPT ![t] = l]

-----------------------------------------------------------------------------
(* Queues.                                                                 *)

EnqueueAtHead(c, t) ==
  IF on_ready[t]
  THEN UNCHANGED queueVars
  ELSE /\ g_rq' = [g_rq EXCEPT ![c] = <<t>> \o @]
       /\ on_ready' = [on_ready EXCEPT ![t] = TRUE]
       /\ cpu' = [cpu EXCEPT ![t] = c]

\* ready_enqueue: nothing happens to a task that is already queued.
ready_enqueue(c, t) ==
  IF on_ready[t]
  THEN UNCHANGED queueVars
  ELSE /\ g_rq' = [g_rq EXCEPT ![c] = Append(@, t)]
       /\ on_ready' = [on_ready EXCEPT ![t] = TRUE]
       /\ cpu' = [cpu EXCEPT ![t] = c]

DequeueKeepsFlag(c, v) ==
  /\ g_rq' = [g_rq EXCEPT ![v] = Tail(@)]
  /\ next' = [next EXCEPT ![c] = Head(g_rq[v])]
  /\ UNCHANGED <<on_ready, cpu>>

\* ready_dequeue_locked, on a non-empty queue: CPU c takes the head of v's queue.
ready_dequeue(c, v) ==
  /\ g_rq' = [g_rq EXCEPT ![v] = Tail(@)]
  /\ on_ready' = [on_ready EXCEPT ![Head(g_rq[v])] = FALSE]
  /\ next' = [next EXCEPT ![c] = Head(g_rq[v])]
  /\ UNCHANGED cpu

\* pick_create_cpu: the first online CPU from the round-robin start on.  The
\* 32-bit counter is only used modulo SCHED_MAX_CPUS, which divides 2^32.
pick_create_cpu(c) ==
  LET Online(i) == g_current[(g_rr_create + i) % NCpus] # Null
      first == {i \in CPU : Online(i) /\ \A j \in 0 .. i-1 : ~Online(j)}
  IN IF first = {} THEN c ELSE (g_rr_create + CHOOSE i \in first : TRUE) % NCpus

\* A pinned task is queued on its creator's CPU.
create_target(c, t) == IF t \in Pinned THEN c ELSE pick_create_cpu(c)

-----------------------------------------------------------------------------
(* Bringing CPUs and tasks up.                                             *)

\* After init_sched on the BSP: kernel_main goes on with interrupts off.
Init ==
  /\ g_current = [c \in CPU |-> IF c = Bsp THEN Idle ELSE Null]
  /\ g_rq = [c \in CPU |-> <<>>]
  /\ g_sleep = <<>>
  /\ g_sched_lock = Null
  /\ g_rr_create = 0
  /\ jiffies = 0
  /\ created = {}
  /\ state = [t \in Task |-> "READY"]
  /\ wake_jiffies = [t \in Task |-> 0]
  /\ on_ready = [t \in Task |-> FALSE]
  /\ on_cpu = [t \in Task |-> FALSE]
  /\ cpu = [t \in Task |-> 0]
  /\ pc = [c \in CPU |-> IF c = Bsp THEN "boot" ELSE "off"]
  /\ stk = [c \in CPU |-> Idle]
  /\ next = [c \in CPU |-> Null]
  /\ pos = [c \in CPU |-> 1]
  /\ tpc = [t \in Task |-> "boot"]
  /\ loc = [t \in Task |-> Null]
  /\ entry = [t \in Task |-> Null]

\* An application processor runs sched_cpu_init and enables interrupts.
sched_cpu_init(c) ==
  /\ pc[c] = "off"
  /\ g_current' = [g_current EXCEPT ![c] = Idle]
  /\ Goto(c, "task")
  /\ UNCHANGED <<taskVars, fieldVars, queueVars, stk, next, pos,
                 g_sleep, g_sched_lock, g_rr_create, jiffies>>

\* kernel_main ends with sti; its stack becomes the idle loop of the BSP.
kernel_main_sti ==
  /\ pc[Bsp] = "boot"
  /\ Goto(Bsp, "task")
  /\ UNCHANGED <<taskVars, fieldVars, queueVars, cpuVars,
                 g_sleep, g_sched_lock, g_rr_create, jiffies>>

\* Task t executes its own code on CPU c and is at location l of it.
Executes(c, t, l) == pc[c] = "task" /\ stk[c] = t /\ tpc[t] = l

\* task_create_ex, by kernel_main or by a running task (a failed allocation
\* changes nothing).  The task is private to its creator until it is queued.
task_create_ex(c, t) ==
  /\ t \notin created
  /\ pc[c] = "boot" \/ \E u \in created : Executes(c, u, "run")
  /\ created' = created \cup {t}
  /\ ready_enqueue(create_target(c, t), t)
  /\ g_rr_create' = IF t \in Pinned THEN g_rr_create
                                   ELSE (g_rr_create + 1) % NCpus
  /\ UNCHANGED <<tpc, loc, entry, fieldVars, cpuVars,
                 g_sleep, g_sched_lock, jiffies, pc>>

-----------------------------------------------------------------------------
(* The timer interrupt.                                                    *)

IrqOnInSleepCs(c) == pc[c] \in {"task", "sleep_cs"}

\* Handlers are entered through interrupt gates and spin_lock_irqsave clears
\* IF, so interrupts are on in task and idle code only.
irq_enabled(c) == pc[c] = "task"

TickOnApOnly(c) == IF c = Bsp THEN jiffies ELSE jiffies + 1

\* Only the BSP advances the clock.
tick(c) == IF c = Bsp THEN jiffies + 1 ELSE jiffies

\* handler_timer up to the spin on g_sched_lock in sched_wake_sleepers.
handler_timer(c) ==
  /\ irq_enabled(c)
  /\ jiffies' = IF jiffies < Horizon THEN tick(c) ELSE jiffies
  /\ Goto(c, "wake_lock")
  /\ UNCHANGED <<taskVars, fieldVars, queueVars, cpuVars,
                 g_sleep, g_sched_lock, g_rr_create>>

spin_lock(c) == g_sched_lock = Null /\ g_sched_lock' = c

wake_lock(c) ==
  /\ pc[c] = "wake_lock"
  /\ spin_lock(c)
  /\ Goto(c, "wake")
  /\ UNCHANGED <<taskVars, fieldVars, queueVars, cpuVars,
                 g_sleep, g_rr_create, jiffies>>

WakeEnqueueAlways(t) == ready_enqueue(cpu[t], t)

\* A task that is still on a CPU is queued by that CPU's schedule_from_irq.
wake_enqueue(t) ==
  IF on_cpu[t] THEN UNCHANGED queueVars ELSE ready_enqueue(cpu[t], t)

WakeDueEarly(t) == jiffies + 1 >= wake_jiffies[t]

wake_due(t) == jiffies >= wake_jiffies[t]

UnlinkHead(c) == g_sleep' = Tail(g_sleep)

\* *pp = t->sleep_next, wherever in the list pp points.
wake_unlink(c) == g_sleep' = RemoveAt(g_sleep, pos[c])

\* One iteration of the walk over the sleep list: a task that is due leaves it.
wake_step(c) ==
  /\ pc[c] = "wake"
  /\ pos[c] <= Len(g_sleep)
  /\ LET t == g_sleep[pos[c]] IN
       IF wake_due(t)
       THEN /\ wake_unlink(c)
            /\ state' = [state EXCEPT ![t] = "READY"]
            /\ wake_enqueue(t)
            /\ UNCHANGED pos
       ELSE /\ pos' = [pos EXCEPT ![c] = @ + 1]
            /\ UNCHANGED <<g_sleep, state, queueVars>>
  /\ UNCHANGED <<taskVars, wake_jiffies, on_cpu, g_current, stk, next,
                 g_sched_lock, g_rr_create, jiffies, pc>>

\* End of the walk: unlock, acknowledge the interrupt, enter schedule_from_irq.
wake_done(c) ==
  /\ pc[c] = "wake"
  /\ pos[c] > Len(g_sleep)
  /\ g_sched_lock' = Null
  /\ pos' = [pos EXCEPT ![c] = 1]
  /\ Goto(c, "sched")
  /\ UNCHANGED <<taskVars, fieldVars, queueVars, g_current, stk, next,
                 g_sleep, g_rr_create, jiffies>>

-----------------------------------------------------------------------------
(* schedule_from_irq, on the stack of the task it switches away from.      *)

SchedOutKeepsOnCpu(c) ==
  /\ pc[c] = "sched"
  /\ LET cur == g_current[c] IN
       IF cur = Idle
       THEN Goto(c, "pick")
       ELSE /\ g_sched_lock = Null
            /\ Goto(c, IF state[cur] = "READY" THEN "requeue" ELSE "pick")
  /\ UNCHANGED <<taskVars, fieldVars, queueVars, cpuVars,
                 g_sleep, g_sched_lock, g_rr_create, jiffies>>

\* The CPU leaves cur: on_cpu is cleared and the state read in one critical
\* section of g_sched_lock.
sched_out(c) ==
  /\ pc[c] = "sched"
  /\ LET cur == g_current[c] IN
       IF cur = Idle
       THEN Goto(c, "pick") /\ UNCHANGED on_cpu
       ELSE /\ g_sched_lock = Null
            /\ on_cpu' = [on_cpu EXCEPT ![cur] = FALSE]
            /\ Goto(c, IF state[cur] = "READY" THEN "requeue" ELSE "pick")
  /\ UNCHANGED <<taskVars, state, wake_jiffies, queueVars, cpuVars,
                 g_sleep, g_sched_lock, g_rr_create, jiffies>>

sched_requeue(c) ==
  /\ pc[c] = "requeue"
  /\ ready_enqueue(c, g_current[c])
  /\ Goto(c, "pick")
  /\ UNCHANGED <<taskVars, fieldVars, cpuVars,
                 g_sleep, g_sched_lock, g_rr_create, jiffies>>

\* ready_dequeue_local.
sched_pick(c) ==
  /\ pc[c] = "pick"
  /\ IF g_rq[c] # <<>>
     THEN ready_dequeue(c, c) /\ Goto(c, "install")
     ELSE Goto(c, "steal") /\ UNCHANGED <<queueVars, next>>
  /\ UNCHANGED <<taskVars, fieldVars, g_current, stk, pos,
                 g_sleep, g_sched_lock, g_rr_create, jiffies>>

StealIgnoresPin(v) == g_current[v] # Null /\ g_rq[v] # <<>>

\* The head of the queue of an online CPU may be stolen unless it is pinned.
may_steal(v) ==
  /\ g_current[v] # Null
  /\ g_rq[v] # <<>>
  /\ Head(g_rq[v]) \notin Pinned

\* One iteration of rq_steal_one: victim number pos[c].
rq_steal_one(c) ==
  /\ pc[c] = "steal"
  /\ pos[c] < NCpus
  /\ LET victim == (c + pos[c]) % NCpus IN
       IF may_steal(victim)
       THEN /\ ready_dequeue(c, victim)
            /\ pos' = [pos EXCEPT ![c] = 1]
            /\ Goto(c, "install")
       ELSE /\ pos' = [pos EXCEPT ![c] = @ + 1]
            /\ UNCHANGED <<queueVars, next, pc>>
  /\ UNCHANGED <<taskVars, fieldVars, g_current, stk,
                 g_sleep, g_sched_lock, g_rr_create, jiffies>>

\* Nothing to run and nothing to steal: the idle task is next.
sched_idle(c) ==
  /\ pc[c] = "steal"
  /\ pos[c] >= NCpus
  /\ next' = [next EXCEPT ![c] = Idle]
  /\ pos' = [pos EXCEPT ![c] = 1]
  /\ Goto(c, "install")
  /\ UNCHANGED <<taskVars, fieldVars, queueVars, g_current, stk,
                 g_sleep, g_sched_lock, g_rr_create, jiffies>>

sched_install(c) ==
  /\ pc[c] = "install"
  /\ g_current' = [g_current EXCEPT ![c] = next[c]]
  /\ next' = [next EXCEPT ![c] = Null]
  /\ IF next[c] = Idle
     THEN UNCHANGED <<on_cpu, cpu>>
     ELSE /\ on_cpu' = [on_cpu EXCEPT ![next[c]] = TRUE]
          /\ cpu' = [cpu EXCEPT ![next[c]] = c]
  /\ Goto(c, "switch")
  /\ UNCHANGED <<taskVars, state, wake_jiffies, g_rq, on_ready, stk, pos,
                 g_sleep, g_sched_lock, g_rr_create, jiffies>>

\* The handler loads the new stack pointer and returns from the interrupt.
iret(c) ==
  /\ pc[c] = "switch"
  /\ stk' = [stk EXCEPT ![c] = g_current[c]]
  /\ Goto(c, "task")
  /\ UNCHANGED <<taskVars, fieldVars, queueVars, g_current, next, pos,
                 g_sleep, g_sched_lock, g_rr_create, jiffies>>

-----------------------------------------------------------------------------
(* Task code.  sched_current() reads the number of the CPU, then g_current *)
(* at that index: with interrupts on, a task may be preempted between the  *)
(* two and go on elsewhere.                                                *)

\* A step of task t's own code on CPU c that only moves t.
TaskStep(c, t, from, to) ==
  /\ Executes(c, t, from)
  /\ TaskGoto(t, to)
  /\ UNCHANGED <<created, fieldVars, queueVars, cpuVars,
                 g_sleep, g_sched_lock, g_rr_create, jiffies>>

\* task_bootstrap: cpu_index() of `current'.
bootstrap_index(c, t) ==
  /\ TaskStep(c, t, "boot", "boot_cur")
  /\ loc' = [loc EXCEPT ![t] = c]
  /\ UNCHANGED <<entry, pc>>

\* task_bootstrap: reads current->entry; the idle task has none, and a task
\* without an entry function is reported as returned.
bootstrap_entry(c, t) ==
  LET cur == g_current[loc[t]] IN
  /\ TaskStep(c, t, "boot_cur", IF cur = Idle THEN "halt" ELSE "run")
  /\ entry' = [entry EXCEPT ![t] = IF cur = Idle THEN Null ELSE cur]
  /\ loc' = [loc EXCEPT ![t] = Null]
  /\ UNCHANGED pc

\* The entry function returns: the task halts in a loop, still runnable.
bootstrap_return(c, t) ==
  /\ TaskStep(c, t, "run", "halt")
  /\ UNCHANGED <<loc, entry, pc>>

\* yield(): int 34, whose handler only calls schedule_from_irq.
yield(c, t) ==
  /\ \/ TaskStep(c, t, "run", "run")
     \/ TaskStep(c, t, "sleep_yield", "sleep_ret")
  /\ Goto(c, "sched")
  /\ UNCHANGED <<loc, entry>>

\* sched_sleep_jiffies: cpu_index() of sched_current().
sleep_index(c, t) ==
  /\ t \in Sleepers
  /\ jiffies < MaxJiffies
  /\ TaskStep(c, t, "run", "sleep_cur")
  /\ loc' = [loc EXCEPT ![t] = c]
  /\ UNCHANGED <<entry, pc>>

\* sched_sleep_jiffies: cur is read; the idle task does not sleep.
sleep_current(c, t) ==
  LET cur == g_current[loc[t]] IN
  /\ TaskStep(c, t, "sleep_cur", IF cur = Idle THEN "run" ELSE "sleep_lock")
  /\ loc' = [loc EXCEPT ![t] = IF cur = Idle THEN Null ELSE cur]
  /\ UNCHANGED <<entry, pc>>

\* sched_sleep_jiffies: spin_lock_irqsave.
sleep_lock(c, t) ==
  /\ Executes(c, t, "sleep_lock")
  /\ jiffies < MaxJiffies
  /\ spin_lock(c)
  /\ Goto(c, "sleep_cs")
  /\ UNCHANGED <<taskVars, fieldVars, queueVars, cpuVars,
                 g_sleep, g_rr_create, jiffies>>

\* sched_sleep_jiffies: cur is put to sleep for jf ticks and the lock released.
sleep_unlock(c, t, jf) ==
  /\ pc[c] = "sleep_cs" /\ stk[c] = t
  /\ wake_jiffies' = [wake_jiffies EXCEPT ![loc[t]] = jiffies + jf]
  /\ state' = [state EXCEPT ![loc[t]] = "SLEEPING"]
  /\ g_sleep' = <<loc[t]>> \o g_sleep
  /\ g_sched_lock' = Null
  /\ TaskGoto(t, "sleep_yield")
  /\ loc' = [loc EXCEPT ![t] = Null]
  /\ Goto(c, "task")
  /\ UNCHANGED <<created, entry, on_cpu, queueVars, cpuVars,
                 g_rr_create, jiffies>>

\* sched_sleep_jiffies returns to its caller.
sleep_return(c, t) ==
  /\ TaskStep(c, t, "sleep_ret", "run")
  /\ UNCHANGED <<loc, entry, pc>>

-----------------------------------------------------------------------------
(* Specification.                                                          *)

TaskCode(c, t) ==
  \/ bootstrap_index(c, t)
  \/ bootstrap_entry(c, t)
  \/ bootstrap_return(c, t)
  \/ yield(c, t)
  \/ sleep_index(c, t)
  \/ sleep_current(c, t)
  \/ sleep_lock(c, t)
  \/ \E jf \in 1 .. MaxSleep : sleep_unlock(c, t, jf)
  \/ sleep_return(c, t)

\* The steps of the handlers, which run with interrupts off to the end.
Handler(c) ==
  \/ wake_lock(c)
  \/ wake_step(c)
  \/ wake_done(c)
  \/ sched_out(c)
  \/ sched_requeue(c)
  \/ sched_pick(c)
  \/ rq_steal_one(c)
  \/ sched_idle(c)
  \/ sched_install(c)
  \/ iret(c)

Next ==
  \/ kernel_main_sti
  \/ \E c \in CPU :
       \/ sched_cpu_init(c)
       \/ handler_timer(c)
       \/ Handler(c)
       \/ \E t \in Task : task_create_ex(c, t) \/ TaskCode(c, t)

Spec == Init /\ [][Next]_vars

\* kernel_main reaches sti; handlers and the critical section of a sleep run
\* on.  The periodic LAPIC timer keeps firing, and an expiry that finds
\* interrupts off stays pending until they are on, hence strong fairness: a
\* task that yields in a loop cannot keep it out.  Task code itself is under no
\* obligation.
Fairness ==
  /\ WF_vars(kernel_main_sti)
  /\ \A c \in CPU :
       /\ SF_vars(handler_timer(c))
       /\ WF_vars(Handler(c))
       /\ WF_vars(\E t \in Task, jf \in 1 .. MaxSleep : sleep_unlock(c, t, jf))

FairSpec == Spec /\ Fairness

-----------------------------------------------------------------------------
(* Properties.                                                             *)

\* Type invariant of the scheduler's state and of the code positions.
TypeOK ==
  /\ g_current \in [CPU -> Task \cup {Idle, Null}]
  /\ g_rq \in [CPU -> Seq(Task)]
  /\ g_sleep \in Seq(Task)
  /\ g_sched_lock \in CPU \cup {Null}
  /\ g_rr_create \in CPU
  /\ jiffies \in Nat
  /\ created \subseteq Task
  /\ state \in [Task -> {"READY", "SLEEPING"}]
  /\ wake_jiffies \in [Task -> Nat]
  /\ on_ready \in [Task -> BOOLEAN]
  /\ on_cpu \in [Task -> BOOLEAN]
  /\ cpu \in [Task -> CPU]
  /\ pc \in [CPU -> CpuLocs]
  /\ stk \in [CPU -> Task \cup {Idle}]
  /\ next \in [CPU -> Task \cup {Idle, Null}]
  /\ pos \in [CPU -> Nat \ {0}]
  /\ tpc \in [Task -> TaskLocs]
  /\ loc \in [Task -> Task \cup CPU \cup {Null}]
  /\ entry \in [Task -> Task \cup {Null}]

Queued(t, c) == \E i \in 1 .. Len(g_rq[c]) : g_rq[c][i] = t

Asleep(t) == \E i \in 1 .. Len(g_sleep) : g_sleep[i] = t

\* CPU c is responsible for t: it runs t, has not yet given it up in
\* schedule_from_irq, or has just taken it from a queue.
Holds(c, t) ==
  \/ g_current[c] = t /\ pc[c] \notin {"pick", "steal", "install"}
  \/ next[c] = t /\ pc[c] = "install"

\* g_sched_lock is held exactly by the one CPU that is inside a critical
\* section, always with interrupts off: no timer handler can spin on a lock
\* that the code it interrupted holds (spin_lock_irqsave).
LockDiscipline ==
  \A c \in CPU : g_sched_lock = c <=> pc[c] \in {"sleep_cs", "wake"}

\* The ready queues hold every task at most once, over all CPUs together, and
\* on_ready says exactly which: two CPUs can never dequeue one entry each for
\* the same task, and no queued task is skipped by ready_enqueue's test.
QueuesExact ==
  /\ \A t \in Task : on_ready[t] <=> \E c \in CPU : Queued(t, c)
  /\ \A c, d \in CPU : \A i \in 1 .. Len(g_rq[c]), j \in 1 .. Len(g_rq[d]) :
       g_rq[c][i] = g_rq[d][j] => c = d /\ i = j

\* A task is run by at most one CPU, and never while it is in a ready queue:
\* what the hand-over of a woken task through on_cpu and state must ensure.
RunExclusive ==
  \A t \in Task, c \in CPU :
    Holds(c, t) => /\ ~on_ready[t]
                   /\ \A d \in CPU : Holds(d, t) => d = c

\* No task is lost: whatever the interleaving of a sleep, its wake-up and the
\* switch away, a task stays held by a CPU, queued, or on the sleep list.
NoLostTask ==
  \A t \in created : \/ \E c \in CPU : Holds(c, t)
                     \/ on_ready[t]
                     \/ Asleep(t)

\* Every task that exists is in one place, whatever the interleaving of a sleep,
\* its wake-up by another CPU and the switch away from it: neither run by two
\* nor forgotten by all.
TasksKept == RunExclusive /\ NoLostTask

\* The sleep list holds exactly the sleeping tasks, each once: a second
\* insertion would make the C list cyclic and hang sched_wake_sleepers.
SleepListExact ==
  /\ \A t \in Task : state[t] = "SLEEPING" <=> Asleep(t)
  /\ \A i, j \in 1 .. Len(g_sleep) : g_sleep[i] = g_sleep[j] => i = j

\* The task that sched_sleep_jiffies puts to sleep is the one that called it.
SleepsItself ==
  \A t \in Task : tpc[t] = "sleep_lock" => loc[t] = t

\* A pinned task finds its own entry function in task_bootstrap, although it
\* looks it up through g_current with interrupts on.
PinnedBootsItself ==
  \A t \in Pinned : tpc[t] \notin {"boot", "boot_cur"} => entry[t] = t

\* sched_sleep_jiffies does not return before the wake-up tick, even if the
\* task is preempted between releasing the lock and its yield.
SleepNotEarly ==
  [][\A t \in Task : tpc[t] = "sleep_ret" /\ tpc'[t] = "run"
                       => jiffies >= wake_jiffies[t]]_vars

\* A ready queue holds only tasks that are READY and that no CPU is running,
\* as the comment on task_t.next says: no CPU executes on their stack.
QueuedNotRunning ==
  \A c, d \in CPU : \A i \in 1 .. Len(g_rq[c]) :
    state[g_rq[c][i]] = "READY" /\ (d # c => stk[d] # g_rq[c][i])

\* The stack of a pinned task is only ever used by one CPU, although the CPU
\* that requeues it goes on executing on it until the switch.
PinnedStackExclusive ==
  \A c, d \in CPU : stk[c] \in Pinned /\ stk[c] = stk[d] => c = d

\* Pinned tasks are safe from the reads of per-CPU data with interrupts on and
\* from the stack that is in use after it was queued: a task that sleeps puts
\* itself to sleep, starts with its own entry function and shares its stack with
\* no other CPU, while unpinned tasks are stolen around it.
PinnedSafe == SleepsItself /\ PinnedBootsItself /\ PinnedStackExclusive

\* The task CPU c is responsible for, Null if none (the idle task is none).
Held(c) ==
  LET t == IF pc[c] = "install" THEN next[c] ELSE g_current[c]
  IN IF pc[c] \in {"pick", "steal"} \/ t = Idle THEN Null ELSE t

Life == INSTANCE TaskLife WITH
  Cpu <- CPU,
  Nobody <- Null,
  run <- [c \in CPU |-> Held(c)],
  ready <- {t \in Task : on_ready[t]},
  asleep <- {t \in created : ~on_ready[t] /\ \A c \in CPU : Held(c) # t},
  home <- [t \in Pinned |-> IF t \in created THEN cpu[t] ELSE Null]

\* The scheduler implements the life cycle of TaskLife: every step of the
\* handlers, whatever the interleaving, is one of its transitions or none.
ImplementsTaskLife == Life!Spec

\* Every sleeping task is woken.
SleeperWakes == \A t \in Task : state[t] = "SLEEPING" ~> state[t] = "READY"

\* Every queued task is run: round robin starves nobody.
ReadyRuns == \A t \in Task : on_ready[t] ~> on_cpu[t]

=============================================================================
