------------------------------ MODULE TaskLife ------------------------------
(***************************************************************************)
(* What a scheduler promises about its tasks, without queues, locks or     *)
(* interrupts: a task is new, ready, run by exactly one CPU, or asleep; it *)
(* goes from one to the next only as below, and a pinned task is run by    *)
(* one CPU only.                                                           *)
(***************************************************************************)
CONSTANTS Cpu, Task, Pinned, Nobody

VARIABLES
  run,    \* run[c]: the task that CPU c runs, or Nobody
  ready,  \* the tasks waiting for a CPU
  asleep, \* the tasks waiting for a tick
  home    \* home[t]: the one CPU that may run the pinned task t

vars == <<run, ready, asleep, home>>

Running == {run[c] : c \in Cpu} \ {Nobody}
Alive == Running \cup ready \cup asleep

Init ==
  /\ run = [c \in Cpu |-> Nobody]
  /\ ready = {} /\ asleep = {}
  /\ home = [t \in Pinned |-> Nobody]

\* A new task is ready at once; a pinned one gets its home.
Create(c, t) ==
  /\ t \notin Alive
  /\ ready' = ready \cup {t}
  /\ home' = IF t \in Pinned THEN [home EXCEPT ![t] = c] ELSE home
  /\ UNCHANGED <<run, asleep>>

Dispatch(c, t) ==
  /\ run[c] = Nobody /\ t \in ready
  /\ t \in Pinned => home[t] = c
  /\ run' = [run EXCEPT ![c] = t]
  /\ ready' = ready \ {t}
  /\ UNCHANGED <<asleep, home>>

\* The CPU gives its task up: to the ready tasks, or to the sleeping ones.
Preempt(c) ==
  /\ run[c] # Nobody
  /\ run' = [run EXCEPT ![c] = Nobody]
  /\ ready' = ready \cup {run[c]}
  /\ UNCHANGED <<asleep, home>>

Sleep(c) ==
  /\ run[c] # Nobody
  /\ run' = [run EXCEPT ![c] = Nobody]
  /\ asleep' = asleep \cup {run[c]}
  /\ UNCHANGED <<ready, home>>

Wake(t) ==
  /\ t \in asleep
  /\ asleep' = asleep \ {t}
  /\ ready' = ready \cup {t}
  /\ UNCHANGED <<run, home>>

Next ==
  \/ \E c \in Cpu : Preempt(c) \/ Sleep(c)
  \/ \E c \in Cpu, t \in Task : Create(c, t) \/ Dispatch(c, t)
  \/ \E t \in Task : Wake(t)

Spec == Init /\ [][Next]_vars

=============================================================================
