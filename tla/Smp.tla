-------------------------------- MODULE Smp --------------------------------
(***************************************************************************)
(* Bringing up the application processors: init_smp, start_one_ap and      *)
(* ap_main of src/kernel/smp.c, lapic_start_ap of src/kernel/acpi/lapic.c  *)
(* and the trampoline of src/kernel/smp_trampoline.S.                      *)
(*                                                                         *)
(* The bootstrap processor starts one processor at a time and passes it    *)
(* the page table, a stack and the entry point through one record in the   *)
(* trampoline page, which the next start overwrites.  Every store of the   *)
(* BSP and every load of a starting AP is a step.                          *)
(***************************************************************************)
EXTENDS Integers, FiniteSets

CONSTANTS
  NAps,    \* the number of enabled processors in the MADT, without the BSP
  Late,    \* those that may come up after the BSP has given up on them
  CR3      \* the BSP's page table, below 4 GiB

ASSUME SmpAssumption ==
  /\ NAps \in Nat
  /\ Late \subseteq 1 .. NAps
  /\ CR3 \in Nat \ {0}

Ap == 1 .. NAps

VARIABLES
  dead,     \* the APs that never answer a SIPI
  bsp,      \* where start_one_ap is
  i,        \* the AP init_smp is at
  bi,       \* the record at tramp_bootinfo
  pages,    \* the number of stacks allocated: a stack is its number
  mine,     \* mine[a]: the stack allocated for AP a, 0 before
  ap,       \* ap[a]: where AP a is
  regs,     \* regs[a]: what a has loaded from the record
  acked,    \* the APs reported as acknowledged
  timedout  \* the APs reported as timed out

smpVars == <<dead, bsp, i, bi, pages, mine, ap, regs, acked, timedout>>

\* ap_main, the entry point; 0 is what memory holds before it is written.
ApMain == 1

ApLocs == {"off", "real", "pm32", "lm64", "entry", "main", "online", "crash"}
BspLocs == {"alloc", "copy", "started", "cr3", "stack", "entry", "sipi", "spin",
            "done"}

Cleared == [started |-> 0, cr3 |-> 0, stack |-> 0, entry |-> 0]

SmpInit ==
  /\ dead \in SUBSET (Ap \ Late)
  /\ bsp = IF Ap = {} THEN "done" ELSE "alloc"
  /\ i = 1
  /\ bi = Cleared
  /\ pages = 0
  /\ mine = [a \in Ap |-> 0]
  /\ ap = [a \in Ap |-> "off"]
  /\ regs = [a \in Ap |-> Cleared]
  /\ acked = {} /\ timedout = {}

-----------------------------------------------------------------------------
(* The BSP.                                                                *)

BspGoto(l) == bsp' = l

\* A fresh page for the stack.
start_alloc ==
  /\ bsp = "alloc"
  /\ pages' = pages + 1
  /\ mine' = [mine EXCEPT ![i] = pages + 1]
  /\ BspGoto("copy")
  /\ UNCHANGED <<dead, i, bi, ap, regs, acked, timedout>>

\* The copy of the trampoline clears the record.
start_copy ==
  /\ bsp = "copy"
  /\ bi' = Cleared
  /\ BspGoto("started")
  /\ UNCHANGED <<dead, i, pages, mine, ap, regs, acked, timedout>>

StoresSharedStack(f) ==
  CASE f = "started" -> 0
    [] f = "cr3" -> CR3
    [] f = "stack" -> mine[1]
    [] f = "entry" -> ApMain

\* The value stored into field f.
stored(f) ==
  CASE f = "started" -> 0
    [] f = "cr3" -> CR3
    [] f = "stack" -> mine[i]
    [] f = "entry" -> ApMain

\* The order of the stores.
after_store(f) ==
  CASE f = "started" -> "cr3" [] f = "cr3" -> "stack"
    [] f = "stack" -> "entry" [] f = "entry" -> "sipi"

start_store(f) ==
  /\ bsp = f
  /\ bi' = [bi EXCEPT ![f] = stored(f)]
  /\ BspGoto(after_store(f))
  /\ UNCHANGED <<dead, i, pages, mine, ap, regs, acked, timedout>>

\* lapic_start_ap: INIT and two SIPIs; the second finds the AP running.
lapic_start_ap ==
  /\ bsp = "sipi"
  /\ ap' = [ap EXCEPT ![i] = IF i \in dead THEN "off" ELSE "real"]
  /\ BspGoto("spin")
  /\ UNCHANGED <<dead, i, bi, pages, mine, regs, acked, timedout>>

\* init_smp goes on with the next processor.
next_ap ==
  /\ i' = i + 1
  /\ BspGoto(IF i + 1 \in Ap THEN "alloc" ELSE "done")

start_acked ==
  /\ bsp = "spin"
  /\ bi.started # 0
  /\ acked' = acked \cup {i}
  /\ next_ap
  /\ UNCHANGED <<dead, bi, pages, mine, ap, regs, timedout>>

\* Ten million polls are enough for every processor but the dead and the late.
may_time_out == i \in dead \cup Late

start_timeout ==
  /\ bsp = "spin"
  /\ bi.started = 0
  /\ may_time_out
  /\ timedout' = timedout \cup {i}
  /\ next_ap
  /\ UNCHANGED <<dead, bi, pages, mine, ap, regs, acked>>

-----------------------------------------------------------------------------
(* An application processor.                                               *)

ApGoto(a, l) == ap' = [ap EXCEPT ![a] = l]

\* Real and protected mode up to the load of CR3.
tramp_cr3(a) ==
  /\ ap[a] = "real"
  /\ regs' = [regs EXCEPT ![a].cr3 = bi.cr3]
  /\ ApGoto(a, "pm32")
  /\ UNCHANGED <<dead, bsp, i, bi, pages, mine, acked, timedout>>

\* Paging is enabled: without a page table the machine resets.
tramp_paging(a) ==
  /\ ap[a] = "pm32"
  /\ ApGoto(a, IF regs[a].cr3 = CR3 THEN "lm64" ELSE "crash")
  /\ UNCHANGED <<dead, bsp, i, bi, pages, mine, regs, acked, timedout>>

tramp_stack(a) ==
  /\ ap[a] = "lm64"
  /\ regs' = [regs EXCEPT ![a].stack = bi.stack]
  /\ ApGoto(a, "entry")
  /\ UNCHANGED <<dead, bsp, i, bi, pages, mine, acked, timedout>>

\* The entry point is loaded and jumped to.
tramp_entry(a) ==
  /\ ap[a] = "entry"
  /\ regs' = [regs EXCEPT ![a].entry = bi.entry]
  /\ ApGoto(a, IF bi.entry = ApMain THEN "main" ELSE "crash")
  /\ UNCHANGED <<dead, bsp, i, bi, pages, mine, acked, timedout>>

ApForgetsStarted(a) ==
  /\ ap[a] = "main"
  /\ ApGoto(a, "online")
  /\ UNCHANGED <<dead, bsp, i, bi, pages, mine, regs, acked, timedout>>

\* ap_main sets the processor up, on its stack, and reports.
ap_main(a) ==
  /\ ap[a] = "main"
  /\ bi' = [bi EXCEPT !.started = 1]
  /\ ApGoto(a, "online")
  /\ UNCHANGED <<dead, bsp, i, pages, mine, regs, acked, timedout>>

SmpNext ==
  \/ start_alloc
  \/ start_copy
  \/ \E f \in {"started", "cr3", "stack", "entry"} : start_store(f)
  \/ lapic_start_ap
  \/ start_acked
  \/ start_timeout
  \/ \E a \in Ap : \/ tramp_cr3(a)
                   \/ tramp_paging(a)
                   \/ tramp_stack(a)
                   \/ tramp_entry(a)
                   \/ ap_main(a)

\* Processors do not stop: the BSP spins with interrupts off, and so does an AP
\* until it is online.
SmpSpec == SmpInit /\ [][SmpNext]_smpVars /\ WF_smpVars(SmpNext)

-----------------------------------------------------------------------------
(* Properties.                                                             *)

\* Type invariant.
SmpTypeOK ==
  /\ dead \subseteq Ap
  /\ bsp \in BspLocs
  /\ i \in 1 .. NAps + 1
  /\ pages \in 0 .. NAps
  /\ mine \in [Ap -> 0 .. NAps]
  /\ ap \in [Ap -> ApLocs]
  /\ LET Record == [started : 0 .. 1, cr3 : {0, CR3}, stack : 0 .. NAps,
                    entry : {0, ApMain}]
     IN bi \in Record /\ regs \in [Ap -> Record]
  /\ acked \subseteq Ap /\ timedout \subseteq Ap

\* A running AP is on the stack that was allocated for it, and no other AP is,
\* although all stacks are passed through one record.
OwnStack ==
  \A a \in Ap : ap[a] \in {"main", "online"} =>
    /\ regs[a].stack = mine[a]
    /\ \A b \in Ap : ap[b] \in {"main", "online"} /\ b # a
                       => regs[b].stack # regs[a].stack

\* The AP that start_one_ap reports as acknowledged is online: the shared flag
\* is never another AP's, even of one that was reported as timed out.
AckIsOnline == \A a \in acked : ap[a] = "online"

\* An AP only finds a record that the BSP has filled in after the copy: it never
\* enables paging without a page table or jumps to 0.
BootinfoFilled == \A a \in Ap : ap[a] # "crash"

\* The one record that is rewritten for every processor never mixes two of them
\* up, even when one is dead or late: each runs on its own stack with a complete
\* record, and what is acknowledged is the processor that was started.
ApsSound == SmpTypeOK /\ OwnStack /\ AckIsOnline /\ BootinfoFilled

\* In the end every AP is online unless it is dead, and every AP that answers in
\* time is acknowledged.
BringUp ==
  <>[](/\ bsp = "done"
       /\ \A a \in Ap \ dead : ap[a] = "online"
       /\ Ap \ (dead \cup Late) \subseteq acked)

=============================================================================
