------------------------------- MODULE MCCore -------------------------------
(***************************************************************************)
(* Small instances, for TLC, of the parts of the kernel below the          *)
(* scheduler: the page allocator, the heap and the bring-up of processors. *)
(* They share no variable: a behaviour runs one of them, and the others    *)
(* stay as they start.                                                     *)
(***************************************************************************)
EXTENDS MCPmm, Heap, Smp

\* Requests of the smallest and of a middle block, of exactly a page and of
\* more than a page.
MCSizes == {1, 5, HeapPage - Hdr, HeapPage + 2}

VARIABLE part

coreVars == <<part, vars, heapVars, smpVars>>

\* The parts that do not run start in one state only.
MCInit ==
  /\ part \in {"pmm", "heap", "smp"}
  /\ Init /\ HeapInit /\ SmpInit
  /\ part # "pmm" => memmap = NoMemory
  /\ part # "smp" => dead = {}

RunSmp == part = "smp" /\ SmpNext /\ UNCHANGED <<part, vars, heapVars>>

MCNext ==
  \/ part = "pmm" /\ Next /\ UNCHANGED <<part, heapVars, smpVars>>
  \/ part = "heap" /\ HeapNext /\ UNCHANGED <<part, vars, smpVars>>
  \/ RunSmp

\* Only the processors have to go on (see Smp).
MCSpec == MCInit /\ [][MCNext]_coreVars /\ WF_coreVars(RunSmp)

\* Where the processors are brought up, init_smp ends with every one that is not
\* dead online: neither a dead nor a late one keeps the next from being started.
ApsComeUp == part = "smp" => BringUp

=============================================================================
