--------------------------------- MODULE Part ---------------------------------
(***************************************************************************)
(* The search for partitions of src/kernel/part/part.c: the drives one     *)
(* after the other, on each the GPT or else the MBR with its chain of      *)
(* extended boot records.  One step is one entry of a table.               *)
(*                                                                         *)
(* A table is what the code reads of a disk: which sectors cannot be read, *)
(* whether LBA 0 has the boot signature, the four MBR entries, the state   *)
(* of the GPT header and of the array of entries (magic, fields and CRCs   *)
(* checked), the GPT entries and the boot records by sector; and, for the  *)
(* modules that use the partitions, the volumes by their first sector.     *)
(***************************************************************************)
EXTENDS Integers, Sequences

CONSTANTS
  Disks,      \* the pairs of drives: tables as described above, or NoDisk
  NoDisk,     \* no drive here
  MaxPerDrive, \* PART_MAX_PER_DRIVE
  ExtGuard    \* PART_EXT_GUARD

ASSUME PartAssumption ==
  /\ MaxPerDrive \in Nat \ {0} /\ ExtGuard \in Nat \ {0}
  /\ \A ds \in Disks : \A d \in {ds[1], ds[2]} \ {NoDisk} :
       /\ d.hdr \in {"unreadable", "no_magic", "invalid", "bad_crc", "good"}
       /\ d.array \in {"out_of_range", "unreadable", "bad_crc", "good"}
       /\ d.sectors \in Nat
       /\ \A i \in 1 .. 4 : /\ d.mbr[i].type \in {"empty", "protect", "ext", "data"}
                            /\ d.mbr[i].lba \in Nat /\ d.mbr[i].cnt \in Nat
       /\ Len(d.gpt) \in Nat
       /\ \A i \in 1 .. Len(d.gpt) : d.gpt[i].first \in Nat /\ d.gpt[i].last \in Nat
       /\ \A s \in DOMAIN d.ebrs : d.ebrs[s] \in [rel : Nat, cnt : Nat, next : Nat]

VARIABLES
  disks,  \* the drives, a sequence of tables
  drive,  \* the drive that is searched
  at,     \* where in its tables
  parts   \* parts[d]: the partitions found on drive d, in order

partVars == <<disks, drive, at, parts>>

NowhereYet == [in |-> "start", i |-> 1, base |-> 0, ebr |-> 0, guard |-> 0]

PartInit ==
  /\ disks \in Disks
  /\ drive = 1
  /\ at = NowhereYet
  /\ parts = [d \in 1 .. 2 |-> <<>>]

disk == disks[drive]

Readable(lba) == lba < disk.sectors /\ lba \notin disk.unreadable

\* The range that is taken from a table must be inside the disk, and not at its start.
RangeUnchecked(start, sectors) == sectors # 0 /\ start # 0
Range_ok(start, sectors) == sectors # 0 /\ start # 0 /\ start + sectors <= disk.sectors

\* part_add and part_add_gpt.
part_add(start, sectors, table) ==
  parts' = IF Len(parts[drive]) < MaxPerDrive /\ Range_ok(start, sectors)
           THEN [parts EXCEPT ![drive] =
                   Append(@, [start |-> start, sectors |-> sectors, table |-> table])]
           ELSE parts

has_protective == \E i \in 1 .. 4 : disk.mbr[i].type = "protect"

\* What part_scan_gpt decides before it reads an entry: the entries count, the MBR is
\* used instead, or the disk is left alone.
gpt_verdict ==
  IF ~Readable(1) \/ disk.hdr \in {"unreadable", "no_magic"} THEN "mbr"
  ELSE IF disk.hdr # "good" \/ disk.array = "out_of_range"
       THEN IF has_protective THEN "done" ELSE "mbr"
  ELSE IF disk.array # "good" THEN "done" ELSE "gpt"

\* part_scan_drive up to the choice of the table.
part_scan_drive ==
  /\ drive <= 2 /\ at.in = "start"
  /\ at' = [at EXCEPT !.in = IF disk = NoDisk \/ ~Readable(0) \/ ~disk.sig THEN "done" ELSE gpt_verdict]
  /\ UNCHANGED <<disks, drive, parts>>

\* The next entry of the GPT: a full table, the end or an entry that cannot be read
\* ends it.
part_scan_gpt ==
  /\ drive <= 2 /\ at.in = "gpt"
  /\ IF at.i > Len(disk.gpt) \/ Len(parts[drive]) >= MaxPerDrive \/ disk.gpt[at.i].unreadable
     THEN at' = [at EXCEPT !.in = "done"] /\ UNCHANGED parts
     ELSE LET e == disk.gpt[at.i]
          IN  /\ at' = [at EXCEPT !.i = @ + 1]
              /\ IF e.zero \/ e.first = 0 \/ e.last < e.first \/ e.last >= disk.sectors
                 THEN UNCHANGED parts
                 ELSE part_add(e.first, e.last - e.first + 1, "gpt")
  /\ UNCHANGED <<disks, drive>>

\* The next entry of the MBR.
part_scan_mbr ==
  /\ drive <= 2 /\ at.in = "mbr"
  /\ LET e == disk.mbr[at.i]
     IN  \/ /\ at.i > 4
            /\ at' = [at EXCEPT !.in = "done"]
            /\ UNCHANGED parts
         \/ /\ at.i <= 4 /\ (e.type \in {"empty", "protect"} \/ e.cnt = 0)
            /\ at' = [at EXCEPT !.i = @ + 1]
            /\ UNCHANGED parts
         \/ /\ at.i <= 4 /\ e.type = "ext" /\ e.cnt # 0
            /\ at' = [at EXCEPT !.in = "ext", !.base = e.lba, !.ebr = e.lba, !.guard = 0]
            /\ UNCHANGED parts
         \/ /\ at.i <= 4 /\ e.type = "data" /\ e.cnt # 0
            /\ at' = [at EXCEPT !.i = @ + 1]
            /\ part_add(e.lba, e.cnt, "mbr")
  /\ UNCHANGED <<disks, drive>>

\* The chain of boot records is followed for so many links.
LinksUncounted == at.guard
Links == at.guard + 1

\* The next boot record of an extended partition: its logical partition is relative
\* to it, the next record to the start of the extended partition.
part_scan_ext ==
  /\ drive <= 2 /\ at.in = "ext"
  /\ LET back == [at EXCEPT !.in = "mbr", !.i = @ + 1]
         r    == disk.ebrs[at.ebr]
     IN  IF ~Readable(at.ebr) \/ at.ebr \notin DOMAIN disk.ebrs
         THEN at' = back /\ UNCHANGED parts
         ELSE /\ IF r.cnt # 0 THEN part_add(at.ebr + r.rel, r.cnt, "mbr") ELSE UNCHANGED parts
              /\ at' = IF r.next = 0 \/ Links >= ExtGuard THEN back
                       ELSE [at EXCEPT !.ebr = at.base + r.next, !.guard = Links]
  /\ UNCHANGED <<disks, drive>>

\* The devices of the drive are registered, and the next drive is searched.
part_register ==
  /\ drive <= 2 /\ at.in = "done"
  /\ drive' = drive + 1
  /\ at' = NowhereYet
  /\ UNCHANGED <<disks, parts>>

PartNext ==
  part_scan_drive \/ part_scan_gpt \/ part_scan_mbr \/ part_scan_ext \/ part_register

-----------------------------------------------------------------------------
(* Properties.                                                             *)

\* Whatever the tables say, a partition lies inside its disk and not over its table,
\* a drive has no more than its devices, and all come from the same kind of table:
\* from the MBR only on a disk without a GPT to respect.
PartsSound ==
  \A d \in 1 .. 2 :
    /\ Len(parts[d]) <= MaxPerDrive
    /\ \A i \in 1 .. Len(parts[d]) :
         LET p == parts[d][i]
         IN  /\ p.start # 0 /\ p.sectors # 0
             /\ \A s \in p.start .. p.start + p.sectors - 1 : s < disks[d].sectors
             /\ p.table = parts[d][1].table
             /\ p.table = "mbr" => disks[d].hdr # "good" \/ disks[d].array = "out_of_range"
                                   \/ 1 \in disks[d].unreadable \/ disks[d].sectors = 1
             /\ p.table = "gpt" => disks[d].hdr = "good" /\ disks[d].array = "good"

=============================================================================
