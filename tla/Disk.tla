--------------------------------- MODULE Disk ---------------------------------
(***************************************************************************)
(* Reading and writing a partition through its device node: the block      *)
(* transfers of src/kernel/fs/devfs.c, the shift by the partition's start  *)
(* in src/kernel/part/part.c, and the ATA commands of                      *)
(* src/kernel/ata/ata_pio.c with the registers they are given in.          *)
(*                                                                         *)
(* One transfer of sectors runs under g_pio_lock and is one step; between  *)
(* two transfers other tasks run.  Any transfer may stop with an error or  *)
(* a timeout after some of its sectors.  The width of the registers is a   *)
(* parameter, so that a small disk has an end of the 28-bit addresses.     *)
(***************************************************************************)
EXTENDS Integers, FiniteSets

CONSTANTS
  Task,     \* the callers, each with a handle on a partition of its own
  Start,    \* Start[t]: the first sector of t's partition
  NBlocks,  \* NBlocks[t]: its number of sectors
  Sectors,  \* the sectors of the drive
  Bs,       \* bytes in a sector
  Radix,    \* values of an 8-bit register
  Nibble,   \* values of the 4 address bits in the drive register
  Lba48,    \* the drive knows the 48-bit commands
  Clamp,    \* CLAMP_MAX_SECTORS, no more than Radix
  Split,    \* the 128 blocks of one transfer
  MaxOps,   \* bound: requests of a task
  Nobody

Addr == 0 .. Sectors * Bs - 1
Size(t) == NBlocks[t] * Bs
Own(t) == Start[t] .. Start[t] + NBlocks[t] - 1

\* What the 8 bits of each register count, by their place in an address.
Weight == <<1, Radix, Radix * Radix, Radix * Radix * Radix, Radix * Radix * Radix * Radix,
            Radix * Radix * Radix * Radix * Radix>>

\* The last count of sectors the 28-bit commands are used for, 0x0FFFFFFF.
Limit28 == Weight[4] * Nibble - 1

\* By the ATA standard a drive has no more sectors than its commands can address.
ASSUME DiskAssumption ==
  /\ \A n \in {Sectors, Bs, Radix, Nibble, Clamp, Split} : n \in Nat \ {0}
  /\ Clamp <= Radix /\ MaxOps \in Nat /\ Lba48 \in BOOLEAN
  /\ Sectors <= IF Lba48 THEN Weight[6] * Radix ELSE Limit28
  /\ \A t \in Task : Start[t] \in Nat /\ NBlocks[t] \in Nat /\ Own(t) \subseteq 0 .. Sectors - 1
  /\ \A t, u \in Task : t # u => Own(t) \cap Own(u) = {}

VARIABLES
  disk,  \* disk[a]: the byte at address a: who wrote it, and which byte of the request it was
  req,   \* req[t]: t's request, or Nobody
  pos,   \* pos[t]: f->pos
  len,   \* len[t]: the bytes that are left
  done,  \* done[t]: the bytes that are done
  tmp,   \* tmp[t]: the sector read to be changed, or Nobody
  buf,   \* buf[t]: what a read has put into the caller's buffer
  ops,   \* history: the requests so far
  may    \* history: may[a]: the values byte a is allowed to have

diskVars == <<disk, req, pos, len, done, tmp, buf, ops, may>>

Least(m, n) == IF m < n THEN m ELSE n

-----------------------------------------------------------------------------
(* The ATA commands.                                                       *)

pio_check(lba, n) ==
  /\ n # 0 /\ lba < Sectors /\ n <= Sectors - lba
  /\ Lba48 \/ lba + n <= Limit28

Digit(lba, k) == (lba \div Weight[k + 1]) % Radix

use48(lba, n) == Lba48 /\ lba + n > Limit28

\* The registers of pio_read_chunk and pio_write_chunk.
Registers(lba, n) ==
  IF use48(lba, n)
  THEN [ext |-> TRUE, count |-> n % (Radix * Radix),
        lba |-> [k \in 0 .. 5 |-> Digit(lba, k)]]
  ELSE [ext |-> FALSE, count |-> IF n = Radix THEN 0 ELSE n % Radix,
        lba |-> [k \in 0 .. 3 |-> IF k = 3 THEN (lba \div Weight[4]) % Nibble ELSE Digit(lba, k)]]

\* What the drive makes of them: the first sector and the number of sectors.
Decoded(r) ==
  [lba   |-> IF r.ext THEN r.lba[0] + Radix * (r.lba[1] + Radix * (r.lba[2] + Radix *
                           (r.lba[3] + Radix * (r.lba[4] + Radix * r.lba[5]))))
             ELSE r.lba[0] + Radix * (r.lba[1] + Radix * (r.lba[2] + Radix * r.lba[3])),
   count |-> IF r.count # 0 THEN r.count ELSE IF r.ext THEN Radix * Radix ELSE Radix]

\* pio_read_sectors and pio_write_sectors split a transfer into commands of at most
\* Clamp sectors: the sector the drive uses for the j-th one, if its command has as
\* many sectors as the code waits for.
Command(lba, n, j) ==
  LET first == (j \div Clamp) * Clamp
  IN  Decoded(Registers(lba + first, Least(Clamp, n - first)))

Sector(lba, n, j) == Command(lba, n, j).lba + (j % Clamp)

Possible(lba, n, k) == \A j \in 0 .. k - 1 : j % Clamp < Command(lba, n, j).count

\* The disk after k of the n sectors, sector j with the bytes data[j].
pio_write_sectors(lba, n, data, k) ==
  [a \in Addr |->
     IF \E j \in 0 .. k - 1 : Sector(lba, n, j) = a \div Bs
     THEN data[CHOOSE j \in 0 .. k - 1 : Sector(lba, n, j) = a \div Bs][a % Bs]
     ELSE disk[a]]

\* The bytes of the j-th sector read; an address past the disk reads as nothing.
pio_read_sector(lba, n, j) ==
  [o \in 0 .. Bs - 1 |->
     LET a == Sector(lba, n, j) * Bs + o IN IF a \in Addr THEN disk[a] ELSE Nobody]

-----------------------------------------------------------------------------
(* The partition, and the request of a task.                               *)

part_ok(t, lba, n) == lba < NBlocks[t] /\ n <= NBlocks[t] - lba

Lba(t) == pos[t] \div Bs
Disk0(t) == Start[t] + Lba(t)

\* The part of the request that is next: its unaligned head, its whole blocks, its
\* tail, or nothing.
Phase(t) ==
  IF len[t] = 0 THEN "out"
  ELSE IF pos[t] % Bs # 0 THEN "head"
  ELSE IF len[t] >= Bs THEN "middle" ELSE "tail"

\* The bytes of the next transfer that belong to the request.
Chunk(t) ==
  CASE Phase(t) = "head"   -> Least(Bs - (pos[t] % Bs), len[t])
    [] Phase(t) = "middle" -> Least(Split, len[t] \div Bs) * Bs
    [] Phase(t) = "tail"   -> len[t]

Blocks(t) == IF Phase(t) = "middle" THEN Least(Split, len[t] \div Bs) ELSE 1

DiskInit ==
  /\ disk = [a \in Addr |-> [by |-> Nobody, i |-> a]]
  /\ req = [t \in Task |-> Nobody]
  /\ pos = [t \in Task |-> 0] /\ len = [t \in Task |-> 0] /\ done = [t \in Task |-> 0]
  /\ tmp = [t \in Task |-> Nobody]
  /\ buf = [t \in Task |-> <<>>]
  /\ ops = [t \in Task |-> 0]
  /\ may = [a \in Addr |-> {disk[a]}]

ByteAddr(t, p) == Start[t] * Bs + p

\* The value of byte i of t's request.
Data(t, i) == [by |-> t, i |-> i]

\* devfs_read or devfs_write at position p, which devfs_seek set: the request is cut
\* off at the end of the device.
devfs_block(t, kind, p, n) ==
  LET m == Least(n, Size(t) - p)
  IN  /\ req[t] = Nobody /\ ops[t] < MaxOps
      /\ n # 0 /\ p < Size(t)
      /\ req' = [req EXCEPT ![t] = [kind |-> kind, pos |-> p, len |-> m]]
      /\ pos' = [pos EXCEPT ![t] = p]
      /\ len' = [len EXCEPT ![t] = m]
      /\ done' = [done EXCEPT ![t] = 0]
      /\ buf' = [buf EXCEPT ![t] = <<>>]
      /\ ops' = [ops EXCEPT ![t] = @ + 1]
      /\ may' = [a \in Addr |->
           IF kind = "write" /\ a \in ByteAddr(t, p) .. ByteAddr(t, p + m - 1)
           THEN may[a] \cup {Data(t, a - ByteAddr(t, p))} ELSE may[a]]
      /\ UNCHANGED <<disk, tmp>>

\* The request ends: what was done is known to be on the disk.
Return(t) ==
  /\ req' = [req EXCEPT ![t] = Nobody]
  /\ len' = [len EXCEPT ![t] = 0]
  /\ tmp' = [tmp EXCEPT ![t] = Nobody]
  /\ may' = [a \in Addr |->
       IF req[t].kind = "write"
          /\ ByteAddr(t, req[t].pos) <= a /\ a < ByteAddr(t, req[t].pos + done[t])
       THEN {Data(t, a - ByteAddr(t, req[t].pos))} ELSE may[a]]

\* A transfer fails, or there is no memory for the sector: the request returns what
\* is done, or the error.
Give_up(t) ==
  /\ Return(t)
  /\ UNCHANGED <<pos, done, buf, ops>>

Advanced(t, n) ==
  /\ pos' = [pos EXCEPT ![t] = @ + n]
  /\ done' = [done EXCEPT ![t] = @ + n]
  /\ len' = [len EXCEPT ![t] = @ - n]
  /\ tmp' = [tmp EXCEPT ![t] = Nobody]
  /\ UNCHANGED <<req, ops, may>>

\* The transfer of devfs_block_read, all of it or none: a sector for the head and the
\* tail, whole blocks for the middle.
devfs_block_read(t, ok) ==
  /\ req[t] # Nobody /\ req[t].kind = "read" /\ Phase(t) # "out"
  /\ IF ok
     THEN /\ part_ok(t, Lba(t), Blocks(t)) /\ pio_check(Disk0(t), Blocks(t))
          /\ Possible(Disk0(t), Blocks(t), Blocks(t))
          /\ Advanced(t, Chunk(t))
          /\ buf' = [buf EXCEPT ![t] = [i \in 0 .. done[t] + Chunk(t) - 1 |->
               IF i < done[t] THEN @[i]
               ELSE LET b == pos[t] + i - done[t]
                    IN  pio_read_sector(Disk0(t), Blocks(t), b \div Bs - Lba(t))[b % Bs]]]
     ELSE Give_up(t)
  /\ UNCHANGED disk

Writing(t) == req[t] # Nobody /\ req[t].kind = "write" /\ Phase(t) # "out"

\* devfs_block_write reads the sector of the head, or of the tail.
devfs_write_fetch(t, ok) ==
  /\ Writing(t) /\ Phase(t) # "middle" /\ tmp[t] = Nobody
  /\ IF ok
     THEN /\ pio_check(Disk0(t), 1) /\ Possible(Disk0(t), 1, 1)
          /\ tmp' = [tmp EXCEPT ![t] = pio_read_sector(Disk0(t), 1, 0)]
          /\ UNCHANGED <<req, pos, len, done, buf, ops, may>>
     ELSE Give_up(t)
  /\ UNCHANGED disk

Unmerged(t, o, data) == data

\* The sectors that are written: the caller's bytes, and around a head or a tail the
\* bytes that were read.
Merged(t, o, data) ==
  IF pos[t] % Bs <= o /\ o < (pos[t] % Bs) + Chunk(t) THEN data ELSE tmp[t][o]

Payload(t) ==
  [j \in 0 .. Blocks(t) - 1 |-> [o \in 0 .. Bs - 1 |->
     LET data == Data(t, done[t] + j * Bs + o - (pos[t] % Bs))
     IN  IF Phase(t) = "middle" THEN data ELSE Merged(t, o, data)]]

\* And writes it, or whole blocks, of which k sectors arrive before an error; the
\* flush after all of them may time out as well.
devfs_write_store(t, k, ok) ==
  /\ Writing(t) /\ (Phase(t) = "middle" \/ tmp[t] # Nobody)
  /\ part_ok(t, Lba(t), Blocks(t)) /\ pio_check(Disk0(t), Blocks(t))
  /\ k <= Blocks(t) /\ (ok => k = Blocks(t))
  /\ Possible(Disk0(t), Blocks(t), k)
  /\ disk' = pio_write_sectors(Disk0(t), Blocks(t), Payload(t), k)
  /\ IF ok THEN Advanced(t, Chunk(t)) /\ UNCHANGED buf ELSE Give_up(t)

\* All is done; the flush at the end of a write changes nothing here.
devfs_block_return(t) ==
  /\ req[t] # Nobody /\ Phase(t) = "out"
  /\ Return(t)
  /\ UNCHANGED <<disk, pos, done, buf, ops>>

DiskNext ==
  \E t \in Task :
    \/ \E kind \in {"read", "write"}, p \in 0 .. Size(t) - 1, n \in 1 .. Size(t) :
         p + n <= Size(t) + 1 /\ devfs_block(t, kind, p, n)
    \/ \E ok \in BOOLEAN :
         \/ devfs_block_read(t, ok) \/ devfs_write_fetch(t, ok)
         \/ \E k \in 0 .. Split : devfs_write_store(t, k, ok)
    \/ devfs_block_return(t)

-----------------------------------------------------------------------------
(* Properties.                                                             *)

\* A write puts exactly its bytes on the disk: what it returns as done is there, what
\* it was not asked for is untouched, also in the sectors it shares with others, on
\* the other partition, when any transfer stops half way, and on both sides of the
\* last 28-bit address; and no command asks for other sectors than the code waits for.
WritesExact ==
  /\ \A a \in Addr : disk[a] \in may[a]
  /\ \A t \in Task : req[t] # Nobody /\ Phase(t) # "out" =>
       pio_check(Disk0(t), Blocks(t)) /\ Possible(Disk0(t), Blocks(t), Blocks(t))

\* A read returns the bytes of the partition at its position, each at its place in
\* the buffer, and moves the position by as many.
ReadsExact ==
  \A t \in Task : req[t] # Nobody =>
    /\ pos[t] = req[t].pos + done[t] /\ done[t] + len[t] = req[t].len
    /\ req[t].kind = "read" =>
         \A i \in 0 .. done[t] - 1 : buf[t][i] \in may[ByteAddr(t, req[t].pos + i)]

\* Whatever transfers of two tasks on neighbouring partitions interleave, and
\* wherever one fails, the disk holds what was written and reads return it.
DiskExact == WritesExact /\ ReadsExact

=============================================================================
