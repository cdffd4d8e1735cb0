-------------------------------- MODULE Ata --------------------------------
(***************************************************************************)
(* Reading sectors through the ports of the drive: disk_read_sector of the *)
(* kernel (disk/disk.c) and ata_lba_read of the boot sector, which waits   *)
(* and transfers in the same way.  The registers are written, the command  *)
(* is given, and then, for each sector, the status is polled until the     *)
(* drive requests the transfer and the words are read one by one.          *)
(*                                                                         *)
(* The drive is external.  It becomes busy when it is given a command, and *)
(* requests the transfer of a sector when it has read it; with the last    *)
(* word of a sector it becomes busy again, or idle after the last sector.  *)
(* On a sector it cannot read it reports an error and requests nothing.    *)
(***************************************************************************)
EXTENDS Integers, Sequences

CONSTANTS
  Words,       \* 256, the words of a sector
  ByteMod,     \* 2^8, the values of a register
  HeadMod,     \* 2^4, what the drive takes of the register 0x1F6
  Mode,        \* 0xE0: the high bits of that register, a multiple of HeadMod
  KernelReads, \* the [lba, total] of disk_read_block
  BootReads,   \* the one of the boot sector
  BadSectors   \* the sectors that the drive cannot read

Reads == KernelReads \cup BootReads

\* What the two callers ask for: sectors of a volume that the drive can
\* address, and not more of them than a register can say.
ASSUME AtaAssumption ==
  /\ {Words, ByteMod, HeadMod} \subseteq Nat \ {0}
  /\ HeadMod <= ByteMod /\ Mode \in Nat /\ Mode % HeadMod = 0
  /\ \A r \in Reads :
       /\ r.lba \in 0 .. ByteMod * ByteMod * ByteMod * HeadMod - 1
       /\ r.total \in 1 .. ByteMod - 1
  /\ BadSectors \subseteq Nat

VARIABLES
  pc,      \* "idle", "poll" or "copy"
  rd,      \* the request
  b,       \* sectors that were read
  i,       \* words of the sector that were read
  buf,     \* the words stored at buf, in order
  drive,   \* "idle", "busy", "drq" or "error"
  lba,     \* the sector the drive is at
  left,    \* the sectors it has still to deliver, that one included
  word     \* the words of it that were taken

cpu == <<pc, rd, b, i, buf>>
device == <<drive, lba, left, word>>
vars == <<cpu, device>>

NoRead == [lba |-> 0, total |-> 0]

Word(s, j) == <<s, j>>

Init ==
  /\ pc = "idle" /\ rd = NoRead /\ b = 0 /\ i = 0 /\ buf = <<>>
  /\ drive = "idle" /\ lba = 0 /\ left = 0 /\ word = 0

-----------------------------------------------------------------------------
(* The drive.                                                              *)

\* The sector that the registers 0x1F3 to 0x1F6 name.
Addressed(reg) ==
  reg.low + ByteMod * (reg.mid + ByteMod * (reg.high + ByteMod * (reg.head % HeadMod)))

DriveReads ==
  /\ drive = "busy"
  /\ drive' = IF lba \in BadSectors THEN "error" ELSE "drq"
  /\ UNCHANGED <<cpu, lba, left, word>>

\* The status bit DRQ, 0x08.
Drq == drive = "drq"

\* The data register was read.
WordTaken ==
  IF word + 1 < Words
  THEN word' = word + 1 /\ UNCHANGED <<drive, lba, left>>
  ELSE /\ word' = 0 /\ left' = left - 1
       /\ lba' = IF left > 1 THEN lba + 1 ELSE lba
       /\ drive' = IF left > 1 THEN "busy" ELSE "idle"

-----------------------------------------------------------------------------
(* disk_read_sector and ata_lba_read.                                      *)

\* Variant for the checks: low and middle byte are exchanged.
KernelRegistersSwapped(r) ==
  [head  |-> (r.lba \div (ByteMod * ByteMod * ByteMod)) + Mode,
   count |-> r.total % ByteMod,
   low   |-> (r.lba \div ByteMod) % ByteMod,
   mid   |-> r.lba % ByteMod,
   high  |-> (r.lba \div (ByteMod * ByteMod)) % ByteMod]

\* The bytes that outb leaves in the registers 0x1F2 to 0x1F6.
KernelRegisters(r) ==
  [head  |-> (r.lba \div (ByteMod * ByteMod * ByteMod)) + Mode,
   count |-> r.total % ByteMod,
   low   |-> r.lba % ByteMod,
   mid   |-> (r.lba \div ByteMod) % ByteMod,
   high  |-> (r.lba \div (ByteMod * ByteMod)) % ByteMod]

\* The same, as ata_lba_read has it: of what is in eax after each shift, al is
\* written.
BootRegisters(r) ==
  LET eax(shift) == (r.lba \div shift) % ByteMod
  IN [head |-> eax(ByteMod * ByteMod * ByteMod) + Mode, count |-> r.total % ByteMod,
      low |-> eax(1), mid |-> eax(ByteMod), high |-> eax(ByteMod * ByteMod)]

\* The command 0x20 is the last that is written; a count of 0 means ByteMod.
Command(r, reg) ==
  /\ pc = "idle"
  /\ pc' = "poll"
  /\ rd' = r /\ b' = 0 /\ i' = 0 /\ buf' = <<>>
  /\ drive' = "busy"
  /\ lba' = Addressed(reg)
  /\ left' = IF reg.count = 0 THEN ByteMod ELSE reg.count
  /\ word' = 0

\* Variant for the checks: the error bit, 0x01, is tested in the place of DRQ.
ReadyOnError == drive = "error"

\* c & 0x08, or test al, 8: all that is looked at.
Ready == Drq

\* One reading of the status register: the loop ends, or goes round, without
\* a limit and whatever else the drive reports.
Poll ==
  /\ pc = "poll"
  /\ pc' = IF Ready THEN "copy" ELSE "poll"
  /\ UNCHANGED <<rd, b, i, buf, device>>

\* The last word of the sector was read.
SectorCopied == i + 1 = Words

\* insw(0x1F0), and at the end of a sector the next one, or the return.
CopyWord ==
  /\ pc = "copy"
  /\ buf' = Append(buf, IF Drq THEN Word(lba, word) ELSE <<"no data">>)
  /\ IF Drq THEN WordTaken ELSE UNCHANGED device
  /\ IF ~SectorCopied
     THEN i' = i + 1 /\ UNCHANGED <<pc, b>>
     ELSE /\ i' = 0 /\ b' = b + 1
          /\ pc' = IF b + 1 = rd.total THEN "idle" ELSE "poll"
  /\ rd' = rd

Next ==
  \/ \E r \in KernelReads : Command(r, KernelRegisters(r))
  \/ \E r \in BootReads : Command(r, BootRegisters(r))
  \/ Poll \/ CopyWord
  \/ DriveReads

\* The processor goes on, and the drive ends what it began, one way or the
\* other.  Nobody has to read.
Spec == Init /\ [][Next]_vars /\ WF_vars(Poll \/ CopyWord) /\ WF_vars(DriveReads)

-----------------------------------------------------------------------------
(* Correctness.                                                            *)

TypeOK ==
  /\ pc \in {"idle", "poll", "copy"} /\ rd \in Reads \cup {NoRead}
  /\ b \in 0 .. rd.total /\ i \in 0 .. Words - 1
  /\ Len(buf) \in 0 .. rd.total * Words
  /\ drive \in {"idle", "busy", "drq", "error"}
  /\ lba \in Nat /\ left \in 0 .. ByteMod /\ word \in 0 .. Words - 1

\* The words of the sectors of r.
Sectors(r) == [k \in 1 .. r.total * Words |->
                 Word(r.lba + ((k - 1) \div Words), (k - 1) % Words)]

Device == INSTANCE BlockDevice WITH
  Requests <- Reads,
  Content <- Sectors,
  wanted <- IF pc = "idle" THEN {} ELSE {rd},
  answer <- IF pc = "idle" THEN buf ELSE <<>>

\* Polling and copying word by word, sector by sector, is the one atomic read
\* that the streamer relies on, for the kernel and for the boot sector.
\* (disk_read_sector, ata_lba_read)
BlockDeviceSpec == Device!Spec

\* Between two reads the drive is left with nothing to deliver, so that the
\* next read does not take a word of this one for its own.
DriveDrained == pc = "idle" => drive = "idle" /\ left = 0 /\ word = 0

\* A read of sectors that are good returns.  One of a bad sector does not: the
\* drive then sets the error bit, which the loop does not look at.
\* (while(!(c & 0x08)))
ReadReturns ==
  \A r \in Reads :
    (\A s \in r.lba .. r.lba + r.total - 1 : s \notin BadSectors) =>
      (pc # "idle" /\ rd = r ~> pc = "idle")

=============================================================================
