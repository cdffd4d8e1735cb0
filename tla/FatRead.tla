------------------------------ MODULE FatRead ------------------------------
(***************************************************************************)
(* Reading a file's bytes: fat16_read and fat16_retrieve_data_from_stream  *)
(* (fs/fat/fat16.c) over the disk streamer (disk/streamer.c).  A byte of   *)
(* the disk is its position; a byte that the streamer takes from behind    *)
(* its sector buffer is Junk.  The chain walk, the chunks of at most a     *)
(* cluster and the sectors of a chunk are loops, one step per iteration.   *)
(*                                                                         *)
(* An int has the values from -IntHalf up to IntHalf - 1 and wraps around, *)
(* as the build without optimisation does it; the position of a descriptor,*)
(* the size and the number of members are unsigned.  Division is that of C.*)
(*                                                                         *)
(* The file on the volume is the sequence Chain of its clusters, ended in  *)
(* the file allocation table by EndMark, as the FAT16 format has it.       *)
(***************************************************************************)
EXTENDS Integers, Sequences

CONSTANTS
  IntHalf,           \* 2^31
  SectorSize,        \* CHUCHUOS_SECTOR_SIZE
  SectorsPerCluster, \* sectors_per_cluster of the header
  DataSector,        \* root_directory.ending_sector_pos
  Chain,             \* the clusters of the file, in order
  EndMark,           \* the FAT entry of the last one
  OtherEntries,      \* what the FAT may hold elsewhere
  Reads              \* the [pos, size, nmemb] that files are read with

ASSUME FatReadAssumption ==
  /\ IntHalf \in Nat \ {0}
  /\ SectorSize \in Nat \ {0} /\ SectorsPerCluster \in Nat \ {0}
  /\ DataSector \in Nat
  /\ Chain \in Seq(Nat \ {0, 1}) /\ Chain # <<>>
  /\ EndMark \in Nat /\ OtherEntries \subseteq Nat
  /\ Reads \subseteq [pos : 0 .. 2 * IntHalf - 1, size : 1 .. 2 * IntHalf - 1,
                      nmemb : 1 .. 2 * IntHalf - 1]

VARIABLES
  pc,     \* the loop in progress, or "idle"
  rd,     \* the read in progress
  k,      \* members read by fat16_read
  offset, \* offset of fat16_retrieve_data_from_stream
  total,  \* total of the same, after the chunk in progress
  ahead,  \* iterations left in fat_get_offseted_cluster
  cl,     \* cluster_to_use
  spos,   \* pos of the cluster read stream
  chunk,  \* total of diskstreamer_read
  out,    \* the bytes stored in the caller's buffer, in order
  ret     \* what the last read returned

vars == <<pc, rd, k, offset, total, ahead, cl, spos, chunk, out, ret>>

Junk == -1
EIO == 1

\* What is left of a value in an int.
Signed(v) == ((v + IntHalf) % (2 * IntHalf)) - IntHalf

\* a / m and a % m for a positive m, rounded towards zero.
Quotient(a, m) == IF a < 0 THEN -((-a) \div m) ELSE a \div m
Remainder(a, m) == a - m * Quotient(a, m)

ClusterBytes == SectorsPerCluster * SectorSize

\* fat16_cluster_to_sector.
ClusterSector(c) == DataSector + (c - 2) * SectorsPerCluster

\* fat16_get_entry_from_fat_table: the entries it may find for cluster c.
FatEntries(c) ==
  IF \E j \in DOMAIN Chain : Chain[j] = c
  THEN {IF j = Len(Chain) THEN EndMark ELSE Chain[j + 1] :
          j \in {x \in DOMAIN Chain : Chain[x] = c}}
  ELSE OtherEntries

LastEntries == {4088, 4095}                       \* 0xFF8, 0xFFF
\* ... and CHUCHUOS_FAT16_BAD_SECTOR, 0xFF0, 0xFF6, and a free cluster.
StopEntries == LastEntries \cup {4087, 4080, 4086, 0}

Least(a, b) == IF a < b THEN a ELSE b

-----------------------------------------------------------------------------
NoRead == [pos |-> 0, size |-> 1, nmemb |-> 1]

Init ==
  /\ pc = "idle" /\ rd = NoRead
  /\ k = 0 /\ offset = 0 /\ total = 0 /\ ahead = 0 /\ cl = Chain[1]
  /\ spos = 0 /\ chunk = 0 /\ out = <<>> /\ ret = 0

\* fat16_read returns r: its locals are gone, the stream keeps its position.
Return(r) ==
  /\ ret' = r
  /\ pc' = "idle" /\ rd' = NoRead
  /\ k' = 0 /\ offset' = 0 /\ total' = 0 /\ ahead' = 0 /\ cl' = Chain[1]
  /\ chunk' = 0 /\ out' = <<>>
  /\ UNCHANGED spos

(* fat16_read; the position of the descriptor stays where it is.           *)
Read(r) ==
  /\ pc = "idle"
  /\ pc' = "member"
  /\ rd' = r /\ k' = 0 /\ out' = <<>>
  /\ UNCHANGED <<offset, total, ahead, cl, spos, chunk, ret>>

\* Variant for the checks: every member is read from the same position.
MemberOffsetFixed(j) == Signed(rd.pos)

\* offset += size, from int offset = fat_desc->pos on.
MemberOffset(j) == Signed(rd.pos + j * rd.size)

\* The size of a member becomes int total: one of 2 GB or more is negative.
NextMember ==
  /\ pc = "member" /\ k < rd.nmemb
  /\ pc' = "retrieve"
  /\ offset' = MemberOffset(k)
  /\ total' = Signed(rd.size)
  /\ UNCHANGED <<rd, k, ahead, cl, spos, chunk, out, ret>>

ReadReturns ==
  /\ pc = "member" /\ k = rd.nmemb
  /\ Return(Signed(rd.nmemb))

\* Variant for the checks: the cluster is taken for a sector.
RetrieveBySector ==
  /\ pc = "retrieve"
  /\ pc' = "walk"
  /\ cl' = Chain[1]
  /\ ahead' = Quotient(offset, SectorSize)
  /\ UNCHANGED <<rd, k, offset, total, spos, chunk, out, ret>>

(* fat16_retrieve_data_from_stream, each chunk from the first cluster on.  *)
Retrieve ==
  /\ pc = "retrieve"
  /\ pc' = "walk"
  /\ cl' = Chain[1]
  /\ ahead' = Quotient(offset, ClusterBytes)
  /\ UNCHANGED <<rd, k, offset, total, spos, chunk, out, ret>>

\* Variant for the checks: the walk's counter does not move.
WalkStuck(e) ==
  /\ pc = "walk" /\ ahead > 0
  /\ IF e \in StopEntries
     THEN Return(-EIO)
     ELSE cl' = e /\ UNCHANGED <<pc, rd, k, offset, total, ahead, spos, chunk, out, ret>>

\* One iteration of fat_get_offseted_cluster.
Walk(e) ==
  /\ pc = "walk" /\ ahead > 0
  /\ IF e \in StopEntries
     THEN Return(-EIO)
     ELSE /\ ahead' = ahead - 1 /\ cl' = e
          /\ UNCHANGED <<pc, rd, k, offset, total, spos, chunk, out, ret>>

\* starting_position.
Position(c, o) == Signed(ClusterSector(c) * SectorSize + Remainder(o, ClusterBytes))

\* The cluster is found: seek to it, and begin a chunk of at most a cluster,
\* however far into the cluster it starts.
StartChunk ==
  /\ pc = "walk" /\ ahead <= 0
  /\ pc' = "sector"
  /\ spos' = Position(cl, offset)
  /\ chunk' = Least(total, ClusterBytes)
  /\ total' = total - chunk'
  /\ offset' = Signed(offset + chunk')
  /\ UNCHANGED <<rd, k, ahead, cl, out, ret>>

\* Variant for the checks: the last piece of a chunk is a whole sector.
PieceOfSector(c) == SectorSize

\* total_to_read of diskstreamer_read; of a negative total nothing is copied,
\* and the position goes back.
Piece(c) == Least(c, SectorSize)

\* buf[offset + j], where buf is the sector at stream position p.  There is no
\* sector before the first.
Buffered(p, j) ==
  IF p >= 0 /\ Remainder(p, SectorSize) + j < SectorSize THEN p + j ELSE Junk

\* One call of diskstreamer_read: one sector is fetched, a piece is copied.
ReadSector ==
  /\ pc = "sector"
  /\ out' = out \o [j \in 1 .. Piece(chunk) |-> Buffered(spos, j - 1)]
  /\ spos' = Signed(spos + Piece(chunk))
  /\ IF chunk > SectorSize
     THEN chunk' = chunk - SectorSize /\ UNCHANGED <<pc, k>>
     ELSE /\ chunk' = 0
          /\ IF total > 0 THEN pc' = "retrieve" /\ k' = k ELSE pc' = "member" /\ k' = k + 1
  /\ UNCHANGED <<rd, offset, total, ahead, cl, ret>>

-----------------------------------------------------------------------------
Step ==
  \/ NextMember \/ ReadReturns \/ Retrieve
  \/ \E e \in FatEntries(cl) : Walk(e)
  \/ StartChunk \/ ReadSector

Next == (\E r \in Reads : Read(r)) \/ Step

\* The processor keeps executing a read that was entered.
Spec == Init /\ [][Next]_vars /\ WF_vars(Step)

-----------------------------------------------------------------------------
(* Correctness.                                                            *)

TypeOK ==
  /\ pc \in {"idle", "member", "retrieve", "walk", "sector"}
  /\ k \in 0 .. rd.nmemb
  /\ {offset, total, ahead, spos, chunk, ret} \subseteq -IntHalf .. IntHalf - 1
  /\ cl \in Nat
  /\ \A j \in DOMAIN out : out[j] \in Int

\* Where byte o of the file is on the disk.
FilePosition(o) ==
  (DataSector + (Chain[o \div ClusterBytes + 1] - 2) * SectorsPerCluster) * SectorSize
  + (o % ClusterBytes)

\* The bytes of the read lie where an int holds their positions: in the first
\* 2 GB of the disk.
InReach(r) ==
  \A o \in r.pos .. r.pos + r.size * r.nmemb - 1 : FilePosition(o) < IntHalf

\* The read ends inside the clusters of the file.
InFile(r) == r.pos + r.size * r.nmemb <= Len(Chain) * ClusterBytes

\* The chain is that of one file: no cluster comes twice, none has the number
\* of an end mark, and all of it is less than 2 GB long.
FileFits ==
  /\ \A a, b \in DOMAIN Chain : Chain[a] = Chain[b] => a = b
  /\ \A a \in DOMAIN Chain : Chain[a] \notin StopEntries
  /\ Len(Chain) * ClusterBytes < IntHalf

\* From offset o on, s bytes are read right if they end in the sector that they
\* begin in, or begin a sector and end in its cluster, or begin a cluster.
\* (streamer.c:39 takes all of a piece from one sector's buffer, from wherever it
\* starts; fat16.c:510 does not cut a chunk at the end of its cluster)
InOnePiece(o, s) ==
  \/ (o % SectorSize) + s <= SectorSize
  \/ o % SectorSize = 0 /\ (o % ClusterBytes) + s <= ClusterBytes
  \/ o % ClusterBytes = 0

\* So is each member of the read.  The kernel's own reads are of this kind:
\* single bytes (kernel.c:115), and directories from their beginning on
\* (fat16.c:607).
Aligned(r) == \A j \in 0 .. r.nmemb - 1 : InOnePiece(r.pos + j * r.size, r.size)

\* The caller's buffer gets the bytes of the file, in order, over sector and
\* cluster boundaries and along a fragmented chain, for every read in the first
\* 2 GB whose members are each in one piece.  Others get junk or bytes of the
\* neighbouring cluster.  (fat16_read, diskstreamer_read)
ReadsFileBytes ==
  Aligned(rd) /\ InFile(rd) /\ InReach(rd) =>
    \A j \in DOMAIN out : out[j] = FilePosition(rd.pos + j - 1)

\* Whatever is read, aligned or not, inside the file or behind it: the buffer
\* is never overrun.  A read that returns its count has filled the buffer
\* exactly if its members are smaller than 2 GB, and has stored nothing at all
\* if they are not: int total (fat16.c:490) is negative then, and
\* diskstreamer_read's loop (streamer.c:37) is not entered.
BufferFilledExactly ==
  /\ Len(out) <= rd.size * rd.nmemb
  /\ pc = "member" => Len(out) = IF rd.size < IntHalf THEN k * rd.size ELSE 0

\* A read inside the file does not fail, however its clusters are scattered.
InFileSucceeds ==
  [][ pc # "idle" /\ pc' = "idle" /\ InFile(rd) => ret' = rd.nmemb ]_vars

\* Every read ends, also behind the end of the chain.
ReadsEnd == pc # "idle" ~> pc = "idle"

=============================================================================
