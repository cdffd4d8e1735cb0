------------------------------- MODULE Mount -------------------------------
(***************************************************************************)
(* From fs_init to the return of disk_search_and_init: the table of        *)
(* filesystems (fs/file.c), the one disk (disk/disk.c), its streams        *)
(* (disk/streamer.c) and the mounting of a FAT16 volume (fat16_resolve).   *)
(*                                                                         *)
(* The heap is as Heap has it between two calls: runs of blocks, the       *)
(* lowest run that is long enough or reaches the end.  A run that the end  *)
(* cuts off is handed out with all its blocks, those behind the end, too   *)
(* (heap_malloc_blocks marks them all); what lies there is not in the      *)
(* model.  Sectors are read without errors, as Ata's reads are.  A stream  *)
(* that gets no memory is null; the two words that diskstreamer_new writes *)
(* all the same go to address 0, where nothing of the kernel is.           *)
(***************************************************************************)
EXTENDS Integers, Sequences, FiniteSets

CONSTANTS
  MaxFilesystems,  \* CHUCHUOS_MAX_FILESYSTEMS
  SectorSize, BlockSize,  \* of the disk and of the heap, in bytes
  EntrySize,       \* sizeof(struct fat_directory_item)
  Volumes,         \* the headers [signed, reserved, copies, perFat, entries]
  Pools            \* the sizes of the heap, in blocks

ASSUME MountAssumption ==
  /\ {MaxFilesystems, SectorSize, BlockSize, EntrySize} \subseteq Nat \ {0}
  /\ Volumes \subseteq [signed : BOOLEAN, reserved : Nat, copies : Nat,
                        perFat : Nat, entries : Nat \ {0}]
  /\ Pools \subseteq Nat \ {0}

VARIABLES
  volume, pool,  \* what is mounted, and the size of the heap
  pc,            \* "fs_init", "disk", "search", "streams",
                 \* "header", "root", "out" or "done"
  filesystems,   \* the table: Fat16 or NoFs
  held,          \* the runs of blocks in use: first block -> blocks handed out
  disk,          \* [filesystem, fs_private]
  i,             \* the slot that fs_resolve is at
  private,       \* *fat_private: the streams, and root_directory
  made,          \* the streams of it that were asked for
  stream,        \* the stream that the header is read with
  res

vars == <<volume, pool, pc, filesystems, held, disk, i, private, made, stream, res>>

Null == 0         \* blocks are numbered from 1
NoFs == "null"    \* a null pointer to a filesystem
Fat16 == "fat16_fs"
Slots == 1 .. MaxFilesystems
Streams == <<"cluster_read_stream", "directory_stream", "fat_read_stream">>
NoRoot == [item |-> Null, sector_pos |-> 0, ending_sector_pos |-> 0]
Zeroed == [streams |-> [s \in DOMAIN Streams |-> Null], root |-> NoRoot]

-----------------------------------------------------------------------------
(* The heap.                                                               *)

Taken == UNION {b .. b + held[b] - 1 : b \in DOMAIN held}

\* The free blocks from b on, up to n of them, that follow one another.
Reached(b, n) ==
  {c \in b .. pool : c < b + n /\ (b .. c) \cap Taken = {}}

\* Variant for the checks: the block after the one that was found.
StartBlockNext(n) ==
  LET start == {b \in 1 .. pool : b \notin Taken}
  IN IF start = {} THEN Null ELSE 1 + CHOOSE b \in start : \A c \in start : b <= c

\* heap_get_start_block: the lowest run of n free blocks, or the shorter run
\* that ends with the heap.
StartBlock(n) ==
  LET start == {b \in 1 .. pool :
                  Cardinality(Reached(b, n)) = n \/ pool \in Reached(b, n)}
  IN IF start = {} THEN Null ELSE CHOOSE b \in start : \A c \in start : b <= c

\* The runs in use after kzalloc of n blocks: heap_mark_block_taken marks n from
\* the start block on, also where the heap ends before.
With(n) ==
  IF StartBlock(n) = Null THEN held
  ELSE [b \in DOMAIN held \cup {StartBlock(n)} |-> IF b \in DOMAIN held THEN held[b] ELSE n]

\* The runs in use after kfree of each block of bs.
Without(bs) == [b \in DOMAIN held \ bs |-> held[b]]

\* diskstreamer_new for disk 0, the one there is.
DiskstreamerNew == StartBlock(1)

-----------------------------------------------------------------------------
Init ==
  /\ volume \in Volumes /\ pool \in Pools
  /\ pc = "fs_init"
  /\ filesystems = [s \in Slots |-> NoFs]
  /\ held = [b \in {} |-> 0]
  /\ disk = [filesystem |-> NoFs, fs_private |-> Null]
  /\ i = 1 /\ private = Zeroed /\ made = 0 /\ stream = Null /\ res = 0

\* fs_init: fs_insert_filesystem(fat16_init()) into the first free slot.
FsInit ==
  /\ pc = "fs_init"
  /\ \E s \in Slots :
       /\ filesystems[s] = NoFs /\ \A t \in 1 .. s - 1 : filesystems[t] # NoFs
       /\ filesystems' = [filesystems EXCEPT ![s] = Fat16]
  /\ pc' = "disk"
  /\ UNCHANGED <<volume, pool, held, disk, i, private, made, stream, res>>

\* disk_search_and_init, up to fs_resolve.
DiskInit ==
  /\ pc = "disk"
  /\ disk' = [filesystem |-> NoFs, fs_private |-> Null]
  /\ i' = 1
  /\ pc' = "search"
  /\ UNCHANGED <<volume, pool, filesystems, held, private, made, stream, res>>

\* fs_resolve returns fs, and disk_search_and_init stores it.
Found(fs) ==
  /\ disk' = [disk EXCEPT !.filesystem = fs]
  /\ pc' = "done"

\* The next slot is empty, or there is none.
SkipSlot ==
  /\ pc = "search"
  /\ IF i \in Slots
     THEN filesystems[i] = NoFs /\ i' = i + 1 /\ UNCHANGED <<pc, disk>>
     ELSE Found(NoFs) /\ UNCHANGED i
  /\ UNCHANGED <<volume, pool, filesystems, held, private, made, stream, res>>

\* fat16_resolve, with the private data zeroed.
Resolve ==
  /\ pc = "search" /\ i \in Slots /\ filesystems[i] = Fat16
  /\ held' = With(1)
  /\ disk' = [filesystem |-> Fat16, fs_private |-> StartBlock(1)]
  /\ private' = Zeroed /\ made' = 0 /\ stream' = Null /\ res' = 0
  /\ pc' = "streams"
  /\ UNCHANGED <<volume, pool, filesystems, i>>

\* fat16_init_private: diskstreamer_new three times.
NewStream ==
  /\ pc = "streams" /\ made < Len(Streams)
  /\ held' = With(1)
  /\ private' = [private EXCEPT !.streams[made + 1] = DiskstreamerNew]
  /\ made' = made + 1
  /\ UNCHANGED <<volume, pool, pc, filesystems, disk, i, stream, res>>

\* The stream for the header.
HeaderStream ==
  /\ pc = "streams" /\ made = Len(Streams)
  /\ held' = With(1) /\ stream' = DiskstreamerNew
  /\ IF DiskstreamerNew = Null
     THEN res' = -1 /\ pc' = "out"
     ELSE res' = res /\ pc' = "header"
  /\ UNCHANGED <<volume, pool, filesystems, disk, i, private, made>>

\* signature = 0x29.
Signature == volume.signed

ReadHeader ==
  /\ pc = "header"
  /\ IF Signature THEN res' = res /\ pc' = "root" ELSE res' = -1 /\ pc' = "out"
  /\ UNCHANGED <<volume, pool, filesystems, held, disk, i, private, made, stream>>

\* root_dir_sector_pos.
RootSector == volume.reserved + volume.copies * volume.perFat

RootSize == volume.entries * EntrySize

\* Variant for the checks: the result is not looked at.
RootFailedIgnored == FALSE

\* fat16_get_root_directory returned -ENOMEM.
RootFailed == StartBlock((RootSize + BlockSize - 1) \div BlockSize) = Null

\* fat16_get_root_directory; what is counted and listed is in FatDirectory.
ReadRoot ==
  LET dir == StartBlock((RootSize + BlockSize - 1) \div BlockSize)
  IN /\ pc = "root"
     /\ held' = With((RootSize + BlockSize - 1) \div BlockSize)
     /\ private' = IF dir = Null THEN private
                   ELSE [private EXCEPT !.root =
                     [item |-> dir, sector_pos |-> RootSector,
                      ending_sector_pos |-> RootSector + (RootSize \div SectorSize)]]
     /\ res' = IF RootFailed THEN -1 ELSE 0
     /\ pc' = "out"
     /\ UNCHANGED <<volume, pool, filesystems, disk, i, made, stream>>

\* Variant for the checks: only a mount that succeeds closes the stream.
ClosedOnSuccess == IF res < 0 THEN {} ELSE {stream}

\* if (stream) diskstreamer_close(stream).
Closed == {stream}

\* disk->fs_private = 0.
Released(d) == [d EXCEPT !.fs_private = Null]

\* Variant for the checks: the same slot again.
NextSlotSame == i

NextSlot == i + 1

\* The label out of fat16_resolve, and fs_resolve's loop goes on or returns.
ResolveReturns ==
  /\ pc = "out"
  /\ stream' = Null
  /\ IF res < 0
     THEN /\ held' = Without(Closed \cup {disk.fs_private})
          /\ disk' = Released(disk)
          /\ i' = NextSlot /\ pc' = "search"
     ELSE /\ held' = Without(Closed)
          /\ Found(filesystems[i])
          /\ UNCHANGED i
  /\ UNCHANGED <<volume, pool, filesystems, private, made, res>>

Next ==
  \/ FsInit \/ DiskInit \/ SkipSlot \/ Resolve
  \/ NewStream \/ HeaderStream \/ ReadHeader \/ ReadRoot
  \/ ResolveReturns

\* kernel_main runs alone until it is done.
Spec == Init /\ [][Next]_vars /\ WF_vars(Next)

-----------------------------------------------------------------------------
(* Correctness.                                                            *)

TypeOK ==
  /\ pc \in {"fs_init", "disk", "search", "streams", "header", "root", "out", "done"}
  /\ filesystems \in [Slots -> {NoFs, Fat16}] /\ i \in 1 .. MaxFilesystems + 1
  /\ \A b \in DOMAIN held : b \in 1 .. pool /\ held[b] \in Nat \ {0}
  /\ disk.filesystem \in {NoFs, Fat16} /\ disk.fs_private \in 0 .. pool
  /\ private.streams \in [DOMAIN Streams -> 0 .. pool] /\ private.root.item \in 0 .. pool
  /\ made \in 0 .. Len(Streams) /\ stream \in 0 .. pool /\ res \in {-1, 0}

\* The heap has room for all that the mounting takes at once.
RoomToMount ==
  (Len(Streams) + 2) * BlockSize + RootSize <= pool * BlockSize

\* No two runs in use share a block.  The one run that may go behind the end of
\* the heap is that of the root listing, and only in a heap without the room for
\* what the mounting takes: there heap_get_start_block settles for the blocks up
\* to the end, and the listing is read into what lies behind it.  (heap.c:148)
RunsInHeap ==
  /\ \A b, c \in DOMAIN held : b < c => b + held[b] <= c
  /\ \A b \in DOMAIN held :
       b + held[b] - 1 > pool => b = private.root.item /\ ~RoomToMount

Mounted == disk.filesystem # NoFs

\* What a mounted volume keeps.
Parts == {disk.fs_private, private.root.item} \cup
         {private.streams[s] : s \in DOMAIN Streams}

\* After boot, a disk that has a filesystem holds a FAT16 volume with its
\* private data, three streams and the listing, each a run of its own: what
\* fopen and fread use without looking.  Nothing else stays allocated.
\* (fat16_resolve does not look at the three streams; fopen at the filesystem)
MountedIsComplete ==
  pc = "done" /\ Mounted =>
    /\ volume.signed
    /\ Null \notin Parts /\ Cardinality(Parts) = Len(Streams) + 2
    /\ Parts = DOMAIN held

\* A disk without a filesystem has no private data, and the runs that a volume
\* which was refused leaves behind are the three streams, at most.
\* (label out of fat16_resolve)
RefusedLeavesStreams ==
  pc = "done" /\ ~Mounted =>
    /\ disk.fs_private = Null
    /\ DOMAIN held \subseteq {private.streams[s] : s \in DOMAIN Streams}

BootedAsExpected == pc = "done" /\ (volume.signed /\ RoomToMount => Mounted)

\* The boot goes on, and a FAT16 volume is mounted if the heap has room.
\* (disk_search_and_init)
MountReturns == <>BootedAsExpected

=============================================================================
