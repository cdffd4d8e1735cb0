# ChuChuOS in TLA+

ChuChuOS is a small 32-bit kernel for one PC: a boot sector, a block heap, a
FAT16 reader behind a table of file descriptors, a text screen, a keyboard
interrupt and an identity-mapped address space. This directory holds models of
its parts, the TLC configurations that check them, and proofs that TLAPS checks:
every invariant and every property of steps that a run checks is also a
theorem. Paths in this text are relative to the repository.

## The system

| Part | Source | State it keeps | Operations |
|---|---|---|---|
| Boot sector | `src/boot/boot.asm` | – | load 100 sectors (`ata_lba_read`), enter protected mode |
| Kernel start | `src/kernel.asm`, `src/kernel.c` | – | `_start`, `kernel_main` |
| Screen | `src/kernel.c` | `video_mem`, `terminal_row`, `terminal_col` | `print`, `terminal_writechar` |
| Interrupts | `src/idt/` | the table of 256 vectors | `idt_init`, `int21h_handler`, `no_interrupt_handler` |
| Heap | `src/memory/heap/` | one byte per 4096-byte block | `kmalloc`, `kzalloc`, `kfree` |
| Paging | `src/memory/paging/` | page directory and tables | create, switch, `paging_set` |
| Disk | `src/disk/disk.c`, `src/io/io.asm` | the one `disk` | `disk_read_block` by port I/O |
| Streamer | `src/disk/streamer.c` | a position per stream | seek, read |
| Filesystems | `src/fs/file.c` | the registry, the disk's filesystem | `fs_init`, `fs_resolve` |
| File layer | `src/fs/file.c` | `file_descriptors[512]` | `fopen`, `fread`, `fseek`, `fstat`, `fclose` |
| Path parser | `src/fs/pparser.c` | – (allocates a list) | `pathparser_parse` |
| FAT16 driver | `src/fs/fat/fat16.c` | root listing, three streams, the objects behind a descriptor | the filesystem's functions |
| Helpers | `src/string/`, `src/memory/memory.c` | – | strings, `memset`, `memcpy` |

How they interact. `kernel_main` is one thread: it initialises the screen, the
heap, the filesystems, the disk (which mounts the volume), the interrupt table
and paging, enables interrupts and then opens, reads and closes one file. The
file layer calls the path parser and, through function pointers, the driver;
the driver reads through streams, the streams through the port driver; all of
them allocate from the heap. The only other activity is the interrupt
handlers: the keyboard's prints a line, and shares the cursor with
`kernel_main`'s printing; every other vector has a handler that only ends the
interrupt. Handlers allocate nothing and open nothing.

Where it is hard:

* the heap's table is a linked structure without redundancy, walked by three
  loops with edge cases at the end of the table and of a run;
* `fopen` makes up to a dozen allocations, each of which may fail, and frees
  on some of the ways out only;
* the driver hands out and frees objects that point into each other while a
  path is descended;
* file data crosses sectors, clusters and members of `fread`, each with an
  offset arithmetic of its own;
* directories are read in two passes which disagree on deleted entries, and on
  where a subdirectory goes on;
* the drive is waited for without a limit, and the words of a sector must be
  taken to the last, or the next read gets the rest;
* mounting makes up to six allocations, of which three are not looked at, and
  is taken back half-way when the volume is not FAT16;
* the page tables are reached through the map that they define, and the
  processor keeps copies of what they were;
* the keyboard's handler may run between any two instructions of `print`.

Nothing is persisted and the volume is only read, so there is no recovery to
model; there is no network, and the code has no timeout and no retry.

## The modules

| Module | Models |
|---|---|
| `BlockAlloc` | what a caller of `kmalloc`/`kfree` relies on: runs of blocks, granted if one fits |
| `Heap` | `heap.c`: the table and the three loops, one iteration a step |
| `FileTable`, `MCFileTable` | `file.c`, the allocations of `pparser.c`, and the objects of `fat16.c` |
| `PathParser` | what `pparser.c` makes of a string |
| `FatDirectory`, `MCFatDirectory` | counting, listing and looking up directory entries, and their names |
| `FatRead`, `MCFatRead` | `fat16_read` down to the sectors |
| `BlockDevice` | what a caller of `disk_read_block` relies on: the words of its sectors, in order and once |
| `Ata`, `MCAta` | `disk_read_sector` and the boot sector's `ata_lba_read` against the drive |
| `Mount`, `MCMount` | from `fs_init` to the return of `disk_search_and_init`: registry, disk, `fat16_resolve` |
| `AddressSpace` | what a caller of `memory/paging` relies on: an entry for every page of every chunk |
| `Paging`, `MCPaging` | `paging.c`, over heap blocks, with the processor's walk and its copies |
| `Console`, `MCConsole` | `print` against the keyboard's handler, and the vectors |
| `HeapProofs`, `FileTableProofs`, `FatReadProofs`, `MountProofs`, `PagingProofs` | theorems about these components |
| `NameProofs` | theorems about `PathParser` and `FatDirectory` |
| `DeviceProofs` | theorems about `Ata` and `Console` |
| `Numbers` | lemmas: quotients and remainders, least and greatest numbers of a set, induction |

How they compose. `Heap` implements `BlockAlloc` for requests of one block
(`AllocSpec`, checked and proved). `FileTable` takes its objects from a heap
that behaves as `BlockAlloc` does, with the lowest free block as the choice
that `Heap` makes; every object of the file layer is smaller than a block.
(Only the listing of a directory of more than 128 entries is larger: it counts
as one block here.) `Mount` has requests of several blocks and takes runs as
`Heap` has them between two calls, the cut-off run at the end of the table
included, which is handed out with all its blocks. `PathParser` computes the parts that `FileTable`'s requests are made
of, and `FatDirectory` the relation `Links` in which `FileTable` looks them
up. `FatRead` is what `Fread` of `FileTable` does with the data. `Ata`
implements `BlockDevice` (`BlockDeviceSpec`, checked and proved), and that a
sector is read whole and in one go is what `FatRead`, `FatDirectory` and
`Mount` take from it. `Mount` ends in what `FileTable` has as `Mounted` and
`FatRead` as `DataSector`. `Paging` takes its tables from the heap and
implements `AddressSpace` (`AddressSpaceSpec`, checked and proved); that the
map stays the identity where the heap lies is what every other module relies
on, since the kernel uses its pointers as physical addresses.

### Heap

`entries` is the table; an entry is the set of its flags. `past` collects the
indices behind the table that were written: in the kernel these writes hit
whatever lies there, here they are remembered. `held` is a history variable:
the pointers that callers have not given back, with the number of blocks they
asked for. `pc`, `n`, `i`, `counter`, `start` and `entry` are the locals of the
call in progress. A caller frees only what it holds, which is what the
kernel's callers do, with the exceptions that `FileTable` shows.

### FileTable

`mem` is the content of the heap's blocks, kept when they are freed, so that a
pointer into freed memory finds what the kernel would find there. `table` is
the array of descriptors. `fopen` is a sequence of steps between two
allocations: `CreateRoot`, `NamePart`/`AddPart`/`PathEnds` for the parser,
`CheckFails` for the checks of `fopen`, `FatOpen`, then for each part `Lookup`,
`CreateItem`, `CloneItem` or `LoadDirectory` and `LoadEntries`, `DropCurrent`,
`Descend`; `Found` and `NewDescriptor` end it. The other calls are one step
each. A step that reads through a pointer to something of another kind, or
frees what is not held, sets `fault`, and the behaviour ends (`Halted`): what
the kernel does with such memory depends on bytes that are not modelled.
Writes to address 0 are not faults: the page is mapped and holds no kernel
state. What is read there may be anything: that is a choice where both
outcomes stay in the model (`Descend`), and a fault where they do not. The
names in a directory are distinct, as on any volume a FAT driver wrote.

### FatRead

A byte of the disk is its position, so the buffer's content shows where each
byte came from. `Chain` is the file's clusters. The steps are the loop of
`fat16_read` (`NextMember`), the recursion of
`fat16_retrieve_data_from_stream` (`Retrieve`, `StartChunk`), the walk along
the allocation table (`Walk`) and the recursion of `diskstreamer_read`
(`ReadSector`). Bytes behind the streamer's sector buffer are `Junk`. An `int`
has the values from `-IntHalf` to `IntHalf - 1` and wraps around, which is what
the unoptimised build does with it; the division is C's, towards zero; the
position of a descriptor and the size of a member are unsigned and become
`int`s on their way to the cluster. So a file on clusters behind the last `int`
position is in the model, with negative sectors that no drive has, and so is a
member of 2 GB or more, whose count is negative: nothing is read for it.

A member is read right if it is in one piece (`InOnePiece`): within a sector,
or from a sector's start within a cluster, or from a cluster's start. Other
members get `Junk`, or bytes of the cluster that follows on the disk.

### FatDirectory

The slots of the disk from the directory on are initial states, and so is the
chain of clusters (`<<>>` for the root directory). `CountSlot` goes over the
slots one behind the other, as
`fat16_get_total_items_of_directory_from_disk` does also where the directory
goes on elsewhere; `ReadListing` reads the whole root directory, or as many
entries along the chain as were counted, and where the chain is too short it
fails or takes some other place of the disk. A lookup compares as many items
as were counted, whether the listing has them or not. Names are sequences of
letters in fields of small width, since what is in question is where a field
ends.

### PathParser

Every string over four characters is an initial state. Each part is a step;
`far` is the highest position that was read. `stage` says whether the parser
is before the root, among the parts or done.

### Ata

A request writes the registers (`KernelRegisters` and `BootRegisters`, whose
arithmetic differs), gives the command, and polls (`Poll`) before each sector;
`CopyWord` is one word of `insw`. The drive is external: `DriveReads` makes a
busy drive ready with the sector at the address it was given, or report an
error for a sector in `BadSectors`; `WordTaken` moves it on. The address is
rebuilt from the registers (`Addressed`), so a register that held the wrong
byte would deliver another sector.

### Mount

The steps are the allocations of `fat16_resolve` and `fat16_init_private`, the
reading of the header and of the root directory, and the label `out`.
`filesystems` is the registry, `disk` the record of the one disk, `private`
the driver's private data. The heap is its runs in use, `held`, each with the
number of blocks that were handed out: `With` records all that were asked for,
also of a run that the end of the table cuts off. So the listing of a root
directory of two blocks may lie with its second one behind the heap, where the
model keeps nothing. A stream that
was not allocated is null, and `diskstreamer_new` then writes two words to
address 0, where the kernel keeps nothing.

### Paging

`mem` is the frames of the machine, `Pool` those that are heap blocks. Each
`kzalloc` of `paging_create_new_4gb_chunk` is a step, and a table that gets
no memory is a null pointer: its entries go to page 0. Every access to a table
goes through `Reach`: the frame itself before paging is on, and afterwards the
frame that the map in force, or one of the processor's copies (`tlb`), has for
it. `Walk` combines the rights of the directory and the table as the processor
does. Callers do not use a chunk that is null, and pages of the heap are not
mapped elsewhere (`PagingAssumption`). `kernel_main` creates one chunk on a
heap with room for it, switches to it and enables paging; `paging_set` has no
caller yet, and is modelled as part of the interface.

### Console

The build has no optimisation, so each access to `terminal_row`,
`terminal_col` and the screen is a load or a store of its own, and a step. A
handler runs with interrupts disabled from its first instruction to its
`iret`, and is one step. The interrupt controller and the keyboard controller
are external; their operators say what the kernel's use of them relies on.
`IdtInit` leaves in `idt` the handler of each vector; the controller requests
from `PicBase` on, where `kernel.asm` puts it, and whether the keyboard's
request meets its handler depends on both.

## What is checked

| Run | Shows |
|---|---|
| `heap_runs` (`MCHeapMulti`) | `TableMatchesHeld`, `HeldDisjoint`, `FailsOnlyWhenFull`, `HeldEntriesStable`, `CallsReturn`, and the inductive invariant `IInv`, for runs of one to three blocks in a pool of five |
| `heap_one_block` (`MCHeapOne`) | `WithinHeap` and the refinement of `BlockAlloc`, for requests of one block |
| `file_table` (`MCFileTable`) | with enough memory: no fault, complete and separate descriptors, `fopen` opens what the path names, `fclose` gives back its blocks and no others, calls leave other descriptors alone |
| `file_table_errors` (`MCFtErrors`) | the table stays sound up to the first fault when memory, directories or modes fail |
| `fat_read` (`MCFatRead`) | the right bytes for reads of members in one piece, which those of the kernel are; no byte too many, no spurious failure and an end for all reads, those of positions and sizes that no `int` holds included |
| `path_parser` (`MCPathParser`) | the parts are exactly the components up to the first empty one, reads stay in the string, lengths stay in the limit |
| `fat_directory` (`MCFatDirectory`) | files are found in directories in one piece and without deleted entries; what is found is live; lookups stay in the listing |
| `console` (`MCConsole`) | at most one character is lost to the race, the first key press is answered |
| `paging` (`MCPaging`) | the refinement of `AddressSpace`; the processor's copies are stale only on pages that were set since the last switch; no frame serves two purposes |
| `ata` (`MCAta`) | the refinement of `BlockDevice`; a read of good sectors returns |
| `mount` (`MCMount`) | a mounted disk has all its parts and nothing else is held; a refused mount leaves no private data and at most three streams; a FAT16 volume is mounted if the heap has room; runs do not overlap, and none leaves the heap but that of a listing that found no room |

Bounds, and why they are enough.

* Heap: five blocks with runs of up to three have every arrangement of two
  runs with a gap, and of a run at the end of the table.
* Files: three calls of `fopen` over two slots fill the table, reuse a slot
  and open while others are open; the paths have one and two parts, through
  files, directories and names that are not there; a pool of 30 blocks never
  runs out, one of 13 does at every allocation, for some order of calls. A word
  modulus of 8 makes `SEEK_CUR` wrap.
* Reads: four clusters of two sectors of two bytes, in the order 3, 5, 2, 8,
  have every combination of a boundary of sectors, clusters and members; an
  `int` holds the positions up to 31, so that cluster 8 is out of its reach.
  One to three members have up to three clusters each, or 32 and 63 bytes, the
  least and the greatest size that no `int` holds.
* Paths: nine characters hold three parts and two slashes in a row, and the
  limit of eight lies below them.
* Directories: six slots, clusters of two and a root of three, with chains of
  up to three clusters, in order or not. They hold a deleted entry before a
  file, a full directory, a match before and behind both, and a chain that
  leaves the order that the count goes by.
* Console: two key presses show that the second is not needed for what is
  claimed of the first; the text has a line before the interrupts are enabled,
  one after, and a rest without a newline.
* Paging: four entries per table are sixteen frames, of which thirteen are the
  heap's: two chunks of six, and one frame left for a third that fails. Two
  sets can set and then reach through what was set. The flags are 5 (present,
  for all rings) where `kernel_main` has 7: the missing right to write shows
  what the directory's entry adds.
* Ata: registers of two bits, sectors of three words, addresses that fill each
  of the registers, requests of one to three sectors, one sector that cannot
  be read, the second of its request.
* Mount: heaps of one to eight blocks, so that each allocation is, somewhere,
  the first that fails; headers with and without the signature; root
  directories of one and two blocks, the second of them behind the heap's end
  in some.

One run is expected to fail, and shows a disagreement of the code with its own
comment:

| Run | The code | The comment |
|---|---|---|
| `fat_directory_holes` (`MCFdHoles`) | as many entries at the end of the root directory's listing are not looked at as there are deleted ones | `fat16.c:249` "all the items of the root directory" |

Noticed while modelling and kept in the models as the code has it, without a
run of their own:

* `heap.c:148`: a search that the end of the table cuts off succeeds with
  fewer blocks than were asked for ("enough consecutive blocks available",
  `heap.c:162`). It needs a request of two blocks or more, which the mount
  makes only for a root directory of more than 128 entries (the boot sector
  declares 64) and the driver for subdirectories of that size. All blocks are
  marked and handed out, those behind the table and the pool, too. `Heap` and
  `Mount` have it; `WithinHeap` is claimed for requests of one block, and
  `RunsInHeap` excepts a listing that found no room.
* `heap.c:172`: a request of no bytes is answered with the address of a block
  that stays free ("we need to mark the block as taken", `heap.c:171`); the
  driver makes one for a directory without items (`fat16.c:600`).
* `file.c:144`: `fopen` never calls `pathparser_free`; after thousands of
  calls the heap of 25600 blocks is empty, and then `file.c:78` writes the
  index of the missing descriptor to address 0, from where `fopen` returns it.
* `pparser.c:77`: without memory for a name, the end of a path makes the parser
  free a null pointer; `FileTable` ends there with a fault.
* `fat16.c:683`: a part in the middle of a path that is not there leaves a null
  item whose type is read.
* `file.c:180`: an invalid mode makes `fopen` return -2 past the exit that
  turns errors into 0, which `kernel.c:108` takes for a descriptor.
* `fat16.c:705`: the error of an open for writing is positive, and `fopen`
  takes it for the private data ("pointer to the file", `file.c:185`).
* `fat16.c:615`: a directory whose listing cannot be read is freed and
  returned, and freed again by `fclose`.
* `fat16.c:594`: the items of a subdirectory are counted without following its
  chain; with a chain that is not in order the listing is too short, or runs
  behind the chain's end and fails.
* `fat16.c:456`: the marks compared with are those of FAT12: the end mark of
  FAT16, 0xFFFF, is followed ("this is the last entry", `fat16.c:457`), and
  the clusters 0xFF8 and 0xFFF end a file that goes through them.
* `fat16.c:201`: in a root directory without a free slot the count goes on into
  the data area, and the lookup behind the listing.
* `fat16.c:362`: a name of eight characters has no blank behind it, and takes
  the extension with it; an extension of three takes the attribute.
* `fat16.c:510`: a chunk is not cut at the end of its cluster; a read from the
  middle of a cluster that crosses it gets what follows on the disk. In the
  streamer (`streamer.c:39`) one from the middle of a sector gets what lies
  behind the sector's buffer.
* `fat16.c:490`: the size of a member becomes an `int`; of 2 GB or more it is
  negative, nothing is stored, and `fread` returns all the members.
* `fat16.c:788`: `SEEK_CUR` does not compare the new position with the file's
  size, and wraps at 2^32.
* `fat16.c:508`: positions are `int`s, so that the part of a volume behind
  2 GB is not read; the boot sector declares a volume of nearly 4 GB
  (`boot.asm`, `SectorsBig`).
* `fat16.c:273`: the end of the root directory is rounded down to a sector
  (`total_sectors`, rounded up, is not used).
* `fat16.c:325`: a volume that is refused leaves its three streams allocated.
* `pparser.c:59`: a part that gets no memory reads as the end of the path.
* `pparser.c:75`: an empty part ends the list, so that `0:/a//b` names `a`.
* `pparser.c:20`: three characters are accepted ("Length must be greater than
  3", `pparser.c:13`).
* `fat16.c:784`: `SEEK_END` moves nothing ("set pointer to the end of a file",
  `file.h:12`).
* `disk.c:23`: the wait for the drive does not look at its error bit; a sector
  that cannot be read hangs the kernel.
* `idt.asm:24`: `disable_interrupts` executes `sti`; it has no caller.
* `kernel.asm`: the controller is told that a fourth initialisation word
  follows, and the next byte it gets is meant for its mask; `Console` takes
  the controller as initialised.
* `streamer.c:46`: a read recurses once per sector; the depth of the stack is
  not modelled.

The definitions called "Variant for the checks" are plausible mistakes in the
code; with one of them in place of the definition after it, the property named
for it in `PROJECT.json` fails. No specification uses them.

### Fairness

* `Heap`, `FairSpec`: a call that was entered goes on (weak fairness of
  `Step`). There is one processor and nothing that a call waits for. No
  fairness on `Call`: nobody has to allocate.
* `FatRead`: the same. Reading a sector is a step; that the drive answers is
  what `ReadReturns` of `Ata` shows for sectors that it can read.
* `Ata`: the polling and the copying go on, and a busy drive gets done with a
  sector, well or with an error (weak fairness of each). Nobody has to read.
* `Mount`: `kernel_main` goes on (weak fairness of `Next`). It runs alone:
  interrupts are still disabled.
* `Console`: `kernel_main` goes on, and an interrupt that stays deliverable is
  taken (weak fairness). The keyboard's request is not deliverable while the
  timer's is pending, so its fairness is strong: the timer's period is long
  against its handler, and between two ticks the keyboard is served.

## What is proved

Each of the proof modules has, for the specification of its component, an
inductive invariant made of named parts, a lemma for each part and action, and
the theorems below. They hold for every value of the constants that satisfies
the component's assumption, which TLC evaluates for the instances.

### Heap

`HeapProofs`, for every table size, block size, heap address, word width and
set of sizes that satisfy `HeapAssumption`:

| Theorem | Statement | Condition |
|---|---|---|
| `TypeCorrect` | `Spec => []TypeOK` | – |
| `HeapInvariant` | `Spec => []IInv` | `NonEmptyRequests` |
| `TableCorrect` | `Spec => []TableMatchesHeld` | `NonEmptyRequests` |
| `NoSharedBlock` | `Spec => []HeldDisjoint` | `NonEmptyRequests` |
| `FailureMeansFull` | `Spec => FailsOnlyWhenFull` | `NonEmptyRequests` |
| `EntriesStable` | `Spec => HeldEntriesStable` | `NonEmptyRequests` |
| `StaysWithinHeap` | `Spec => []WithinHeap` | `OneBlockRequests` |
| `HeapImplementsAlloc` | `Spec => AllocSpec` | `OneBlockRequests` |
| `BlocksHoldRequest` | a request's blocks hold its bytes, one less would not | no wrap of the word |

The conditions are not convenience. Without `NonEmptyRequests` the address of
a free block is handed out twice; without
`OneBlockRequests` a run may leave the pool, and it is then
no step of `BlockAlloc`. What survives runs of any length is the first group:
even a run that leaves the pool shares no block with another one, because
it ends in no block that a later search can find.

The inductive invariant. `TableMatchesHeld` says of every entry what it must
be, from the held runs and the part of a run that the loop in progress has
marked or not yet unmarked. It is not inductive by itself: a search must not
return a run that contains a taken block. `SearchInv` says what the search
knows: the blocks from `start` on, `counter` of them, are free, the block
before `start` is taken, and no run of `n` free blocks lies below `i`. The
last part also gives `FailsOnlyWhenFull`. `MarkInv` says that the entry byte
prepared for the next block is the right one, `FreeInv` that the loop is
inside the run it frees. The proof has a lemma for each action and conjunct;
the refinement maps each held pointer to its run and shows that only
`MallocReturns`, `SearchFails` and `Kfree` are steps of `BlockAlloc`, the
others stutter.

### File layer

`FileTableProofs`, for every heap, table, volume, path and set of requests that
satisfy `FileTableAssumption`:

| Theorem | Statement | Condition |
|---|---|---|
| `TypeCorrect` | `Spec => []TypeOK` | – |
| `SlotsHold` | `Spec => []SlotsHoldDescriptors` | – |
| `Complete` | `Spec /\ []MemoryLeft => []DescriptorsComplete` | `OnlyReads` |
| `Apart` | `Spec /\ []MemoryLeft => []DescriptorsApart` | `OnlyReads` |
| `ClosesOne` | `Spec /\ []MemoryLeft => CloseReleasesAll` | `OnlyReads` |
| `OthersStay` | `Spec /\ []MemoryLeft => OthersUntouched` | `OnlyReads` |
| `OpensNamed` | `Spec /\ []MemoryLeft => OpensWhatIsNamed` | `OnlyReads` |
| `FaultFree` | `Spec /\ []MemoryLeft => []NoFault` | `OnlyReads`, `MiddlePartsExist` |

The conditions are those under which the code is right, and those of the run
`file_table`. `OnlyReads`: directories can be read, and no file is opened for
writing; otherwise `fopen` makes descriptors of an error number, or of a
directory that is freed. `MemoryLeft`: the heap has a free block; without one,
parts of a path are lost and `fopen` returns numbers of no descriptor. A
behaviour that stutters forever before memory runs out satisfies
`[]MemoryLeft`, so the statements hold of every state before that, and of
every step between two of them. `MiddlePartsExist`: what is missing on a path
is its first or its last part, or lies behind a file; otherwise
`fat16.c:683` reads the type of an item that is not there. TLC evaluates the
two conditions on the constants for the run `file_table`; the pool of that
run has room for all its calls.

The inductive invariant is about ownership. An object points to at most one
other: a descriptor to its private data, that to an item, the item of a file
to its directory entry and a directory to its listing. `Safe` says that these
pointers lead to blocks in use of the right kind, that no two objects in use
own the same one, and that what `fopen` is building is owned by nobody; it
says nothing of the directory behind an item, which is gone when its listing
could not be read. So it survives every failure, up to the first fault, and
gives `SlotsHold`: a block that `fclose` frees belongs to no other
descriptor. `Sound` has the rest, the directories, and the pointers that are
not null; it needs the conditions. Together they make the footprints of two
descriptors disjoint: two chains of owners that met would have met at their
heads.

`Named` says what `fopen` is looking for: after `level` parts the item in hand
is for the node that the first `level` parts lead to, and a null item says that
they lead nowhere. `Along` is the sequence of sets of nodes that a path leads
to, a recursive function; that the recursion has a solution is proved by
induction over the length (`SetInduction` in `Numbers`: a set of numbers that
has 0 and, with each number, the next one, has all of them). TLC has checked
`Named` on the instance of `file_table` too.

### Path parser

`NameProofs`, for every alphabet, length and limit:

| Theorem | Statement |
|---|---|
| `ParserTypeCorrect` | `ParserSpec => []ParserTypeOK` |
| `StaysWithinString` | `ParserSpec => []ReadsWithinString` |
| `LimitHolds` | `ParserSpec => []PartsWithinLimit` |
| `PartsCorrect` | `ParserSpec => []PartsAreComponents` |

`Bounds` says how far the cursor and the farthest read are, and that no empty
component has been passed. `Covered` says that the parts so far are components
of the string, one behind the other, and that no component that lies before
the cursor is missing; the last step shows that the parser stops only where
there is none left or an empty one follows. That the end of a part
exists, and is the first slash or the terminator, is a use of
`LeastElement` in `Numbers`.

### Directories

`NameProofs`, for every width, alphabet, disk and chain:

| Theorem | Statement |
|---|---|
| `TypeCorrect` | `Spec => []TypeOK` |
| `LookupStaysInListing` | `Spec => []ItemsWithinListing` |
| `FoundCorrect` | `Spec => []FoundIsLive` |
| `FilesFound` | `Spec => []FilesAreFound` |

`Counted` ties the counter to the slots that the count has passed, `Read` the
listing to the slots along the chain, and `Searched` says that no item before
the current one has the name. Where the directory is in one piece and has no
holes the counted number is that of the used slots (`CountedIsUsed`): a least
slot where this fails would have a neighbour for which it holds. The
conversion of names is handled by lemmas about where a field ends; the name
that is compared is the name that was written wherever the field has a blank
behind it (`FieldsApart`).

### File data

`FatReadProofs`, for every sector and cluster size, chain, content of the
allocation table and set of reads:

| Theorem | Statement | Condition |
|---|---|---|
| `TypeCorrect` | `Spec => []TypeOK` | – |
| `BufferExact` | `Spec => []BufferFilledExactly` | – |
| `ReadSucceeds` | `Spec => InFileSucceeds` | `FileFits` |
| `BytesAreTheFiles` | `Spec => []ReadsFileBytes` | `FileFits` |

`FileFits` says that no cluster comes twice in the chain, that none has the
number of a mark that the walk stops at, and that the file is less than 2 GB
long; TLC evaluates it for its instance (`FragmentedFits` in `MCFatRead`).
Without it both statements are false of the code. `ReadsFileBytes` has, beside
that, the conditions that it names: reads whose members are each in one piece
(`Aligned`), of bytes that an `int` has the position of (`InReach`), which the
last cluster of the instance is not. `BufferExact` is about every read: of
members of less than 2 GB each is stored in full, and of larger ones nothing,
as the code has it. `TypeCorrect` says that no counter and no position leaves
the range of an `int`. The invariant:
`TypeInv`; `Account`, that the bytes stored and those still to be read add up
to the members that were asked for; `Tracks`, that the chain walk is on the
chain as far as it has come; `Sound`, that each byte stored is the file's at
its place and that the streamer's position is that of the next one.

### Port driver

`DeviceProofs`, for every width of the registers and size of a sector:

| Theorem | Statement |
|---|---|
| `TypeCorrect` | `Spec => []TypeOK` |
| `DriveIsDrained` | `Spec => []DriveDrained`: between two reads the drive is idle and no word is left in it |
| `AtaImplementsBlockDevice` | `Spec => BlockDeviceSpec` |

The invariant ties the words that were stored to the words that the drive has
delivered. That the drive's address is the one that was asked for is
arithmetic: cutting a number into registers and putting it together are
inverse, for the kernel's way and the boot sector's (lemmas of
`Numbers`).

### Screen

`DeviceProofs`, for every screen, text, length of the handler's line and number
of key presses:

| Theorem | Statement | Condition |
|---|---|---|
| `ConsoleTypeCorrect` | `ConsoleSpec => []ConsoleTypeOK` | `Fits` |
| `OneLost` | `ConsoleSpec => []AtMostOneLost` | `Fits` |

`Fits` says that the text leaves room on the screen: for one line more than it
has, and for the handler's line at each of its columns; that the screen is not
higher than it is wide, because the code compares the row with the width
(`kernel.c:43`); and that the timer's vector is not the keyboard's. TLC
evaluates it for the instance. The code checks none of this: a text that is
too long leaves the video memory.

The argument is about the cells behind the cursor, which are blank (`Clear`).
The handler prints there, and only once, because nothing empties the
keyboard's buffer (`Once`); it leaves the cursor in front of blank cells again.
What `kernel_main` keeps in registers across the interrupt can point before
the cursor at one cell only, that of the character that it is about to print
or has just printed: `Cursor` ties the registers to the cursor, and `Lost` says
at which instructions nothing can have been lost yet.

### Mount

`MountProofs`, for every size of the heap, header and number of slots:

| Theorem | Statement |
|---|---|
| `TypeCorrect` | `Spec => []TypeOK` |
| `RunsAreApart` | `Spec => []RunsInHeap` |
| `MountComplete` | `Spec => []MountedIsComplete` |
| `RefusalReleases` | `Spec => []RefusedLeavesStreams` |

The invariant says of six pointers (private data, three streams, the stream of
the header, the listing) that those which are not null are different and name
exactly the runs that are held. The reason why a mounted volume has its three
streams although nobody looks at them is the last part: if one of them is
null, no block is free, and stays so until the header's stream is null too,
which is looked at. (A listing that leaves the heap counts as complete there: its
pointer is one.) `LeastElement` gives the lowest run. A run goes on behind the
heap only if the search for it met its end, and then fewer blocks were free
than the listing needs (`RoomForListing`).

### Paging

`PagingProofs`, for every number of entries, every page size, set of heap
frames, and set of calls of `paging_set` that satisfy `PagingAssumption`:

| Theorem | Statement |
|---|---|
| `TypeCorrect` | `Spec => []TypeOK` |
| `CopiesCurrent` | `Spec => []StaleOnlyIfSet` |
| `FramesApart` | `Spec => []TablesApart` |
| `PagingImplementsAddressSpace` | `Spec => AddressSpaceSpec` |

The argument goes in a circle that the invariant closes. The tables of a chunk
stay as they were made because each write reaches the frame it is meant for;
it does so because the map in force, and every copy of it, keeps the heap's
pages on themselves and leads no other page into the heap (`Keeps`); and the
map has this property because the tables are as they were made, or as
`paging_set` changed them. `ChunksInv` says it of the chunks that exist, whose
frames are all different and taken (`ChunkOk`). `ProgressInv` says of the
chunk in the making that the tables entered so far are its own, as long as
there is a block left; if there is none, then the last allocation, that of the
chunk itself, fails as well, and the half-made chunk is never returned.
`MachineInv` has the loaded directory and the copies. That an entry keeps its
frame and its flags apart rests on the page size being a multiple of 8, and
the map that is in force after a switch is the chosen chunk's because no two
chunks share a directory.

### What is only model-checked

The liveness properties (`CallsReturn`, `ReadsEnd`, `ReadReturns`,
`PressAnswered`, `MountReturns`): TLAPS 1.4 has no rules for fairness and
`ENABLED`.

No module has a `RECURSIVE` operator. Where a proof needs an induction over
data, `LeastElement` has it in the form that a set of numbers which is not
empty has a least element, and `SetInduction` as a statement about sets of
numbers.

## Not modelled

* The set-up of segments, the switch to protected mode and the words that
  initialise the interrupt controller (`boot.asm`, `kernel.asm`): straight-line
  machine code with one outcome.
* Exceptions (`idt_zero`, the vectors that push an error code): the kernel does
  not continue from one.
* The depth of the stack, and the time that anything takes.
* `kernel_main` as a whole: `Mount` has the part up to the mounted disk,
  `Console` the printing and the enabling of interrupts, and the calls between
  them are those of the other modules. That each part is initialised before
  the next one uses it can be read off the order of the calls.
* `memset`, `memcpy` and the conversions of `string.c` that nobody calls: the
  former are assignments here, the others have no effect on any state.
* What the kernel does after it used freed memory: `FileTable` ends there.

## Plan

Done in this order: the heap with its abstract specification and proofs, the
file layer over it, the data path, the screen, the parser, the directories,
the port driver, the mount, paging, and the proofs about all of them. What
would come next:

1. `FileTable` over `FatRead` and `FatDirectory` in one behaviour: the same
   volume behind the names and the data.
2. Proofs: how many blocks one `fopen` takes at most, so that `MemoryLeft`
   follows from the size of the heap and the number of calls.
