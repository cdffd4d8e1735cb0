------------------------------- MODULE Paging -------------------------------
(***************************************************************************)
(* memory/paging: page directories and tables in blocks of the kernel heap.*)
(*                                                                         *)
(* A block of the heap is a frame, and a frame holds Entries words.  The   *)
(* tables are reached as any other memory: once paging is on, through the  *)
(* map that they are.  A chunk, directory or table that gets no memory is  *)
(* a null pointer, and what is written through it goes to page 0.          *)
(*                                                                         *)
(* The processor is external: it walks the tables, keeps copies of what it *)
(* found, and drops them when a directory is loaded.                       *)
(***************************************************************************)
EXTENDS Integers, Sequences, FiniteSets

CONSTANTS
  Entries,    \* PAGING_TOTAL_ENTRIES_PER_TABLE
  PageSize,   \* PAGING_PAGE_SIZE
  Pool,       \* the frames of the heap that are free
  FlagSets,   \* the flags that chunks are created with
  Addresses,  \* the virtual addresses that paging_set is called with
  Values,     \* the entries (physical address | flags) it is called with
  MaxCreates, MaxSets  \* bounds: the calls of either function

Frames == 0 .. Entries * Entries - 1

Bit(e, b) == (e \div b) % 2     \* of an entry: the flag with value b
PRESENT == 1
WRITEABLE == 2
FROM_ALL == 4

\* Flag bits lie below the page size, a multiple of 8.  Chunks are for all
\* rings, as that of kernel_main is.  What is mapped elsewhere, and where to,
\* is not the memory of the heap, where the tables lie.
ASSUME PagingAssumption ==
  /\ Entries \in Nat \ {0} /\ PageSize \in Nat \ {0} /\ PageSize % 8 = 0
  /\ Pool \subseteq Frames \ {0}
  /\ FlagSets \subseteq {f \in 0 .. PageSize - 1 :
                     Bit(f, PRESENT) = 1 /\ Bit(f, FROM_ALL) = 1}
  /\ Addresses \subseteq 0 .. Entries * Entries * PageSize - 1
  /\ \A a \in Addresses : a \div PageSize \notin Pool
  /\ \A v \in Values : v \in Nat /\ Bit(v, PRESENT) = 1 /\ v \div PageSize \in Frames \ Pool
  /\ MaxCreates \in Nat /\ MaxSets \in Nat

VARIABLES
  mem,      \* the words of each frame, as page table entries
  taken,    \* the frames in use
  cr3, pg,  \* the directory that is loaded (a frame), the paging bit of cr0
  tlb,      \* the processor's copies: <<page, frame>>
  pc,       \* "idle", or where paging_create_new_4gb_chunk is
  flags,    \* its argument
  i, dir,   \* its loop counter, and the directory
  chunks,   \* the chunks that were created, in order
  recent,   \* history: the pages set since a directory was loaded
  creates, sets

vars == <<mem, taken, cr3, pg, tlb, pc, flags, i, dir, chunks, recent, creates, sets>>

Null == 0
WordMod == Entries * Entries * PageSize   \* 2^32
FrameOf(e) == e \div PageSize             \* e & 0xfffff000, as a frame

-----------------------------------------------------------------------------
(* The processor.                                                          *)

\* What the processor makes of a directory's and a table's entry: a right that
\* the directory does not give is none.
Effective(de, te) ==
  LET lost(b) == IF Bit(te, b) = 1 /\ Bit(de, b) = 0 THEN b ELSE 0
  IN te - lost(WRITEABLE) - lost(FROM_ALL)

\* The entry for page p in directory d, as the processor finds it.
Walk(d, p) ==
  LET de == mem[d][p \div Entries]
  IN Effective(de, mem[FrameOf(de)][p % Entries])

\* The frames that an access to page p may reach.
Reach(p) ==
  IF pg THEN {FrameOf(Walk(cr3, p))} \cup {f \in Frames : <<p, f>> \in tlb} ELSE {p}

CachePage(p) ==
  /\ pg
  /\ tlb' = tlb \cup {<<p, FrameOf(Walk(cr3, p))>>}
  /\ UNCHANGED <<mem, taken, cr3, pg, pc, flags, i, dir, chunks, recent, creates, sets>>

-----------------------------------------------------------------------------
Init ==
  /\ mem = [f \in Frames |-> [b \in 0 .. Entries - 1 |-> 0]]
  /\ taken = {} /\ cr3 = Null /\ pg = FALSE /\ tlb = {}
  /\ pc = "idle" /\ flags = 0 /\ i = 0 /\ dir = Null
  /\ chunks = <<>> /\ recent = {} /\ creates = 0 /\ sets = 0

\* kzalloc of a block: the lowest free one, or null.
Granted ==
  IF Pool \subseteq taken THEN Null
  ELSE CHOOSE f \in Pool \ taken : \A g \in Pool \ taken : f <= g

\* Variant for the checks: the block stays free.
KzallocUnmarked == taken' = taken

Kzalloc == taken' = taken \cup ({Granted} \ {Null})

\* memset of a block that was granted.
Zeroed(m, f, at) == IF f = Null THEN m ELSE [m EXCEPT ![at] = [b \in 0 .. Entries - 1 |-> 0]]

CreateDirectory(f) ==
  /\ pc = "idle" /\ creates < MaxCreates
  /\ Kzalloc
  /\ \E at \in Reach(Granted) : mem' = Zeroed(mem, Granted, at)
  /\ dir' = Granted /\ flags' = f /\ i' = 0
  /\ pc' = "table"
  /\ creates' = creates + 1
  /\ UNCHANGED <<cr3, pg, tlb, chunks, recent, sets>>

\* Variant for the checks: each entry is that of the page behind.
PageEntryOneTooFar(t, b, f) == ((t * Entries * PageSize) % WordMod) + (b + 1) * PageSize + f

\* page_table_entry[b] of table t: (offset + b * PAGING_PAGE_SIZE) | flags.
PageEntry(t, b, f) == ((t * Entries * PageSize) % WordMod) + b * PageSize + f

\* Variant for the checks: the directory has the flags of the pages.
WritableAsPages(f) == f

\* flags | PAGING_IS_WRITEABLE, for the directory's entries.
Writable(f) == IF Bit(f, WRITEABLE) = 1 THEN f ELSE f + WRITEABLE

\* One iteration: a table is allocated and filled, and entered.
CreateTable ==
  /\ pc = "table" /\ i < Entries
  /\ Kzalloc
  /\ \E table \in Reach(Granted), directory \in Reach(dir) :
       LET filled == [mem EXCEPT ![table] =
                        [b \in 0 .. Entries - 1 |-> PageEntry(i, b, flags)]]
       IN mem' = [filled EXCEPT ![directory][i] = Granted * PageSize + Writable(flags)]
  /\ i' = i + 1
  /\ UNCHANGED <<cr3, pg, tlb, pc, flags, dir, chunks, recent, creates, sets>>

\* The chunk itself.  Callers do not use one that is null.
CreateChunk ==
  /\ pc = "table" /\ i = Entries
  /\ Kzalloc
  /\ \E at \in Reach(Granted) :
       mem' = [Zeroed(mem, Granted, at) EXCEPT ![at][0] = dir * PageSize]
  /\ chunks' = IF Granted = Null THEN chunks ELSE Append(chunks, Granted)
  /\ pc' = "idle" /\ i' = 0 /\ dir' = Null /\ flags' = 0
  /\ UNCHANGED <<cr3, pg, tlb, recent, creates, sets>>

\* chunk->directory_address, read at the frame that is reached.
Directory(c) == FrameOf(mem[c][0])

\* Variant for the checks: only the first directory is loaded.
LoadedOnce(c) == cr3' = (IF cr3 = Null THEN Directory(c) ELSE cr3) /\ tlb' = tlb

\* paging_load_directory: mov cr3, eax.
Loaded(c) == cr3' = Directory(c) /\ tlb' = {}

\* paging_switch(paging_4gb_chunk_get_directory(chunk)).
Switch(c) ==
  /\ pc = "idle" /\ Loaded(c)
  /\ recent' = {}
  /\ UNCHANGED <<mem, taken, pg, pc, flags, i, dir, chunks, creates, sets>>

EnablePaging ==
  /\ pc = "idle" /\ ~pg /\ cr3 # Null
  /\ pg' = TRUE
  /\ UNCHANGED <<mem, taken, cr3, tlb, pc, flags, i, dir, chunks, recent, creates, sets>>

IsAligned(v) == v % PageSize = 0

\* paging_get_indexes.
DirectoryIndex(v) == v \div (Entries * PageSize)

TableIndex(v) == (v % (Entries * PageSize)) \div PageSize

\* paging_set; an address inside a page is refused.
PagingSet(d, v, val) ==
  /\ pc = "idle" /\ sets < MaxSets
  /\ sets' = sets + 1
  /\ IF IsAligned(v)
     THEN /\ \E directory \in Reach(d) :
               \E table \in Reach(FrameOf(mem[directory][DirectoryIndex(v)])) :
                 mem' = [mem EXCEPT ![table][TableIndex(v)] = val]
          /\ recent' = IF d = cr3 THEN recent \cup {v \div PageSize} ELSE recent
     ELSE UNCHANGED <<mem, recent>>
  /\ UNCHANGED <<taken, cr3, pg, tlb, pc, flags, i, dir, chunks, creates>>

Next ==
  \/ \E f \in FlagSets : CreateDirectory(f)
  \/ CreateTable \/ CreateChunk
  \/ EnablePaging
  \/ \E j \in DOMAIN chunks :
       \/ Switch(chunks[j])
       \/ \E v \in Addresses, val \in Values : PagingSet(Directory(chunks[j]), v, val)
  \/ \E v \in Addresses : CachePage(v \div PageSize)

Spec == Init /\ [][Next]_vars

-----------------------------------------------------------------------------
(* Correctness.                                                            *)

TypeOK ==
  /\ mem \in [Frames -> [0 .. Entries - 1 -> 0 .. WordMod - 1]]
  /\ taken \subseteq Pool /\ cr3 \in Pool \cup {Null} /\ pg \in BOOLEAN
  /\ tlb \subseteq Frames \X Frames
  /\ pc \in {"idle", "table"} /\ flags \in FlagSets \cup {0}
  /\ i \in 0 .. Entries /\ dir \in Pool \cup {Null}
  /\ chunks \in Seq(Pool) /\ recent \subseteq Frames
  /\ creates \in 0 .. MaxCreates /\ sets \in 0 .. MaxSets

\* The tables that the processor would walk for the chunks.
Maps == [j \in DOMAIN chunks |-> [p \in Frames |-> Walk(Directory(chunks[j]), p)]]

Loads == {j \in DOMAIN chunks : Directory(chunks[j]) = cr3}

Space == INSTANCE AddressSpace WITH
  Pages <- Frames,
  Identity <- [f \in FlagSets |-> [p \in Frames |-> p * PageSize + f]],
  PageFlags <- FlagSets,
  Vals <- Values,
  spaces <- Maps,
  current <- IF Loads = {} THEN 0 ELSE CHOOSE j \in Loads : TRUE

\* Although the tables are reached through themselves, and although a chunk
\* may be left half made for want of memory: a chunk that was returned maps
\* every page to itself with the flags asked for, paging_set changes the one
\* page of the one chunk, and neither touches another chunk.  (paging_create_new_4gb_chunk, paging_set)
AddressSpaceSpec == Space!Spec

\* The processor's copies disagree with the loaded tables only on pages that
\* paging_set changed since they were loaded: paging_switch is the one way to
\* make a change take effect.  (paging_switch, paging_set)
StaleOnlyIfSet ==
  \A c \in tlb : c[1] \in recent \/ c[2] = FrameOf(Walk(cr3, c[1]))

\* No frame serves two purposes: the directory, the tables and the block of
\* each chunk are all different, and none is handed out again.
\* (kzalloc for every table)
TablesApart ==
  LET Parts(c) == {c, Directory(c)} \cup
                  {FrameOf(mem[Directory(c)][t]) : t \in 0 .. Entries - 1}
  IN \A j \in DOMAIN chunks :
       /\ Cardinality(Parts(chunks[j])) = Entries + 2
       /\ Parts(chunks[j]) \subseteq taken
       /\ \A k \in DOMAIN chunks \ {j} : Parts(chunks[j]) \cap Parts(chunks[k]) = {}

=============================================================================
