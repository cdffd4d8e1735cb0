----------------------------- MODULE FileTable -----------------------------
(***************************************************************************)
(* The file layer: fopen, fread, fseek, fstat and fclose of fs/file.c, the *)
(* path list they parse (fs/pparser.c) and the objects that the FAT16      *)
(* driver hangs behind a descriptor (fs/fat/fat16.c).                      *)
(*                                                                         *)
(* Every object is one block of the kernel heap (each is smaller than a    *)
(* block), taken by kzalloc from the lowest free block, as Heap does for   *)
(* one-block requests.  A freed block keeps its content, so that pointers  *)
(* to it can be followed as the code follows them.  fopen is a sequence of *)
(* steps, one per allocation, since each of them may fail.                 *)
(*                                                                         *)
(* A step that reads an object through a pointer to something else, or     *)
(* frees what is not held, sets fault; what the kernel does afterwards is  *)
(* not modelled.  Writes through a null pointer go to address 0, which is  *)
(* mapped and holds no kernel state: they change nothing here.             *)
(***************************************************************************)
EXTENDS Integers, Sequences, FiniteSets

CONSTANTS
  Pool,        \* the number of heap blocks left after the mount
  MaxFds,      \* CHUCHUOS_MAX_FILE_DESCRIPTORS
  Nodes, Dirs, \* the files and directories of the volume; the directories
  Root,        \* the root directory
  Links,       \* <<directory, name, node>>: the directory entries
  FileSize,    \* filesize of each node
  Mounted,     \* fs_resolve found a filesystem on the disk
  Requests,    \* the [valid, drive, parts, mode] that fopen is called with
  ReadResults, \* what reading a directory's data returns: OK, or also EIO
  Offsets,     \* the offsets fseek is called with, as uint32_t
  WordMod,     \* 2^32
  MaxOpens     \* bound: the number of calls of fopen

ASSUME FileTableAssumption ==
  /\ Pool \in Nat /\ MaxFds \in Nat \ {0} /\ MaxOpens \in Nat
  /\ Dirs \subseteq Nodes /\ Root \in Dirs
  /\ \A e, f \in Links : e[1] = f[1] /\ e[2] = f[2] => e = f
  /\ FileSize \in [Nodes -> Nat]
  /\ Mounted \in BOOLEAN
  /\ \A r \in Requests : r.parts \in Seq({r.parts[j] : j \in DOMAIN r.parts})
  /\ ReadResults \subseteq {"OK", "EIO"}
  /\ WordMod \in Nat \ {0} /\ Offsets \subseteq 0 .. WordMod - 1

VARIABLES
  taken,  \* the heap blocks in use
  mem,    \* the content of each block, kept when it is freed
  table,  \* file_descriptors[0 .. MaxFds-1], by descriptor number
  fault,  \* "none", or what went wrong: "deref" or "kfree"
  ret,    \* what the last call returned
  pc,     \* the step of fopen that is next, or "idle"
  req,    \* the arguments of fopen
  list,   \* the parsed parts, from first_part on
  fatd,   \* descriptor of fat16_open, descriptor_private_data of fopen
  level,  \* the number of parts that were looked up
  cur,    \* current_item: the item of the last part looked up
  tmp,    \* tmp_item / f_item: the item being made
  node,   \* the directory entry that matched
  opens   \* the number of calls of fopen

heapVars == <<taken, mem>>
openVars == <<req, list, fatd, level, cur, tmp, node>>
vars == <<heapVars, table, fault, ret, pc, openVars, opens>>

Blocks == 1 .. Pool
Null == 0
ErdonlyPtr == -1   \* ERROR(ERDONLY), the address 6: not a heap block
Fds == 1 .. MaxFds
None == "none"
NoRequest == [valid |-> FALSE, drive |-> 0, parts |-> <<>>, mode |-> "none"]

Blank == [kind |-> "blank"]
FatDesc(i, p) == [kind |-> "fatdesc", item |-> i, pos |-> p]
Item(t, p) == [kind |-> "item", type |-> t, ptr |-> p]
Record(x) == [kind |-> "record", node |-> x]
Dir(es) == [kind |-> "dir", items |-> es]
Entries(x) == [kind |-> "entries", node |-> x]
Desc(k, p) == [kind |-> "desc", index |-> k, private |-> p]
Other(kd) == [kind |-> kd]

IsA(p, kd) == p \in Blocks /\ mem[p].kind = kd

-----------------------------------------------------------------------------
(* The heap.                                                               *)

OutOfMemory == taken = Blocks

Lowest == CHOOSE b \in Blocks \ taken : \A c \in Blocks \ taken : b <= c

\* kzalloc of an object that then gets content o: the block is Lowest.
Kzalloc(o) ==
  /\ taken' = taken \cup {Lowest}
  /\ mem' = [mem EXCEPT ![Lowest] = o]

\* kfree of the pointers in s, one after the other.
Kfree(s) ==
  LET ptrs == {s[j] : j \in DOMAIN s}
  IN IF ptrs \subseteq taken /\ Cardinality(ptrs) = Len(s)
     THEN taken' = taken \ ptrs /\ fault' = fault
     ELSE taken' = taken /\ fault' = "kfree"

-----------------------------------------------------------------------------
(* The objects behind a descriptor.                                        *)

\* fat_free_directory: the pointers it passes to kfree.
DirectoryFrees(p) ==
  IF p = Null THEN <<>>
  ELSE IF mem[p].items # Null THEN <<mem[p].items, p>> ELSE <<p>>

\* Variant for the checks: the content of the item is forgotten.
ItemFreesShallow(p) == <<p>>

\* fat_free_item: likewise.
ItemFrees(p) ==
  IF mem[p].type = "dir"
  THEN DirectoryFrees(mem[p].ptr) \o <<p>>
  ELSE <<mem[p].ptr, p>>

\* The item and what fat_free_item reads behind it are what they should be.
ItemReadable(p) ==
  /\ IsA(p, "item")
  /\ mem[p].type = "dir" /\ mem[p].ptr # Null => IsA(mem[p].ptr, "dir")

Child(d, name) == {x \in Nodes : <<d, name, x>> \in Links}

-----------------------------------------------------------------------------
(* fopen: parsing the path.                                                *)

\* fopen returns r; its locals are gone.
Return(r) ==
  /\ ret' = r
  /\ pc' = "idle"
  /\ list' = <<>> /\ fatd' = Null /\ level' = 0
  /\ cur' = Null /\ tmp' = Null /\ node' = None
  /\ UNCHANGED req

Init ==
  /\ taken = {} /\ mem = [b \in Blocks |-> Blank]
  /\ table = [k \in Fds |-> Null]
  /\ fault = "none" /\ ret = 0 /\ pc = "idle"
  /\ req = NoRequest /\ list = <<>> /\ fatd = Null /\ level = 0
  /\ cur = Null /\ tmp = Null /\ node = None
  /\ opens = 0

\* A path that is too long or not of the form 0:/... is refused at once: the
\* error is turned into 0.
Fopen(r) ==
  /\ pc = "idle" /\ opens < MaxOpens
  /\ opens' = opens + 1
  /\ req' = r
  /\ IF r.valid THEN pc' = "root" /\ ret' = ret ELSE pc' = pc /\ ret' = 0
  /\ UNCHANGED <<heapVars, table, fault, list, fatd, level, cur, tmp, node>>

CreateRoot ==
  /\ pc = "root"
  /\ IF OutOfMemory
     THEN Return(0) /\ UNCHANGED heapVars
     ELSE Kzalloc(Other("root")) /\ pc' = "name" /\ UNCHANGED <<ret, openVars>>
  /\ UNCHANGED <<table, fault, opens>>

\* pathparser_get_current_partof_path at the end of the path: the block it
\* allocated for the name is given back, also if there was none.
PathEnds ==
  /\ pc = "name" /\ Len(list) = Len(req.parts)
  /\ pc' = "checks"
  /\ fault' = IF OutOfMemory THEN "kfree" ELSE fault
  /\ mem' = IF OutOfMemory THEN mem ELSE [mem EXCEPT ![Lowest] = Other("name")]
  /\ UNCHANGED <<taken, table, ret, openVars, opens>>

\* A name that gets no block reads as the end of the path.
NamePart ==
  /\ pc = "name" /\ Len(list) < Len(req.parts)
  /\ IF OutOfMemory
     THEN pc' = "checks" /\ UNCHANGED heapVars
     ELSE pc' = "part" /\ Kzalloc(Other("name"))
  /\ UNCHANGED <<table, fault, ret, openVars, opens>>

\* So does a list element that gets none.
AddPart ==
  /\ pc = "part"
  /\ IF OutOfMemory
     THEN pc' = "checks" /\ UNCHANGED <<heapVars, list>>
     ELSE /\ pc' = "name"
          /\ Kzalloc(Other("part"))
          /\ list' = Append(list, req.parts[Len(list) + 1])
  /\ UNCHANGED <<table, fault, ret, req, fatd, level, cur, tmp, node, opens>>

-----------------------------------------------------------------------------
(* fopen: the checks, and fat16_open.                                      *)

Opens == list # <<>> /\ req.drive = 0 /\ Mounted

\* Errors become 0, but an invalid mode returns -EINVARG past the label out.
CheckFails ==
  /\ pc = "checks"
  /\ ~Opens \/ req.mode = "invalid"
  /\ Return(IF ~Opens THEN 0 ELSE -2)
  /\ UNCHANGED <<heapVars, table, fault, opens>>

\* fat16_open refuses to write with a positive error, which ISERR takes for
\* a pointer.
WriteMode ==
  /\ pc = "checks" /\ Opens /\ req.mode \in {"w", "a"}
  /\ fatd' = ErdonlyPtr
  /\ pc' = "newfd"
  /\ UNCHANGED <<heapVars, table, fault, ret, req, list, level, cur, tmp, node, opens>>

FatOpen ==
  /\ pc = "checks" /\ Opens /\ req.mode = "r"
  /\ IF OutOfMemory
     THEN Return(0) /\ UNCHANGED heapVars
     ELSE /\ Kzalloc(FatDesc(Null, 0))
          /\ fatd' = Lowest
          /\ pc' = "lookup"
          /\ UNCHANGED <<ret, req, list, level, cur, tmp, node>>
  /\ UNCHANGED <<table, fault, opens>>

\* Variant for the checks: every part is looked up in the root directory.
SearchedInRoot(p) == Root

\* The directory that the next part is looked up in: the root directory, or
\* the listing that the current item points to.
SearchedIn(p) == IF p = Null THEN Root ELSE mem[mem[mem[p].ptr].items].node

ListingReadable(p) ==
  p # Null => /\ IsA(p, "item") /\ IsA(mem[p].ptr, "dir")
              /\ IsA(mem[mem[p].ptr].items, "entries")

\* fat16_get_path_item_from_directory for the next part.
Lookup ==
  /\ pc = "lookup"
  /\ IF ListingReadable(cur)
     THEN LET match == Child(SearchedIn(cur), list[level + 1])
          IN /\ fault' = fault
             /\ level' = level + 1
             /\ tmp' = Null
             /\ \/ match = {} /\ node' = None /\ pc' = "drop"
                \/ node' \in match /\ pc' = "item"
     ELSE fault' = "deref" /\ UNCHANGED <<level, tmp, node, pc>>
  /\ UNCHANGED <<heapVars, table, ret, req, list, fatd, cur, opens>>

\* fat16_create_new_fat_item_for_directory_item.
CreateItem ==
  /\ pc = "item"
  /\ IF OutOfMemory
     THEN pc' = "drop" /\ UNCHANGED <<heapVars, tmp>>
     ELSE /\ tmp' = Lowest
          /\ Kzalloc(Item(IF node \in Dirs THEN "dir" ELSE "file", Null))
          /\ pc' = IF node \in Dirs THEN "dir" ELSE "clone"
  /\ UNCHANGED <<table, fault, ret, req, list, fatd, level, cur, node, opens>>

\* fat16_clone_directory_item; nobody looks at its failure.
CloneItem ==
  /\ pc = "clone"
  /\ IF OutOfMemory
     THEN UNCHANGED heapVars
     ELSE /\ taken' = taken \cup {Lowest}
          /\ mem' = [mem EXCEPT ![Lowest] = Record(node), ![tmp].ptr = Lowest]
  /\ pc' = "drop"
  /\ UNCHANGED <<table, fault, ret, openVars, opens>>

\* fat16_load_fat_directory: the directory, which is nobody's until it is
\* returned (ptr of the item is set at once: nothing reads it before) ...
LoadDirectory ==
  /\ pc = "dir"
  /\ IF OutOfMemory
     THEN pc' = "drop" /\ UNCHANGED heapVars
     ELSE /\ taken' = taken \cup {Lowest}
          /\ mem' = [mem EXCEPT ![Lowest] = Dir(Null), ![tmp].ptr = Lowest]
          /\ pc' = "entries"
  /\ UNCHANGED <<table, fault, ret, openVars, opens>>

\* ... and its listing.  On an error the directory is freed and returned.
LoadEntries(res) ==
  LET d == mem[tmp].ptr
  IN /\ pc = "entries"
     /\ IF OutOfMemory
        THEN taken' = taken \ {d} /\ mem' = mem
        ELSE /\ mem' = [mem EXCEPT ![Lowest] = Entries(node), ![d].items = Lowest]
             /\ taken' = IF res = "OK" THEN taken \cup {Lowest} ELSE taken \ {d}
     /\ pc' = "drop"
     /\ UNCHANGED <<table, fault, ret, openVars, opens>>

\* Variant for the checks: the new item is freed in place of the current one.
DroppedNew == IF cur = Null THEN <<>> ELSE ItemFrees(tmp)

Dropped == IF cur = Null THEN <<>> ELSE ItemFrees(cur)

\* The current item is freed, the new one takes its place.  Only for the first
\* part is the new one compared with null.
DropCurrent ==
  /\ pc = "drop"
  /\ IF cur # Null /\ ~ItemReadable(cur)
     THEN fault' = "deref" /\ UNCHANGED <<taken, cur, pc>>
     ELSE /\ Kfree(Dropped)
          /\ cur' = tmp
          /\ pc' = IF level = Len(list) \/ (level = 1 /\ tmp = Null)
                   THEN "found" ELSE "descend"
  /\ UNCHANGED <<mem, table, ret, req, list, fatd, level, tmp, node, opens>>

\* What is at the type of an item; that of a null item is read at address 4.
TypeRead(p) == IF p = Null THEN "other" ELSE mem[p].type

\* More parts follow.  The item is not compared with null: what happens to be
\* at address 4 either reads as the type of a directory, or it does not.
Descend ==
  /\ pc = "descend"
  /\ \/ cur = Null /\ fault' = "deref" /\ UNCHANGED <<ret, pc, openVars>>
     \/ TypeRead(cur) # "dir" /\ Return(0) /\ UNCHANGED fault
     \/ TypeRead(cur) = "dir" /\ pc' = "lookup" /\ UNCHANGED <<fault, ret, openVars>>
  /\ UNCHANGED <<heapVars, table, opens>>

\* fat16_open returns.
Found ==
  /\ pc = "found"
  /\ IF cur = Null
     THEN Return(0) /\ UNCHANGED mem
     ELSE /\ mem' = [mem EXCEPT ![fatd] = FatDesc(cur, 0)]
          /\ pc' = "newfd" /\ UNCHANGED <<ret, openVars>>
  /\ UNCHANGED <<taken, table, fault, opens>>

-----------------------------------------------------------------------------
(* file_new_descriptor.                                                    *)

FreeSlots == {k \in Fds : table[k] = Null}

\* Variant for the checks: the index is the array index, not one more.
IndexOffByOne(k) == k - 1

\* desc->index of the descriptor in slot k - 1 of the array.
IndexOf(k) == k

\* With no memory the slot stays null and the index goes to address 0, from
\* where it is returned.
NewDescriptor ==
  /\ pc = "newfd"
  /\ IF FreeSlots = {}
     THEN Return(0) /\ UNCHANGED <<heapVars, table>>
     ELSE LET k == CHOOSE s \in FreeSlots : \A t \in FreeSlots : s <= t
          IN /\ Return(IndexOf(k))
             /\ IF OutOfMemory
                THEN UNCHANGED <<heapVars, table>>
                ELSE /\ Kzalloc(Desc(IndexOf(k), fatd))
                     /\ table' = [table EXCEPT ![k] = Lowest]
  /\ UNCHANGED <<fault, opens>>

-----------------------------------------------------------------------------
(* The calls on an open descriptor.                                        *)

GetDescriptor(fd) == IF fd \in Fds THEN table[fd] ELSE Null

Private(d) == mem[d].private
ItemOf(d) == mem[Private(d)].item

\* The descriptor, the private data and the item can be read.
Readable(d) == IsA(d, "desc") /\ IsA(Private(d), "fatdesc") /\ IsA(ItemOf(d), "item")

\* A call on fd that changes nothing but what it returns: an error e if there
\* is no such descriptor, else a value of res.
QueryCall(fd, e, res) ==
  LET d == GetDescriptor(fd)
  IN /\ pc = "idle"
     /\ IF d = Null
        THEN ret' = e /\ fault' = fault
        ELSE IF Readable(d)
             THEN ret' \in res /\ fault' = fault
             ELSE fault' = "deref" /\ ret' = ret
     /\ UNCHANGED <<heapVars, table, pc, openVars, opens>>

\* For a size and a count that are not 0 (else fread returns -EINVARG):
\* fat16_read takes the item for a file's directory entry, whatever its type,
\* and leaves the position alone; it returns nmemb (1 here) or -EIO.
Fread(fd) == QueryCall(fd, -2, {1, -1})

Fstat(fd) ==
  QueryCall(fd, -1, LET d == GetDescriptor(fd)
                    IN IF mem[ItemOf(d)].type = "dir" THEN {-2} ELSE {0})

\* Variant for the checks: the position is stored before the checks.
SeekTargetUnchecked(fd, off, whence) == off

\* Variant for the checks: the sum of SEEK_CUR is kept in a wider integer.
SeekTargetWide(fd, off, whence) ==
  LET old == mem[Private(GetDescriptor(fd))].pos
      i == mem[ItemOf(GetDescriptor(fd))]
  IN IF i.type = "dir" \/ off >= FileSize[mem[i.ptr].node] \/ whence = "END"
     THEN old
     ELSE IF whence = "SET" THEN off ELSE old + off

\* Where fat16_seek moves the position to.
SeekTarget(fd, off, whence) ==
  LET old == mem[Private(GetDescriptor(fd))].pos
      i == mem[ItemOf(GetDescriptor(fd))]
  IN IF i.type = "dir" \/ off >= FileSize[mem[i.ptr].node] \/ whence = "END"
     THEN old
     ELSE IF whence = "SET" THEN off ELSE (old + off) % WordMod

SeekResult(fd, off, whence) ==
  LET i == mem[ItemOf(GetDescriptor(fd))]
  IN IF i.type = "dir" THEN -2
     ELSE IF off >= FileSize[mem[i.ptr].node] THEN -1
     ELSE IF whence = "END" THEN -7 ELSE 0

Fseek(fd, off, whence) ==
  LET d == GetDescriptor(fd)
  IN /\ pc = "idle"
     /\ IF d = Null
        THEN ret' = -1 /\ UNCHANGED <<mem, fault>>
        ELSE IF Readable(d) /\ (mem[ItemOf(d)].type = "file"
                                  => IsA(mem[ItemOf(d)].ptr, "record"))
             THEN /\ mem' = [mem EXCEPT ![Private(d)].pos = SeekTarget(fd, off, whence)]
                  /\ ret' = SeekResult(fd, off, whence)
                  /\ fault' = fault
             ELSE fault' = "deref" /\ UNCHANGED <<mem, ret>>
     /\ UNCHANGED <<taken, table, pc, openVars, opens>>

\* Variant for the checks: file_free_descriptor forgets the slot.
TableAfterCloseStale(d) == table

\* The slot that file_free_descriptor clears.
TableAfterClose(d) == [table EXCEPT ![mem[d].index] = Null]

\* fat16_close, then file_free_descriptor.
Fclose(fd) ==
  LET d == GetDescriptor(fd)
  IN /\ pc = "idle"
     /\ IF d = Null
        THEN ret' = -2 /\ UNCHANGED <<taken, table, fault>>
        ELSE IF Readable(d) /\ ItemReadable(ItemOf(d)) /\ mem[d].index \in Fds
             THEN /\ Kfree(ItemFrees(ItemOf(d)) \o <<Private(d), d>>)
                  /\ table' = TableAfterClose(d)
                  /\ ret' = 0
             ELSE fault' = "deref" /\ UNCHANGED <<taken, table, ret>>
     /\ UNCHANGED <<mem, pc, openVars, opens>>

-----------------------------------------------------------------------------
Call ==
  \/ \E r \in Requests : Fopen(r)
  \/ \E fd \in 0 .. MaxFds + 1 :
       \/ Fread(fd) \/ Fstat(fd) \/ Fclose(fd)
       \/ \E off \in Offsets, w \in {"SET", "CUR", "END"} : Fseek(fd, off, w)

Step ==
  \/ CreateRoot \/ PathEnds \/ NamePart \/ AddPart
  \/ CheckFails \/ WriteMode \/ FatOpen
  \/ Lookup \/ CreateItem \/ CloneItem \/ LoadDirectory
  \/ \E res \in ReadResults : LoadEntries(res)
  \/ DropCurrent \/ Descend \/ Found
  \/ NewDescriptor

\* After a fault nothing is modelled.
Halted == fault # "none" /\ UNCHANGED vars

Next == (fault = "none" /\ (Call \/ Step)) \/ Halted

Spec == Init /\ [][Next]_vars

-----------------------------------------------------------------------------
(* Correctness.                                                            *)

Pointers == Blocks \cup {Null, ErdonlyPtr}

Objects ==
  {Blank} \cup {Other(kd) : kd \in {"root", "name", "part"}}
  \cup [kind : {"fatdesc"}, item : Pointers, pos : 0 .. WordMod - 1]
  \cup [kind : {"item"}, type : {"file", "dir"}, ptr : Pointers]
  \cup {Record(x) : x \in Nodes} \cup {Entries(x) : x \in Nodes}
  \cup {Dir(p) : p \in Pointers}
  \cup [kind : {"desc"}, index : Int, private : Pointers]

Pcs == {"idle", "root", "name", "part", "checks", "lookup", "item", "clone",
        "dir", "entries", "drop", "descend", "found", "newfd"}

TypeOK ==
  /\ taken \subseteq Blocks
  /\ mem \in [Blocks -> Objects]
  /\ table \in [Fds -> Pointers]
  /\ fault \in {"none", "deref", "kfree"}
  /\ ret \in Int /\ pc \in Pcs
  /\ req \in Requests \cup {NoRequest}
  /\ Len(list) <= (IF pc = "idle" THEN 0 ELSE Len(req.parts))
  /\ level <= Len(list)
  /\ {fatd, cur, tmp} \subseteq Pointers
  /\ node \in Nodes \cup {None}
  /\ opens \in 0 .. MaxOpens

\* The blocks that the objects in a set of blocks point to.
Behind(s) ==
  Blocks \cap UNION { CASE mem[p].kind = "desc" -> {mem[p].private}
                         [] mem[p].kind = "fatdesc" -> {mem[p].item}
                         [] mem[p].kind = "item" -> {mem[p].ptr}
                         [] mem[p].kind = "dir" -> {mem[p].items}
                         [] OTHER -> {} : p \in s }

\* The blocks of an open descriptor: itself, private data, item, directory
\* entry or directory, listing.
Footprint(d) ==
  LET private == Behind({d})
      item == Behind(private)
      content == Behind(item)
  IN {d} \cup private \cup item \cup content \cup Behind(content)

OpenFds == {k \in Fds : table[k] # Null}

\* The node that the item behind descriptor number k is of.
NodeOf(k) ==
  LET i == mem[ItemOf(table[k])]
  IN IF i.type = "dir" THEN mem[mem[i.ptr].items].node ELSE mem[i.ptr].node

\* The nodes that the first parts of a path lead to (one, or none), by their
\* number.
Along(parts) ==
  LET walk[j \in 0 .. Len(parts)] ==
        IF j = 0 THEN {Root}
        ELSE UNION {Child(d, parts[j]) : d \in walk[j - 1] \cap Dirs}
  IN walk

Reached(parts) == Along(parts)[Len(parts)]

\* Directories can be read and files are opened for reading.
OnlyReads ==
  /\ ReadResults \subseteq {"OK"}
  /\ \A r \in Requests : r.mode \notin {"w", "a"}

\* An allocation would be granted.
MemoryLeft == ~OutOfMemory

\* A part between the first and the last exists if what precedes it is a
\* directory.
MiddlePartsExist ==
  \A r \in Requests : \A n \in 1 .. Len(r.parts) - 2 :
    Along(r.parts)[n] \cap Dirs # {} => Along(r.parts)[n + 1] # {}

\* No call reads an object that is not there or frees what is not held.
\* (every dereference and kfree of file.c, pparser.c and fat16.c)
NoFault == fault = "none"

\* Every slot of the descriptor table is null or holds a descriptor with its
\* own number and the whole chain behind it: private data, item and clone or
\* listing, each of them held.  (file_new_descriptor, fat16_open)
DescriptorsComplete ==
  \A k \in OpenFds :
    /\ Readable(table[k]) /\ mem[table[k]].index = k
    /\ LET i == mem[ItemOf(table[k])]
       IN IF i.type = "file" THEN IsA(i.ptr, "record")
          ELSE IsA(i.ptr, "dir") /\ IsA(mem[i.ptr].items, "entries")
    /\ Footprint(table[k]) \subseteq taken

\* Two open descriptors share no object, and what fopen is building belongs to
\* no open descriptor.  (heap blocks handed out twice, or freed too early)
DescriptorsApart ==
  /\ \A j, k \in OpenFds : j # k => Footprint(table[j]) \cap Footprint(table[k]) = {}
  /\ \A k \in OpenFds : {fatd, cur, tmp} \cap Footprint(table[k]) = {}

\* fopen for reading returns a descriptor of exactly the node that the path
\* names, if there is one, no part before the last is a file, and a slot is
\* free; else 0.  (fopen, fat16_get_final_file_from_directory)
OpensWhatIsNamed ==
  [][ pc # "idle" /\ pc' = "idle" /\ req.mode = "r" =>
        IF Reached(req.parts) # {} /\ req.parts # <<>> /\ req.drive = 0
           /\ Mounted /\ FreeSlots # {}
        THEN \E k \in FreeSlots : /\ ret' = k /\ table'[k] # Null
                                  /\ NodeOf(k)' \in Reached(req.parts)
        ELSE ret' = 0 /\ table' = table ]_vars

\* fclose gives back the blocks of the one descriptor that it closes, all of
\* them and no others.  (fat16_close, file_free_descriptor)
CloseReleasesAll ==
  [][ \A k \in OpenFds : table'[k] = Null =>
        /\ taken' = taken \ Footprint(table[k])
        /\ OpenFds' = OpenFds \ {k} ]_vars

\* Whatever is called, what hangs behind a descriptor that stays open is not
\* rewritten, but for the position under a seek that succeeds on this very
\* descriptor and stays in the file if it is absolute.
\* (file_get_descriptor, fat16_seek)
OthersUntouched ==
  [][ \A k \in OpenFds : table'[k] = table[k] =>
        \/ \A b \in Footprint(table[k]) : mem'[b] = mem[b]
        \/ \E off \in Offsets :
             /\ \/ Fseek(k, off, "SET") /\ off < FileSize[NodeOf(k)]
                \/ Fseek(k, off, "CUR")
             /\ ret' = 0
             /\ \A b \in Footprint(table[k]) \ {Private(table[k])} : mem'[b] = mem[b] ]_vars

\* Even when memory runs out, directories cannot be read or files are opened
\* for writing: until a call faults, every slot in use holds a descriptor
\* block of its own number that nobody gave back, and no block is shared by
\* two slots.  (file_new_descriptor, file_free_descriptor)
SlotsHoldDescriptors ==
  fault = "none" =>
    \A k \in OpenFds :
      /\ table[k] \in taken /\ IsA(table[k], "desc") /\ mem[table[k]].index = k
      /\ \A j \in OpenFds \ {k} : table[j] # table[k]

=============================================================================
