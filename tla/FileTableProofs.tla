-------------------------- MODULE FileTableProofs --------------------------
(***************************************************************************)
(* The properties of FileTable, for heaps, tables, volumes and requests of *)
(* every size.                                                             *)
(*                                                                         *)
(* An object points to at most one other, which it owns: a descriptor to   *)
(* its private data, those to an item, the item of a file to a directory   *)
(* entry and a directory to its listing.  Safe says that no two objects in *)
(* use own the same one, whatever fails; it says nothing of the directory  *)
(* behind an item, which is gone when its listing could not be read.       *)
(* Sound says the rest, as long as memory lasts, directories can be read   *)
(* and files are opened for reading.  Named says which node of the volume  *)
(* fopen has come to.                                                      *)
(***************************************************************************)
EXTENDS FileTable, Numbers, FiniteSetTheorems, SequenceTheorems

Names == UNION {{r.parts[j] : j \in DOMAIN r.parts} : r \in Requests}

\* What an object owns.
OwnedBy(o) ==
  IF o.kind = "desc" THEN o.private
  ELSE IF o.kind = "fatdesc" THEN o.item
  ELSE IF o.kind = "dir" THEN o.items
  ELSE IF o.kind = "item" /\ o.type = "file" THEN o.ptr
  ELSE Null

OwnedKind == [desc |-> "fatdesc", fatdesc |-> "item", item |-> "record", dir |-> "entries"]

Held(b, kd) == b \in taken /\ mem[b].kind = kd

Parsing == {"idle", "root", "name", "part", "checks"}
Making == {"clone", "dir", "entries"}

TypeInv ==
  /\ taken \subseteq Blocks
  /\ mem \in [Blocks -> Objects]
  /\ table \in [Fds -> Pointers]
  /\ fault \in {"none", "deref", "kfree"}
  /\ ret \in Int /\ pc \in Pcs
  /\ req \in Requests \cup {NoRequest}
  /\ list \in Seq(Names) /\ level \in Nat
  /\ Len(list) <= Len(req.parts) /\ level <= Len(list)
  /\ pc = "idle" => list = <<>>
  /\ fatd \in Pointers /\ cur \in Blocks \cup {Null} /\ tmp \in Blocks \cup {Null}
  /\ node \in Nodes \cup {None}
  /\ opens \in 0 .. MaxOpens

\* Owners have what they own, and have it alone.
Owned ==
  /\ \A b \in taken : OwnedBy(mem[b]) \in Blocks =>
                        Held(OwnedBy(mem[b]), OwnedKind[mem[b].kind])
  /\ \A b, c \in taken :
       OwnedBy(mem[b]) = OwnedBy(mem[c]) /\ OwnedBy(mem[b]) \in Blocks => b = c

\* The objects that fopen is building belong to nobody.
Building ==
  /\ pc \in Parsing => cur = Null /\ tmp = Null /\ fatd = Null /\ level = 0
  /\ pc = "part" => Len(list) < Len(req.parts)
  /\ pc \in {"lookup", "descend"} => level < Len(list)
  /\ pc \in {"item"} \cup Making => node \in Nodes
  /\ pc \notin Parsing \cup {"newfd"} => fatd \in Blocks
  /\ pc = "newfd" => fatd # Null
  /\ pc \in Making => tmp # Null
  /\ pc = "clone" => mem[tmp].type = "file"
  /\ pc \in {"dir", "entries"} => mem[tmp].type = "dir"
  /\ pc = "entries" => Held(mem[tmp].ptr, "dir")
  /\ pc \in {"item", "drop"} \cup Making /\ tmp # Null => tmp # cur
  /\ cur # Null => Held(cur, "item")
  /\ tmp # Null => Held(tmp, "item")
  /\ fatd \in Blocks => Held(fatd, "fatdesc")
  /\ \A b \in taken : OwnedBy(mem[b]) \in Blocks => OwnedBy(mem[b]) # fatd
  /\ \A b \in taken : OwnedBy(mem[b]) \in Blocks /\ OwnedBy(mem[b]) \in {cur, tmp} =>
                        pc = "newfd" /\ b = fatd

Slots == \A k \in OpenFds : Held(table[k], "desc") /\ mem[table[k]].index = k

Safe == Owned /\ Building /\ Slots

\* What holds whatever fails.
IInv == TypeInv /\ (fault = "none" => Safe)

-----------------------------------------------------------------------------
DirItem(b) == Held(b, "item") /\ mem[b].type = "dir"

\* Nothing is missing behind an item or a directory that is complete, and no
\* two items have the same directory.
Whole ==
  /\ \A b \in taken : DirItem(b) => Held(mem[b].ptr, "dir") \/ (pc = "dir" /\ b = tmp)
  /\ \A b, c \in taken :
       DirItem(b) /\ DirItem(c) /\ mem[b].ptr = mem[c].ptr /\ mem[b].ptr \in Blocks => b = c
  /\ \A b \in taken : mem[b].kind = "dir" =>
       mem[b].items \in Blocks \/ (pc = "entries" /\ b = mem[tmp].ptr)
  /\ \A b \in taken : mem[b].kind = "item" /\ mem[b].type = "file" =>
       mem[b].ptr \in Blocks \/ (pc = "clone" /\ b = tmp)

\* Nothing is missing between a descriptor and its item.
Filled ==
  /\ \A k \in OpenFds : /\ mem[table[k]].private \in Blocks
                        /\ mem[mem[table[k]].private].item \in Blocks
  /\ fatd # ErdonlyPtr
  /\ pc = "newfd" => mem[fatd].item \in Blocks
  /\ pc = "lookup" /\ cur # Null => mem[cur].type = "dir"

Sound == Whole /\ Filled

\* What holds while memory lasts, if no directory fails and nothing is opened
\* for writing.
CleanInv == TypeInv /\ Safe /\ Sound

-----------------------------------------------------------------------------
(* Objects.                                                                *)

FatDescs == [kind : {"fatdesc"}, item : Pointers, pos : 0 .. WordMod - 1]
Items == [kind : {"item"}, type : {"file", "dir"}, ptr : Pointers]
Descs == [kind : {"desc"}, index : Int, private : Pointers]

\* Pointers and blocks.
LEMMA PointersAre ==
  /\ Blocks \subseteq Nat \ {0} /\ Null \notin Blocks /\ ErdonlyPtr \notin Blocks
  /\ Null # ErdonlyPtr
  /\ Pointers = Blocks \cup {Null, ErdonlyPtr} /\ Blocks \subseteq Pointers
  /\ Fds \subseteq Nat \ {0}
BY FileTableAssumption DEF Blocks, Null, ErdonlyPtr, Pointers, Fds

\* What is made is an object.
LEMMA ObjectTypes ==
  /\ Blank \in Objects /\ Other("root") \in Objects
  /\ Other("name") \in Objects /\ Other("part") \in Objects
  /\ \A p \in Pointers, n \in 0 .. WordMod - 1 : FatDesc(p, n) \in FatDescs
  /\ \A t \in {"file", "dir"}, p \in Pointers : Item(t, p) \in Items
  /\ \A x \in Nodes : Record(x) \in Objects /\ Entries(x) \in Objects
  /\ \A p \in Pointers : Dir(p) \in Objects
  /\ \A k \in Int, p \in Pointers : Desc(k, p) \in Descs
  /\ FatDescs \subseteq Objects /\ Items \subseteq Objects /\ Descs \subseteq Objects
<1>1. /\ Blank \in Objects /\ Other("root") \in Objects
      /\ Other("name") \in Objects /\ Other("part") \in Objects
  BY DEF Objects
<1>2. \A x \in Nodes : Record(x) \in Objects /\ Entries(x) \in Objects
  BY DEF Objects
<1>3. \A p \in Pointers : Dir(p) \in Objects
  BY DEF Objects
<1>4. FatDescs \subseteq Objects /\ Items \subseteq Objects /\ Descs \subseteq Objects
  BY DEF Objects, FatDescs, Items, Descs
<1>5. \A p \in Pointers, n \in 0 .. WordMod - 1 : FatDesc(p, n) \in FatDescs
  BY DEF FatDesc, FatDescs
<1>6. \A t \in {"file", "dir"}, p \in Pointers : Item(t, p) \in Items
  BY DEF Item, Items
<1>7. \A k \in Int, p \in Pointers : Desc(k, p) \in Descs
  BY DEF Desc, Descs
<1>8. QED
  BY <1>1, <1>2, <1>3, <1>4, <1>5, <1>6, <1>7

\* The kind of an object says what it is.
LEMMA ObjectKinds ==
  ASSUME NEW o \in Objects
  PROVE  /\ o.kind = "fatdesc" => o \in FatDescs
         /\ o.kind = "item" => o \in Items
         /\ o.kind = "desc" => o \in Descs
         /\ o.kind = "dir" => \E p \in Pointers : o = Dir(p)
<1>1. CASE o = Blank
  BY <1>1 DEF Blank
<1>2. CASE \E kd \in {"root", "name", "part"} : o = Other(kd)
  BY <1>2 DEF Other
<1>3. CASE \E x \in Nodes : o = Record(x) \/ o = Entries(x)
  BY <1>3 DEF Record, Entries
<1>4. CASE \E p \in Pointers : o = Dir(p)
  BY <1>4 DEF Dir
<1>5. CASE o \in FatDescs
  BY <1>5 DEF FatDescs
<1>6. CASE o \in Items
  BY <1>6 DEF Items
<1>7. CASE o \in Descs
  BY <1>7 DEF Descs
<1>8. QED
  BY <1>1, <1>2, <1>3, <1>4, <1>5, <1>6, <1>7 DEF Objects, FatDescs, Items, Descs

\* What is owned by what is made.
LEMMA OwnedByMade ==
  /\ OwnedBy(Blank) = Null
  /\ \A kd \in {"root", "name", "part"} : OwnedBy(Other(kd)) = Null
  /\ \A p, n : OwnedBy(FatDesc(p, n)) = p /\ FatDesc(p, n).kind = "fatdesc"
                                          /\ FatDesc(p, n).item = p
  /\ \A p : OwnedBy(Item("file", p)) = p /\ OwnedBy(Item("dir", p)) = Null
  /\ \A t, p : Item(t, p).kind = "item" /\ Item(t, p).type = t /\ Item(t, p).ptr = p
  /\ \A x : OwnedBy(Record(x)) = Null /\ OwnedBy(Entries(x)) = Null
  /\ \A x : Record(x).kind = "record" /\ Entries(x).kind = "entries"
  /\ \A p : OwnedBy(Dir(p)) = p /\ Dir(p).kind = "dir" /\ Dir(p).items = p
  /\ \A k, p : OwnedBy(Desc(k, p)) = p /\ Desc(k, p).kind = "desc"
               /\ Desc(k, p).index = k /\ Desc(k, p).private = p
BY DEF OwnedBy, Blank, Other, FatDesc, Item, Record, Entries, Dir, Desc

\* Objects of which one field is set.
LEMMA ObjectSet ==
  /\ \A o \in Items : \A p : [o EXCEPT !.ptr = p] = Item(o.type, p)
  /\ \A o \in FatDescs : \A n : [o EXCEPT !.pos = n] = FatDesc(o.item, n)
  /\ \A p, q : [Dir(p) EXCEPT !.items = q] = Dir(q)
BY DEF Items, FatDescs, Item, FatDesc, Dir

LEMMA OwnedByTypes ==
  ASSUME NEW o \in Objects
  PROVE  OwnedBy(o) \in Pointers
<1>1. o.kind = "desc" => o.private \in Pointers
  BY ObjectKinds DEF Descs
<1>2. o.kind = "fatdesc" => o.item \in Pointers
  BY ObjectKinds DEF FatDescs
<1>3. o.kind = "dir" => o.items \in Pointers
  BY ObjectKinds DEF Dir
<1>4. o.kind = "item" => o.ptr \in Pointers
  BY ObjectKinds DEF Items
<1>5. Null \in Pointers
  BY PointersAre
<1>6. QED
  BY <1>1, <1>2, <1>3, <1>4, <1>5 DEF OwnedBy

\* A heap that is not full has a lowest free block.
LEMMA LowestFree ==
  ASSUME taken \subseteq Blocks, ~OutOfMemory
  PROVE  Lowest \in Blocks /\ Lowest \notin taken
<1>1. Blocks \ taken # {} /\ Blocks \ taken \subseteq Nat
  BY PointersAre DEF OutOfMemory
<1>2. \E b \in Blocks \ taken : \A c \in Blocks \ taken : b <= c
  BY <1>1, LeastElement
<1>3. QED
  BY <1>2 DEF Lowest

\* Ownership after a step that changes at most what x owns.
LEMMA OwnedStep ==
  ASSUME Owned, NEW x,
         \A c \in taken' : c # x /\ OwnedBy(mem'[c]) \in Blocks =>
           /\ c \in taken /\ OwnedBy(mem[c]) = OwnedBy(mem'[c]) /\ mem[c].kind = mem'[c].kind
           /\ OwnedBy(mem'[c]) \in taken'
           /\ mem'[OwnedBy(mem'[c])].kind = mem[OwnedBy(mem'[c])].kind,
         x \in taken' /\ OwnedBy(mem'[x]) \in Blocks =>
           /\ OwnedBy(mem'[x]) \in taken'
           /\ mem'[OwnedBy(mem'[x])].kind = OwnedKind[mem'[x].kind]
           /\ \A c \in taken' : c # x => OwnedBy(mem'[c]) # OwnedBy(mem'[x])
  PROVE  Owned'
<1>1. ASSUME NEW c \in taken', OwnedBy(mem'[c]) \in Blocks
      PROVE  /\ OwnedBy(mem'[c]) \in taken'
             /\ mem'[OwnedBy(mem'[c])].kind = OwnedKind[mem'[c].kind]
  <2>1. CASE c = x
    BY <1>1, <2>1
  <2>2. CASE c # x
    <3>1. /\ c \in taken /\ OwnedBy(mem[c]) = OwnedBy(mem'[c]) /\ mem[c].kind = mem'[c].kind
          /\ OwnedBy(mem'[c]) \in taken'
          /\ mem'[OwnedBy(mem'[c])].kind = mem[OwnedBy(mem'[c])].kind
      BY <1>1, <2>2
    <3>2. mem[OwnedBy(mem[c])].kind = OwnedKind[mem[c].kind]
      BY <1>1, <3>1 DEF Owned, Held
    <3>3. QED
      BY <3>1, <3>2
  <2>3. QED
    BY <2>1, <2>2
<1>2. ASSUME NEW b \in taken', NEW c \in taken', OwnedBy(mem'[b]) = OwnedBy(mem'[c]),
             OwnedBy(mem'[b]) \in Blocks
      PROVE  b = c
  <2>1. CASE b = x \/ c = x
    BY <1>2, <2>1
  <2>2. CASE b # x /\ c # x
    <3>1. /\ b \in taken /\ OwnedBy(mem[b]) = OwnedBy(mem'[b])
          /\ c \in taken /\ OwnedBy(mem[c]) = OwnedBy(mem'[c])
      BY <1>2, <2>2
    <3>2. QED
      BY <1>2, <3>1 DEF Owned
  <2>3. QED
    BY <2>1, <2>2
<1>3. QED
  BY <1>1, <1>2 DEF Owned, Held

\* A heap that stays as it is.
LEMMA SameHeap ==
  ASSUME Owned, taken' = taken, \A b \in taken : mem'[b] = mem[b]
  PROVE  Owned'
BY DEF Owned, Held

\* An object that owns nothing is made.
LEMMA Alloc ==
  ASSUME TypeInv, Owned, ~OutOfMemory, NEW o \in Objects, Kzalloc(o),
         OwnedBy(o) \notin Blocks
  PROVE  /\ Lowest \in Blocks /\ Lowest \notin taken /\ taken' = taken \cup {Lowest}
         /\ taken' \subseteq Blocks /\ mem' \in [Blocks -> Objects]
         /\ mem'[Lowest] = o /\ \A b \in taken : mem'[b] = mem[b]
         /\ \A b \in taken' : OwnedBy(mem'[b]) \in Blocks => b \in taken
         /\ Owned'
<1>1. Lowest \in Blocks /\ Lowest \notin taken
  BY LowestFree DEF TypeInv
<1>2. taken' = taken \cup {Lowest} /\ mem' = [mem EXCEPT ![Lowest] = o]
  BY DEF Kzalloc
<1>3. taken' \subseteq Blocks /\ mem' \in [Blocks -> Objects]
  BY <1>1, <1>2 DEF TypeInv
<1>4. mem'[Lowest] = o /\ \A b \in taken : mem'[b] = mem[b]
  BY <1>1, <1>2 DEF TypeInv
<1>5. \A b \in taken : OwnedBy(mem[b]) \in Blocks => OwnedBy(mem[b]) \in taken
  BY DEF Owned, Held
<1>6. Owned'
  <2>1. ASSUME NEW c \in taken', OwnedBy(mem'[c]) \in Blocks
        PROVE  /\ c \in taken /\ mem'[c] = mem[c] /\ OwnedBy(mem'[c]) \in taken
               /\ mem'[OwnedBy(mem'[c])] = mem[OwnedBy(mem'[c])]
    <3>1. c # Lowest
      BY <1>4, <2>1
    <3>2. c \in taken /\ mem'[c] = mem[c]
      BY <1>2, <1>4, <2>1, <3>1
    <3>3. QED
      BY <1>4, <1>5, <2>1, <3>2
  <2>2. 0 \notin taken'
    BY <1>3, PointersAre DEF Null
  <2>3. QED
    BY <1>2, <2>1, <2>2, OwnedStep
<1>7. \A b \in taken' : OwnedBy(mem'[b]) \in Blocks => b \in taken
  BY <1>2, <1>4
<1>8. QED
  BY <1>1, <1>2, <1>3, <1>4, <1>6, <1>7

\* The slots do not notice.
LEMMA SlotsStay ==
  ASSUME Slots, table' = table, taken \subseteq taken', \A b \in taken : mem'[b] = mem[b]
  PROVE  Slots'
BY DEF Slots, OpenFds, Held

\* What fopen is called with.
LEMMA RequestFacts ==
  ASSUME NEW r \in Requests \cup {NoRequest}
  PROVE  /\ r.parts \in Seq(Names) /\ Len(r.parts) \in Nat
         /\ r = NoRequest => Len(r.parts) = 0
<1>1. CASE r = NoRequest
  BY <1>1 DEF NoRequest
<1>2. CASE r \in Requests
  <2>1. r.parts \in Seq({r.parts[j] : j \in DOMAIN r.parts})
    BY <1>2, FileTableAssumption
  <2>2. \A j \in 1 .. Len(r.parts) : r.parts[j] \in Names
    BY <1>2, <2>1 DEF Names
  <2>3. r.parts \in Seq(Names)
    <3>1. Len(r.parts) \in Nat /\ r.parts \in [1 .. Len(r.parts) -> Names]
      BY <2>1, <2>2, LenProperties
    <3>2. QED
      BY <3>1, SeqDef
  <2>4. QED
    BY <1>2, <2>3, LenProperties DEF NoRequest
<1>3. QED
  BY <1>1, <1>2

-----------------------------------------------------------------------------
(* The steps of fopen up to fat16_open.                                    *)

LEMMA InitInv == Init => IInv
<1> SUFFICES ASSUME Init PROVE IInv
  OBVIOUS
<1>1. TypeInv
  <2>1. mem \in [Blocks -> Objects] /\ table \in [Fds -> Pointers]
    BY ObjectTypes, PointersAre DEF Init
  <2>2. list \in Seq(Names) /\ Len(list) = 0
    BY DEF Init
  <2>3. 0 \in 0 .. MaxOpens
    BY FileTableAssumption
  <2>4. Len(req.parts) = 0
    BY DEF Init, NoRequest
  <2>5. QED
    BY <2>1, <2>2, <2>3, <2>4 DEF Init, TypeInv, Pcs, Pointers
<1>2. Owned /\ Slots
  BY DEF Init, Owned, Slots, OpenFds
<1>3. Building
  BY PointersAre DEF Init, Building, Parsing, Making
<1>4. QED
  BY <1>1, <1>2, <1>3 DEF IInv, Safe

LEMMA FopenInv ==
  ASSUME TypeInv, Safe, fault = "none", NEW r \in Requests, Fopen(r)
  PROVE  TypeInv' /\ Safe'
<1>1. /\ pc = "idle" /\ opens < MaxOpens /\ opens' = opens + 1 /\ req' = r
      /\ UNCHANGED <<taken, mem, table, fault, list, fatd, level, cur, tmp, node>>
      /\ pc' \in {"root", "idle"} /\ ret' \in {ret, 0}
  BY DEF Fopen, heapVars
<1>2. TypeInv'
  <2>1. opens' \in 0 .. MaxOpens
    BY <1>1, FileTableAssumption DEF TypeInv
  <2>2. Len(list') = 0 /\ level' = level /\ Len(req'.parts) \in Nat
    BY <1>1, RequestFacts DEF TypeInv
  <2>3. level <= 0
    BY <1>1 DEF TypeInv
  <2>4. QED
    BY <1>1, <2>1, <2>2, <2>3 DEF TypeInv, Pcs
<1>3. Owned' /\ Slots'
  BY <1>1, SameHeap, SlotsStay DEF Safe
<1>4. Building'
  BY <1>1 DEF Safe, Building, Parsing, Making, Held
<1>5. QED
  BY <1>2, <1>3, <1>4 DEF Safe

\* fopen returns without a descriptor.
LEMMA ReturnInv ==
  ASSUME TypeInv, Safe, fault = "none", NEW r \in Int, Return(r),
         UNCHANGED <<taken, mem, table, fault, opens>>
  PROVE  TypeInv' /\ Safe'
<1>1. /\ ret' = r /\ pc' = "idle" /\ list' = <<>> /\ fatd' = Null /\ level' = 0
      /\ cur' = Null /\ tmp' = Null /\ node' = None /\ req' = req
  BY DEF Return
<1>2. TypeInv'
  <2>1. Len(req.parts) \in Nat
    BY RequestFacts DEF TypeInv
  <2>2. list' \in Seq(Names) /\ Len(list') = 0
    BY <1>1
  <2>3. QED
    BY <1>1, <2>1, <2>2, PointersAre DEF TypeInv, Pcs
<1>3. Owned' /\ Slots'
  BY SameHeap, SlotsStay DEF Safe
<1>4. Building'
  BY <1>1, PointersAre DEF Building, Parsing, Making
<1>5. QED
  BY <1>2, <1>3, <1>4 DEF Safe

\* While the path is parsed nothing is built.
LEMMA ParsingBuilding ==
  ASSUME Safe, pc \in Parsing, pc' \in Parsing, UNCHANGED <<fatd, cur, tmp, level>>,
         pc' = "part" => Len(list') < Len(req'.parts)
  PROVE  Building'
<1>1. cur' = Null /\ tmp' = Null /\ fatd' = Null /\ level' = 0
  BY DEF Safe, Building
<1>2. QED
  BY <1>1, PointersAre DEF Building, Parsing, Making

LEMMA CreateRootInv ==
  ASSUME TypeInv, Safe, fault = "none", CreateRoot
  PROVE  TypeInv' /\ Safe'
<1>1. pc = "root" /\ UNCHANGED <<table, fault, opens>>
  BY DEF CreateRoot
<1>2. CASE OutOfMemory
  <2>1. Return(0) /\ UNCHANGED <<taken, mem, table, fault, opens>>
    BY <1>2 DEF CreateRoot, heapVars
  <2>2. QED
    BY <2>1, ReturnInv
<1>3. CASE ~OutOfMemory
  <2>1. /\ Kzalloc(Other("root")) /\ pc' = "name"
        /\ UNCHANGED <<ret, req, list, fatd, level, cur, tmp, node>>
    BY <1>3 DEF CreateRoot, openVars
  <2>2. /\ taken' = taken \cup {Lowest} /\ taken' \subseteq Blocks
        /\ mem' \in [Blocks -> Objects] /\ Owned'
        /\ \A b \in taken : mem'[b] = mem[b]
    BY <1>3, <2>1, Alloc, ObjectTypes, OwnedByMade, PointersAre DEF Safe
  <2>3. TypeInv'
    BY <1>1, <2>1, <2>2 DEF TypeInv, Pcs
  <2>4. Slots'
    BY <1>1, <2>2, SlotsStay DEF Safe
  <2>5. Building'
    BY <1>1, <2>1, ParsingBuilding DEF Parsing
  <2>6. QED
    BY <2>2, <2>3, <2>4, <2>5 DEF Safe
<1>4. QED
  BY <1>2, <1>3

LEMMA PathEndsInv ==
  ASSUME TypeInv, Safe, fault = "none", PathEnds
  PROVE  TypeInv' /\ (fault' = "none" => Safe')
<1>1. /\ pc = "name" /\ pc' = "checks" /\ fault' \in {fault, "kfree"}
      /\ UNCHANGED <<taken, table, ret, req, list, fatd, level, cur, tmp, node, opens>>
  BY DEF PathEnds, openVars
<1>2. mem' \in [Blocks -> Objects] /\ \A b \in taken : mem'[b] = mem[b]
  <2>1. CASE OutOfMemory
    BY <2>1 DEF PathEnds, TypeInv
  <2>2. CASE ~OutOfMemory
    <3>1. Lowest \in Blocks /\ Lowest \notin taken
      BY <2>2, LowestFree DEF TypeInv
    <3>2. mem' = [mem EXCEPT ![Lowest] = Other("name")]
      BY <2>2 DEF PathEnds
    <3>3. QED
      BY <3>1, <3>2, ObjectTypes DEF TypeInv
  <2>3. QED
    BY <2>1, <2>2
<1>3. TypeInv'
  BY <1>1, <1>2 DEF TypeInv, Pcs
<1>4. Owned' /\ Slots'
  BY <1>1, <1>2, SameHeap, SlotsStay DEF Safe
<1>5. Building'
  BY <1>1, ParsingBuilding DEF Parsing
<1>6. QED
  BY <1>3, <1>4, <1>5 DEF Safe

LEMMA NamePartInv ==
  ASSUME TypeInv, Safe, fault = "none", NamePart
  PROVE  TypeInv' /\ Safe'
<1>1. /\ pc = "name" /\ Len(list) < Len(req.parts)
      /\ UNCHANGED <<table, fault, ret, req, list, fatd, level, cur, tmp, node, opens>>
  BY DEF NamePart, openVars
<1>2. /\ pc' \in {"checks", "part"} /\ taken \subseteq taken' /\ taken' \subseteq Blocks
      /\ mem' \in [Blocks -> Objects] /\ Owned'
      /\ \A b \in taken : mem'[b] = mem[b]
  <2>1. CASE OutOfMemory
    <3>1. pc' = "checks" /\ UNCHANGED <<taken, mem>>
      BY <2>1 DEF NamePart, heapVars
    <3>2. QED
      BY <3>1, SameHeap DEF TypeInv, Safe
  <2>2. CASE ~OutOfMemory
    <3>1. pc' = "part" /\ Kzalloc(Other("name"))
      BY <2>2 DEF NamePart
    <3>2. OwnedBy(Other("name")) \notin Blocks /\ Other("name") \in Objects
      BY ObjectTypes, OwnedByMade, PointersAre
    <3>3. QED
      BY <2>2, <3>1, <3>2, Alloc DEF Safe
  <2>3. QED
    BY <2>1, <2>2
<1>3. TypeInv'
  BY <1>1, <1>2 DEF TypeInv, Pcs
<1>4. Slots'
  BY <1>1, <1>2, SlotsStay DEF Safe
<1>5. Building'
  BY <1>1, <1>2, ParsingBuilding DEF Parsing
<1>6. QED
  BY <1>2, <1>3, <1>4, <1>5 DEF Safe

LEMMA AddPartInv ==
  ASSUME TypeInv, Safe, fault = "none", AddPart
  PROVE  TypeInv' /\ Safe'
<1>1. /\ pc = "part" /\ Len(list) < Len(req.parts) /\ pc' \in {"checks", "name"}
      /\ UNCHANGED <<table, fault, ret, req, fatd, level, cur, tmp, node, opens>>
  BY DEF AddPart, Safe, Building
<1>2. /\ taken \subseteq taken' /\ taken' \subseteq Blocks
      /\ mem' \in [Blocks -> Objects] /\ Owned'
      /\ \A b \in taken : mem'[b] = mem[b]
      /\ list' \in Seq(Names) /\ Len(list') \in {Len(list), Len(list) + 1}
  <2>1. CASE OutOfMemory
    <3>1. UNCHANGED <<taken, mem, list>>
      BY <2>1 DEF AddPart, heapVars
    <3>2. QED
      BY <3>1, SameHeap DEF TypeInv, Safe
  <2>2. CASE ~OutOfMemory
    <3>1. Kzalloc(Other("part")) /\ list' = Append(list, req.parts[Len(list) + 1])
      BY <2>2 DEF AddPart
    <3>2. OwnedBy(Other("part")) \notin Blocks /\ Other("part") \in Objects
      BY ObjectTypes, OwnedByMade, PointersAre
    <3>3. list \in Seq(Names) /\ Len(list) \in Nat /\ req.parts \in Seq(Names)
      BY RequestFacts, LenProperties DEF TypeInv
    <3>4. req.parts[Len(list) + 1] \in Names
      BY <1>1, <3>3, ElementOfSeq
    <3>5. list' \in Seq(Names) /\ Len(list') = Len(list) + 1
      BY <3>1, <3>3, <3>4, AppendProperties
    <3>6. QED
      BY <2>2, <3>1, <3>2, <3>5, Alloc DEF Safe
  <2>3. QED
    BY <2>1, <2>2
<1>3. TypeInv'
  <2>1. Len(list) \in Nat /\ Len(req.parts) \in Nat
    BY RequestFacts, LenProperties DEF TypeInv
  <2>2. QED
    BY <1>1, <1>2, <2>1 DEF TypeInv, Pcs
<1>4. Slots'
  BY <1>1, <1>2, SlotsStay DEF Safe
<1>5. Building'
  BY <1>1, <1>2, ParsingBuilding DEF Parsing
<1>6. QED
  BY <1>2, <1>3, <1>4, <1>5 DEF Safe

LEMMA CheckFailsInv ==
  ASSUME TypeInv, Safe, fault = "none", CheckFails
  PROVE  TypeInv' /\ Safe'
<1>1. PICK r \in {0, -2} : Return(r)
  BY DEF CheckFails
<1>2. UNCHANGED <<taken, mem, table, fault, opens>>
  BY DEF CheckFails, heapVars
<1>3. QED
  BY <1>1, <1>2, ReturnInv

-----------------------------------------------------------------------------
(* fat16_open.                                                             *)

LEMMA WriteModeInv ==
  ASSUME TypeInv, Safe, fault = "none", WriteMode
  PROVE  TypeInv' /\ Safe'
<1>1. /\ pc = "checks" /\ pc' = "newfd" /\ fatd' = ErdonlyPtr
      /\ UNCHANGED <<taken, mem, table, fault, ret, req, list, level, cur, tmp, node, opens>>
  BY DEF WriteMode, heapVars
<1>2. TypeInv'
  BY <1>1, PointersAre DEF TypeInv, Pcs
<1>3. Owned' /\ Slots'
  BY <1>1, SameHeap, SlotsStay DEF Safe
<1>4. Building'
  <2>1. cur' = Null /\ tmp' = Null
    BY <1>1 DEF Safe, Building, Parsing
  <2>2. QED
    BY <1>1, <2>1, PointersAre DEF Building, Parsing, Making
<1>5. QED
  BY <1>2, <1>3, <1>4 DEF Safe

LEMMA FatOpenInv ==
  ASSUME TypeInv, Safe, fault = "none", FatOpen
  PROVE  TypeInv' /\ Safe'
<1>1. pc = "checks" /\ Opens /\ UNCHANGED <<table, fault, opens>>
  BY DEF FatOpen
<1>2. CASE OutOfMemory
  <2>1. Return(0) /\ UNCHANGED <<taken, mem, table, fault, opens>>
    BY <1>1, <1>2 DEF FatOpen, heapVars
  <2>2. QED
    BY <2>1, ReturnInv
<1>3. CASE ~OutOfMemory
  <2>1. /\ Kzalloc(FatDesc(Null, 0)) /\ fatd' = Lowest /\ pc' = "lookup"
        /\ UNCHANGED <<ret, req, list, level, cur, tmp, node>>
    BY <1>3 DEF FatOpen
  <2>2. FatDesc(Null, 0) \in Objects /\ OwnedBy(FatDesc(Null, 0)) = Null
    <3>1. 0 \in 0 .. WordMod - 1
      BY FileTableAssumption
    <3>2. QED
      BY <3>1, ObjectTypes, OwnedByMade, PointersAre
  <2>3. /\ Lowest \in Blocks /\ Lowest \notin taken /\ taken' = taken \cup {Lowest}
        /\ taken' \subseteq Blocks /\ mem' \in [Blocks -> Objects]
        /\ mem'[Lowest] = FatDesc(Null, 0) /\ \A b \in taken : mem'[b] = mem[b]
        /\ \A b \in taken' : OwnedBy(mem'[b]) \in Blocks => b \in taken
        /\ Owned'
    BY <1>3, <2>1, <2>2, Alloc, PointersAre DEF Safe
  <2>4. TypeInv'
    BY <1>1, <2>1, <2>3, PointersAre DEF TypeInv, Pcs
  <2>5. Slots'
    BY <1>1, <2>3, SlotsStay DEF Safe
  <2>6. Building'
    <3>1. cur' = Null /\ tmp' = Null
      BY <1>1, <2>1 DEF Safe, Building, Parsing
    <3>2. level < Len(list)
      <4>1. level = 0 /\ list \in Seq(Names) /\ Len(list) \in Nat
        BY <1>1, LenProperties DEF TypeInv, Safe, Building, Parsing
      <4>2. Len(list) # 0
        BY <1>1, <4>1, EmptySeq DEF Opens
      <4>3. QED
        BY <4>1, <4>2
    <3>3. Held(fatd, "fatdesc")'
      BY <2>1, <2>3, OwnedByMade DEF Held
    <3>4. \A b \in taken' : OwnedBy(mem'[b]) \in Blocks => OwnedBy(mem'[b]) # fatd'
      <4>1. \A b \in taken : OwnedBy(mem[b]) \in Blocks => OwnedBy(mem[b]) \in taken
        BY DEF Safe, Owned, Held
      <4>2. QED
        BY <2>1, <2>3, <4>1
    <3>5. QED
      BY <2>1, <2>3, <3>1, <3>2, <3>3, <3>4, PointersAre DEF Building, Parsing, Making
  <2>7. QED
    BY <2>3, <2>4, <2>5, <2>6 DEF Safe
<1>4. QED
  BY <1>2, <1>3

\* What fopen holds belongs to nobody until fat16_open has finished.
LEMMA Unowned ==
  ASSUME Safe, pc # "newfd"
  PROVE  \A b \in taken : OwnedBy(mem[b]) \in Blocks =>
           /\ OwnedBy(mem[b]) \notin {fatd, cur, tmp}
           /\ OwnedBy(mem[b]) \in taken
BY DEF Safe, Building, Owned, Held

LEMMA LookupInv ==
  ASSUME TypeInv, Safe, fault = "none", Lookup
  PROVE  TypeInv' /\ (fault' = "none" => Safe')
<1>1. pc = "lookup" /\ UNCHANGED <<taken, mem, table, ret, req, list, fatd, cur, opens>>
  BY DEF Lookup, heapVars
<1>2. CASE ListingReadable(cur)
  <2>1. /\ fault' = fault /\ level' = level + 1 /\ tmp' = Null
        /\ \/ node' = None /\ pc' = "drop"
           \/ node' \in Nodes /\ pc' = "item"
    BY <1>2 DEF Lookup, Child
  <2>2. level \in Nat /\ Len(list) \in Nat /\ level < Len(list)
    BY <1>1, LenProperties DEF TypeInv, Safe, Building
  <2>3. TypeInv'
    BY <1>1, <2>1, <2>2 DEF TypeInv, Pcs
  <2>4. Owned' /\ Slots'
    BY <1>1, SameHeap, SlotsStay DEF Safe
  <2>5. fatd \in Blocks
    BY <1>1 DEF Safe, Building, Parsing
  <2>6. Building'
    BY <1>1, <2>1, <2>5, Unowned, PointersAre DEF Safe, Building, Parsing, Making, Held
  <2>7. QED
    BY <2>3, <2>4, <2>6 DEF Safe
<1>3. CASE ~ListingReadable(cur)
  <2>1. fault' = "deref" /\ UNCHANGED <<level, tmp, node, pc>>
    BY <1>3 DEF Lookup
  <2>2. QED
    BY <1>1, <2>1 DEF TypeInv
<1>4. QED
  BY <1>2, <1>3

\* A step of making the new item that fails.
LEMMA GiveUpInv ==
  ASSUME TypeInv, Safe, fault = "none", pc \in {"item"} \cup Making, pc' = "drop",
         UNCHANGED <<taken, mem, table, fault, ret, req, list, fatd, level, cur, tmp, node, opens>>
  PROVE  TypeInv' /\ Safe'
<1>1. TypeInv'
  BY DEF TypeInv, Pcs
<1>2. Owned' /\ Slots'
  BY SameHeap, SlotsStay DEF Safe
<1>3. fatd \in Blocks
  BY DEF Safe, Building, Parsing, Making
<1>4. pc # "newfd" /\ (tmp # Null => tmp # cur)
  BY DEF Making, Safe, Building
<1>5. Building'
  BY <1>3, <1>4, Unowned DEF Safe, Building, Parsing, Making, Held
<1>6. QED
  BY <1>1, <1>2, <1>5 DEF Safe

LEMMA CreateItemInv ==
  ASSUME TypeInv, Safe, fault = "none", CreateItem
  PROVE  TypeInv' /\ Safe'
<1>1. pc = "item" /\ UNCHANGED <<table, fault, ret, req, list, fatd, level, cur, node, opens>>
  BY DEF CreateItem
<1>2. CASE OutOfMemory
  <2>1. pc' = "drop" /\ UNCHANGED <<taken, mem, tmp>>
    BY <1>2 DEF CreateItem, heapVars
  <2>2. QED
    BY <1>1, <2>1, GiveUpInv
<1>3. CASE ~OutOfMemory
  <2> DEFINE t == IF node \in Dirs THEN "dir" ELSE "file"
  <2>1. /\ tmp' = Lowest /\ Kzalloc(Item(t, Null))
        /\ pc' = IF node \in Dirs THEN "dir" ELSE "clone"
    BY <1>3 DEF CreateItem
  <2>2. Item(t, Null) \in Objects /\ OwnedBy(Item(t, Null)) = Null
    BY ObjectTypes, OwnedByMade, PointersAre
  <2>3. /\ Lowest \in Blocks /\ Lowest \notin taken /\ taken' = taken \cup {Lowest}
        /\ taken' \subseteq Blocks /\ mem' \in [Blocks -> Objects]
        /\ mem'[Lowest] = Item(t, Null) /\ \A b \in taken : mem'[b] = mem[b]
        /\ \A b \in taken' : OwnedBy(mem'[b]) \in Blocks => b \in taken
        /\ Owned'
    BY <1>3, <2>1, <2>2, Alloc, PointersAre DEF Safe
  <2>4. TypeInv'
    BY <1>1, <2>1, <2>3 DEF TypeInv, Pcs
  <2>5. Slots'
    BY <1>1, <2>3, SlotsStay DEF Safe
  <2>6. Building'
    <3>1. fatd \in taken /\ fatd \in Blocks /\ (cur # Null => cur \in taken)
      BY <1>1 DEF Safe, Building, Parsing, Held
    <3>2. tmp' # cur /\ tmp' # fatd /\ tmp' # Null
      BY <2>1, <2>3, <3>1, PointersAre
    <3>3. mem'[tmp'].kind = "item" /\ mem'[tmp'].type = t /\ tmp' \in taken'
      BY <2>1, <2>3, OwnedByMade
    <3>4. (cur # Null => Held(cur, "item")') /\ Held(fatd, "fatdesc")'
      BY <1>1, <2>3, <3>1 DEF Safe, Building, Held
    <3>5. \A b \in taken' : OwnedBy(mem'[b]) \in Blocks =>
            OwnedBy(mem'[b]) \notin {fatd', cur', tmp'}
      BY <1>1, <2>1, <2>3, Unowned
    <3>6. node \in Nodes
      BY <1>1 DEF Safe, Building
    <3>7. pc' \in {"dir", "clone"} /\ (pc' = "dir" <=> t = "dir")
      BY <2>1
    <3>8. QED
      BY <1>1, <3>1, <3>2, <3>3, <3>4, <3>5, <3>6, <3>7 DEF Building, Parsing, Making, Held
  <2>7. QED
    BY <2>3, <2>4, <2>5, <2>6 DEF Safe
<1>4. QED
  BY <1>2, <1>3

\* An object is made and hung behind the new item.
MakeBehind(o) ==
  /\ taken' = taken \cup {Lowest}
  /\ mem' = [mem EXCEPT ![Lowest] = o, ![tmp].ptr = Lowest]

\* If it owns nothing, ownership is as it should be.
LEMMA AllocBehind ==
  ASSUME TypeInv, Safe, pc \in Making, ~OutOfMemory, NEW o \in Objects, OwnedBy(o) \notin Blocks,
         MakeBehind(o), mem[tmp].type = "file" => o.kind = "record"
  PROVE  /\ Lowest \in Blocks /\ Lowest \notin taken
         /\ taken' \subseteq Blocks /\ taken' = taken \cup {Lowest}
         /\ tmp \in taken /\ mem'[tmp] = Item(mem[tmp].type, Lowest)
         /\ mem' \in [Blocks -> Objects] /\ mem'[Lowest] = o
         /\ \A b \in taken \ {tmp} : mem'[b] = mem[b]
         /\ \A b \in taken' \ {tmp} : OwnedBy(mem'[b]) \in Blocks =>
              b \in taken /\ OwnedBy(mem'[b]) \in taken
         /\ Owned'
<1>1. Lowest \in Blocks /\ Lowest \notin taken
  BY LowestFree DEF TypeInv
<1>2. tmp \in taken /\ mem[tmp].kind = "item" /\ tmp \in Blocks /\ tmp # Lowest
  BY <1>1 DEF Safe, Building, Held, TypeInv
<1>3. mem[tmp] \in Items /\ mem[tmp].type \in {"file", "dir"}
  BY <1>2, ObjectKinds DEF TypeInv, Items
<1>4. mem'[tmp] = Item(mem[tmp].type, Lowest)
  BY <1>1, <1>2, <1>3, ObjectSet DEF TypeInv, MakeBehind
<1>5. mem'[Lowest] = o /\ \A b \in Blocks \ {Lowest, tmp} : mem'[b] = mem[b]
  BY <1>1, <1>2 DEF TypeInv, MakeBehind
<1>6. Item(mem[tmp].type, Lowest) \in Objects
  BY <1>1, <1>3, ObjectTypes, PointersAre
<1>7. mem' \in [Blocks -> Objects]
  <2>1. DOMAIN mem' = Blocks /\ mem' = [b \in Blocks |-> mem'[b]]
    BY DEF TypeInv, MakeBehind
  <2>2. \A b \in Blocks : mem'[b] \in Objects
    BY <1>4, <1>5, <1>6 DEF TypeInv
  <2>3. QED
    BY <2>1, <2>2
<1>8. /\ taken' = taken \cup {Lowest} /\ taken' \subseteq Blocks
      /\ \A b \in taken \ {tmp} : mem'[b] = mem[b]
  BY <1>1, <1>5 DEF TypeInv, MakeBehind
<1>9. \A b \in taken' \ {tmp} : OwnedBy(mem'[b]) \in Blocks =>
        /\ b \in taken /\ mem'[b] = mem[b] /\ OwnedBy(mem'[b]) \in taken
        /\ mem'[OwnedBy(mem'[b])] = mem[OwnedBy(mem'[b])]
  <2>1. pc # "newfd"
    BY DEF Making
  <2>2. ASSUME NEW b \in taken' \ {tmp}, OwnedBy(mem'[b]) \in Blocks
        PROVE  /\ b \in taken /\ mem'[b] = mem[b] /\ OwnedBy(mem'[b]) \in taken
               /\ mem'[OwnedBy(mem'[b])] = mem[OwnedBy(mem'[b])]
    <3>1. b \in taken /\ mem'[b] = mem[b]
      BY <1>5, <1>8, <2>2
    <3>2. OwnedBy(mem[b]) \in taken \ {tmp}
      BY <2>1, <2>2, <3>1, Unowned
    <3>3. QED
      BY <1>8, <3>1, <3>2
  <2>3. QED
    BY <2>2
<1>10. OwnedBy(mem'[tmp]) \in Blocks => mem[tmp].type = "file" /\ OwnedBy(mem'[tmp]) = Lowest
  BY <1>3, <1>4, OwnedByMade, PointersAre
<1>11. Owned'
  <2>1. mem'[tmp].kind = "item"
    BY <1>4, OwnedByMade
  <2>2. OwnedBy(mem'[tmp]) \in Blocks =>
          /\ OwnedBy(mem'[tmp]) \in taken'
          /\ mem'[OwnedBy(mem'[tmp])].kind = OwnedKind[mem'[tmp].kind]
          /\ \A c \in taken' : c # tmp => OwnedBy(mem'[c]) # OwnedBy(mem'[tmp])
    <3>1. OwnedKind["item"] = "record"
      BY DEF OwnedKind
    <3>2. \A c \in taken' : c # tmp => OwnedBy(mem'[c]) # Lowest
      BY <1>1, <1>9
    <3>3. QED
      BY <1>1, <1>5, <1>8, <1>10, <2>1, <3>1, <3>2
  <2>3. Owned
    BY DEF Safe
  <2>4. \A c \in taken' : c # tmp /\ OwnedBy(mem'[c]) \in Blocks =>
          /\ c \in taken /\ OwnedBy(mem[c]) = OwnedBy(mem'[c]) /\ mem[c].kind = mem'[c].kind
          /\ OwnedBy(mem'[c]) \in taken'
          /\ mem'[OwnedBy(mem'[c])].kind = mem[OwnedBy(mem'[c])].kind
    BY <1>8, <1>9
  <2>5. QED
    BY <2>2, <2>3, <2>4, OwnedStep
<1>12. QED
  BY <1>1, <1>2, <1>4, <1>5, <1>7, <1>8, <1>9, <1>11

LEMMA BehindInv ==
  ASSUME TypeInv, Safe, fault = "none", pc \in Making, ~OutOfMemory,
         NEW o \in Objects, OwnedBy(o) \notin Blocks, MakeBehind(o),
         mem[tmp].type = "file" => o.kind = "record",
         pc' = "drop" \/ (pc' = "entries" /\ mem[tmp].type = "dir" /\ o.kind = "dir"),
         UNCHANGED <<table, fault, ret, req, list, fatd, level, cur, tmp, node, opens>>
  PROVE  TypeInv' /\ Safe'
<1>1. /\ Lowest \in Blocks /\ Lowest \notin taken
      /\ taken' \subseteq Blocks /\ taken' = taken \cup {Lowest}
      /\ tmp \in taken /\ mem'[tmp] = Item(mem[tmp].type, Lowest)
      /\ mem' \in [Blocks -> Objects] /\ mem'[Lowest] = o
      /\ \A b \in taken \ {tmp} : mem'[b] = mem[b]
      /\ \A b \in taken' \ {tmp} : OwnedBy(mem'[b]) \in Blocks =>
           b \in taken /\ OwnedBy(mem'[b]) \in taken
      /\ Owned'
  BY AllocBehind
<1>2. TypeInv'
  BY <1>1 DEF TypeInv, Pcs
<1>3. mem'[tmp].kind = "item" /\ mem'[tmp].type = mem[tmp].type /\ mem'[tmp].ptr = Lowest
  BY <1>1, OwnedByMade
<1>4. mem[tmp].kind = "item" /\ tmp # Null /\ tmp # cur /\ tmp # fatd
  BY <1>1, PointersAre DEF Safe, Building, Held, Making, Parsing, TypeInv
<1>5. Slots'
  <2>1. ASSUME NEW k \in OpenFds
        PROVE  table[k] \in taken \ {tmp}
    BY <1>4 DEF Safe, Slots, Held
  <2>2. QED
    BY <1>1, <2>1 DEF Safe, Slots, OpenFds, Held
<1>6. Building'
  <2>1. fatd \in Blocks /\ Held(fatd, "fatdesc")' /\ node \in Nodes
    BY <1>1, <1>4 DEF Safe, Building, Parsing, Making, Held
  <2>2. cur # Null => Held(cur, "item")'
    BY <1>1, <1>4 DEF Safe, Building, Held
  <2>3. Held(tmp, "item")'
    BY <1>1, <1>3 DEF Held
  <2>4. \A b \in taken' : OwnedBy(mem'[b]) \in Blocks => OwnedBy(mem'[b]) \notin {fatd, cur, tmp}
    <3>1. OwnedBy(mem'[tmp]) \in {Lowest, Null}
      <4>1. mem[tmp] \in Items
        BY <1>1, <1>4, ObjectKinds DEF TypeInv
      <4>2. QED
        BY <1>1, <4>1, OwnedByMade DEF Items
    <3>2. Lowest \notin {fatd, cur, tmp}
      BY <1>1, PointersAre DEF Safe, Building, Held
    <3>3. pc # "newfd"
      BY DEF Making
    <3>4. ASSUME NEW b \in taken' \ {tmp}, OwnedBy(mem'[b]) \in Blocks
          PROVE  OwnedBy(mem'[b]) \notin {fatd, cur, tmp}
      BY <1>1, <3>3, <3>4, Unowned
    <3>5. QED
      BY <3>1, <3>2, <3>4, PointersAre
  <2>5. pc' = "entries" => mem'[tmp].type = "dir" /\ Held(mem[tmp].ptr, "dir")'
    BY <1>1, <1>3 DEF Held
  <2>6. mem'[tmp].type = mem[tmp].type /\ (pc' = "entries" => mem[tmp].type = "dir")
    BY <1>3
  <2>7. QED
    BY <1>4, <2>1, <2>2, <2>3, <2>4, <2>5, <2>6 DEF Building, Parsing, Making
<1>7. QED
  BY <1>1, <1>2, <1>5, <1>6 DEF Safe

LEMMA CloneItemInv ==
  ASSUME TypeInv, Safe, fault = "none", CloneItem
  PROVE  TypeInv' /\ Safe'
<1>1. /\ pc = "clone" /\ pc' = "drop"
      /\ UNCHANGED <<table, fault, ret, req, list, fatd, level, cur, tmp, node, opens>>
  BY DEF CloneItem, openVars
<1>2. CASE OutOfMemory
  <2>1. UNCHANGED <<taken, mem>>
    BY <1>2 DEF CloneItem, heapVars
  <2>2. QED
    BY <1>1, <2>1, GiveUpInv DEF Making
<1>3. CASE ~OutOfMemory
  <2>1. MakeBehind(Record(node))
    BY <1>3 DEF CloneItem, MakeBehind
  <2>2. node \in Nodes
    BY <1>1 DEF Safe, Building, Making
  <2>3. /\ Record(node) \in Objects /\ OwnedBy(Record(node)) \notin Blocks
        /\ Record(node).kind = "record"
    BY <2>2, ObjectTypes, OwnedByMade, PointersAre
  <2>4. pc \in Making
    BY <1>1 DEF Making
  <2>5. QED
    BY <1>1, <1>3, <2>1, <2>3, <2>4, BehindInv
<1>4. QED
  BY <1>2, <1>3

LEMMA LoadDirectoryInv ==
  ASSUME TypeInv, Safe, fault = "none", LoadDirectory
  PROVE  TypeInv' /\ Safe'
<1>1. /\ pc = "dir"
      /\ UNCHANGED <<table, fault, ret, req, list, fatd, level, cur, tmp, node, opens>>
  BY DEF LoadDirectory, openVars
<1>2. CASE OutOfMemory
  <2>1. pc' = "drop" /\ UNCHANGED <<taken, mem>>
    BY <1>2 DEF LoadDirectory, heapVars
  <2>2. QED
    BY <1>1, <2>1, GiveUpInv DEF Making
<1>3. CASE ~OutOfMemory
  <2>1. pc' = "entries" /\ MakeBehind(Dir(Null))
    BY <1>3 DEF LoadDirectory, MakeBehind
  <2>2. mem[tmp].type = "dir"
    BY <1>1 DEF Safe, Building
  <2>3. Dir(Null) \in Objects /\ OwnedBy(Dir(Null)) \notin Blocks /\ Dir(Null).kind = "dir"
    BY ObjectTypes, OwnedByMade, PointersAre
  <2>4. pc \in Making
    BY <1>1 DEF Making
  <2>5. QED
    BY <1>1, <1>3, <2>1, <2>2, <2>3, <2>4, BehindInv
<1>4. QED
  BY <1>2, <1>3

\* What kinds own, and are owned.
LEMMA Owners ==
  ASSUME NEW o, OwnedBy(o) \in Blocks
  PROVE  /\ o.kind \in {"desc", "fatdesc", "dir", "item"}
         /\ OwnedKind[o.kind] \in {"fatdesc", "item", "record", "entries"}
BY PointersAre DEF OwnedBy, OwnedKind

\* Ownership after a step that frees s.
LEMMA FreeStep ==
  ASSUME Owned, NEW s, taken' = taken \ s,
         \A b \in taken \ s : mem'[b] = mem[b],
         \A b \in taken \ s : OwnedBy(mem[b]) \in Blocks => OwnedBy(mem[b]) \notin s
  PROVE  Owned'
BY DEF Owned, Held

LEMMA LoadEntriesInv ==
  ASSUME TypeInv, Safe, fault = "none", NEW res, LoadEntries(res)
  PROVE  TypeInv' /\ Safe'
<1> DEFINE d == mem[tmp].ptr
<1>1. /\ pc = "entries" /\ pc' = "drop"
      /\ UNCHANGED <<table, fault, ret, req, list, fatd, level, cur, tmp, node, opens>>
  BY DEF LoadEntries, openVars
<1>2. /\ d \in taken /\ d \in Blocks /\ mem[d].kind = "dir" /\ node \in Nodes
      /\ tmp \in taken /\ tmp # Null /\ mem[tmp].kind = "item" /\ tmp # cur
      /\ fatd \in taken /\ fatd \in Blocks /\ mem[fatd].kind = "fatdesc"
      /\ cur # Null => Held(cur, "item")
  BY <1>1 DEF TypeInv, Safe, Building, Parsing, Making, Held
<1>3. d \notin {tmp, fatd, cur}
  BY <1>2, PointersAre DEF Held
<1>4. PICK q \in Pointers : mem[d] = Dir(q)
  BY <1>2, ObjectKinds DEF TypeInv
<1>5. \A b \in taken : OwnedBy(mem[b]) \in Blocks =>
        OwnedBy(mem[b]) \in taken /\ OwnedBy(mem[b]) \notin {d, fatd, cur, tmp}
  <2>1. ASSUME NEW b \in taken, OwnedBy(mem[b]) \in Blocks
        PROVE  OwnedBy(mem[b]) # d
    <3>1. mem[OwnedBy(mem[b])].kind = OwnedKind[mem[b].kind]
      BY <2>1 DEF Safe, Owned, Held
    <3>2. QED
      BY <1>2, <2>1, <3>1, Owners
  <2>2. QED
    BY <1>1, <2>1, Unowned
\* The directory is given back, or gets its listing.
<1>6. /\ taken' \subseteq Blocks /\ mem' \in [Blocks -> Objects]
      /\ \A b \in taken \ {d} : b \in taken' /\ mem'[b] = mem[b]
      /\ \A b \in taken' : OwnedBy(mem'[b]) \in Blocks => OwnedBy(mem'[b]) \notin {fatd, cur, tmp}
      /\ Owned'
  <2>1. CASE taken' = taken \ {d} /\ mem' \in [Blocks -> Objects]
             /\ \A b \in taken \ {d} : mem'[b] = mem[b]
    <3>1. Owned'
      <4>1. Owned /\ \A b \in taken \ {d} : OwnedBy(mem[b]) \in Blocks => OwnedBy(mem[b]) \notin {d}
        BY <1>5 DEF Safe
      <4>2. QED
        BY <2>1, <4>1, FreeStep
    <3>2. QED
      BY <1>5, <2>1, <3>1 DEF TypeInv
  <2>2. CASE OutOfMemory
    BY <2>1, <2>2 DEF LoadEntries, TypeInv
  <2>3. CASE ~OutOfMemory
    <3>1. Lowest \in Blocks /\ Lowest \notin taken
      BY <2>3, LowestFree DEF TypeInv
    <3>2. mem' = [mem EXCEPT ![Lowest] = Entries(node), ![d].items = Lowest]
      BY <2>3 DEF LoadEntries
    <3>3. mem'[d] = Dir(Lowest) /\ mem'[Lowest] = Entries(node)
      <4>1. Lowest # d
        BY <1>2, <3>1
      <4>2. QED
        BY <1>2, <1>4, <3>1, <3>2, <4>1, ObjectSet DEF TypeInv
    <3>4. \A b \in Blocks \ {Lowest, d} : mem'[b] = mem[b]
      BY <3>2 DEF TypeInv
    <3>5. mem' \in [Blocks -> Objects]
      <4>1. mem' = [b \in Blocks |-> mem'[b]]
        BY <3>2 DEF TypeInv
      <4>2. \A b \in Blocks : mem'[b] \in Objects
        BY <1>2, <3>1, <3>3, <3>4, ObjectTypes, PointersAre DEF TypeInv
      <4>3. QED
        BY <4>1, <4>2
    <3>6. \A b \in taken \ {d} : mem'[b] = mem[b]
      BY <3>1, <3>4 DEF TypeInv
    <3>7. CASE res # "OK"
      <4>1. taken' = taken \ {d}
        BY <2>3, <3>7 DEF LoadEntries
      <4>2. QED
        BY <2>1, <3>5, <3>6, <4>1
    <3>8. CASE res = "OK"
      <4>1. taken' = taken \cup {Lowest}
        BY <2>3, <3>8 DEF LoadEntries
      <4>2. OwnedBy(mem'[d]) = Lowest /\ mem'[d].kind = "dir" /\ mem'[Lowest].kind = "entries"
            /\ OwnedBy(mem'[Lowest]) = Null
        BY <3>3, OwnedByMade
      <4>3. \A b \in taken' : b # d /\ OwnedBy(mem'[b]) \in Blocks =>
              /\ b \in taken /\ mem'[b] = mem[b] /\ OwnedBy(mem'[b]) \in taken \ {d}
        <5>1. ASSUME NEW b \in taken', b # d, OwnedBy(mem'[b]) \in Blocks
              PROVE  b \in taken /\ mem'[b] = mem[b]
          BY <3>6, <4>1, <4>2, <5>1, PointersAre
        <5>2. QED
          BY <1>5, <5>1
      <4>4. \A b \in taken' : b # d => OwnedBy(mem'[b]) # Lowest
        BY <3>1, <4>3
      <4>5. OwnedKind["dir"] = "entries"
        BY DEF OwnedKind
      <4>6. Owned'
        <5>1. \A c \in taken' : c # d /\ OwnedBy(mem'[c]) \in Blocks =>
                /\ c \in taken /\ OwnedBy(mem[c]) = OwnedBy(mem'[c])
                /\ mem[c].kind = mem'[c].kind
                /\ OwnedBy(mem'[c]) \in taken'
                /\ mem'[OwnedBy(mem'[c])].kind = mem[OwnedBy(mem'[c])].kind
          BY <3>6, <4>1, <4>3
        <5>2. d \in taken' /\ OwnedBy(mem'[d]) \in Blocks =>
                /\ OwnedBy(mem'[d]) \in taken'
                /\ mem'[OwnedBy(mem'[d])].kind = OwnedKind[mem'[d].kind]
                /\ \A c \in taken' : c # d => OwnedBy(mem'[c]) # OwnedBy(mem'[d])
          BY <4>1, <4>2, <4>4, <4>5
        <5>3. Owned
          BY DEF Safe
        <5>4. QED
          BY <5>1, <5>2, <5>3, OwnedStep
      <4>7. \A b \in taken' : OwnedBy(mem'[b]) \in Blocks => OwnedBy(mem'[b]) \notin {fatd, cur, tmp}
        <5>1. Lowest \notin {fatd, cur, tmp}
          BY <1>2, <3>1, PointersAre DEF Held
        <5>2. QED
          BY <1>5, <4>2, <4>3, <5>1
      <4>8. QED
        BY <3>1, <3>5, <3>6, <4>1, <4>6, <4>7 DEF TypeInv
    <3>9. QED
      BY <3>7, <3>8
  <2>4. QED
    BY <2>2, <2>3
<1>7. TypeInv'
  BY <1>1, <1>6 DEF TypeInv, Pcs
<1>8. Slots'
  <2>1. ASSUME NEW k \in OpenFds
        PROVE  table[k] \in taken \ {d}
    BY <1>2 DEF Safe, Slots, Held
  <2>2. QED
    BY <1>1, <1>6, <2>1 DEF Safe, Slots, OpenFds, Held
<1>9. Building'
  <2>1. Held(tmp, "item")' /\ Held(fatd, "fatdesc")' /\ (cur # Null => Held(cur, "item")')
    BY <1>1, <1>2, <1>3, <1>6 DEF Held
  <2>2. QED
    BY <1>1, <1>2, <1>6, <2>1 DEF Building, Parsing, Making
<1>10. QED
  BY <1>6, <1>7, <1>8, <1>9 DEF Safe

\* The elements of a sequence.
Ptrs(s) == {s[j] : j \in DOMAIN s}

LEMMA PtrsConcat ==
  ASSUME NEW S, NEW s \in Seq(S), NEW t \in Seq(S)
  PROVE  Ptrs(s \o t) = Ptrs(s) \cup Ptrs(t) /\ s \o t \in Seq(S)
<1>1. /\ Len(s) \in Nat /\ Len(t) \in Nat /\ DOMAIN s = 1 .. Len(s) /\ DOMAIN t = 1 .. Len(t)
      /\ DOMAIN (s \o t) = 1 .. Len(s) + Len(t)
      /\ \A j \in 1 .. Len(s) + Len(t) :
           (s \o t)[j] = IF j <= Len(s) THEN s[j] ELSE t[j - Len(s)]
  BY LenProperties, ConcatProperties
<1>2. ASSUME NEW j \in DOMAIN (s \o t)
      PROVE  (s \o t)[j] \in Ptrs(s) \cup Ptrs(t)
  <2>1. CASE j <= Len(s)
    BY <1>1, <2>1 DEF Ptrs
  <2>2. CASE ~(j <= Len(s))
    <3>1. j - Len(s) \in DOMAIN t /\ (s \o t)[j] = t[j - Len(s)]
      BY <1>1, <2>2
    <3>2. QED
      BY <3>1 DEF Ptrs
  <2>3. QED
    BY <2>1, <2>2
<1>3. ASSUME NEW j \in DOMAIN s
      PROVE  s[j] \in Ptrs(s \o t)
  <2>1. j \in DOMAIN (s \o t) /\ (s \o t)[j] = s[j]
    BY <1>1
  <2>2. QED
    BY <2>1 DEF Ptrs
<1>4. ASSUME NEW j \in DOMAIN t
      PROVE  t[j] \in Ptrs(s \o t)
  <2>1. j + Len(s) \in DOMAIN (s \o t) /\ (s \o t)[j + Len(s)] = t[j]
    BY <1>1
  <2>2. QED
    BY <2>1 DEF Ptrs
<1>5. Ptrs(s \o t) \subseteq Ptrs(s) \cup Ptrs(t)
  BY <1>2 DEF Ptrs
<1>6. Ptrs(s) \subseteq Ptrs(s \o t) /\ Ptrs(t) \subseteq Ptrs(s \o t)
  BY <1>3, <1>4 DEF Ptrs
<1>7. QED
  BY <1>5, <1>6, ConcatProperties

\* The elements of short sequences.
LEMMA PtrsShort ==
  /\ Ptrs(<<>>) = {}
  /\ \A a : Ptrs(<<a>>) = {a}
  /\ \A a, b : Ptrs(<<a, b>>) = {a, b}
BY DEF Ptrs

\* Two more elements.
LEMMA PtrsPair ==
  ASSUME NEW S, NEW s \in Seq(S), NEW a \in S, NEW b \in S
  PROVE  /\ Ptrs(s \o <<a, b>>) = Ptrs(s) \cup {a, b} /\ s \o <<a, b>> \in Seq(S)
         /\ Len(s \o <<a, b>>) = Len(s) + 2
<1>1. PICK t \in Seq(S) : t = <<a, b>>
  <2>1. <<a, b>> \in Seq(S)
    OBVIOUS
  <2>2. QED
    BY <2>1, Zenon
<1>2. Ptrs(t) = {a, b} /\ Len(t) = 2
  BY <1>1, PtrsShort
<1>3. Ptrs(s \o t) = Ptrs(s) \cup Ptrs(t) /\ s \o t \in Seq(S)
  BY PtrsConcat
<1>4. Len(s \o t) = Len(s) + Len(t)
  BY ConcatProperties
<1>5. QED
  BY <1>1, <1>2, <1>3, <1>4

\* What fat_free_item frees.
LEMMA ItemPtrs ==
  ASSUME TypeInv, NEW p, ItemReadable(p)
  PROVE  /\ ItemFrees(p) \in Seq(Pointers)
         /\ mem[p].type \in {"file", "dir"} /\ mem[p].ptr \in Pointers
         /\ mem[p].type = "file" => Ptrs(ItemFrees(p)) = {p, mem[p].ptr}
         /\ mem[p].type = "dir" /\ mem[p].ptr = Null => Ptrs(ItemFrees(p)) = {p}
         /\ mem[p].type = "dir" /\ mem[p].ptr # Null =>
              /\ IsA(mem[p].ptr, "dir")
              /\ Ptrs(ItemFrees(p)) = {p, mem[p].ptr}
                   \cup (IF mem[mem[p].ptr].items = Null THEN {} ELSE {mem[mem[p].ptr].items})
<1>1. p \in Blocks /\ mem[p] \in Items
  BY ObjectKinds DEF ItemReadable, IsA, TypeInv
<1>2. /\ mem[p].type \in {"file", "dir"} /\ mem[p].ptr \in Pointers
      /\ p \in Pointers /\ Null \in Pointers
  BY <1>1, PointersAre DEF Items
<1>3. CASE mem[p].type = "file"
  <2>1. ItemFrees(p) = <<mem[p].ptr, p>>
    BY <1>3 DEF ItemFrees
  <2>2. QED
    BY <1>2, <1>3, <2>1, PtrsShort
<1>4. CASE mem[p].type = "dir"
  <2> DEFINE f == DirectoryFrees(mem[p].ptr)
  <2>1. ItemFrees(p) = f \o <<p>> /\ <<p>> \in Seq(Pointers)
    BY <1>2, <1>4 DEF ItemFrees
  <2>2. CASE mem[p].ptr = Null
    <3>1. f = <<>> /\ f \in Seq(Pointers)
      BY <2>2 DEF DirectoryFrees
    <3>2. QED
      BY <1>2, <1>4, <2>1, <2>2, <3>1, PtrsConcat, PtrsShort
  <2>3. CASE mem[p].ptr # Null
    <3>1. IsA(mem[p].ptr, "dir")
      BY <1>4, <2>3 DEF ItemReadable
    <3>2. mem[mem[p].ptr].items \in Pointers
      <4>1. \E q \in Pointers : mem[mem[p].ptr] = Dir(q)
        BY <3>1, ObjectKinds DEF IsA, TypeInv
      <4>2. QED
        BY <4>1, OwnedByMade
    <3>3. /\ f \in Seq(Pointers)
          /\ Ptrs(f) = {mem[p].ptr}
               \cup (IF mem[mem[p].ptr].items = Null THEN {} ELSE {mem[mem[p].ptr].items})
      <4>1. CASE mem[mem[p].ptr].items = Null
        <5>1. f = <<mem[p].ptr>>
          BY <2>3, <4>1 DEF DirectoryFrees
        <5>2. QED
          BY <1>2, <4>1, <5>1, PtrsShort
      <4>2. CASE mem[mem[p].ptr].items # Null
        <5>1. f = <<mem[mem[p].ptr].items, mem[p].ptr>>
          BY <2>3, <4>2 DEF DirectoryFrees
        <5>2. QED
          BY <1>2, <3>2, <4>2, <5>1, PtrsShort
      <4>3. QED
        BY <4>1, <4>2
    <3> HIDE DEF f
    <3>4. Ptrs(f \o <<p>>) = Ptrs(f) \cup {p} /\ f \o <<p>> \in Seq(Pointers)
      <4>1. f \in Seq(Pointers) /\ <<p>> \in Seq(Pointers)
        BY <2>1, <3>3
      <4>2. Ptrs(f \o <<p>>) = Ptrs(f) \cup Ptrs(<<p>>) /\ f \o <<p>> \in Seq(Pointers)
        BY <4>1, PtrsConcat
      <4>3. QED
        BY <4>2, PtrsShort
    <3>5. QED
      BY <1>2, <1>4, <2>1, <2>3, <3>1, <3>3, <3>4
  <2>4. QED
    BY <2>2, <2>3
<1>5. QED
  BY <1>2, <1>3, <1>4

\* If what fat_free_item frees is held, then nothing else owns it but the item.
LEMMA ItemFreed ==
  ASSUME TypeInv, Owned, NEW p, ItemReadable(p), Ptrs(ItemFrees(p)) \subseteq taken
  PROVE  /\ p \in Ptrs(ItemFrees(p))
         /\ \A b \in Ptrs(ItemFrees(p)) \ {p} : mem[b].kind \in {"record", "dir", "entries"}
         /\ \A b \in taken \ Ptrs(ItemFrees(p)) :
              OwnedBy(mem[b]) \in Ptrs(ItemFrees(p)) => OwnedBy(mem[b]) = p
<1> DEFINE F == Ptrs(ItemFrees(p))
<1> DEFINE q == mem[p].ptr
<1>1. /\ ItemFrees(p) \in Seq(Pointers)
      /\ mem[p].type \in {"file", "dir"} /\ q \in Pointers
      /\ mem[p].type = "file" => F = {p, q}
      /\ mem[p].type = "dir" /\ q = Null => F = {p}
      /\ mem[p].type = "dir" /\ q # Null =>
           IsA(q, "dir") /\ F = {p, q} \cup (IF mem[q].items = Null THEN {} ELSE {mem[q].items})
  BY ItemPtrs
<1>2. p \in F /\ F \subseteq Blocks /\ p \in taken /\ mem[p].kind = "item"
  BY <1>1 DEF TypeInv, ItemReadable, IsA
<1>3. \A b \in taken : OwnedBy(mem[b]) \in Blocks =>
        /\ mem[OwnedBy(mem[b])].kind = OwnedKind[mem[b].kind]
        /\ mem[OwnedBy(mem[b])].kind # "dir"
  BY Owners DEF Owned, Held
<1>4. CASE mem[p].type = "file"
  <2>1. OwnedBy(mem[p]) = q /\ q \in Blocks /\ F = {p, q}
    BY <1>1, <1>2, <1>4 DEF OwnedBy
  <2>2. OwnedKind["item"] = "record"
    BY DEF OwnedKind
  <2>3. mem[q].kind = "record"
    BY <1>2, <1>3, <2>1, <2>2
  <2>4. \A b \in taken : OwnedBy(mem[b]) = q => b = p
    BY <1>2, <2>1 DEF Owned
  <2>5. QED
    BY <1>2, <2>1, <2>3, <2>4
<1>5. CASE mem[p].type = "dir" /\ q = Null
  BY <1>1, <1>2, <1>5
<1>6. CASE mem[p].type = "dir" /\ q # Null
  <2>1. IsA(q, "dir") /\ q \in taken /\ mem[q].kind = "dir" /\ OwnedBy(mem[q]) = mem[q].items
    BY <1>1, <1>6 DEF IsA, OwnedBy
  <2>2. \A b \in taken : OwnedBy(mem[b]) # q
    BY <1>3, <2>1 DEF IsA
  <2>3. CASE mem[q].items = Null
    BY <1>1, <1>2, <1>6, <2>1, <2>2, <2>3
  <2>4. CASE mem[q].items # Null
    <3>1. F = {p, q, mem[q].items} /\ mem[q].items \in Blocks
      BY <1>1, <1>2, <1>6, <2>4
    <3>2. OwnedKind["dir"] = "entries"
      BY DEF OwnedKind
    <3>3. mem[mem[q].items].kind = "entries"
      BY <1>3, <2>1, <3>1, <3>2
    <3>4. \A b \in taken : OwnedBy(mem[b]) = mem[q].items => b = q
      BY <2>1, <3>1 DEF Owned
    <3>5. QED
      BY <1>2, <2>1, <2>2, <3>1, <3>3, <3>4
  <2>5. QED
    BY <2>3, <2>4
<1>7. QED
  BY <1>1, <1>4, <1>5, <1>6

LEMMA DropCurrentInv ==
  ASSUME TypeInv, Safe, fault = "none", DropCurrent
  PROVE  TypeInv' /\ (fault' = "none" => Safe')
<1>1. /\ pc = "drop"
      /\ UNCHANGED <<mem, table, ret, req, list, fatd, level, tmp, node, opens>>
  BY DEF DropCurrent
<1>2. CASE cur # Null /\ ~ItemReadable(cur)
  <2>1. fault' = "deref" /\ UNCHANGED <<taken, cur, pc>>
    BY <1>2 DEF DropCurrent
  <2>2. QED
    BY <1>1, <2>1 DEF TypeInv
<1>3. CASE cur = Null \/ ItemReadable(cur)
  <2>1. /\ Kfree(Dropped) /\ cur' = tmp
        /\ pc' = IF level = Len(list) \/ (level = 1 /\ tmp = Null) THEN "found" ELSE "descend"
    BY <1>3 DEF DropCurrent
  <2> DEFINE F == Ptrs(Dropped)
  <2>2. \/ F \subseteq taken /\ taken' = taken \ F /\ fault' = fault
        \/ taken' = taken /\ fault' = "kfree"
    BY <2>1 DEF Kfree, Ptrs
  <2>3. TypeInv'
    BY <1>1, <2>1, <2>2 DEF TypeInv, Pcs
  <2>4. ASSUME fault' = "none"
        PROVE  Safe'
    <3>1. F \subseteq taken /\ taken' = taken \ F
      BY <2>2, <2>4
    <3>2. /\ \A b \in F : mem[b].kind \in {"record", "dir", "entries"} \/ b = cur
          /\ \A b \in taken \ F : OwnedBy(mem[b]) \in F => OwnedBy(mem[b]) = cur
      <4>1. CASE cur = Null
        <5>1. F = {}
          BY <4>1, PtrsShort DEF Dropped
        <5>2. QED
          BY <5>1
      <4>2. CASE cur # Null
        <5>1. Dropped = ItemFrees(cur) /\ ItemReadable(cur)
          BY <1>3, <4>2 DEF Dropped
        <5>2. QED
          BY <3>1, <5>1, ItemFreed DEF Safe
      <4>3. QED
        BY <4>1, <4>2
    <3>3. /\ tmp # Null => tmp # cur /\ Held(tmp, "item")
          /\ cur # Null => Held(cur, "item")
          /\ Held(fatd, "fatdesc") /\ fatd \in Blocks
      BY <1>1 DEF Safe, Building, Parsing, Making
    <3>4. \A b \in taken : OwnedBy(mem[b]) \in Blocks => OwnedBy(mem[b]) \notin {fatd, cur, tmp}
      BY <1>1, Unowned
    <3>5. Owned'
      <4>1. \A b \in taken \ F : OwnedBy(mem[b]) \in Blocks => OwnedBy(mem[b]) \notin F
        BY <3>2, <3>4
      <4>2. Owned /\ \A b \in taken \ F : mem'[b] = mem[b]
        BY <1>1 DEF Safe
      <4>3. QED
        BY <3>1, <4>1, <4>2, FreeStep
    <3>6. Slots'
      <4>1. ASSUME NEW k \in OpenFds
            PROVE  table[k] \in taken \ F
        <5>1. table[k] \in taken /\ mem[table[k]].kind = "desc" /\ table[k] # Null
          BY PointersAre DEF TypeInv, Safe, Slots, Held
        <5>2. table[k] # cur
          BY <3>3, <5>1 DEF Held
        <5>3. QED
          BY <3>2, <5>1, <5>2
      <4>2. QED
        BY <1>1, <3>1, <4>1 DEF Safe, Slots, OpenFds, Held
    <3>7. Building'
      <4>1. tmp # Null => tmp \in taken'
        BY <3>1, <3>2, <3>3 DEF Held
      <4>2. fatd \in taken'
        BY <3>1, <3>2, <3>3, PointersAre DEF Held
      <4>3. pc' \in {"found", "descend"} /\ (pc' = "descend" => level < Len(list))
        BY <2>1, LenProperties DEF TypeInv
      <4>4. QED
        BY <1>1, <2>1, <3>1, <3>3, <3>4, <4>1, <4>2, <4>3 DEF Building, Parsing, Making, Held
    <3>8. QED
      BY <3>5, <3>6, <3>7 DEF Safe
  <2>5. QED
    BY <2>3, <2>4
<1>4. QED
  BY <1>2, <1>3

LEMMA DescendInv ==
  ASSUME TypeInv, Safe, fault = "none", Descend
  PROVE  TypeInv' /\ (fault' = "none" => Safe')
<1>1. pc = "descend" /\ UNCHANGED <<taken, mem, table, opens>>
  BY DEF Descend, heapVars
<1>2. CASE fault' = "deref" /\ UNCHANGED <<ret, pc, openVars>>
  BY <1>1, <1>2 DEF TypeInv, openVars
<1>3. CASE Return(0) /\ UNCHANGED fault
  BY <1>1, <1>3, ReturnInv
<1>4. CASE pc' = "lookup" /\ UNCHANGED <<fault, ret, openVars>>
  <2>1. UNCHANGED <<req, list, fatd, level, cur, tmp, node>>
    BY <1>4 DEF openVars
  <2>2. TypeInv'
    BY <1>1, <1>4, <2>1 DEF TypeInv, Pcs
  <2>3. Owned' /\ Slots'
    BY <1>1, SameHeap, SlotsStay DEF Safe
  <2>4. Building'
    BY <1>1, <1>4, <2>1, Unowned DEF Safe, Building, Parsing, Making, Held
  <2>5. QED
    BY <2>2, <2>3, <2>4 DEF Safe
<1>5. QED
  BY <1>2, <1>3, <1>4 DEF Descend

LEMMA FoundInv ==
  ASSUME TypeInv, Safe, fault = "none", Found
  PROVE  TypeInv' /\ Safe'
<1>1. pc = "found" /\ UNCHANGED <<taken, table, fault, opens>>
  BY DEF Found
<1>2. CASE cur = Null
  <2>1. Return(0) /\ UNCHANGED mem
    BY <1>2 DEF Found
  <2>2. QED
    BY <1>1, <2>1, ReturnInv
<1>3. CASE cur # Null
  <2>1. /\ mem' = [mem EXCEPT ![fatd] = FatDesc(cur, 0)] /\ pc' = "newfd"
        /\ UNCHANGED <<ret, req, list, fatd, level, cur, tmp, node>>
    BY <1>3 DEF Found, openVars
  <2>2. /\ fatd \in Blocks /\ Held(fatd, "fatdesc") /\ Held(cur, "item")
        /\ cur \in Blocks /\ fatd # cur /\ (tmp # Null => Held(tmp, "item"))
    BY <1>1, <1>3 DEF TypeInv, Safe, Building, Parsing, Making, Held
  <2>3. mem'[fatd] = FatDesc(cur, 0) /\ \A b \in Blocks \ {fatd} : mem'[b] = mem[b]
    BY <2>1, <2>2 DEF TypeInv
  <2>4. OwnedBy(mem'[fatd]) = cur /\ mem'[fatd].kind = "fatdesc"
    BY <2>3, OwnedByMade
  <2>5. FatDesc(cur, 0) \in Objects
    <3>1. 0 \in 0 .. WordMod - 1
      BY FileTableAssumption
    <3>2. QED
      BY <2>2, <3>1, ObjectTypes, PointersAre
  <2>6. TypeInv'
    BY <1>1, <2>1, <2>5 DEF TypeInv, Pcs
  <2>7. \A b \in Blocks : mem'[b].kind = mem[b].kind
    BY <2>2, <2>3, <2>4 DEF Held
  <2>8. \A b \in taken \ {fatd} :
          /\ b \in Blocks /\ mem'[b] = mem[b]
          /\ OwnedBy(mem[b]) \in Blocks =>
               OwnedBy(mem[b]) \in taken /\ OwnedBy(mem[b]) \notin {fatd, cur, tmp}
    BY <1>1, <2>3, Unowned DEF TypeInv
  <2>9. Owned'
    <3>1. Owned /\ OwnedKind["fatdesc"] = "item"
      BY DEF Safe, OwnedKind
    <3>2. \A c \in taken' : c # fatd /\ OwnedBy(mem'[c]) \in Blocks =>
           /\ c \in taken /\ OwnedBy(mem[c]) = OwnedBy(mem'[c]) /\ mem[c].kind = mem'[c].kind
           /\ OwnedBy(mem'[c]) \in taken'
           /\ mem'[OwnedBy(mem'[c])].kind = mem[OwnedBy(mem'[c])].kind
      BY <1>1, <2>7, <2>8
    <3>3. fatd \in taken' /\ OwnedBy(mem'[fatd]) \in Blocks =>
           /\ OwnedBy(mem'[fatd]) \in taken'
           /\ mem'[OwnedBy(mem'[fatd])].kind = OwnedKind[mem'[fatd].kind]
           /\ \A c \in taken' : c # fatd => OwnedBy(mem'[c]) # OwnedBy(mem'[fatd])
      BY <1>1, <2>2, <2>3, <2>4, <2>8, <3>1 DEF Held
    <3>4. QED
      BY <3>1, <3>2, <3>3, OwnedStep
  <2>10. Slots'
    BY <1>1, <2>2, <2>3 DEF TypeInv, Safe, Slots, OpenFds, Held
  <2>11. Building'
    <3>1. Held(fatd, "fatdesc")' /\ Held(cur, "item")' /\ (tmp # Null => Held(tmp, "item")')
      BY <1>1, <2>1, <2>2, <2>7 DEF TypeInv, Held
    <3>2. \A b \in taken' : OwnedBy(mem'[b]) \in Blocks => OwnedBy(mem'[b]) # fatd
      BY <1>1, <2>2, <2>4, <2>8
    <3>3. \A b \in taken' : OwnedBy(mem'[b]) \in Blocks /\ OwnedBy(mem'[b]) \in {cur, tmp} =>
            b = fatd
      BY <1>1, <2>8
    <3>4. fatd # Null
      BY <2>2, PointersAre
    <3>5. QED
      BY <2>1, <3>1, <3>2, <3>3, <3>4 DEF Building, Parsing, Making
  <2>12. QED
    BY <2>6, <2>9, <2>10, <2>11 DEF Safe
<1>4. QED
  BY <1>2, <1>3

-----------------------------------------------------------------------------
(* file_new_descriptor, and the calls on an open descriptor.               *)

LEMMA NewDescriptorInv ==
  ASSUME TypeInv, Safe, fault = "none", NewDescriptor
  PROVE  TypeInv' /\ Safe'
<1>1. pc = "newfd" /\ UNCHANGED <<fault, opens>>
  BY DEF NewDescriptor
<1>2. CASE FreeSlots = {}
  <2>1. Return(0) /\ UNCHANGED <<taken, mem, table>>
    BY <1>2 DEF NewDescriptor, heapVars
  <2>2. QED
    BY <1>1, <2>1, ReturnInv
<1>3. CASE FreeSlots # {}
  <2> DEFINE k == CHOOSE s \in FreeSlots : \A t \in FreeSlots : s <= t
  <2>1. k \in FreeSlots
    <3>1. FreeSlots \subseteq Nat
      BY PointersAre DEF FreeSlots
    <3>2. QED
      BY <1>3, <3>1, LeastElement
  <2>2. k \in Fds /\ table[k] = Null /\ IndexOf(k) = k /\ k \in Nat
    BY <2>1, PointersAre DEF FreeSlots, IndexOf
  <2>3. /\ Return(IndexOf(k))
        /\ \/ OutOfMemory /\ UNCHANGED <<taken, mem, table>>
           \/ /\ ~OutOfMemory /\ Kzalloc(Desc(IndexOf(k), fatd))
              /\ table' = [table EXCEPT ![k] = Lowest]
    BY <1>3 DEF NewDescriptor, heapVars
  <2> HIDE DEF k
  <2>4. CASE OutOfMemory
    <3>1. Return(k) /\ UNCHANGED <<taken, mem, table>> /\ k \in Int
      BY <2>2, <2>3, <2>4
    <3>2. QED
      BY <1>1, <3>1, ReturnInv
  <2>5. CASE ~OutOfMemory
    <3>1. /\ ret' = k /\ pc' = "idle" /\ list' = <<>> /\ fatd' = Null /\ level' = 0
          /\ cur' = Null /\ tmp' = Null /\ node' = None /\ req' = req
      BY <2>2, <2>3 DEF Return
    <3>2. /\ taken' = taken \cup {Lowest} /\ mem' = [mem EXCEPT ![Lowest] = Desc(k, fatd)]
          /\ table' = [table EXCEPT ![k] = Lowest]
      BY <2>2, <2>3, <2>5 DEF Kzalloc
    <3>3. Lowest \in Blocks /\ Lowest \notin taken
      BY <2>5, LowestFree DEF TypeInv
    <3>4. /\ mem'[Lowest] = Desc(k, fatd) /\ OwnedBy(mem'[Lowest]) = fatd
          /\ mem'[Lowest].kind = "desc" /\ mem'[Lowest].index = k
          /\ \A b \in taken : mem'[b] = mem[b]
      BY <3>2, <3>3, OwnedByMade DEF TypeInv
    <3>5. Desc(k, fatd) \in Objects
      BY <2>2, ObjectTypes DEF TypeInv
    <3>6. TypeInv'
      <4>1. Len(req.parts) \in Nat /\ list' \in Seq(Names) /\ Len(list') = 0
        BY <3>1, RequestFacts DEF TypeInv
      <4>2. taken' \subseteq Blocks /\ mem' \in [Blocks -> Objects] /\ table' \in [Fds -> Pointers]
        BY <3>2, <3>3, <3>5, PointersAre DEF TypeInv
      <4>3. QED
        BY <1>1, <2>2, <3>1, <4>1, <4>2, PointersAre DEF TypeInv, Pcs
    <3>7. \A b \in taken : OwnedBy(mem[b]) \in Blocks =>
            OwnedBy(mem[b]) \in taken /\ OwnedBy(mem[b]) # fatd
      BY DEF Safe, Owned, Building, Held
    <3>8. Owned'
      <4>1. Owned /\ OwnedKind["desc"] = "fatdesc"
        BY DEF Safe, OwnedKind
      <4>2. \A c \in taken' : c # Lowest /\ OwnedBy(mem'[c]) \in Blocks =>
             /\ c \in taken /\ OwnedBy(mem[c]) = OwnedBy(mem'[c]) /\ mem[c].kind = mem'[c].kind
             /\ OwnedBy(mem'[c]) \in taken'
             /\ mem'[OwnedBy(mem'[c])].kind = mem[OwnedBy(mem'[c])].kind
        BY <3>2, <3>4, <3>7
      <4>3. fatd \in Blocks => Held(fatd, "fatdesc")
        BY DEF Safe, Building
      <4>4. Lowest \in taken' /\ OwnedBy(mem'[Lowest]) \in Blocks =>
             /\ OwnedBy(mem'[Lowest]) \in taken'
             /\ mem'[OwnedBy(mem'[Lowest])].kind = OwnedKind[mem'[Lowest].kind]
             /\ \A c \in taken' : c # Lowest => OwnedBy(mem'[c]) # OwnedBy(mem'[Lowest])
        BY <3>2, <3>4, <3>7, <4>1, <4>3 DEF Held
      <4>5. QED
        BY <4>1, <4>2, <4>4, OwnedStep
    <3>9. Slots'
      <4>1. ASSUME NEW j \in Fds, table'[j] # Null
            PROVE  /\ table'[j] \in taken' /\ mem'[table'[j]].kind = "desc"
                   /\ mem'[table'[j]].index = j
        <5>1. CASE j = k
          BY <2>2, <3>2, <3>4, <5>1 DEF TypeInv
        <5>2. CASE j # k
          <6>1. table'[j] = table[j] /\ j \in OpenFds
            BY <3>2, <4>1, <5>2 DEF TypeInv, OpenFds
          <6>2. Held(table[j], "desc") /\ mem[table[j]].index = j
            BY <6>1 DEF Safe, Slots
          <6>3. QED
            BY <3>2, <3>4, <6>1, <6>2 DEF Held
        <5>3. QED
          BY <5>1, <5>2
      <4>2. QED
        BY <4>1 DEF Slots, OpenFds, Held
    <3>10. Building'
      BY <3>1, PointersAre DEF Building, Parsing, Making
    <3>11. QED
      BY <3>6, <3>8, <3>9, <3>10 DEF Safe
  <2>6. QED
    BY <2>4, <2>5
<1>4. QED
  BY <1>2, <1>3

\* While no call of fopen runs, nothing is being built.
LEMMA IdleBuilding ==
  ASSUME Safe, pc = "idle", pc' = pc, UNCHANGED openVars
  PROVE  Building'
<1>1. UNCHANGED <<fatd, cur, tmp, level>>
  BY DEF openVars
<1>2. QED
  BY <1>1, ParsingBuilding DEF Parsing

LEMMA QueryInv ==
  ASSUME TypeInv, Safe, fault = "none", NEW fd, NEW e \in Int, NEW res \in SUBSET Int,
         QueryCall(fd, e, res)
  PROVE  TypeInv' /\ (fault' = "none" => Safe')
<1>1. /\ pc = "idle" /\ UNCHANGED <<taken, mem, table, pc, openVars, opens>>
      /\ ret' \in Int /\ fault' \in {"none", "deref"}
  BY DEF QueryCall, heapVars, TypeInv
<1>2. TypeInv'
  BY <1>1 DEF TypeInv, openVars
<1>3. Owned' /\ Slots'
  BY <1>1, SameHeap, SlotsStay DEF Safe
<1>4. Building'
  BY <1>1, IdleBuilding
<1>5. QED
  BY <1>2, <1>3, <1>4 DEF Safe

\* fclose and fseek are given descriptor numbers.
LEMMA GotDescriptor ==
  ASSUME TypeInv, Slots, NEW fd, GetDescriptor(fd) # Null
  PROVE  /\ fd \in OpenFds /\ GetDescriptor(fd) = table[fd]
         /\ table[fd] \in taken /\ mem[table[fd]].kind = "desc" /\ mem[table[fd]].index = fd
BY DEF GetDescriptor, OpenFds, Slots, Held

LEMMA FseekInv ==
  ASSUME TypeInv, Safe, fault = "none", NEW fd, NEW off \in Offsets,
         NEW w \in {"SET", "CUR", "END"}, Fseek(fd, off, w)
  PROVE  TypeInv' /\ (fault' = "none" => Safe')
<1> DEFINE d == GetDescriptor(fd)
<1>1. pc = "idle" /\ UNCHANGED <<taken, table, pc, openVars, opens>>
  BY DEF Fseek
<1>2. /\ mem' \in [Blocks -> Objects] /\ ret' \in Int /\ fault' \in {"none", "deref"}
      /\ \A b \in taken : /\ OwnedBy(mem'[b]) = OwnedBy(mem[b]) /\ mem'[b].kind = mem[b].kind
                          /\ mem[b].kind # "fatdesc" => mem'[b] = mem[b]
  <2>1. CASE d = Null
    BY <2>1 DEF Fseek, TypeInv
  <2>2. CASE d # Null
    <3>1. CASE fault' = "deref" /\ UNCHANGED <<mem, ret>>
      BY <3>1 DEF TypeInv
    <3>2. CASE /\ Readable(d) /\ mem' = [mem EXCEPT ![Private(d)].pos = SeekTarget(fd, off, w)]
               /\ ret' = SeekResult(fd, off, w) /\ fault' = fault
      <4>1. Private(d) \in Blocks /\ mem[Private(d)] \in FatDescs
        BY <3>2, ObjectKinds DEF Readable, IsA, TypeInv
      <4>2. SeekTarget(fd, off, w) \in 0 .. WordMod - 1
        <5>1. /\ WordMod \in Nat \ {0} /\ off \in 0 .. WordMod - 1
              /\ mem[Private(d)].pos \in 0 .. WordMod - 1
          BY <4>1, FileTableAssumption DEF FatDescs
        <5>2. (mem[Private(d)].pos + off) % WordMod \in 0 .. WordMod - 1
          BY <5>1
        <5>3. QED
          BY <5>1, <5>2 DEF SeekTarget
      <4>3. mem'[Private(d)] = FatDesc(mem[Private(d)].item, SeekTarget(fd, off, w))
        BY <3>2, <4>1, ObjectSet DEF TypeInv
      <4>4. /\ mem[Private(d)].item \in Pointers /\ mem[Private(d)].kind = "fatdesc"
            /\ OwnedBy(mem[Private(d)]) = mem[Private(d)].item
        BY <4>1 DEF FatDescs, OwnedBy
      <4>5. /\ mem'[Private(d)] \in Objects
            /\ OwnedBy(mem'[Private(d)]) = OwnedBy(mem[Private(d)])
            /\ mem'[Private(d)].kind = "fatdesc"
        BY <4>2, <4>3, <4>4, ObjectTypes, OwnedByMade
      <4>6. \A b \in Blocks \ {Private(d)} : mem'[b] = mem[b]
        BY <3>2 DEF TypeInv
      <4>7. mem' \in [Blocks -> Objects]
        <5>1. mem' = [b \in Blocks |-> mem'[b]]
          BY <3>2 DEF TypeInv
        <5>2. QED
          BY <4>5, <4>6, <5>1 DEF TypeInv
      <4>8. ret' \in Int
        BY <3>2 DEF SeekResult
      <4>9. QED
        BY <3>2, <4>4, <4>5, <4>6, <4>7, <4>8 DEF TypeInv
    <3>3. QED
      BY <2>2, <3>1, <3>2 DEF Fseek
  <2>3. QED
    BY <2>1, <2>2
<1>3. TypeInv'
  BY <1>1, <1>2 DEF TypeInv, openVars
<1>4. Owned'
  BY <1>1, <1>2 DEF Safe, Owned, Held
<1>5. Slots'
  BY <1>1, <1>2 DEF Safe, Slots, OpenFds, Held
<1>6. Building'
  BY <1>1, IdleBuilding
<1>7. QED
  BY <1>3, <1>4, <1>5, <1>6 DEF Safe

\* What fclose frees is the item and what is behind it, and then the private
\* data and the descriptor.
ClosePtrs(d) == Ptrs(ItemFrees(ItemOf(d)) \o <<Private(d), d>>)

\* Nothing that stays in use owns anything that fclose frees.
LEMMA CloseFreed ==
  ASSUME TypeInv, Owned, NEW d \in taken, Readable(d), ItemReadable(ItemOf(d)),
         ClosePtrs(d) \subseteq taken
  PROVE  /\ ClosePtrs(d) = Ptrs(ItemFrees(ItemOf(d))) \cup {Private(d), d}
         /\ \A b \in ClosePtrs(d) \ {d} : mem[b].kind # "desc"
         /\ \A b \in taken \ ClosePtrs(d) :
              OwnedBy(mem[b]) \in Blocks => OwnedBy(mem[b]) \notin ClosePtrs(d)
<1> DEFINE i == ItemOf(d)
<1> DEFINE p == Private(d)
<1> DEFINE F == Ptrs(ItemFrees(i))
<1>1. /\ d \in Blocks /\ mem[d].kind = "desc" /\ OwnedBy(mem[d]) = p
      /\ p \in Blocks /\ mem[p].kind = "fatdesc" /\ OwnedBy(mem[p]) = i
      /\ i \in Blocks /\ mem[i].kind = "item"
  BY DEF Readable, IsA, Private, ItemOf, OwnedBy
<1>2. ClosePtrs(d) = F \cup {p, d}
  <2>1. ItemFrees(i) \in Seq(Pointers)
    BY ItemPtrs
  <2>2. p \in Pointers /\ d \in Pointers
    BY <1>1, PointersAre
  <2>3. QED
    BY <2>1, <2>2, PtrsPair DEF ClosePtrs
<1>3. /\ F \subseteq taken /\ p \in taken /\ i \in F
      /\ \A b \in F \ {i} : mem[b].kind \in {"record", "dir", "entries"}
      /\ \A b \in taken \ F : OwnedBy(mem[b]) \in F => OwnedBy(mem[b]) = i
  BY <1>2, ItemFreed
<1>4. ASSUME NEW b \in taken \ ClosePtrs(d), OwnedBy(mem[b]) \in Blocks
      PROVE  OwnedBy(mem[b]) \notin ClosePtrs(d)
  <2>1. OwnedBy(mem[b]) # i
    BY <1>1, <1>2, <1>3, <1>4 DEF Owned
  <2>2. OwnedBy(mem[b]) # p
    BY <1>1, <1>2, <1>4 DEF Owned
  <2>3. OwnedBy(mem[b]) # d
    <3>1. mem[OwnedBy(mem[b])].kind = OwnedKind[mem[b].kind]
      BY <1>4 DEF Owned, Held
    <3>2. QED
      BY <1>1, <1>4, <3>1, Owners
  <2>4. QED
    BY <1>2, <1>3, <1>4, <2>1, <2>2, <2>3
<1>5. QED
  BY <1>1, <1>2, <1>3, <1>4

LEMMA FcloseInv ==
  ASSUME TypeInv, Safe, fault = "none", NEW fd, Fclose(fd)
  PROVE  TypeInv' /\ (fault' = "none" => Safe')
<1> DEFINE d == GetDescriptor(fd)
<1>1. pc = "idle" /\ UNCHANGED <<mem, pc, openVars, opens>>
  BY DEF Fclose
<1>2. Building'
  BY <1>1, IdleBuilding
<1>3. CASE UNCHANGED <<taken, table>> /\ ret' \in Int /\ fault' \in {"none", "deref"}
  <2>1. TypeInv'
    BY <1>1, <1>3 DEF TypeInv, openVars
  <2>2. Owned' /\ Slots'
    BY <1>1, <1>3, SameHeap, SlotsStay DEF Safe
  <2>3. QED
    BY <1>2, <2>1, <2>2 DEF Safe
<1>4. CASE /\ d # Null /\ Readable(d) /\ ItemReadable(ItemOf(d)) /\ mem[d].index \in Fds
           /\ Kfree(ItemFrees(ItemOf(d)) \o <<Private(d), d>>)
           /\ table' = TableAfterClose(d) /\ ret' = 0
  <2>1. \/ ClosePtrs(d) \subseteq taken /\ taken' = taken \ ClosePtrs(d) /\ fault' = fault
        \/ taken' = taken /\ fault' = "kfree"
    BY <1>4 DEF Kfree, ClosePtrs, Ptrs
  <2>2. table' = [table EXCEPT ![mem[d].index] = Null] /\ table' \in [Fds -> Pointers]
    BY <1>4, PointersAre DEF TableAfterClose, TypeInv
  <2>3. TypeInv'
    BY <1>1, <1>4, <2>1, <2>2 DEF TypeInv, openVars
  <2>4. ASSUME fault' = "none"
        PROVE  Owned' /\ Slots'
    <3>1. ClosePtrs(d) \subseteq taken /\ taken' = taken \ ClosePtrs(d)
      BY <2>1, <2>4
    <3>2. d \in taken /\ fd \in OpenFds /\ d = table[fd] /\ mem[d].index = fd
      BY <1>4, GotDescriptor DEF Safe
    <3>3. /\ \A b \in ClosePtrs(d) \ {d} : mem[b].kind # "desc"
          /\ \A b \in taken \ ClosePtrs(d) :
               OwnedBy(mem[b]) \in Blocks => OwnedBy(mem[b]) \notin ClosePtrs(d)
      BY <1>4, <3>1, <3>2, CloseFreed DEF Safe
    <3>4. Owned'
      <4>1. Owned /\ \A b \in taken \ ClosePtrs(d) : mem'[b] = mem[b]
        BY <1>1 DEF Safe
      <4>2. QED
        BY <3>1, <3>3, <4>1, FreeStep
    <3>5. Slots'
      <4>1. ASSUME NEW k \in Fds, table'[k] # Null
            PROVE  /\ table'[k] \in taken' /\ mem'[table'[k]].kind = "desc"
                   /\ mem'[table'[k]].index = k
        <5>1. k # fd /\ table'[k] = table[k] /\ k \in OpenFds
          BY <2>2, <3>2, <4>1 DEF TypeInv, OpenFds
        <5>2. table[k] \in taken /\ mem[table[k]].kind = "desc" /\ mem[table[k]].index = k
          BY <5>1 DEF Safe, Slots, Held
        <5>3. table[k] # d
          BY <3>2, <5>1, <5>2
        <5>4. QED
          BY <1>1, <3>1, <3>3, <5>1, <5>2, <5>3
      <4>2. QED
        BY <4>1 DEF Slots, OpenFds, Held
    <3>6. QED
      BY <3>4, <3>5
  <2>5. QED
    BY <1>2, <2>3, <2>4 DEF Safe
<1>5. QED
  BY <1>3, <1>4 DEF Fclose, TypeInv

-----------------------------------------------------------------------------
(* What holds whatever fails.                                              *)

\* The calls on descriptors are queries with integer results.
LEMMA CallInv ==
  ASSUME TypeInv, Safe, fault = "none", Call
  PROVE  TypeInv' /\ (fault' = "none" => Safe')
<1>1. CASE \E r \in Requests : Fopen(r)
  BY <1>1, FopenInv
<1>2. ASSUME NEW fd, Fread(fd)
      PROVE  TypeInv' /\ (fault' = "none" => Safe')
  <2>1. QueryCall(fd, -2, {1, -1})
    BY <1>2 DEF Fread
  <2>2. QED
    BY <2>1, QueryInv
<1>3. ASSUME NEW fd, Fstat(fd)
      PROVE  TypeInv' /\ (fault' = "none" => Safe')
  <2>1. PICK res \in SUBSET Int : QueryCall(fd, -1, res)
    BY <1>3 DEF Fstat
  <2>2. QED
    BY <2>1, QueryInv
<1>4. ASSUME NEW fd, Fclose(fd)
      PROVE  TypeInv' /\ (fault' = "none" => Safe')
  BY <1>4, FcloseInv
<1>5. ASSUME NEW fd, \E off \in Offsets, w \in {"SET", "CUR", "END"} : Fseek(fd, off, w)
      PROVE  TypeInv' /\ (fault' = "none" => Safe')
  BY <1>5, FseekInv
<1>6. QED
  BY <1>1, <1>2, <1>3, <1>4, <1>5 DEF Call

LEMMA FopenStepInv ==
  ASSUME TypeInv, Safe, fault = "none", Step
  PROVE  TypeInv' /\ (fault' = "none" => Safe')
<1>1. CASE CreateRoot \/ PathEnds \/ NamePart \/ AddPart
  BY <1>1, CreateRootInv, PathEndsInv, NamePartInv, AddPartInv
<1>2. CASE CheckFails \/ WriteMode \/ FatOpen
  BY <1>2, CheckFailsInv, WriteModeInv, FatOpenInv
<1>3. CASE Lookup \/ CreateItem \/ CloneItem \/ LoadDirectory
  BY <1>3, LookupInv, CreateItemInv, CloneItemInv, LoadDirectoryInv
<1>4. CASE \E res \in ReadResults : LoadEntries(res)
  BY <1>4, LoadEntriesInv
<1>5. CASE DropCurrent \/ Descend \/ Found \/ NewDescriptor
  BY <1>5, DropCurrentInv, DescendInv, FoundInv, NewDescriptorInv
<1>6. QED
  BY <1>1, <1>2, <1>3, <1>4, <1>5 DEF Step

LEMMA StepInv == IInv /\ [Next]_vars => IInv'
<1> SUFFICES ASSUME IInv, [Next]_vars PROVE IInv'
  OBVIOUS
<1>1. CASE fault = "none" /\ (Call \/ Step)
  BY <1>1, CallInv, FopenStepInv DEF IInv
<1>2. CASE UNCHANGED vars
  <2>1. UNCHANGED <<taken, mem, table, fault, ret, pc, req, list, fatd, level, cur, tmp, node, opens>>
    BY <1>2 DEF vars, heapVars, openVars
  <2>2. TypeInv'
    BY <2>1 DEF IInv, TypeInv
  <2>3. Safe => Safe'
    BY <2>1 DEF Safe, Owned, Building, Parsing, Making, Slots, OpenFds, Held
  <2>4. QED
    BY <2>1, <2>2, <2>3 DEF IInv
<1>3. QED
  BY <1>1, <1>2 DEF Next, Halted

LEMMA Invariant == Spec => []IInv
BY InitInv, StepInv, PTL DEF Spec

\* Whatever runs out and whatever cannot be read: the blocks in use are blocks
\* of the heap and hold objects of the file layer, the slots hold pointers, and
\* fopen's list and level stay within the path.  (every operation of file.c)
THEOREM TypeCorrect == Spec => []TypeOK
<1>1. IInv => TypeOK
  BY LenProperties, PointersAre DEF IInv, TypeInv, TypeOK
<1>2. QED
  BY Invariant, <1>1, PTL

\* Whatever runs out and whatever cannot be read, until a call faults: a slot
\* of the descriptor table is null or points to a block in use that holds the
\* descriptor of its number, and no two slots point to the same.
\* (file_new_descriptor, file_free_descriptor)
THEOREM SlotsHold == Spec => []SlotsHoldDescriptors
<1>1. IInv => SlotsHoldDescriptors
  <2> SUFFICES ASSUME IInv, fault = "none", NEW k \in OpenFds
               PROVE  /\ table[k] \in taken /\ IsA(table[k], "desc") /\ mem[table[k]].index = k
                      /\ \A j \in OpenFds \ {k} : table[j] # table[k]
    BY DEF SlotsHoldDescriptors
  <2>1. \A j \in OpenFds : /\ table[j] \in taken /\ mem[table[j]].kind = "desc"
                           /\ mem[table[j]].index = j
    BY DEF IInv, Safe, Slots, Held
  <2>2. QED
    BY <2>1 DEF IsA, IInv, TypeInv
<1>2. QED
  BY Invariant, <1>1, PTL

-----------------------------------------------------------------------------
(* What holds while memory lasts, directories can be read and nothing is   *)
(* opened for writing.                                                     *)

\* A step that adds nothing with a part missing.
LEMMA GrowSound ==
  ASSUME TypeInv, Safe, Sound, table' = table,
         taken \subseteq taken', \A b \in taken : mem'[b] = mem[b],
         \A b \in taken' \ taken : mem'[b].kind \notin {"item", "dir"},
         pc \notin Making, pc' \notin Making \cup {"newfd"}, fatd' # ErdonlyPtr,
         pc' = "lookup" /\ cur' # Null => cur' \in taken /\ mem[cur'].type = "dir"
  PROVE  Sound'
<1>1. \A b \in taken' : mem'[b].kind \in {"item", "dir"} => b \in taken /\ mem'[b] = mem[b]
  OBVIOUS
<1>2. \A b : Held(b, "dir") => Held(b, "dir")'
  BY DEF Held
<1>3. Whole'
  <2>1. ASSUME NEW b \in taken', DirItem(b)'
        PROVE  b \in taken /\ DirItem(b) /\ mem'[b] = mem[b] /\ Held(mem[b].ptr, "dir")'
    <3>1. b \in taken /\ mem'[b] = mem[b] /\ DirItem(b)
      BY <1>1, <2>1 DEF DirItem, Held
    <3>2. Held(mem[b].ptr, "dir")
      BY <3>1 DEF Sound, Whole, Making
    <3>3. QED
      BY <1>2, <3>1, <3>2 DEF Held
  <2>2. \A b \in taken' : mem'[b].kind = "dir" => mem'[b].items \in Blocks
    BY <1>1 DEF Sound, Whole, Making
  <2>3. \A b \in taken' : mem'[b].kind = "item" /\ mem'[b].type = "file" => mem'[b].ptr \in Blocks
    BY <1>1 DEF Sound, Whole, Making
  <2>4. QED
    BY <2>1, <2>2, <2>3 DEF Sound, Whole
<1>4. Filled'
  <2>1. ASSUME NEW k \in OpenFds
        PROVE  /\ mem'[table[k]].private \in Blocks
               /\ mem'[mem'[table[k]].private].item \in Blocks
    <3>1. table[k] \in taken /\ mem[table[k]].kind = "desc"
      BY DEF Safe, Slots, Held
    <3>2. mem[table[k]].private \in Blocks /\ mem[mem[table[k]].private].item \in Blocks
      BY DEF Sound, Filled
    <3>3. mem[table[k]].private \in taken
      BY <3>1, <3>2 DEF Safe, Owned, OwnedBy, Held
    <3>4. QED
      BY <3>1, <3>2, <3>3
  <2>2. pc' = "lookup" /\ cur' # Null => mem'[cur'].type = "dir"
    OBVIOUS
  <2>3. QED
    BY <2>1, <2>2 DEF Filled, OpenFds
<1>5. QED
  BY <1>3, <1>4 DEF Sound

LEMMA ReturnSound ==
  ASSUME TypeInv, Safe, Sound, NEW r, Return(r), pc \notin Making,
         UNCHANGED <<taken, mem, table>>
  PROVE  Sound'
<1>1. pc' = "idle" /\ fatd' = Null
  BY DEF Return
<1>2. pc' \notin Making \cup {"newfd"} /\ pc' # "lookup" /\ fatd' # ErdonlyPtr
  BY <1>1, PointersAre DEF Making
<1>3. QED
  BY <1>2, GrowSound

\* Nothing fails before fat16_open.
LEMMA ParseSound ==
  ASSUME TypeInv, Safe, Sound, MemoryLeft,
         CreateRoot \/ PathEnds \/ NamePart \/ AddPart \/ (\E r \in Requests : Fopen(r))
  PROVE  Sound' /\ fault' = fault
<1>1. Lowest \in Blocks /\ Lowest \notin taken /\ ~OutOfMemory
  BY LowestFree DEF TypeInv, MemoryLeft
<1>2. /\ table' = table /\ fatd' = fatd /\ fault' = fault
      /\ pc \in Parsing /\ pc' \in Parsing
      /\ \/ UNCHANGED <<taken, mem>>
         \/ /\ taken' \in {taken, taken \cup {Lowest}}
            /\ \E kd \in {"root", "name", "part"} : mem' = [mem EXCEPT ![Lowest] = Other(kd)]
  <2>1. CASE CreateRoot
    BY <1>1, <2>1 DEF CreateRoot, Kzalloc, Parsing, openVars
  <2>2. CASE PathEnds
    BY <1>1, <2>2 DEF PathEnds, Parsing, openVars
  <2>3. CASE NamePart
    BY <1>1, <2>3 DEF NamePart, Kzalloc, Parsing, openVars
  <2>4. CASE AddPart
    BY <1>1, <2>4 DEF AddPart, Kzalloc, Parsing
  <2>5. CASE \E r \in Requests : Fopen(r)
    BY <2>5 DEF Fopen, Parsing, heapVars
  <2>6. QED
    BY <2>1, <2>2, <2>3, <2>4, <2>5
<1>3. /\ taken \subseteq taken' /\ \A b \in taken : mem'[b] = mem[b]
      /\ \A b \in taken' \ taken : mem'[b].kind \notin {"item", "dir"}
  <2>1. CASE UNCHANGED <<taken, mem>>
    BY <2>1
  <2>2. CASE /\ taken' \in {taken, taken \cup {Lowest}}
             /\ \E kd \in {"root", "name", "part"} : mem' = [mem EXCEPT ![Lowest] = Other(kd)]
    <3>1. PICK kd \in {"root", "name", "part"} : mem' = [mem EXCEPT ![Lowest] = Other(kd)]
      BY <2>2
    <3>2. mem'[Lowest].kind = kd /\ \A b \in taken : mem'[b] = mem[b]
      BY <1>1, <3>1 DEF TypeInv, Other
    <3>3. QED
      BY <2>2, <3>2
  <2>3. QED
    BY <1>2, <2>1, <2>2
<1>4. pc \notin Making /\ pc' \notin Making \cup {"newfd"} /\ pc' # "lookup"
  BY <1>2 DEF Making, Parsing
<1>5. fatd' # ErdonlyPtr
  BY <1>2 DEF Sound, Filled
<1>6. QED
  BY <1>2, <1>3, <1>4, <1>5, GrowSound

LEMMA ChecksSound ==
  ASSUME TypeInv, Safe, Sound, MemoryLeft, OnlyReads, CheckFails \/ WriteMode \/ FatOpen
  PROVE  Sound' /\ fault' = fault
<1>1. CASE CheckFails
  <2>1. pc \notin Making /\ fault' = fault /\ UNCHANGED <<taken, mem, table>>
    BY <1>1 DEF CheckFails, Making, heapVars
  <2>2. \E r : Return(r)
    BY <1>1 DEF CheckFails
  <2>3. QED
    BY <2>1, <2>2, ReturnSound
<1>2. CASE WriteMode
  <2>1. req \in Requests \cup {NoRequest} /\ req.mode \in {"w", "a"}
    BY <1>2 DEF WriteMode, TypeInv
  <2>2. QED
    BY <2>1 DEF OnlyReads, NoRequest
<1>3. CASE FatOpen
  <2>1. ~OutOfMemory /\ Lowest \in Blocks /\ Lowest \notin taken
    BY LowestFree DEF TypeInv, MemoryLeft
  <2>2. /\ pc = "checks" /\ pc' = "lookup" /\ fatd' = Lowest /\ cur' = cur
        /\ table' = table /\ fault' = fault
        /\ taken' = taken \cup {Lowest} /\ mem' = [mem EXCEPT ![Lowest] = FatDesc(Null, 0)]
    BY <1>3, <2>1 DEF FatOpen, Kzalloc
  <2>3. mem'[Lowest].kind = "fatdesc" /\ \A b \in taken : mem'[b] = mem[b]
    BY <2>1, <2>2, OwnedByMade DEF TypeInv
  <2>4. cur = Null
    BY <2>2 DEF Safe, Building, Parsing
  <2>5. fatd' # ErdonlyPtr
    BY <2>1, <2>2, PointersAre
  <2>6. pc \notin Making /\ pc' \notin Making \cup {"newfd"}
    BY <2>2 DEF Making
  <2>7. \A b \in taken' \ taken : mem'[b].kind \notin {"item", "dir"}
    BY <2>2, <2>3
  <2>8. QED
    BY <2>2, <2>3, <2>4, <2>5, <2>6, <2>7, GrowSound
<1>4. QED
  BY <1>1, <1>2, <1>3

\* While no item is being made, every item has its directory entry or listing.
LEMMA ItemWhole ==
  ASSUME TypeInv, Safe, Sound, pc \notin Making, NEW p, Held(p, "item")
  PROVE  /\ p \in Blocks /\ mem[p].type \in {"file", "dir"}
         /\ mem[p].type = "file" => Held(mem[p].ptr, "record") /\ OwnedBy(mem[p]) = mem[p].ptr
         /\ mem[p].type = "dir" =>
              /\ Held(mem[p].ptr, "dir") /\ OwnedBy(mem[mem[p].ptr]) = mem[mem[p].ptr].items
              /\ Held(mem[mem[p].ptr].items, "entries")
<1>1. p \in Blocks /\ p \in taken /\ mem[p].kind = "item" /\ mem[p].type \in {"file", "dir"}
  BY ObjectKinds DEF Held, TypeInv, Items
<1>2. OwnedKind["item"] = "record" /\ OwnedKind["dir"] = "entries"
  BY DEF OwnedKind
<1>3. CASE mem[p].type = "file"
  <2>1. OwnedBy(mem[p]) = mem[p].ptr /\ mem[p].ptr \in Blocks
    BY <1>1, <1>3 DEF Sound, Whole, Making, OwnedBy
  <2>2. QED
    BY <1>1, <1>2, <1>3, <2>1 DEF Safe, Owned, Held
<1>4. CASE mem[p].type = "dir"
  <2>1. Held(mem[p].ptr, "dir")
    BY <1>1, <1>4 DEF Sound, Whole, Making, DirItem, Held
  <2>2. /\ OwnedBy(mem[mem[p].ptr]) = mem[mem[p].ptr].items /\ mem[mem[p].ptr].items \in Blocks
        /\ mem[p].ptr \in taken /\ mem[mem[p].ptr].kind = "dir"
    BY <2>1 DEF Sound, Whole, Making, OwnedBy, Held
  <2>3. QED
    BY <1>1, <1>2, <1>4, <2>1, <2>2 DEF Safe, Owned
<1>5. QED
  BY <1>1, <1>3, <1>4

LEMMA LookupSound ==
  ASSUME TypeInv, Safe, Sound, Lookup
  PROVE  Sound' /\ fault' = fault
<1>1. pc = "lookup" /\ UNCHANGED <<taken, mem, table, fatd, cur>>
  BY DEF Lookup, heapVars
<1>2. ListingReadable(cur)
  <2>1. CASE cur = Null
    BY <2>1 DEF ListingReadable
  <2>2. CASE cur # Null
    <3>1. Held(cur, "item") /\ mem[cur].type = "dir" /\ pc \notin Making
      BY <1>1, <2>2 DEF Safe, Building, Sound, Filled, Making
    <3>2. /\ cur \in Blocks /\ Held(mem[cur].ptr, "dir")
          /\ Held(mem[mem[cur].ptr].items, "entries")
      BY <3>1, ItemWhole
    <3>3. QED
      BY <3>1, <3>2 DEF ListingReadable, IsA, Held, TypeInv
  <2>3. QED
    BY <2>1, <2>2
<1>3. fault' = fault /\ pc' \in {"drop", "item"}
  BY <1>2 DEF Lookup
<1>4. pc \notin Making /\ pc' \notin Making \cup {"newfd"} /\ pc' # "lookup"
  BY <1>1, <1>3 DEF Making
<1>5. fatd' # ErdonlyPtr
  BY <1>1 DEF Sound, Filled
<1>6. QED
  BY <1>1, <1>3, <1>4, <1>5, GrowSound

\* Descriptors and private data that stay as they are stay filled.
LEMMA FilledStays ==
  ASSUME TypeInv, Safe, Filled, table' = table, fatd' = fatd, pc' \notin {"lookup", "newfd"},
         \A b \in taken : mem[b].kind \in {"desc", "fatdesc"} => mem'[b] = mem[b]
  PROVE  Filled'
<1>1. ASSUME NEW k \in OpenFds
      PROVE  mem'[table[k]].private \in Blocks /\ mem'[mem'[table[k]].private].item \in Blocks
  <2>1. table[k] \in taken /\ mem[table[k]].kind = "desc"
    BY DEF Safe, Slots, Held
  <2>2. mem[table[k]].private \in Blocks /\ mem[mem[table[k]].private].item \in Blocks
    BY DEF Filled
  <2>3. OwnedKind["desc"] = "fatdesc" /\ OwnedBy(mem[table[k]]) = mem[table[k]].private
    BY <2>1 DEF OwnedKind, OwnedBy
  <2>4. Held(mem[table[k]].private, "fatdesc")
    BY <2>1, <2>2, <2>3 DEF Safe, Owned
  <2>5. QED
    BY <2>1, <2>2, <2>4 DEF Held
<1>2. QED
  BY <1>1 DEF Filled, OpenFds

LEMMA CreateItemSound ==
  ASSUME TypeInv, Safe, Sound, MemoryLeft, CreateItem
  PROVE  Sound' /\ fault' = fault
<1> DEFINE t == IF node \in Dirs THEN "dir" ELSE "file"
<1>1. Lowest \in Blocks /\ Lowest \notin taken /\ ~OutOfMemory
  BY LowestFree DEF TypeInv, MemoryLeft
<1>2. /\ pc = "item" /\ pc' = (IF t = "dir" THEN "dir" ELSE "clone") /\ tmp' = Lowest
      /\ fault' = fault /\ table' = table /\ fatd' = fatd
      /\ taken' = taken \cup {Lowest} /\ mem' = [mem EXCEPT ![Lowest] = Item(t, Null)]
  BY <1>1 DEF CreateItem, Kzalloc
<1>3. /\ mem'[Lowest].kind = "item" /\ mem'[Lowest].type = t /\ mem'[Lowest].ptr = Null
      /\ \A b \in taken : mem'[b] = mem[b]
  BY <1>1, <1>2, OwnedByMade DEF TypeInv
<1>4. Whole'
  <2>1. ASSUME NEW b \in taken', b # Lowest
        PROVE  b \in taken /\ mem'[b] = mem[b]
    BY <1>2, <1>3, <2>1
  <2>2. \A b \in taken : DirItem(b) => Held(mem[b].ptr, "dir")
    BY <1>2 DEF Sound, Whole
  <2>3. ASSUME NEW b \in taken', DirItem(b)'
        PROVE  \/ b = Lowest /\ pc' = "dir" /\ mem'[b].ptr \notin Blocks
               \/ /\ b \in taken /\ DirItem(b) /\ mem'[b].ptr = mem[b].ptr
                  /\ Held(mem[b].ptr, "dir")'
    <3>1. CASE b = Lowest
      <4>1. mem'[Lowest].type = "dir"
        BY <2>3, <3>1 DEF DirItem
      <4>2. QED
        BY <1>2, <1>3, <3>1, <4>1, PointersAre
    <3>2. CASE b # Lowest
      <4>1. b \in taken /\ mem'[b] = mem[b]
        BY <2>1, <3>2
      <4>2. DirItem(b)
        BY <2>3, <4>1 DEF DirItem, Held
      <4>3. QED
        BY <1>2, <1>3, <2>2, <4>1, <4>2 DEF Held
    <3>3. QED
      BY <3>1, <3>2
  <2>4. ASSUME NEW b \in taken', mem'[b].kind = "dir"
        PROVE  mem'[b].items \in Blocks
    <3>1. b \in taken /\ mem'[b] = mem[b]
      BY <1>3, <2>1, <2>4
    <3>2. QED
      BY <1>2, <2>4, <3>1 DEF Sound, Whole
  <2>5. ASSUME NEW b \in taken', mem'[b].kind = "item", mem'[b].type = "file"
        PROVE  mem'[b].ptr \in Blocks \/ (pc' = "clone" /\ b = tmp')
    <3>1. CASE b = Lowest
      BY <1>2, <1>3, <2>5, <3>1
    <3>2. CASE b # Lowest
      BY <1>2, <2>1, <2>5, <3>2 DEF Sound, Whole
    <3>3. QED
      BY <3>1, <3>2
  <2>6. QED
    BY <1>2, <2>3, <2>4, <2>5 DEF Sound, Whole
<1>5. Filled'
  BY <1>2, <1>3, FilledStays DEF Sound
<1>6. QED
  BY <1>2, <1>4, <1>5 DEF Sound

LEMMA CloneItemSound ==
  ASSUME TypeInv, Safe, Sound, MemoryLeft, CloneItem
  PROVE  Sound' /\ fault' = fault
<1>1. /\ pc = "clone" /\ pc' = "drop" /\ fault' = fault /\ table' = table /\ fatd' = fatd
      /\ ~OutOfMemory /\ MakeBehind(Record(node))
  BY DEF CloneItem, MakeBehind, MemoryLeft, openVars
<1>2. mem[tmp].type = "file" /\ mem[tmp].kind = "item" /\ node \in Nodes /\ pc \in Making
  BY <1>1 DEF Safe, Building, Held, Making
<1>3. Record(node) \in Objects /\ OwnedBy(Record(node)) \notin Blocks
      /\ Record(node).kind = "record"
  BY <1>2, ObjectTypes, OwnedByMade, PointersAre
<1>4. /\ Lowest \in Blocks /\ Lowest \notin taken /\ taken' = taken \cup {Lowest}
      /\ tmp \in taken /\ mem'[tmp] = Item("file", Lowest) /\ mem'[Lowest] = Record(node)
      /\ \A b \in taken \ {tmp} : mem'[b] = mem[b]
  BY <1>1, <1>2, <1>3, AllocBehind
<1>5. mem'[tmp].kind = "item" /\ mem'[tmp].type = "file" /\ mem'[tmp].ptr = Lowest
  BY <1>4, OwnedByMade
<1>6. Whole'
  <2>1. ASSUME NEW b \in taken', b # tmp, mem'[b].kind \in {"item", "dir"}
        PROVE  b \in taken /\ mem'[b] = mem[b]
    BY <1>3, <1>4, <2>1
  <2>2. ASSUME NEW b \in taken', DirItem(b)'
        PROVE  b \in taken /\ DirItem(b) /\ mem'[b] = mem[b] /\ Held(mem[b].ptr, "dir")'
    <3>1. b # tmp
      BY <1>5, <2>2 DEF DirItem
    <3>2. b \in taken /\ mem'[b] = mem[b] /\ DirItem(b)
      BY <2>1, <2>2, <3>1 DEF DirItem, Held
    <3>3. Held(mem[b].ptr, "dir")
      BY <1>1, <3>2 DEF Sound, Whole
    <3>4. QED
      BY <1>2, <1>4, <3>2, <3>3 DEF Held
  <2>3. ASSUME NEW b \in taken', mem'[b].kind = "dir"
        PROVE  mem'[b].items \in Blocks
    <3>1. b # tmp
      BY <1>5, <2>3
    <3>2. QED
      BY <1>1, <2>1, <2>3, <3>1 DEF Sound, Whole
  <2>4. ASSUME NEW b \in taken', mem'[b].kind = "item", mem'[b].type = "file"
        PROVE  mem'[b].ptr \in Blocks
    <3>1. CASE b = tmp
      BY <1>4, <1>5, <3>1
    <3>2. CASE b # tmp
      BY <2>1, <2>4, <3>2 DEF Sound, Whole
    <3>3. QED
      BY <3>1, <3>2
  <2>5. QED
    BY <2>2, <2>3, <2>4 DEF Sound, Whole
<1>7. Filled'
  <2>1. \A b \in taken : mem[b].kind \in {"desc", "fatdesc"} => mem'[b] = mem[b]
    BY <1>2, <1>4
  <2>2. QED
    BY <1>1, <2>1, FilledStays DEF Sound
<1>8. QED
  BY <1>1, <1>6, <1>7 DEF Sound

LEMMA LoadDirectorySound ==
  ASSUME TypeInv, Safe, Sound, MemoryLeft, LoadDirectory
  PROVE  Sound' /\ fault' = fault
<1>1. /\ pc = "dir" /\ pc' = "entries" /\ fault' = fault /\ table' = table /\ fatd' = fatd
      /\ tmp' = tmp /\ ~OutOfMemory /\ MakeBehind(Dir(Null))
  BY DEF LoadDirectory, MakeBehind, MemoryLeft, openVars
<1>2. mem[tmp].type = "dir" /\ mem[tmp].kind = "item" /\ pc \in Making
  BY <1>1 DEF Safe, Building, Held, Making
<1>3. Dir(Null) \in Objects /\ OwnedBy(Dir(Null)) \notin Blocks /\ Dir(Null).kind = "dir"
  BY ObjectTypes, OwnedByMade, PointersAre
<1>4. /\ Lowest \in Blocks /\ Lowest \notin taken /\ taken' = taken \cup {Lowest}
      /\ tmp \in taken /\ mem'[tmp] = Item("dir", Lowest) /\ mem'[Lowest] = Dir(Null)
      /\ \A b \in taken \ {tmp} : mem'[b] = mem[b]
  BY <1>1, <1>2, <1>3, AllocBehind
<1>5. mem'[tmp].kind = "item" /\ mem'[tmp].type = "dir" /\ mem'[tmp].ptr = Lowest
  BY <1>4, OwnedByMade
<1>6. Whole'
  <2>1. ASSUME NEW b \in taken', b \notin {tmp, Lowest}
        PROVE  b \in taken /\ mem'[b] = mem[b]
    BY <1>4, <2>1
  <2>2. ASSUME NEW b \in taken', DirItem(b)'
        PROVE  /\ Held(mem[b].ptr, "dir")'
               /\ b = tmp \/ (DirItem(b) /\ mem'[b] = mem[b] /\ mem'[b].ptr # Lowest)
    <3>1. CASE b = tmp
      BY <1>3, <1>4, <1>5, <3>1 DEF Held
    <3>2. CASE b # tmp
      <4>1. b # Lowest
        BY <1>3, <1>4, <2>2 DEF DirItem, Held
      <4>2. b \in taken /\ mem'[b] = mem[b] /\ DirItem(b)
        BY <2>1, <2>2, <3>2, <4>1 DEF DirItem, Held
      <4>3. Held(mem[b].ptr, "dir")
        BY <3>2, <4>2 DEF Sound, Whole
      <4>4. QED
        BY <1>2, <1>4, <4>2, <4>3 DEF Held
    <3>3. QED
      BY <3>1, <3>2
  <2>3. ASSUME NEW b \in taken', mem'[b].kind = "dir"
        PROVE  mem'[b].items \in Blocks \/ (pc' = "entries" /\ b = mem'[tmp'].ptr)
    <3>1. CASE b = Lowest
      BY <1>1, <1>5, <3>1
    <3>2. CASE b # Lowest
      <4>1. b # tmp
        BY <1>5, <2>3
      <4>2. QED
        BY <1>1, <2>1, <2>3, <3>2, <4>1 DEF Sound, Whole
    <3>3. QED
      BY <3>1, <3>2
  <2>4. ASSUME NEW b \in taken', mem'[b].kind = "item", mem'[b].type = "file"
        PROVE  mem'[b].ptr \in Blocks
    <3>1. b # tmp /\ b # Lowest
      BY <1>3, <1>4, <1>5, <2>4
    <3>2. QED
      BY <1>1, <2>1, <2>4, <3>1 DEF Sound, Whole
  <2>5. ASSUME NEW b \in taken', NEW c \in taken', DirItem(b)', DirItem(c)',
               mem'[b].ptr = mem'[c].ptr, mem'[b].ptr \in Blocks
        PROVE  b = c
    <3>1. CASE b = tmp \/ c = tmp
      BY <1>5, <2>2, <2>5, <3>1
    <3>2. CASE b # tmp /\ c # tmp
      <4>1. DirItem(b) /\ DirItem(c) /\ mem'[b] = mem[b] /\ mem'[c] = mem[c]
        BY <2>2, <2>5, <3>2
      <4>2. QED
        BY <2>5, <4>1 DEF Sound, Whole, DirItem, Held
    <3>3. QED
      BY <3>1, <3>2
  <2>6. QED
    BY <2>2, <2>3, <2>4, <2>5 DEF Whole
<1>7. Filled'
  <2>1. \A b \in taken : mem[b].kind \in {"desc", "fatdesc"} => mem'[b] = mem[b]
    BY <1>2, <1>4
  <2>2. QED
    BY <1>1, <2>1, FilledStays DEF Sound
<1>8. QED
  BY <1>1, <1>6, <1>7 DEF Sound

LEMMA LoadEntriesSound ==
  ASSUME TypeInv, Safe, Sound, MemoryLeft, LoadEntries("OK")
  PROVE  Sound' /\ fault' = fault
<1> DEFINE d == mem[tmp].ptr
<1>1. /\ pc = "entries" /\ pc' = "drop" /\ fault' = fault /\ table' = table /\ fatd' = fatd
      /\ taken' = taken \cup {Lowest}
      /\ mem' = [mem EXCEPT ![Lowest] = Entries(node), ![d].items = Lowest]
  BY DEF LoadEntries, MemoryLeft, openVars
<1>2. Lowest \in Blocks /\ Lowest \notin taken
  BY LowestFree DEF TypeInv, MemoryLeft
<1>3. /\ d \in taken /\ d \in Blocks /\ mem[d].kind = "dir" /\ d # Lowest
      /\ tmp \in taken /\ mem[tmp].kind = "item" /\ mem[tmp].type = "dir"
  BY <1>1, <1>2 DEF TypeInv, Safe, Building, Making, Held
<1>4. PICK q \in Pointers : mem[d] = Dir(q)
  BY <1>3, ObjectKinds DEF TypeInv
<1>5. /\ mem'[d] = Dir(Lowest) /\ mem'[Lowest] = Entries(node)
      /\ \A b \in taken \ {d} : mem'[b] = mem[b]
  <2>1. mem'[d] = [mem[d] EXCEPT !.items = Lowest] /\ mem'[Lowest] = Entries(node)
    BY <1>1, <1>2, <1>3 DEF TypeInv
  <2>2. \A b \in taken \ {d} : mem'[b] = mem[b]
    BY <1>1, <1>2 DEF TypeInv
  <2>3. QED
    BY <1>4, <2>1, <2>2, ObjectSet
<1>6. mem'[d].kind = "dir" /\ mem'[d].items = Lowest /\ mem'[Lowest].kind = "entries"
  BY <1>5, OwnedByMade
<1> HIDE DEF d
<1>7. Whole'
  <2>1. ASSUME NEW b \in taken', b # d, mem'[b].kind \in {"item", "dir"}
        PROVE  b \in taken /\ mem'[b] = mem[b]
    BY <1>1, <1>5, <1>6, <2>1
  <2>2. ASSUME NEW b \in taken', DirItem(b)'
        PROVE  b \in taken /\ DirItem(b) /\ mem'[b] = mem[b] /\ Held(mem[b].ptr, "dir")'
    <3>1. b # d
      BY <1>6, <2>2 DEF DirItem, Held
    <3>2. b \in taken /\ mem'[b] = mem[b] /\ DirItem(b)
      BY <2>1, <2>2, <3>1 DEF DirItem, Held
    <3>3. Held(mem[b].ptr, "dir")
      BY <1>1, <3>2 DEF Sound, Whole
    <3>4. mem[b].ptr \in taken' /\ mem'[mem[b].ptr].kind = "dir"
      BY <1>1, <1>3, <1>5, <1>6, <3>3 DEF Held
    <3>5. QED
      BY <3>2, <3>4 DEF Held
  <2>3. ASSUME NEW b \in taken', mem'[b].kind = "dir"
        PROVE  mem'[b].items \in Blocks
    <3>1. CASE b = d
      BY <1>2, <1>6, <3>1
    <3>2. CASE b # d
      <4>1. b \in taken /\ mem'[b] = mem[b]
        BY <2>1, <2>3, <3>2
      <4>2. mem[b].items \in Blocks \/ b = mem[tmp].ptr
        BY <2>3, <4>1 DEF Sound, Whole
      <4>3. QED
        BY <3>2, <4>1, <4>2 DEF d
    <3>3. QED
      BY <3>1, <3>2
  <2>4. ASSUME NEW b \in taken', mem'[b].kind = "item", mem'[b].type = "file"
        PROVE  mem'[b].ptr \in Blocks
    <3>1. b # d
      BY <1>6, <2>4
    <3>2. QED
      BY <1>1, <2>1, <2>4, <3>1 DEF Sound, Whole
  <2>5. QED
    BY <2>2, <2>3, <2>4 DEF Sound, Whole
<1>8. Filled'
  <2>1. \A b \in taken : mem[b].kind \in {"desc", "fatdesc"} => mem'[b] = mem[b]
    BY <1>3, <1>5
  <2>2. QED
    BY <1>1, <2>1, FilledStays DEF Sound
<1>9. QED
  BY <1>1, <1>7, <1>8 DEF Sound

\* The sizes of small sets.
LEMMA SmallSets ==
  /\ \A a, b : a # b => IsFiniteSet({a, b}) /\ Cardinality({a, b}) = 2
  /\ \A a, b, c : a # b /\ c \notin {a, b} =>
       IsFiniteSet({a, b, c}) /\ Cardinality({a, b, c}) = 3
<1>1. ASSUME NEW a, NEW b, a # b
      PROVE  IsFiniteSet({a, b}) /\ Cardinality({a, b}) = 2
  <2>1. IsFiniteSet({a}) /\ Cardinality({a}) = 1
    BY FS_Singleton
  <2>2. {a, b} = {a} \cup {b} /\ b \notin {a}
    BY <1>1
  <2>3. QED
    BY <2>1, <2>2, FS_AddElement
<1>2. ASSUME NEW a, NEW b, NEW c, a # b, c \notin {a, b}
      PROVE  IsFiniteSet({a, b, c}) /\ Cardinality({a, b, c}) = 3
  <2>1. {a, b, c} = {a, b} \cup {c}
    OBVIOUS
  <2>2. IsFiniteSet({a, b}) /\ Cardinality({a, b}) = 2
    BY <1>1, <1>2
  <2>3. QED
    BY <1>2, <2>1, <2>2, FS_AddElement
<1>3. QED
  BY <1>1, <1>2

\* fat_free_item of a complete item frees each of its blocks once.
LEMMA ItemFreesWhole ==
  ASSUME TypeInv, Safe, Sound, pc \notin Making, NEW p, Held(p, "item")
  PROVE  /\ ItemReadable(p) /\ Ptrs(ItemFrees(p)) \subseteq taken
         /\ IsFiniteSet(Ptrs(ItemFrees(p)))
         /\ ItemFrees(p) \in Seq(Pointers)
         /\ Cardinality(Ptrs(ItemFrees(p))) = Len(ItemFrees(p))
<1>1. /\ p \in Blocks /\ mem[p].type \in {"file", "dir"}
      /\ mem[p].type = "file" => Held(mem[p].ptr, "record")
      /\ mem[p].type = "dir" =>
           Held(mem[p].ptr, "dir") /\ Held(mem[mem[p].ptr].items, "entries")
  BY ItemWhole
<1>2. ItemReadable(p)
  BY <1>1 DEF ItemReadable, IsA, Held, TypeInv
<1>3. ItemFrees(p) \in Seq(Pointers)
  BY <1>2, ItemPtrs
<1>4. CASE mem[p].type = "file"
  <2> DEFINE q == mem[p].ptr
  <2>1. ItemFrees(p) = <<q, p>> /\ Ptrs(ItemFrees(p)) = {p, q} /\ q # p
    BY <1>1, <1>2, <1>4, ItemPtrs DEF ItemFrees, Held
  <2>2. Len(ItemFrees(p)) = 2 /\ IsFiniteSet({p, q}) /\ Cardinality({p, q}) = 2
    BY <2>1, SmallSets
  <2>3. {p, q} \subseteq taken
    BY <1>1, <1>4 DEF Held
  <2>4. QED
    BY <1>2, <1>3, <2>1, <2>2, <2>3
<1>5. CASE mem[p].type = "dir"
  <2> DEFINE q == mem[p].ptr
  <2> DEFINE e == mem[q].items
  <2>1. q # Null /\ e # Null /\ q # p /\ e \notin {p, q} /\ {p, q, e} \subseteq taken
    BY <1>1, <1>5, PointersAre DEF Held, TypeInv
  <2>2. Ptrs(ItemFrees(p)) = {p, q, e}
    <3>1. Ptrs(ItemFrees(p)) = {p, q} \cup (IF e = Null THEN {} ELSE {e})
      BY <1>2, <1>5, <2>1, ItemPtrs
    <3>2. QED
      BY <2>1, <3>1
  <2>3. ItemFrees(p) = <<e, q>> \o <<p>>
    BY <1>5, <2>1 DEF ItemFrees, DirectoryFrees
  <2>4. Len(ItemFrees(p)) = 3
    <3>1. <<e, q>> \in Seq({p, q, e}) /\ <<p>> \in Seq({p, q, e})
      OBVIOUS
    <3>2. Len(<<e, q>> \o <<p>>) = Len(<<e, q>>) + Len(<<p>>)
      BY <3>1, ConcatProperties
    <3>3. QED
      BY <2>3, <3>2
  <2>5. IsFiniteSet({p, q, e}) /\ Cardinality({p, q, e}) = 3
    BY <2>1, SmallSets
  <2>6. QED
    BY <1>2, <1>3, <2>1, <2>2, <2>4, <2>5
<1>6. QED
  BY <1>1, <1>4, <1>5

\* A step that frees objects of which nothing that stays in use has need.
LEMMA FreeWhole ==
  ASSUME Whole, pc \notin Making, pc' \notin Making,
         NEW s, taken' = taken \ s, mem' = mem,
         \A b \in taken \ s : DirItem(b) => mem[b].ptr \notin s
  PROVE  Whole'
<1>1. ASSUME NEW b \in taken', DirItem(b)'
      PROVE  b \in taken /\ DirItem(b) /\ Held(mem[b].ptr, "dir")'
  <2>1. b \in taken \ s /\ DirItem(b)
    BY <1>1 DEF DirItem, Held
  <2>2. Held(mem[b].ptr, "dir") /\ mem[b].ptr \notin s
    BY <2>1 DEF Whole, Making
  <2>3. QED
    BY <2>1, <2>2 DEF Held
<1>2. QED
  BY <1>1 DEF Whole, Making

\* The listing that fat_free_item frees is no other item's.
LEMMA ItemFreedWhole ==
  ASSUME TypeInv, Safe, Sound, pc \notin Making, NEW p, Held(p, "item"),
         NEW b \in taken, DirItem(b), mem[b].ptr \in Ptrs(ItemFrees(p))
  PROVE  b = p
<1>1. Held(mem[b].ptr, "dir") /\ mem[b].ptr \in Blocks
  BY DEF Sound, Whole, Making, Held, TypeInv
<1>2. /\ ItemReadable(p)
      /\ mem[p].type = "file" => Held(mem[p].ptr, "record")
      /\ mem[p].type = "dir" =>
           Held(mem[p].ptr, "dir") /\ Held(mem[mem[p].ptr].items, "entries")
  BY ItemWhole, ItemFreesWhole
<1>3. /\ mem[p].type \in {"file", "dir"}
      /\ mem[p].type = "file" => Ptrs(ItemFrees(p)) = {p, mem[p].ptr}
      /\ mem[p].type = "dir" =>
           Ptrs(ItemFrees(p)) \subseteq {p, mem[p].ptr, mem[mem[p].ptr].items}
  BY <1>2, ItemPtrs
<1>4. mem[p].type = "dir" /\ mem[b].ptr = mem[p].ptr
  BY <1>1, <1>2, <1>3 DEF Held
<1>5. QED
  BY <1>1, <1>4 DEF Sound, Whole, DirItem, Held

LEMMA DropCurrentSound ==
  ASSUME TypeInv, Safe, Sound, DropCurrent
  PROVE  Sound' /\ fault' = fault
<1>1. /\ pc = "drop" /\ pc \notin Making
      /\ UNCHANGED <<mem, table, fatd, level, tmp>>
  BY DEF DropCurrent, Making
<1>2. cur # Null => Held(cur, "item")
  BY DEF Safe, Building
<1>3. cur # Null => /\ ItemReadable(cur) /\ Ptrs(ItemFrees(cur)) \subseteq taken
                    /\ Cardinality(Ptrs(ItemFrees(cur))) = Len(ItemFrees(cur))
  BY <1>1, <1>2, ItemFreesWhole
<1>4. Kfree(Dropped) /\ pc' \in {"found", "descend"}
  BY <1>3 DEF DropCurrent
<1>5. /\ Ptrs(Dropped) \subseteq taken /\ Cardinality(Ptrs(Dropped)) = Len(Dropped)
      /\ \A b \in taken \ Ptrs(Dropped) : DirItem(b) => mem[b].ptr \notin Ptrs(Dropped)
  <2>1. CASE cur = Null
    <3>1. Dropped = <<>> /\ Ptrs(Dropped) = {}
      BY <2>1, PtrsShort DEF Dropped
    <3>2. QED
      BY <3>1, FS_EmptySet
  <2>2. CASE cur # Null
    <3>1. Dropped = ItemFrees(cur)
      BY <2>2 DEF Dropped
    <3>2. cur \in Ptrs(ItemFrees(cur))
      BY <1>3, <2>2, ItemFreed DEF Safe
    <3>3. \A b \in taken : DirItem(b) /\ mem[b].ptr \in Ptrs(ItemFrees(cur)) => b = cur
      BY <1>1, <1>2, <2>2, ItemFreedWhole
    <3>4. QED
      BY <1>3, <2>2, <3>1, <3>2, <3>3
  <2>3. QED
    BY <2>1, <2>2
<1>6. taken' = taken \ Ptrs(Dropped) /\ fault' = fault
  BY <1>4, <1>5 DEF Kfree, Ptrs
<1>7. Whole'
  <2>1. pc' \notin Making
    BY <1>4 DEF Making
  <2>2. QED
    BY <1>1, <1>5, <1>6, <2>1, FreeWhole DEF Sound
<1>8. Filled'
  <2>1. \A b \in taken : mem[b].kind \in {"desc", "fatdesc"} => mem'[b] = mem[b]
    BY <1>1
  <2>2. QED
    BY <1>1, <1>4, <2>1, FilledStays DEF Sound
<1>9. QED
  BY <1>6, <1>7, <1>8 DEF Sound

\* Descend may fault, at a part in the middle that is not there; then nothing
\* else happens.
LEMMA DescendSound ==
  ASSUME TypeInv, Safe, Sound, Descend
  PROVE  Sound' /\ Safe'
<1>1. pc = "descend" /\ UNCHANGED <<taken, mem, table, opens>> /\ pc \notin Making
  BY DEF Descend, Making, heapVars
<1>2. fatd # ErdonlyPtr
  BY DEF Sound, Filled
<1>3. CASE fault' = "deref" /\ UNCHANGED <<ret, pc, openVars>>
  <2>1. UNCHANGED <<pc, list, req, fatd, level, cur, tmp, node>>
    BY <1>3 DEF openVars
  <2>2. Sound'
    BY <1>1, <1>2, <2>1, GrowSound DEF Making
  <2>3. Safe'
    BY <1>1, <2>1 DEF Safe, Owned, Building, Parsing, Making, Slots, OpenFds, Held
  <2>4. QED
    BY <2>2, <2>3
<1>4. CASE Return(0) /\ UNCHANGED fault
  <2>1. Owned' /\ Slots'
    BY <1>1, SameHeap, SlotsStay DEF Safe
  <2>2. Building'
    BY <1>4, PointersAre DEF Return, Building, Parsing, Making
  <2>3. QED
    BY <1>1, <1>4, <2>1, <2>2, ReturnSound DEF Safe
<1>5. CASE TypeRead(cur) = "dir" /\ pc' = "lookup" /\ UNCHANGED <<fault, ret, openVars>>
  <2>1. UNCHANGED <<req, list, fatd, level, cur, tmp, node>>
    BY <1>5 DEF openVars
  <2>2. cur # Null => cur \in taken /\ mem[cur].type = "dir"
    BY <1>5 DEF TypeRead, Safe, Building, Held
  <2>3. pc' \notin Making \cup {"newfd"}
    BY <1>5 DEF Making
  <2>4. Sound'
    BY <1>1, <1>2, <2>1, <2>2, <2>3, GrowSound
  <2>5. Owned' /\ Slots'
    BY <1>1, SameHeap, SlotsStay DEF Safe
  <2>6. Building'
    BY <1>1, <1>5, <2>1, Unowned DEF Safe, Building, Parsing, Making, Held
  <2>7. QED
    BY <2>4, <2>5, <2>6 DEF Safe
<1>6. QED
  BY <1>3, <1>4, <1>5 DEF Descend

\* A step that leaves items and directories alone and makes no others.
LEMMA WholeStays ==
  ASSUME Whole, pc \notin Making, pc' \notin Making, taken \subseteq taken',
         \A b \in taken' : mem'[b].kind \in {"item", "dir"} => b \in taken /\ mem'[b] = mem[b],
         \A b \in taken : mem[b].kind \in {"item", "dir"} => mem'[b] = mem[b]
  PROVE  Whole'
<1>1. ASSUME NEW b \in taken', DirItem(b)'
      PROVE  b \in taken /\ DirItem(b) /\ mem'[b] = mem[b] /\ Held(mem[b].ptr, "dir")'
  <2>1. b \in taken /\ mem'[b] = mem[b] /\ DirItem(b)
    BY <1>1 DEF DirItem, Held
  <2>2. Held(mem[b].ptr, "dir")
    BY <2>1 DEF Whole, Making
  <2>3. QED
    BY <2>1, <2>2 DEF Held
<1>2. QED
  BY <1>1 DEF Whole, Making

LEMMA FoundSound ==
  ASSUME TypeInv, Safe, Sound, Found
  PROVE  Sound' /\ fault' = fault
<1>1. pc = "found" /\ pc \notin Making /\ UNCHANGED <<taken, table, fault>>
  BY DEF Found, Making
<1>2. CASE cur = Null
  <2>1. Return(0) /\ UNCHANGED mem
    BY <1>2 DEF Found
  <2>2. QED
    BY <1>1, <2>1, ReturnSound
<1>3. CASE cur # Null
  <2>1. /\ mem' = [mem EXCEPT ![fatd] = FatDesc(cur, 0)] /\ pc' = "newfd"
        /\ fatd' = fatd
    BY <1>3 DEF Found, openVars
  <2>2. fatd \in Blocks /\ mem[fatd].kind = "fatdesc" /\ cur \in Blocks
    BY <1>1, <1>3 DEF TypeInv, Safe, Building, Parsing, Making, Held
  <2>3. /\ mem'[fatd].kind = "fatdesc" /\ mem'[fatd].item = cur
        /\ \A b \in Blocks \ {fatd} : mem'[b] = mem[b]
    BY <2>1, <2>2, OwnedByMade DEF TypeInv
  <2>4. \A b \in Blocks : mem[b].kind # "fatdesc" \/ mem'[b].kind # "fatdesc" => mem'[b] = mem[b]
    BY <2>2, <2>3
  <2>5. Whole'
    <3>1. /\ \A b \in taken' : mem'[b].kind \in {"item", "dir"} => b \in taken /\ mem'[b] = mem[b]
          /\ \A b \in taken : mem[b].kind \in {"item", "dir"} => mem'[b] = mem[b]
      BY <1>1, <2>4 DEF TypeInv
    <3>2. pc' \notin Making
      BY <2>1 DEF Making
    <3>3. QED
      BY <1>1, <3>1, <3>2, WholeStays DEF Sound
  <2>6. ASSUME NEW k \in OpenFds
        PROVE  mem'[table[k]].private \in Blocks /\ mem'[mem'[table[k]].private].item \in Blocks
    <3>1. table[k] \in taken /\ table[k] \in Blocks /\ mem[table[k]].kind = "desc"
      BY DEF TypeInv, Safe, Slots, Held
    <3>2. mem[table[k]].private \in Blocks /\ mem[mem[table[k]].private].item \in Blocks
      BY DEF Sound, Filled
    <3>3. OwnedBy(mem[table[k]]) = mem[table[k]].private
      BY <3>1 DEF OwnedBy
    <3>4. mem[table[k]].private # fatd
      BY <3>1, <3>2, <3>3 DEF Safe, Building
    <3>5. QED
      BY <2>3, <2>4, <3>1, <3>2, <3>4
  <2>7. Filled'
    <3>1. fatd # ErdonlyPtr
      BY DEF Sound, Filled
    <3>2. QED
      BY <1>1, <2>1, <2>2, <2>3, <2>6, <3>1 DEF Filled, OpenFds
  <2>8. QED
    BY <1>1, <2>5, <2>7 DEF Sound
<1>4. QED
  BY <1>2, <1>3

LEMMA NewDescriptorSound ==
  ASSUME TypeInv, Safe, Sound, MemoryLeft, NewDescriptor
  PROVE  Sound' /\ fault' = fault
<1>1. pc = "newfd" /\ pc \notin Making /\ UNCHANGED fault
  BY DEF NewDescriptor, Making
<1>2. CASE FreeSlots = {}
  <2>1. Return(0) /\ UNCHANGED <<taken, mem, table>>
    BY <1>2 DEF NewDescriptor, heapVars
  <2>2. QED
    BY <1>1, <2>1, ReturnSound
<1>3. CASE FreeSlots # {}
  <2> DEFINE k == CHOOSE s \in FreeSlots : \A t \in FreeSlots : s <= t
  <2>1. k \in FreeSlots
    <3>1. FreeSlots \subseteq Nat
      BY PointersAre DEF FreeSlots
    <3>2. QED
      BY <1>3, <3>1, LeastElement
  <2>2. k \in Fds /\ table[k] = Null
    BY <2>1 DEF FreeSlots
  <2>3. /\ Return(IndexOf(k)) /\ taken' = taken \cup {Lowest}
        /\ mem' = [mem EXCEPT ![Lowest] = Desc(IndexOf(k), fatd)]
        /\ table' = [table EXCEPT ![k] = Lowest]
    BY <1>3 DEF NewDescriptor, Kzalloc, MemoryLeft
  <2> HIDE DEF k
  <2>4. Lowest \in Blocks /\ Lowest \notin taken
    BY LowestFree DEF TypeInv, MemoryLeft
  <2>5. /\ mem'[Lowest].kind = "desc" /\ mem'[Lowest].private = fatd
        /\ \A b \in taken : mem'[b] = mem[b]
    BY <2>3, <2>4, OwnedByMade DEF TypeInv
  <2>6. pc' = "idle" /\ fatd' = Null
    BY <2>3 DEF Return
  <2>7. Whole'
    <3>1. \A b \in taken' : mem'[b].kind \in {"item", "dir"} => b \in taken /\ mem'[b] = mem[b]
      BY <2>3, <2>5
    <3>2. pc' \notin Making
      BY <2>6 DEF Making
    <3>3. QED
      BY <1>1, <2>3, <2>5, <3>1, <3>2, WholeStays DEF Sound
  <2>8. fatd \in taken /\ fatd \in Blocks /\ mem[fatd].item \in Blocks
    <3>1. fatd \in Blocks
      BY <1>1 DEF TypeInv, Safe, Building, Sound, Filled, Pointers
    <3>2. QED
      BY <1>1, <3>1 DEF Safe, Building, Sound, Filled, Held
  <2>9. ASSUME NEW j \in Fds, table'[j] # Null
        PROVE  mem'[table'[j]].private \in Blocks /\ mem'[mem'[table'[j]].private].item \in Blocks
    <3>1. CASE j = k
      <4>1. table'[j] = Lowest
        BY <2>2, <2>3, <3>1 DEF TypeInv
      <4>2. QED
        BY <2>5, <2>8, <4>1
    <3>2. CASE j # k
      <4>1. table'[j] = table[j] /\ j \in OpenFds
        BY <2>3, <2>9, <3>2 DEF TypeInv, OpenFds
      <4>2. table[j] \in taken /\ mem[table[j]].kind = "desc"
        BY <4>1 DEF Safe, Slots, Held
      <4>3. mem[table[j]].private \in Blocks /\ mem[mem[table[j]].private].item \in Blocks
        BY <4>1 DEF Sound, Filled
      <4>4. mem[table[j]].private \in taken
        BY <4>2, <4>3 DEF Safe, Owned, OwnedBy, Held
      <4>5. QED
        BY <2>5, <4>1, <4>2, <4>3, <4>4
    <3>3. QED
      BY <3>1, <3>2
  <2>10. Filled'
    BY <2>6, <2>9, PointersAre DEF Filled, OpenFds
  <2>11. QED
    BY <1>1, <2>7, <2>10 DEF Sound
<1>4. QED
  BY <1>2, <1>3

\* What hangs behind an open descriptor, whatever fopen is doing.
LEMMA Chain ==
  ASSUME TypeInv, Safe, Sound, NEW k \in OpenFds, NEW d, d = table[k],
         NEW p, p = Private(d), NEW i, i = ItemOf(d)
  PROVE  /\ d \in Blocks /\ Held(d, "desc") /\ mem[d].index = k /\ OwnedBy(mem[d]) = p
         /\ p \in Blocks /\ Held(p, "fatdesc") /\ OwnedBy(mem[p]) = i
         /\ i \in Blocks /\ Held(i, "item") /\ mem[i].type \in {"file", "dir"}
         /\ i \notin {cur, tmp} /\ p # fatd
         /\ mem[i].type = "file" => Held(mem[i].ptr, "record") /\ OwnedBy(mem[i]) = mem[i].ptr
         /\ mem[i].type = "dir" =>
              /\ Held(mem[i].ptr, "dir") /\ OwnedBy(mem[mem[i].ptr]) = mem[mem[i].ptr].items
              /\ Held(mem[mem[i].ptr].items, "entries")
<1>1. d \in Blocks /\ d \in taken /\ mem[d].kind = "desc" /\ mem[d].index = k
  BY DEF TypeInv, Safe, Slots, Held
<1>2. p \in Blocks /\ i \in Blocks /\ p = mem[d].private /\ i = mem[p].item
  BY DEF Sound, Filled, Private, ItemOf
<1>3. /\ OwnedKind["desc"] = "fatdesc" /\ OwnedKind["fatdesc"] = "item"
      /\ OwnedKind["item"] = "record" /\ OwnedKind["dir"] = "entries"
  BY DEF OwnedKind
<1>4. OwnedBy(mem[d]) = p
  BY <1>1, <1>2 DEF OwnedBy
<1>5. Held(p, "fatdesc") /\ p \in taken /\ mem[p].kind = "fatdesc" /\ p # fatd
  BY <1>1, <1>2, <1>3, <1>4 DEF Safe, Owned, Building, Held
<1>6. OwnedBy(mem[p]) = i
  BY <1>2, <1>5 DEF OwnedBy
<1>7. Held(i, "item") /\ i \in taken /\ mem[i].kind = "item" /\ i \notin {cur, tmp}
  BY <1>2, <1>3, <1>5, <1>6 DEF Safe, Owned, Building, Held
<1>8. mem[i].type \in {"file", "dir"}
  BY <1>2, <1>7, ObjectKinds DEF TypeInv, Items
<1>9. CASE mem[i].type = "file"
  <2>1. OwnedBy(mem[i]) = mem[i].ptr /\ mem[i].ptr \in Blocks
    BY <1>7, <1>9 DEF Sound, Whole, OwnedBy
  <2>2. Held(mem[i].ptr, "record")
    BY <1>3, <1>7, <2>1 DEF Safe, Owned
  <2>3. QED
    BY <1>1, <1>2, <1>4, <1>5, <1>6, <1>7, <1>9, <2>1, <2>2 DEF Held
<1>10. CASE mem[i].type = "dir"
  <2> DEFINE q == mem[i].ptr
  <2>1. Held(q, "dir") /\ q \in Blocks /\ DirItem(i)
    BY <1>7, <1>10 DEF Sound, Whole, DirItem, Held, TypeInv
  <2>2. ~(pc = "entries" /\ q = mem[tmp].ptr)
    <3>1. pc = "entries" => DirItem(tmp) /\ tmp \in taken
      BY DEF Safe, Building, Making, DirItem, Held
    <3>2. QED
      BY <1>7, <2>1, <3>1 DEF Sound, Whole
  <2>3. q \in taken /\ mem[q].kind = "dir" /\ OwnedBy(mem[q]) = mem[q].items
    BY <2>1 DEF OwnedBy, Held
  <2>4. mem[q].items \in Blocks
    BY <2>2, <2>3 DEF Sound, Whole
  <2>5. Held(mem[q].items, "entries")
    BY <1>3, <2>3, <2>4 DEF Safe, Owned
  <2>6. QED
    BY <1>1, <1>2, <1>4, <1>5, <1>6, <1>7, <1>10, <2>1, <2>3, <2>5 DEF Held
<1>11. QED
  BY <1>8, <1>9, <1>10

\* An open descriptor can be read.
LEMMA ChainReadable ==
  ASSUME TypeInv, Safe, Sound, NEW fd, NEW d, d = GetDescriptor(fd), d # Null
  PROVE  /\ fd \in OpenFds /\ d = table[fd] /\ Readable(d)
         /\ mem[ItemOf(d)].type = "file" => IsA(mem[ItemOf(d)].ptr, "record")
<1>1. fd \in OpenFds /\ d = table[fd]
  BY GotDescriptor DEF Safe
<1>2. /\ d \in Blocks /\ Held(d, "desc") /\ Private(d) \in Blocks /\ Held(Private(d), "fatdesc")
      /\ ItemOf(d) \in Blocks /\ Held(ItemOf(d), "item")
      /\ mem[ItemOf(d)].type = "file" => Held(mem[ItemOf(d)].ptr, "record")
  BY <1>1, Chain
<1>3. QED
  BY <1>1, <1>2 DEF Readable, IsA, Held, TypeInv

LEMMA QuerySound ==
  ASSUME TypeInv, Safe, Sound, NEW fd, NEW e, NEW res, QueryCall(fd, e, res)
  PROVE  Sound' /\ fault' = fault
<1>1. pc = "idle" /\ UNCHANGED <<taken, mem, table, pc, openVars, opens>>
  BY DEF QueryCall, heapVars
<1>2. fault' = fault
  BY ChainReadable DEF QueryCall
<1>3. fatd' = fatd /\ fatd # ErdonlyPtr /\ pc' = "idle"
  BY <1>1 DEF openVars, Sound, Filled
<1>4. QED
  BY <1>1, <1>2, <1>3, GrowSound DEF Making

LEMMA FseekSound ==
  ASSUME TypeInv, Safe, Sound, NEW fd, NEW off, NEW w, Fseek(fd, off, w)
  PROVE  Sound' /\ fault' = fault
<1> DEFINE d == GetDescriptor(fd)
<1>1. /\ pc = "idle" /\ UNCHANGED <<taken, table, pc, fatd>> /\ fatd # ErdonlyPtr
      /\ pc \notin Making /\ pc' \notin Making \cup {"newfd"} /\ pc' # "lookup"
  BY DEF Fseek, openVars, Making, Sound, Filled
<1>2. CASE d = Null
  <2>1. fault' = fault /\ mem' = mem
    BY <1>2 DEF Fseek
  <2>2. QED
    BY <1>1, <2>1, GrowSound
<1>3. CASE d # Null
  <2>1. Readable(d) /\ (mem[ItemOf(d)].type = "file" => IsA(mem[ItemOf(d)].ptr, "record"))
    BY <1>3, ChainReadable
  <2>2. fault' = fault /\ mem' = [mem EXCEPT ![Private(d)].pos = SeekTarget(fd, off, w)]
    BY <1>3, <2>1 DEF Fseek
  <2>3. Private(d) \in Blocks /\ mem[Private(d)] \in FatDescs
    BY <2>1, ObjectKinds DEF Readable, IsA, TypeInv
  <2>4. mem'[Private(d)] = FatDesc(mem[Private(d)].item, SeekTarget(fd, off, w))
    BY <2>2, <2>3, ObjectSet DEF TypeInv
  <2>5. /\ mem[Private(d)].kind = "fatdesc" /\ mem'[Private(d)].kind = "fatdesc"
        /\ mem'[Private(d)].item = mem[Private(d)].item
        /\ \A b \in Blocks \ {Private(d)} : mem'[b] = mem[b]
    BY <2>2, <2>3, <2>4, OwnedByMade DEF TypeInv, FatDescs
  <2>6. Whole'
    <3>1. \A b \in taken : mem[b].kind \in {"item", "dir"} \/ mem'[b].kind \in {"item", "dir"} =>
                             mem'[b] = mem[b]
      BY <2>5 DEF TypeInv
    <3>2. QED
      BY <1>1, <3>1, WholeStays DEF Sound
  <2>7. Filled'
    <3>1. ASSUME NEW k \in OpenFds
          PROVE  mem'[table[k]].private \in Blocks /\ mem'[mem'[table[k]].private].item \in Blocks
      <4>1. mem'[table[k]] = mem[table[k]]
        BY <2>5 DEF TypeInv, Safe, Slots, Held
      <4>2. mem[table[k]].private \in Blocks /\ mem[mem[table[k]].private].item \in Blocks
        BY DEF Sound, Filled
      <4>3. mem'[mem[table[k]].private].item = mem[mem[table[k]].private].item
        BY <2>5, <4>2
      <4>4. QED
        BY <4>1, <4>2, <4>3
    <3>2. QED
      BY <1>1, <3>1 DEF Filled, OpenFds
  <2>8. QED
    BY <2>2, <2>6, <2>7 DEF Sound
<1>4. QED
  BY <1>2, <1>3

\* fclose of a complete descriptor frees each of its blocks once.
LEMMA CloseFreesWhole ==
  ASSUME TypeInv, Safe, Sound, pc = "idle", NEW k \in OpenFds, NEW d, d = table[k]
  PROVE  /\ ItemReadable(ItemOf(d)) /\ ClosePtrs(d) \subseteq taken
         /\ ClosePtrs(d) = Ptrs(ItemFrees(ItemOf(d))) \cup {Private(d), d}
         /\ Cardinality(ClosePtrs(d)) = Len(ItemFrees(ItemOf(d)) \o <<Private(d), d>>)
         /\ ItemOf(d) \in Ptrs(ItemFrees(ItemOf(d))) /\ Held(ItemOf(d), "item")
<1> DEFINE p == Private(d)
<1> DEFINE i == ItemOf(d)
<1> DEFINE F == Ptrs(ItemFrees(i))
<1>1. /\ d \in Blocks /\ Held(d, "desc") /\ p \in Blocks /\ Held(p, "fatdesc")
      /\ i \in Blocks /\ Held(i, "item")
  BY Chain
<1>2. /\ ItemReadable(i) /\ F \subseteq taken /\ IsFiniteSet(F) /\ ItemFrees(i) \in Seq(Pointers)
      /\ Cardinality(F) = Len(ItemFrees(i))
  BY <1>1, ItemFreesWhole DEF Making
<1>3. i \in F /\ \A b \in F \ {i} : mem[b].kind \in {"record", "dir", "entries"}
  BY <1>2, ItemFreed DEF Safe
<1>4. p \notin F /\ d \notin F /\ p # d
  BY <1>1, <1>3 DEF Held
<1>5. p \in Pointers /\ d \in Pointers
  BY <1>1, PointersAre
<1>6. ClosePtrs(d) = F \cup {p, d} /\ Len(ItemFrees(i) \o <<p, d>>) = Len(ItemFrees(i)) + 2
  BY <1>2, <1>5, PtrsPair DEF ClosePtrs
<1>7. Cardinality(F \cup {p, d}) = Cardinality(F) + 2
  <2>1. IsFiniteSet(F \cup {p}) /\ Cardinality(F \cup {p}) = Cardinality(F) + 1
    BY <1>2, <1>4, FS_AddElement
  <2>2. F \cup {p, d} = (F \cup {p}) \cup {d} /\ d \notin F \cup {p}
    BY <1>4
  <2>3. Cardinality((F \cup {p}) \cup {d}) = Cardinality(F \cup {p}) + 1
    BY <2>1, <2>2, FS_AddElement
  <2>4. Cardinality(F) \in Nat
    BY <1>2, FS_CardinalityType
  <2>5. Cardinality(F \cup {p, d}) = Cardinality((F \cup {p}) \cup {d})
    BY <2>2
  <2>6. QED
    BY <2>1, <2>3, <2>4, <2>5
<1>8. ClosePtrs(d) \subseteq taken
  BY <1>1, <1>2, <1>6 DEF Held
<1>9. QED
  BY <1>1, <1>2, <1>3, <1>6, <1>7, <1>8

\* What fclose does to a complete descriptor.
LEMMA CloseDoes ==
  ASSUME TypeInv, Safe, Sound, NEW fd, Fclose(fd), GetDescriptor(fd) # Null
  PROVE  /\ fd \in OpenFds /\ fault' = fault /\ mem' = mem
         /\ taken' = taken \ ClosePtrs(table[fd])
         /\ table' = [table EXCEPT ![fd] = Null]
<1> DEFINE d == GetDescriptor(fd)
<1>1. fd \in OpenFds /\ d = table[fd] /\ Readable(d) /\ pc = "idle" /\ mem' = mem
  BY ChainReadable DEF Fclose
<1>2. mem[d].index = fd /\ fd \in Fds
  BY <1>1 DEF Safe, Slots, OpenFds
<1>3. /\ ItemReadable(ItemOf(d)) /\ ClosePtrs(d) \subseteq taken
      /\ Cardinality(ClosePtrs(d)) = Len(ItemFrees(ItemOf(d)) \o <<Private(d), d>>)
  BY <1>1, CloseFreesWhole
<1>4. /\ Kfree(ItemFrees(ItemOf(d)) \o <<Private(d), d>>)
      /\ table' = TableAfterClose(d)
  BY <1>1, <1>2, <1>3 DEF Fclose
<1>5. taken' = taken \ ClosePtrs(d) /\ fault' = fault
  BY <1>3, <1>4 DEF Kfree, ClosePtrs, Ptrs
<1>6. QED
  BY <1>1, <1>2, <1>4, <1>5 DEF TableAfterClose

LEMMA FcloseSound ==
  ASSUME TypeInv, Safe, Sound, NEW fd, Fclose(fd)
  PROVE  Sound' /\ fault' = fault
<1> DEFINE d == GetDescriptor(fd)
<1>1. /\ pc = "idle" /\ UNCHANGED <<mem, pc, fatd>> /\ fatd # ErdonlyPtr
      /\ pc \notin Making /\ pc' \notin Making \cup {"newfd"} /\ pc' # "lookup"
  BY DEF Fclose, openVars, Making, Sound, Filled
<1>2. CASE d = Null
  <2>1. fault' = fault /\ UNCHANGED <<taken, table>>
    BY <1>2 DEF Fclose
  <2>2. QED
    BY <1>1, <2>1, GrowSound
<1>3. CASE d # Null
  <2>1. /\ fd \in OpenFds /\ fault' = fault /\ taken' = taken \ ClosePtrs(table[fd])
        /\ table' = [table EXCEPT ![fd] = Null]
    BY <1>3, CloseDoes
  <2>2. /\ ClosePtrs(table[fd]) = Ptrs(ItemFrees(ItemOf(table[fd]))) \cup {Private(table[fd]), table[fd]}
        /\ ItemOf(table[fd]) \in Ptrs(ItemFrees(ItemOf(table[fd])))
        /\ Held(ItemOf(table[fd]), "item")
    BY <1>1, <2>1, CloseFreesWhole
  <2>3. Held(table[fd], "desc") /\ Held(Private(table[fd]), "fatdesc")
    BY <2>1, Chain
  <2>4. ASSUME NEW b \in taken \ ClosePtrs(table[fd]), DirItem(b)
        PROVE  mem[b].ptr \notin ClosePtrs(table[fd])
    <3>1. Held(mem[b].ptr, "dir")
      BY <1>1, <2>4 DEF Sound, Whole
    <3>2. mem[b].ptr \notin Ptrs(ItemFrees(ItemOf(table[fd])))
      BY <1>1, <2>2, <2>4, ItemFreedWhole
    <3>3. QED
      BY <2>2, <2>3, <3>1, <3>2 DEF Held
  <2>5. Whole'
    BY <1>1, <2>1, <2>4, FreeWhole DEF Sound
  <2>6. Filled'
    <3>1. \A k \in OpenFds' : k \in OpenFds /\ table'[k] = table[k]
      BY <2>1 DEF OpenFds, TypeInv
    <3>2. QED
      BY <1>1, <3>1 DEF Sound, Filled
  <2>7. QED
    BY <2>1, <2>5, <2>6 DEF Sound
<1>4. QED
  BY <1>2, <1>3

\* Every step but Descend leaves fault as it is.
LEMMA StepSound ==
  ASSUME TypeInv, Safe, Sound, OnlyReads, MemoryLeft, fault = "none", Call \/ Step
  PROVE  Sound' /\ (fault' = fault \/ (Descend /\ Safe'))
<1>1. CASE Call
  <2>1. CASE \E r \in Requests : Fopen(r)
    BY <2>1, ParseSound
  <2>2. ASSUME NEW fd, Fread(fd)
        PROVE  Sound' /\ fault' = fault
    BY <2>2, QuerySound DEF Fread
  <2>3. ASSUME NEW fd, Fstat(fd)
        PROVE  Sound' /\ fault' = fault
    <3>1. PICK res \in SUBSET Int : QueryCall(fd, -1, res)
      BY <2>3 DEF Fstat
    <3>2. QED
      BY <3>1, QuerySound
  <2>4. ASSUME NEW fd, Fclose(fd)
        PROVE  Sound' /\ fault' = fault
    BY <2>4, FcloseSound
  <2>5. ASSUME NEW fd, \E off \in Offsets, w \in {"SET", "CUR", "END"} : Fseek(fd, off, w)
        PROVE  Sound' /\ fault' = fault
    BY <2>5, FseekSound
  <2>6. QED
    BY <1>1, <2>1, <2>2, <2>3, <2>4, <2>5 DEF Call
<1>2. CASE Step
  <2>1. CASE CreateRoot \/ PathEnds \/ NamePart \/ AddPart
    BY <2>1, ParseSound
  <2>2. CASE CheckFails \/ WriteMode \/ FatOpen
    BY <2>2, ChecksSound
  <2>3. CASE Lookup \/ CreateItem \/ CloneItem \/ LoadDirectory
    BY <2>3, LookupSound, CreateItemSound, CloneItemSound, LoadDirectorySound
  <2>4. CASE \E res \in ReadResults : LoadEntries(res)
    BY <2>4, LoadEntriesSound DEF OnlyReads
  <2>5. CASE DropCurrent \/ Found \/ NewDescriptor
    BY <2>5, DropCurrentSound, FoundSound, NewDescriptorSound
  <2>6. CASE Descend
    BY <2>6, DescendSound
  <2>7. QED
    BY <1>2, <2>1, <2>2, <2>3, <2>4, <2>5, <2>6 DEF Step
<1>3. QED
  BY <1>1, <1>2

LEMMA CleanStep == OnlyReads /\ MemoryLeft /\ CleanInv /\ [Next]_vars => CleanInv'
<1> SUFFICES ASSUME OnlyReads, MemoryLeft, CleanInv, [Next]_vars PROVE CleanInv'
  OBVIOUS
<1>1. CASE fault = "none" /\ (Call \/ Step)
  <2>1. Sound' /\ (fault' = fault \/ (Descend /\ Safe'))
    BY <1>1, StepSound DEF CleanInv
  <2>2. TypeInv' /\ (fault' = "none" => Safe')
    BY <1>1, CallInv, FopenStepInv DEF CleanInv
  <2>3. QED
    BY <1>1, <2>1, <2>2 DEF CleanInv
<1>2. CASE UNCHANGED vars
  <2>1. UNCHANGED <<taken, mem, table, fault, ret, pc, req, list, fatd, level, cur, tmp, node, opens>>
    BY <1>2 DEF vars, heapVars, openVars
  <2>2. TypeInv'
    BY <2>1 DEF CleanInv, TypeInv
  <2>3. Safe'
    BY <2>1 DEF CleanInv, Safe, Owned, Building, Parsing, Making, Slots, OpenFds, Held
  <2>4. Sound'
    BY <2>1 DEF CleanInv, Sound, Whole, Filled, OpenFds, DirItem, Held
  <2>5. QED
    BY <2>2, <2>3, <2>4 DEF CleanInv
<1>3. QED
  BY <1>1, <1>2 DEF Next, Halted

LEMMA CleanInit == Init => CleanInv
<1> SUFFICES ASSUME Init PROVE CleanInv
  OBVIOUS
<1>1. TypeInv /\ Safe
  BY InitInv DEF Init, IInv
<1>2. Sound
  BY PointersAre DEF Init, Sound, Whole, Filled, OpenFds
<1>3. QED
  BY <1>1, <1>2 DEF CleanInv

LEMMA CleanInvariant ==
  ASSUME OnlyReads
  PROVE  Spec /\ []MemoryLeft => []CleanInv
<1>1. CleanInv /\ MemoryLeft /\ [Next]_vars => CleanInv'
  BY CleanStep
<1>2. QED
  BY CleanInit, <1>1, PTL DEF Spec

-----------------------------------------------------------------------------
(* The footprint of a descriptor.                                          *)

LEMMA BehindOne ==
  ASSUME NEW x
  PROVE  /\ mem[x].kind = "desc" => Behind({x}) = Blocks \cap {mem[x].private}
         /\ mem[x].kind = "fatdesc" => Behind({x}) = Blocks \cap {mem[x].item}
         /\ mem[x].kind = "item" => Behind({x}) = Blocks \cap {mem[x].ptr}
         /\ mem[x].kind = "dir" => Behind({x}) = Blocks \cap {mem[x].items}
         /\ mem[x].kind \in {"record", "entries"} => Behind({x}) = {}
BY DEF Behind

\* The content of item i: the directory entry, or the directory and its listing.
Content(i) ==
  IF mem[i].type = "file" THEN {mem[i].ptr} ELSE {mem[i].ptr, mem[mem[i].ptr].items}

LEMMA FootprintIs ==
  ASSUME TypeInv, Safe, Sound, NEW k \in OpenFds, NEW d, d = table[k],
         NEW p, p = Private(d), NEW i, i = ItemOf(d)
  PROVE  Footprint(d) = {d, p, i} \cup Content(i)
<1>1. /\ d \in Blocks /\ Held(d, "desc")
      /\ p \in Blocks /\ Held(p, "fatdesc") /\ i \in Blocks /\ Held(i, "item")
      /\ mem[i].type \in {"file", "dir"}
      /\ mem[i].type = "file" => Held(mem[i].ptr, "record")
      /\ mem[i].type = "dir" =>
           Held(mem[i].ptr, "dir") /\ Held(mem[mem[i].ptr].items, "entries")
  BY Chain
<1>2. Behind({d}) = {p} /\ Behind({p}) = {i}
  BY <1>1, BehindOne DEF Held, Private, ItemOf
<1>3. Behind({i}) = {mem[i].ptr}
  BY <1>1, BehindOne DEF Held, TypeInv
<1>4. Footprint(d) = {d, p, i, mem[i].ptr} \cup Behind({mem[i].ptr})
  BY <1>2, <1>3 DEF Footprint
<1>5. CASE mem[i].type = "file"
  <2>1. Behind({mem[i].ptr}) = {}
    BY <1>1, <1>5, BehindOne DEF Held
  <2>2. QED
    BY <1>4, <1>5, <2>1 DEF Content
<1>6. CASE mem[i].type = "dir"
  <2>1. Behind({mem[i].ptr}) = {mem[mem[i].ptr].items}
    BY <1>1, <1>6, BehindOne DEF Held, TypeInv
  <2>2. QED
    BY <1>4, <1>6, <2>1 DEF Content
<1>7. QED
  BY <1>1, <1>5, <1>6

\* What an object of the footprint is, by its kind.
LEMMA FootprintKinds ==
  ASSUME TypeInv, Safe, Sound, NEW k \in OpenFds, NEW d, d = table[k],
         NEW p, p = Private(d), NEW i, i = ItemOf(d), NEW b \in Footprint(d)
  PROVE  /\ b \in taken /\ b \in Blocks
         /\ mem[b].kind \in {"desc", "fatdesc", "item", "record", "dir", "entries"}
         /\ mem[b].kind = "desc" => b = d
         /\ mem[b].kind = "fatdesc" => b = p
         /\ mem[b].kind = "item" => b = i
         /\ mem[b].kind = "record" => b = mem[i].ptr /\ OwnedBy(mem[i]) = b
         /\ mem[b].kind = "dir" => b = mem[i].ptr /\ DirItem(i)
         /\ mem[b].kind = "entries" =>
              DirItem(i) /\ Held(mem[i].ptr, "dir") /\ OwnedBy(mem[mem[i].ptr]) = b
<1>1. b \in {d, p, i} \cup Content(i)
  BY FootprintIs
<1>2. /\ d \in Blocks /\ Held(d, "desc")
      /\ p \in Blocks /\ Held(p, "fatdesc") /\ i \in Blocks /\ Held(i, "item")
      /\ mem[i].type \in {"file", "dir"}
      /\ mem[i].type = "file" => Held(mem[i].ptr, "record") /\ OwnedBy(mem[i]) = mem[i].ptr
      /\ mem[i].type = "dir" =>
           /\ Held(mem[i].ptr, "dir") /\ OwnedBy(mem[mem[i].ptr]) = mem[mem[i].ptr].items
           /\ Held(mem[mem[i].ptr].items, "entries")
  BY Chain
<1>3. CASE b \in {d, p, i}
  BY <1>2, <1>3 DEF Held
<1>4. CASE mem[i].type = "file" /\ b = mem[i].ptr
  BY <1>2, <1>4 DEF Held, TypeInv
<1>5. CASE mem[i].type = "dir" /\ b = mem[i].ptr
  BY <1>2, <1>5 DEF Held, TypeInv, DirItem
<1>6. CASE mem[i].type = "dir" /\ b = mem[mem[i].ptr].items
  BY <1>2, <1>6 DEF Held, TypeInv, DirItem
<1>7. QED
  BY <1>1, <1>2, <1>3, <1>4, <1>5, <1>6 DEF Content

\* Two descriptors have nothing in common.
LEMMA Disjoint ==
  ASSUME TypeInv, Safe, Sound, NEW j \in OpenFds, NEW k \in OpenFds, j # k
  PROVE  Footprint(table[j]) \cap Footprint(table[k]) = {}
<1> SUFFICES ASSUME NEW b \in Footprint(table[j]), b \in Footprint(table[k]) PROVE FALSE
  OBVIOUS
<1> DEFINE p(n) == Private(table[n])
<1> DEFINE i(n) == ItemOf(table[n])
<1>1. \A n \in {j, k} :
        /\ Held(table[n], "desc") /\ mem[table[n]].index = n /\ OwnedBy(mem[table[n]]) = p(n)
        /\ p(n) \in Blocks /\ Held(p(n), "fatdesc") /\ OwnedBy(mem[p(n)]) = i(n)
        /\ i(n) \in Blocks /\ Held(i(n), "item")
  BY Chain
<1>2. \A n \in {j, k} :
        /\ b \in taken /\ b \in Blocks
        /\ mem[b].kind \in {"desc", "fatdesc", "item", "record", "dir", "entries"}
        /\ mem[b].kind = "desc" => b = table[n]
        /\ mem[b].kind = "fatdesc" => b = p(n)
        /\ mem[b].kind = "item" => b = i(n)
        /\ mem[b].kind = "record" => b = mem[i(n)].ptr /\ OwnedBy(mem[i(n)]) = b
        /\ mem[b].kind = "dir" => b = mem[i(n)].ptr /\ DirItem(i(n))
        /\ mem[b].kind = "entries" =>
             DirItem(i(n)) /\ Held(mem[i(n)].ptr, "dir") /\ OwnedBy(mem[mem[i(n)].ptr]) = b
  BY FootprintKinds
<1> HIDE DEF p, i
<1>3. table[j] # table[k]
  BY <1>1
<1>4. p(j) # p(k)
  BY <1>1, <1>3 DEF Safe, Owned, Held
<1>5. i(j) # i(k)
  BY <1>1, <1>4 DEF Safe, Owned, Held
<1>6. CASE mem[b].kind \in {"desc", "fatdesc", "item"}
  BY <1>2, <1>3, <1>4, <1>5, <1>6
<1>7. CASE mem[b].kind = "record"
  <2>1. OwnedBy(mem[i(j)]) = b /\ OwnedBy(mem[i(k)]) = b /\ b \in Blocks
    BY <1>2, <1>7
  <2>2. QED
    BY <1>1, <1>5, <2>1 DEF Safe, Owned, Held
<1>8. ASSUME DirItem(i(j)), DirItem(i(k)), mem[i(j)].ptr = mem[i(k)].ptr, mem[i(j)].ptr \in Blocks
      PROVE  FALSE
  BY <1>1, <1>5, <1>8 DEF Sound, Whole, Held
<1>9. CASE mem[b].kind = "dir"
  BY <1>2, <1>8, <1>9
<1>10. CASE mem[b].kind = "entries"
  <2>1. /\ DirItem(i(j)) /\ Held(mem[i(j)].ptr, "dir") /\ OwnedBy(mem[mem[i(j)].ptr]) = b
        /\ DirItem(i(k)) /\ Held(mem[i(k)].ptr, "dir") /\ OwnedBy(mem[mem[i(k)].ptr]) = b
        /\ b \in Blocks
    BY <1>2, <1>10
  <2>2. mem[i(j)].ptr = mem[i(k)].ptr
    BY <2>1 DEF Safe, Owned, Held
  <2>3. QED
    BY <1>8, <2>1, <2>2 DEF Held, TypeInv
<1>11. QED
  BY <1>2, <1>6, <1>7, <1>9, <1>10

\* What fopen is building is behind no open descriptor.
LEMMA BuildingApart ==
  ASSUME TypeInv, Safe, Sound, NEW k \in OpenFds, NEW b \in Footprint(table[k])
  PROVE  /\ b \in taken /\ b \in Blocks /\ b \notin {fatd, cur, tmp}
         /\ pc = "entries" => b # mem[tmp].ptr
<1> DEFINE p == Private(table[k])
<1> DEFINE i == ItemOf(table[k])
<1>1. p # fatd /\ i \notin {cur, tmp} /\ Held(i, "item")
  BY Chain
<1>2. /\ b \in taken /\ b \in Blocks
      /\ mem[b].kind = "fatdesc" => b = p
      /\ mem[b].kind = "item" => b = i
      /\ mem[b].kind = "dir" => b = mem[i].ptr /\ DirItem(i)
  BY FootprintKinds
<1> HIDE DEF p, i
<1>3. /\ fatd \in Blocks => mem[fatd].kind = "fatdesc"
      /\ cur # Null => mem[cur].kind = "item"
      /\ tmp # Null => mem[tmp].kind = "item"
  BY DEF Safe, Building, Held
<1>4. b \notin {fatd, cur, tmp}
  BY <1>1, <1>2, <1>3, PointersAre
<1>5. ASSUME pc = "entries", b = mem[tmp].ptr
      PROVE  FALSE
  <2>1. mem[b].kind = "dir" /\ DirItem(tmp) /\ tmp \in taken
    BY <1>5 DEF Safe, Building, Making, DirItem, Held
  <2>2. DirItem(i) /\ mem[i].ptr = mem[tmp].ptr /\ mem[i].ptr \in Blocks /\ i \in taken
    BY <1>1, <1>2, <1>5, <2>1 DEF Held
  <2>3. i = tmp
    BY <2>1, <2>2 DEF Sound, Whole
  <2>4. QED
    BY <1>1, <2>3
<1>6. QED
  BY <1>2, <1>4, <1>5

\* While memory lasts, if directories can be read and files are only read:
\* every slot in use holds a descriptor of its number, with its private data,
\* its item and the item's directory entry or listing, all of them held.
\* (file_new_descriptor, fat16_open)
THEOREM Complete ==
  ASSUME OnlyReads
  PROVE  Spec /\ []MemoryLeft => []DescriptorsComplete
<1>1. CleanInv => DescriptorsComplete
  <2> SUFFICES ASSUME TypeInv, Safe, Sound, NEW k \in OpenFds
               PROVE  /\ Readable(table[k]) /\ mem[table[k]].index = k
                      /\ LET i == mem[ItemOf(table[k])]
                         IN IF i.type = "file" THEN IsA(i.ptr, "record")
                            ELSE IsA(i.ptr, "dir") /\ IsA(mem[i.ptr].items, "entries")
                      /\ Footprint(table[k]) \subseteq taken
    BY DEF CleanInv, DescriptorsComplete
  <2> DEFINE d == table[k]
  <2> DEFINE i == ItemOf(d)
  <2>1. /\ d \in Blocks /\ Held(d, "desc") /\ mem[d].index = k
        /\ Private(d) \in Blocks /\ Held(Private(d), "fatdesc")
        /\ i \in Blocks /\ Held(i, "item") /\ mem[i].type \in {"file", "dir"}
        /\ mem[i].type = "file" => Held(mem[i].ptr, "record")
        /\ mem[i].type = "dir" =>
             Held(mem[i].ptr, "dir") /\ Held(mem[mem[i].ptr].items, "entries")
    BY Chain
  <2>2. Readable(d) /\ mem[d].index = k
    BY <2>1 DEF Readable, IsA, Held
  <2>3. IF mem[i].type = "file" THEN IsA(mem[i].ptr, "record")
        ELSE IsA(mem[i].ptr, "dir") /\ IsA(mem[mem[i].ptr].items, "entries")
    BY <2>1 DEF IsA, Held, TypeInv
  <2>4. Footprint(d) \subseteq taken
    BY FootprintKinds
  <2>5. QED
    BY <2>2, <2>3, <2>4
<1>2. QED
  BY CleanInvariant, <1>1, PTL

\* Under the same conditions, two open descriptors share no object, and what
\* fopen is building is behind neither.  (heap blocks handed out twice, or
\* freed too early)
THEOREM Apart ==
  ASSUME OnlyReads
  PROVE  Spec /\ []MemoryLeft => []DescriptorsApart
<1>1. CleanInv => DescriptorsApart
  <2> SUFFICES ASSUME TypeInv, Safe, Sound
               PROVE  DescriptorsApart
    BY DEF CleanInv
  <2>1. \A j, k \in OpenFds : j # k => Footprint(table[j]) \cap Footprint(table[k]) = {}
    BY Disjoint
  <2>2. \A k \in OpenFds : {fatd, cur, tmp} \cap Footprint(table[k]) = {}
    BY BuildingApart
  <2>3. QED
    BY <2>1, <2>2 DEF DescriptorsApart
<1>2. QED
  BY CleanInvariant, <1>1, PTL

-----------------------------------------------------------------------------
(* What a step may do to the objects behind a descriptor.                  *)

\* fclose frees the footprint.
LEMMA CloseFootprint ==
  ASSUME TypeInv, Safe, Sound, pc = "idle", NEW k \in OpenFds
  PROVE  ClosePtrs(table[k]) = Footprint(table[k])
<1> DEFINE d == table[k]
<1> DEFINE p == Private(d)
<1> DEFINE i == ItemOf(d)
<1>1. Footprint(d) = {d, p, i} \cup Content(i)
  BY FootprintIs
<1>2. /\ mem[i].type \in {"file", "dir"}
      /\ mem[i].type = "dir" =>
           Held(mem[i].ptr, "dir") /\ Held(mem[mem[i].ptr].items, "entries")
  BY Chain
<1>3. ItemReadable(i) /\ ClosePtrs(d) = Ptrs(ItemFrees(i)) \cup {p, d}
  BY CloseFreesWhole
<1>4. Ptrs(ItemFrees(i)) = {i} \cup Content(i)
  <2>1. CASE mem[i].type = "file"
    <3>1. Ptrs(ItemFrees(i)) = {i, mem[i].ptr}
      BY <1>3, <2>1, ItemPtrs
    <3>2. QED
      BY <2>1, <3>1 DEF Content
  <2>2. CASE mem[i].type = "dir"
    <3>1. mem[i].ptr # Null /\ mem[mem[i].ptr].items # Null
      BY <1>2, <2>2, PointersAre DEF Held, TypeInv
    <3>2. Ptrs(ItemFrees(i)) = {i, mem[i].ptr}
            \cup (IF mem[mem[i].ptr].items = Null THEN {} ELSE {mem[mem[i].ptr].items})
      BY <1>3, <2>2, <3>1, ItemPtrs
    <3>3. QED
      BY <2>2, <3>1, <3>2 DEF Content
  <2>3. QED
    BY <1>2, <2>1, <2>2
<1>5. QED
  BY <1>1, <1>3, <1>4

\* Only file_new_descriptor and fclose change the table.
LEMMA TableSteps ==
  ASSUME Call \/ Step
  PROVE  table' = table \/ NewDescriptor \/ \E fd : Fclose(fd)
<1>1. CASE Call
  <2>1. CASE \E r \in Requests : Fopen(r)
    BY <2>1 DEF Fopen
  <2>2. CASE \E fd \in 0 .. MaxFds + 1 : Fread(fd) \/ Fstat(fd)
    BY <2>2 DEF Fread, Fstat, QueryCall
  <2>3. CASE \E fd \in 0 .. MaxFds + 1, off \in Offsets, w \in {"SET", "CUR", "END"} : Fseek(fd, off, w)
    BY <2>3 DEF Fseek
  <2>4. QED
    BY <1>1, <2>1, <2>2, <2>3 DEF Call
<1>2. CASE Step
  <2>1. CASE CreateRoot \/ PathEnds \/ NamePart \/ AddPart
    BY <2>1 DEF CreateRoot, PathEnds, NamePart, AddPart
  <2>2. CASE CheckFails \/ WriteMode \/ FatOpen
    BY <2>2 DEF CheckFails, WriteMode, FatOpen
  <2>3. CASE Lookup \/ CreateItem \/ CloneItem \/ LoadDirectory
    BY <2>3 DEF Lookup, CreateItem, CloneItem, LoadDirectory
  <2>4. CASE \E res \in ReadResults : LoadEntries(res)
    BY <2>4 DEF LoadEntries
  <2>5. CASE DropCurrent \/ Descend \/ Found
    BY <2>5 DEF DropCurrent, Descend, Found
  <2>6. QED
    BY <1>2, <2>1, <2>2, <2>3, <2>4, <2>5 DEF Step
<1>3. QED
  BY <1>1, <1>2

\* Under the same conditions, fclose gives back the blocks of the one
\* descriptor that it closes, all of them and no others.
\* (fat16_close, file_free_descriptor)
THEOREM ClosesOne ==
  ASSUME OnlyReads
  PROVE  Spec /\ []MemoryLeft => CloseReleasesAll
<1> DEFINE A == \A k \in OpenFds : table'[k] = Null =>
                  /\ taken' = taken \ Footprint(table[k])
                  /\ OpenFds' = OpenFds \ {k}
<1>1. CleanInv /\ MemoryLeft /\ [Next]_vars => [A]_vars
  <2> SUFFICES ASSUME TypeInv, Safe, Sound, MemoryLeft, [Next]_vars,
                      NEW k \in OpenFds, table'[k] = Null
               PROVE  /\ taken' = taken \ Footprint(table[k])
                      /\ OpenFds' = OpenFds \ {k}
    BY DEF CleanInv
  <2>1. ASSUME table' = table
        PROVE  FALSE
    BY <2>1 DEF OpenFds
  <2>2. CASE NewDescriptor
    <3>1. CASE FreeSlots = {}
      BY <2>1, <2>2, <3>1 DEF NewDescriptor
    <3>2. CASE FreeSlots # {}
      <4> DEFINE n == CHOOSE s \in FreeSlots : \A t \in FreeSlots : s <= t
      <4>1. table' = [table EXCEPT ![n] = Lowest]
        BY <2>2, <3>2 DEF NewDescriptor, MemoryLeft
      <4> HIDE DEF n
      <4>2. Lowest # Null
        BY LowestFree, PointersAre DEF TypeInv, MemoryLeft
      <4>3. QED
        BY <4>1, <4>2 DEF TypeInv, OpenFds
    <3>3. QED
      BY <3>1, <3>2
  <2>3. ASSUME NEW fd, Fclose(fd)
        PROVE  /\ taken' = taken \ Footprint(table[k])
               /\ OpenFds' = OpenFds \ {k}
    <3>1. GetDescriptor(fd) # Null
      BY <2>1, <2>3 DEF Fclose
    <3>2. /\ fd \in OpenFds /\ taken' = taken \ ClosePtrs(table[fd])
          /\ table' = [table EXCEPT ![fd] = Null]
      BY <2>3, <3>1, CloseDoes
    <3>3. k = fd
      BY <3>2 DEF TypeInv, OpenFds
    <3>4. ClosePtrs(table[fd]) = Footprint(table[fd])
      BY <2>3, <3>2, CloseFootprint DEF Fclose
    <3>5. QED
      BY <3>2, <3>3, <3>4 DEF TypeInv, OpenFds
  <2>4. CASE fault = "none" /\ (Call \/ Step)
    BY <2>1, <2>2, <2>3, <2>4, TableSteps
  <2>5. CASE UNCHANGED vars
    BY <2>1, <2>5 DEF vars
  <2>6. QED
    BY <2>4, <2>5 DEF Next, Halted
<1>2. QED
  BY CleanInvariant, <1>1, PTL DEF Spec, CloseReleasesAll

\* Objects in use are rewritten only while fat16_open builds, and by a seek.
LEMMA MemSteps ==
  ASSUME TypeInv, Safe, Call \/ Step
  PROVE  \/ \A b \in taken : mem'[b] = mem[b]
         \/ \A b \in taken \ {tmp} : mem'[b] = mem[b]
         \/ pc = "entries" /\ \A b \in taken \ {mem[tmp].ptr} : mem'[b] = mem[b]
         \/ \A b \in taken \ {fatd} : mem'[b] = mem[b]
         \/ \E fd : \E off \in Offsets, w \in {"SET", "CUR", "END"} : Fseek(fd, off, w)
<1>1. OutOfMemory \/ Lowest \notin taken
  BY LowestFree DEF TypeInv
<1>2. \A o : Kzalloc(o) /\ ~OutOfMemory => \A b \in taken : mem'[b] = mem[b]
  BY <1>1 DEF Kzalloc, TypeInv
<1>3. CASE Call
  <2>1. CASE \E r \in Requests : Fopen(r)
    BY <2>1 DEF Fopen, heapVars
  <2>2. CASE \E fd \in 0 .. MaxFds + 1 : Fread(fd) \/ Fstat(fd)
    BY <2>2 DEF Fread, Fstat, QueryCall, heapVars
  <2>3. CASE \E fd \in 0 .. MaxFds + 1 : Fclose(fd)
    BY <2>3 DEF Fclose
  <2>4. CASE \E fd \in 0 .. MaxFds + 1, off \in Offsets, w \in {"SET", "CUR", "END"} : Fseek(fd, off, w)
    <3>1. PICK fd \in 0 .. MaxFds + 1 : \E off \in Offsets, w \in {"SET", "CUR", "END"} : Fseek(fd, off, w)
      BY <2>4
    <3>2. QED
      BY <3>1
  <2>5. QED
    BY <1>3, <2>1, <2>2, <2>3, <2>4 DEF Call
<1>4. CASE Step
  <2>1. CASE CreateRoot \/ NamePart \/ AddPart \/ FatOpen \/ CreateItem \/ NewDescriptor
    BY <1>2, <2>1 DEF CreateRoot, NamePart, AddPart, FatOpen, CreateItem, NewDescriptor, heapVars
  <2>2. CASE PathEnds
    BY <1>1, <2>2 DEF PathEnds, TypeInv
  <2>3. CASE CheckFails \/ WriteMode \/ Lookup \/ Descend \/ DropCurrent
    BY <2>3 DEF CheckFails, WriteMode, Lookup, Descend, DropCurrent, heapVars
  <2>4. CASE CloneItem
    BY <1>1, <2>4 DEF CloneItem, heapVars, TypeInv
  <2>5. CASE LoadDirectory
    BY <1>1, <2>5 DEF LoadDirectory, heapVars, TypeInv
  <2>6. CASE \E res \in ReadResults : LoadEntries(res)
    BY <1>1, <2>6 DEF LoadEntries, TypeInv
  <2>7. CASE Found
    BY <2>7 DEF Found, TypeInv
  <2>8. QED
    BY <1>4, <2>1, <2>2, <2>3, <2>4, <2>5, <2>6, <2>7 DEF Step
<1>5. QED
  BY <1>3, <1>4

\* A directory entry is that of a node.
LEMMA RecordIs ==
  ASSUME NEW o \in Objects, o.kind = "record"
  PROVE  o.node \in Nodes
<1>1. PICK x \in Nodes : o = Record(x)
  BY DEF Objects, Blank, Other, Entries, Dir
<1>2. QED
  BY <1>1 DEF Record

\* A seek moves the position of its own descriptor, and that only if it
\* succeeds within the file.
LEMMA SeekMoves ==
  ASSUME TypeInv, Safe, Sound, NEW fd, NEW off \in Offsets,
         NEW w \in {"SET", "CUR", "END"}, Fseek(fd, off, w), NEW k \in OpenFds
  PROVE  \/ \A b \in Footprint(table[k]) : mem'[b] = mem[b]
         \/ /\ \/ Fseek(k, off, "SET") /\ off < FileSize[NodeOf(k)]
               \/ Fseek(k, off, "CUR")
            /\ ret' = 0
            /\ \A b \in Footprint(table[k]) \ {Private(table[k])} : mem'[b] = mem[b]
<1> DEFINE d == GetDescriptor(fd)
<1>1. CASE d = Null
  BY <1>1 DEF Fseek
<1>2. CASE d # Null
  <2>1. /\ fd \in OpenFds /\ d = table[fd] /\ Readable(d)
        /\ mem[ItemOf(d)].type = "file" => IsA(mem[ItemOf(d)].ptr, "record")
    BY <1>2, ChainReadable
  <2>2. /\ mem' = [mem EXCEPT ![Private(d)].pos = SeekTarget(fd, off, w)]
        /\ ret' = SeekResult(fd, off, w)
    BY <1>2, <2>1 DEF Fseek
  <2>3. /\ Private(d) \in Blocks /\ Held(Private(d), "fatdesc")
        /\ ItemOf(d) \in Blocks /\ mem[ItemOf(d)].type \in {"file", "dir"}
    BY <2>1, Chain
  <2>4. \A b \in Blocks \ {Private(d)} : mem'[b] = mem[b]
    BY <2>2 DEF TypeInv
  <2>5. CASE k # fd
    <3>1. Private(d) \in Footprint(table[fd])
      BY <2>1, FootprintIs
    <3>2. Footprint(table[fd]) \cap Footprint(table[k]) = {}
      BY <2>1, <2>5, Disjoint
    <3>3. Footprint(table[k]) \subseteq Blocks
      BY FootprintKinds
    <3>4. QED
      BY <2>4, <3>1, <3>2, <3>3
  <2>6. CASE k = fd
    <3>1. \A b \in Footprint(table[k]) \ {Private(table[k])} : mem'[b] = mem[b]
      <4>1. Footprint(table[k]) \subseteq Blocks
        BY FootprintKinds
      <4>2. QED
        BY <2>1, <2>4, <2>6, <4>1
    <3>2. CASE SeekTarget(fd, off, w) = mem[Private(d)].pos
      <4>1. mem[Private(d)] \in FatDescs
        BY <2>3, ObjectKinds DEF Held, TypeInv
      <4>2. mem[Private(d)] = [mem[Private(d)] EXCEPT !.pos = mem[Private(d)].pos]
        BY <4>1 DEF FatDescs
      <4>3. mem'[Private(d)] = mem[Private(d)]
        BY <2>2, <2>3, <3>2, <4>2 DEF TypeInv
      <4>4. QED
        BY <2>1, <2>6, <3>1, <4>3
    <3>3. CASE SeekTarget(fd, off, w) # mem[Private(d)].pos
      <4> DEFINE i == mem[ItemOf(d)]
      <4>1. /\ i.type # "dir" /\ ~(off >= FileSize[mem[i.ptr].node]) /\ w # "END"
        BY <3>3 DEF SeekTarget
      <4>2. ret' = 0
        BY <2>2, <4>1 DEF SeekResult
      <4>3. NodeOf(k) = mem[i.ptr].node
        BY <2>1, <2>6, <4>1 DEF NodeOf
      <4>4. FileSize[mem[i.ptr].node] \in Nat /\ off \in Int
        <5>1. mem[i.ptr].node \in Nodes
          BY <2>1, <2>3, <4>1, RecordIs DEF IsA, TypeInv
        <5>2. QED
          BY <5>1, FileTableAssumption
      <4>5. off < FileSize[NodeOf(k)]
        BY <4>1, <4>3, <4>4
      <4>6. w \in {"SET", "CUR"}
        BY <4>1
      <4>7. QED
        BY <2>6, <3>1, <4>2, <4>5, <4>6
    <3>4. QED
      BY <3>2, <3>3
  <2>7. QED
    BY <2>5, <2>6
<1>3. QED
  BY <1>1, <1>2

\* Under the same conditions, whatever is called, what hangs behind a
\* descriptor that stays open is not rewritten, but for the position under a
\* seek on this very descriptor that succeeds and, if it is absolute, stays in
\* the file.  (file_get_descriptor, fat16_seek)
THEOREM OthersStay ==
  ASSUME OnlyReads
  PROVE  Spec /\ []MemoryLeft => OthersUntouched
<1> DEFINE Same(k) == \A b \in Footprint(table[k]) : mem'[b] = mem[b]
<1> DEFINE Moved(k) ==
      \E off \in Offsets :
        /\ \/ Fseek(k, off, "SET") /\ off < FileSize[NodeOf(k)]
           \/ Fseek(k, off, "CUR")
        /\ ret' = 0
        /\ \A b \in Footprint(table[k]) \ {Private(table[k])} : mem'[b] = mem[b]
<1> DEFINE A ==
      \A k \in OpenFds : table'[k] = table[k] =>
        \/ \A b \in Footprint(table[k]) : mem'[b] = mem[b]
        \/ \E off \in Offsets :
             /\ \/ Fseek(k, off, "SET") /\ off < FileSize[NodeOf(k)]
                \/ Fseek(k, off, "CUR")
             /\ ret' = 0
             /\ \A b \in Footprint(table[k]) \ {Private(table[k])} : mem'[b] = mem[b]
<1>1. CleanInv /\ [Next]_vars => [A]_vars
  <2> SUFFICES ASSUME TypeInv, Safe, Sound, [Next]_vars, NEW k \in OpenFds
               PROVE  Same(k) \/ Moved(k)
    BY DEF CleanInv
  <2>1. CASE UNCHANGED vars
    BY <2>1 DEF vars, heapVars
  <2>2. CASE Call \/ Step
    <3>1. ASSUME NEW fd, NEW off \in Offsets, NEW w \in {"SET", "CUR", "END"}, Fseek(fd, off, w)
          PROVE  Same(k) \/ Moved(k)
      <4>1. \/ Same(k)
            \/ /\ \/ Fseek(k, off, "SET") /\ off < FileSize[NodeOf(k)]
                  \/ Fseek(k, off, "CUR")
               /\ ret' = 0
               /\ \A b \in Footprint(table[k]) \ {Private(table[k])} : mem'[b] = mem[b]
        BY <3>1, SeekMoves
      <4>2. QED
        BY <4>1
    <3>2. \A b \in Footprint(table[k]) :
            b \in taken /\ b \notin {fatd, tmp} /\ (pc = "entries" => b # mem[tmp].ptr)
      BY BuildingApart
    <3>3. Same(k) \/ \E fd : \E off \in Offsets, w \in {"SET", "CUR", "END"} : Fseek(fd, off, w)
      BY <2>2, <3>2, MemSteps
    <3>4. QED
      BY <3>1, <3>3
  <2>3. QED
    BY <2>1, <2>2 DEF Next, Halted
<1>2. QED
  BY CleanInvariant, <1>1, PTL DEF Spec, OthersUntouched

-----------------------------------------------------------------------------
(* What fopen finds.                                                       *)

\* The node that an item is of: a directory's is that of its listing.
NodeAt(p) ==
  IF mem[p].type = "dir" THEN mem[mem[mem[p].ptr].items].node ELSE mem[mem[p].ptr].node

\* The nodes that the parts that were looked up lead to.
Here == Along(req.parts)[level]

\* An item of what the path led to so far; no item if it led nowhere.
Leads(p) ==
  IF p = Null THEN Here = {}
  ELSE Here = {NodeAt(p)} /\ (mem[p].type = "dir" <=> NodeAt(p) \in Dirs)

Stepping == {"item", "drop", "descend"} \cup Making

\* fopen is where the path leads.
Named ==
  /\ \A j \in 1 .. Len(list) : list[j] = req.parts[j]
  /\ pc \notin {"idle", "root", "name", "part"} => Len(list) = Len(req.parts)
  /\ pc \notin Parsing => Opens
  /\ pc \in Stepping \cup {"found"} => level > 0
  /\ pc \in Stepping => Along(req.parts)[level - 1] \cap Dirs # {}
  /\ pc = "lookup" => Here = {SearchedIn(cur)} /\ SearchedIn(cur) \in Dirs
  /\ pc \in {"item"} \cup Making => Here = {node}
  /\ pc \in {"dir", "entries"} => node \in Dirs
  /\ pc = "clone" => node \notin Dirs
  /\ pc = "drop" => Leads(tmp)
  /\ pc \in {"descend", "found"} => Leads(cur)
  /\ pc = "descend" /\ cur = Null => level > 1
  /\ pc = "found" => level = Len(list) \/ (level = 1 /\ cur = Null)
  /\ pc = "newfd" => Reached(req.parts) = {NodeAt(mem[fatd].item)}

\* One part more.
Further(parts, j, s) == UNION {Child(d, parts[j]) : d \in s \cap Dirs}

\* The recursion of Along has a solution.
LEMMA AlongExists ==
  ASSUME NEW parts, NEW N \in Nat
  PROVE  \E f : f = [j \in 0 .. N |-> IF j = 0 THEN {Root} ELSE Further(parts, j, f[j - 1])]
<1> DEFINE Ok(f, n) ==
       f = [j \in 0 .. n |-> IF j = 0 THEN {Root} ELSE Further(parts, j, f[j - 1])]
<1> DEFINE S == {n \in Nat : \E f : Ok(f, n)}
<1>1. 0 \in S
  <2>1. Ok([j \in 0 .. 0 |-> {Root}], 0)
    OBVIOUS
  <2>2. QED
    BY <2>1
<1>2. ASSUME NEW n \in Nat, n \in S
      PROVE  n + 1 \in S
  <2>1. PICK f : Ok(f, n)
    BY <1>2
  <2> DEFINE g == [j \in 0 .. n + 1 |-> IF j = n + 1 THEN Further(parts, n + 1, f[n]) ELSE f[j]]
  <2>2. \A j \in 0 .. n : g[j] = f[j]
    OBVIOUS
  <2>3. \A j \in 0 .. n + 1 : g[j] = IF j = 0 THEN {Root} ELSE Further(parts, j, g[j - 1])
    <3> SUFFICES ASSUME NEW j \in 0 .. n + 1
                 PROVE  g[j] = IF j = 0 THEN {Root} ELSE Further(parts, j, g[j - 1])
      OBVIOUS
    <3>1. CASE j = n + 1
      BY <2>2, <3>1
    <3>2. CASE j # n + 1
      <4>1. f[j] = IF j = 0 THEN {Root} ELSE Further(parts, j, f[j - 1])
        <5>1. j \in 0 .. n
          BY <3>2
        <5>2. \A m \in 0 .. n : f[m] = IF m = 0 THEN {Root} ELSE Further(parts, m, f[m - 1])
          BY <2>1
        <5>3. QED
          BY <5>1, <5>2
      <4>2. j # 0 => g[j - 1] = f[j - 1]
        BY <2>2, <3>2
      <4>3. g[j] = f[j]
        BY <2>2, <3>2
      <4>4. QED
        BY <4>1, <4>2, <4>3
    <3>3. QED
      BY <3>1, <3>2
  <2> HIDE DEF g
  <2>4. Ok(g, n + 1)
    <3>1. g = [j \in 0 .. n + 1 |-> g[j]]
      BY DEF g
    <3>2. QED
      BY <2>3, <3>1
  <2>5. QED
    BY <2>4
<1> HIDE DEF S
<1>3. N \in S
  BY <1>1, <1>2, SetInduction
<1>4. QED
  BY <1>3 DEF S

\* Along is that solution.
LEMMA AlongIs ==
  ASSUME NEW parts, Len(parts) \in Nat
  PROVE  /\ Along(parts)[0] = {Root}
         /\ \A j \in 1 .. Len(parts) : Along(parts)[j] = Further(parts, j, Along(parts)[j - 1])
<1> DEFINE Ok(f) == f = [j \in 0 .. Len(parts) |->
                           IF j = 0 THEN {Root}
                           ELSE UNION {Child(d, parts[j]) : d \in f[j - 1] \cap Dirs}]
<1>1. \E f : Ok(f)
  <2>1. PICK f : f = [j \in 0 .. Len(parts) |-> IF j = 0 THEN {Root} ELSE Further(parts, j, f[j - 1])]
    BY AlongExists
  <2>2. Ok(f)
    BY <2>1 DEF Further
  <2>3. QED
    BY <2>2
<1>2. Along(parts) = CHOOSE f : Ok(f)
  BY DEF Along
<1>3. Ok(Along(parts))
  BY <1>1, <1>2
<1>4. QED
  BY <1>3 DEF Further

\* A path that leads nowhere, or to a file, leads nowhere from there on.
LEMMA WalkDies ==
  ASSUME NEW parts, Len(parts) \in Nat, NEW j \in Nat, j < Len(parts),
         Along(parts)[j] \cap Dirs = {}
  PROVE  Along(parts)[Len(parts)] = {}
<1> DEFINE S == {n \in Nat : j + 1 + n <= Len(parts) => Along(parts)[j + 1 + n] = {}}
<1>1. \A n \in 1 .. Len(parts) :
        Along(parts)[n - 1] \cap Dirs = {} => Along(parts)[n] = {}
  BY AlongIs DEF Further
<1>2. 0 \in S
  BY <1>1
<1>3. ASSUME NEW n \in Nat, n \in S
      PROVE  n + 1 \in S
  <2>1. SUFFICES ASSUME j + 1 + (n + 1) <= Len(parts)
                 PROVE  Along(parts)[j + 1 + (n + 1)] = {}
    OBVIOUS
  <2>2. Along(parts)[j + 1 + n] = {}
    BY <1>3, <2>1
  <2>3. j + 1 + (n + 1) \in 1 .. Len(parts) /\ (j + 1 + (n + 1)) - 1 = j + 1 + n
    BY <2>1
  <2>4. QED
    BY <1>1, <2>2, <2>3
<1> HIDE DEF S
<1>4. \A n \in Nat : n \in S
  BY <1>2, <1>3, SetInduction
<1>5. Len(parts) - (j + 1) \in S
  BY <1>4
<1>6. QED
  BY <1>5 DEF S

\* A directory has one entry of a name.
LEMMA ChildIs ==
  ASSUME NEW d, NEW name, NEW x \in Child(d, name)
  PROVE  Child(d, name) = {x} /\ x \in Nodes
<1>1. \A y \in Child(d, name) : y = x
  <2>1. ASSUME NEW y \in Child(d, name)
        PROVE  y = x
    <3>1. <<d, name, x>> \in Links /\ <<d, name, y>> \in Links
      BY DEF Child
    <3> DEFINE e == <<d, name, x>>
               f == <<d, name, y>>
    <3>2. e[1] = f[1] /\ e[2] = f[2] /\ e[3] = x /\ f[3] = y
      OBVIOUS
    <3> HIDE DEF e, f
    <3>3. e = f
      BY <3>1, <3>2, FileTableAssumption DEF e, f
    <3>4. QED
      BY <3>2, <3>3
  <2>2. QED
    BY <2>1
<1>2. QED
  BY <1>1 DEF Child

\* A step that does not go beyond the parser.
LEMMA EarlyNamed ==
  ASSUME pc' \in {"idle", "root", "name", "part"},
         \A j \in 1 .. Len(list') : list'[j] = req'.parts[j]
  PROVE  Named'
BY DEF Named, Parsing, Making, Stepping

LEMMA ReturnNamed ==
  ASSUME NEW r, Return(r)
  PROVE  Named'
<1>1. pc' = "idle" /\ list' = <<>>
  BY DEF Return
<1>2. Len(list') = 0
  BY <1>1
<1>3. QED
  BY <1>1, <1>2, EarlyNamed

LEMMA CallNamed ==
  ASSUME TypeInv, Named, Call
  PROVE  Named'
<1>1. pc = "idle" /\ list = <<>> /\ list' = list /\ pc' \in {"idle", "root"}
  <2>1. CASE \E r \in Requests : Fopen(r)
    BY <2>1 DEF Fopen, TypeInv
  <2>2. CASE \E fd : Fread(fd) \/ Fstat(fd)
    BY <2>2 DEF Fread, Fstat, QueryCall, TypeInv, openVars
  <2>3. CASE \E fd : Fclose(fd)
    BY <2>3 DEF Fclose, TypeInv, openVars
  <2>4. CASE \E fd : \E off \in Offsets, w \in {"SET", "CUR", "END"} : Fseek(fd, off, w)
    BY <2>4 DEF Fseek, TypeInv, openVars
  <2>5. QED
    BY <2>1, <2>2, <2>3, <2>4 DEF Call
<1>2. Len(list') = 0
  BY <1>1
<1>3. QED
  BY <1>1, <1>2, EarlyNamed

LEMMA ParseNamed ==
  ASSUME TypeInv, Safe, MemoryLeft, Named, CreateRoot \/ PathEnds \/ NamePart \/ AddPart
  PROVE  Named'
<1>1. CASE CreateRoot
  <2>1. pc' = "name" /\ UNCHANGED <<list, req>>
    BY <1>1 DEF CreateRoot, MemoryLeft, openVars
  <2>2. QED
    BY <2>1, EarlyNamed DEF Named
<1>2. CASE PathEnds
  <2>1. pc' = "checks" /\ UNCHANGED <<list, req>> /\ Len(list) = Len(req.parts)
    BY <1>2 DEF PathEnds, openVars
  <2>2. QED
    BY <2>1 DEF Named, Parsing, Making, Stepping
<1>3. CASE NamePart
  <2>1. pc' = "part" /\ UNCHANGED <<list, req>>
    BY <1>3 DEF NamePart, MemoryLeft, openVars
  <2>2. QED
    BY <2>1, EarlyNamed DEF Named
<1>4. CASE AddPart
  <2>1. pc' = "name" /\ req' = req /\ list' = Append(list, req.parts[Len(list) + 1])
    BY <1>4 DEF AddPart, MemoryLeft
  <2>2. list \in Seq(Names)
    BY DEF TypeInv
  <2>3. Len(list) < Len(req.parts) /\ req.parts \in Seq(Names)
    BY <1>4, RequestFacts DEF AddPart, Safe, Building, TypeInv
  <2>4. req.parts[Len(list) + 1] \in Names
    BY <2>2, <2>3
  <2>5. /\ Len(list') = Len(list) + 1 /\ list'[Len(list) + 1] = req.parts[Len(list) + 1]
        /\ \A j \in 1 .. Len(list) : list'[j] = list[j]
    BY <2>1, <2>2, <2>4
  <2>6. \A j \in 1 .. Len(list') : list'[j] = req'.parts[j]
    BY <2>1, <2>2, <2>5 DEF Named
  <2>7. QED
    BY <2>1, <2>6, EarlyNamed
<1>5. QED
  BY <1>1, <1>2, <1>3, <1>4

LEMMA ChecksNamed ==
  ASSUME TypeInv, Safe, MemoryLeft, OnlyReads, Named, CheckFails \/ WriteMode \/ FatOpen
  PROVE  Named'
<1>1. CASE CheckFails
  BY <1>1, ReturnNamed DEF CheckFails
<1>2. CASE WriteMode
  BY <1>2 DEF WriteMode, OnlyReads, TypeInv, NoRequest
<1>3. CASE FatOpen
  <2>1. /\ pc = "checks" /\ pc' = "lookup" /\ Opens /\ UNCHANGED <<req, list, level, cur>>
    BY <1>3 DEF FatOpen, MemoryLeft
  <2>2. cur = Null /\ level = 0 /\ Len(list) = Len(req.parts)
    BY <2>1 DEF Safe, Building, Parsing, Named
  <2>3. Len(req.parts) \in Nat
    BY RequestFacts DEF TypeInv
  <2>4. Along(req.parts)[0] = {Root}
    BY <2>3, AlongIs
  <2>5. Here' = {Root} /\ SearchedIn(cur)' = Root /\ Opens'
    BY <2>1, <2>2, <2>4 DEF Here, SearchedIn, Opens
  <2>6. SearchedIn(cur)' \in Dirs
    BY <2>5, FileTableAssumption
  <2>7. \A j \in 1 .. Len(list') : list'[j] = req'.parts[j]
    BY <2>1 DEF Named
  <2>8. QED
    BY <2>1, <2>2, <2>5, <2>6, <2>7 DEF Named, Parsing, Making, Stepping
<1>4. QED
  BY <1>1, <1>2, <1>3

LEMMA LookupNamed ==
  ASSUME TypeInv, Safe, Sound, fault = "none", Named, Lookup
  PROVE  Named'
<1> DEFINE d == SearchedIn(cur)
           match == Child(d, list[level + 1])
<1>1. fault' = fault
  BY LookupSound
<1>2. /\ pc = "lookup" /\ level' = level + 1 /\ tmp' = Null /\ UNCHANGED <<req, list>>
      /\ \/ match = {} /\ node' = None /\ pc' = "drop"
         \/ node' \in match /\ pc' = "item"
  BY <1>1 DEF Lookup
<1>3. Here = {d} /\ d \in Dirs /\ Opens /\ Len(list) = Len(req.parts)
  BY <1>2 DEF Named, Parsing
<1>4. level \in Nat /\ level + 1 \in 1 .. Len(list) /\ Len(list) \in Nat
  BY <1>2 DEF TypeInv, Safe, Building
<1>5. list[level + 1] = req.parts[level + 1]
  BY <1>4 DEF Named
<1>6. Along(req.parts)[level + 1] = Further(req.parts, level + 1, Along(req.parts)[level])
  <2>1. /\ Len(req.parts) \in Nat /\ level + 1 \in 1 .. Len(req.parts)
        /\ (level + 1) - 1 = level
    BY <1>3, <1>4
  <2>2. QED
    BY <2>1, AlongIs
<1>7. Further(req.parts, level + 1, {d}) = match
  BY <1>3, <1>5 DEF Further
<1> HIDE DEF match
<1>8. Here' = match
  BY <1>2, <1>3, <1>6, <1>7 DEF Here
<1>9. node' \in match => match = {node'}
  BY ChildIs DEF match
<1>10. Along(req.parts)[level' - 1] \cap Dirs # {}
  BY <1>2, <1>3, <1>4 DEF Here
<1>11. /\ \A j \in 1 .. Len(list') : list'[j] = req'.parts[j]
       /\ Len(list') = Len(req'.parts) /\ Opens' /\ level' > 0
  BY <1>2, <1>3, <1>4 DEF Named, Opens
<1>12. CASE match = {} /\ pc' = "drop"
  <2>1. Leads(tmp)'
    BY <1>2, <1>8, <1>12 DEF Leads
  <2>2. QED
    BY <1>2, <1>10, <1>11, <1>12, <2>1 DEF Named, Parsing, Making, Stepping
<1>13. CASE node' \in match /\ pc' = "item"
  BY <1>2, <1>8, <1>9, <1>10, <1>11, <1>13 DEF Named, Parsing, Making, Stepping
<1>14. QED
  BY <1>2, <1>12, <1>13

LEMMA CreateItemNamed ==
  ASSUME MemoryLeft, Named, CreateItem
  PROVE  Named'
<1>1. /\ pc = "item" /\ pc' = (IF node \in Dirs THEN "dir" ELSE "clone")
      /\ UNCHANGED <<req, list, level, cur, node>>
  BY DEF CreateItem, MemoryLeft
<1>2. /\ Here' = Here /\ Opens' = Opens
      /\ Along(req.parts)[level - 1] = (Along(req.parts)[level - 1])'
  BY <1>1 DEF Here, Opens
<1>3. QED
  BY <1>1, <1>2 DEF Named, Parsing, Making, Stepping

\* An item is complete: it is of the node that was found.
LEMMA MadeNamed ==
  ASSUME TypeInv, Safe, Named, pc \in Making, pc' = "drop",
         UNCHANGED <<req, list, level, cur, tmp, node>>,
         NodeAt(tmp)' = node, mem'[tmp].type = "dir" <=> node \in Dirs
  PROVE  Named'
<1>1. /\ Here' = Here /\ Opens' = Opens
      /\ Along(req.parts)[level - 1] = (Along(req.parts)[level - 1])'
  BY DEF Here, Opens
<1>2. tmp # Null
  BY DEF Safe, Building
<1>3. Here = {node}
  BY DEF Named
<1>4. Leads(tmp)'
  BY <1>1, <1>2, <1>3 DEF Leads
<1>5. QED
  BY <1>1, <1>4 DEF Named, Parsing, Making, Stepping

LEMMA CloneItemNamed ==
  ASSUME TypeInv, Safe, MemoryLeft, Named, CloneItem
  PROVE  Named'
<1>1. /\ pc = "clone" /\ pc' = "drop" /\ UNCHANGED <<req, list, level, cur, tmp, node>>
      /\ MakeBehind(Record(node)) /\ ~OutOfMemory
  BY DEF CloneItem, MemoryLeft, MakeBehind, openVars
<1>2. node \in Nodes /\ node \notin Dirs /\ mem[tmp].type = "file" /\ pc \in Making
  BY <1>1 DEF Safe, Building, Making, Named
<1>3. /\ Record(node) \in Objects /\ OwnedBy(Record(node)) \notin Blocks
      /\ Record(node).kind = "record"
  BY <1>2, ObjectTypes, OwnedByMade, PointersAre
<1>4. mem'[tmp] = Item(mem[tmp].type, Lowest) /\ mem'[Lowest] = Record(node)
  BY <1>1, <1>2, <1>3, AllocBehind
<1>5. mem'[tmp].type = "file" /\ mem'[tmp].ptr = Lowest /\ mem'[Lowest].node = node
  BY <1>2, <1>4 DEF Item, Record
<1>6. NodeAt(tmp)' = node
  BY <1>1, <1>5 DEF NodeAt
<1>7. QED
  BY <1>1, <1>2, <1>5, <1>6, MadeNamed

LEMMA LoadDirectoryNamed ==
  ASSUME MemoryLeft, Named, LoadDirectory
  PROVE  Named'
<1>1. pc = "dir" /\ pc' = "entries" /\ UNCHANGED <<req, list, level, cur, node>>
  BY DEF LoadDirectory, MemoryLeft, openVars
<1>2. /\ Here' = Here /\ Opens' = Opens
      /\ Along(req.parts)[level - 1] = (Along(req.parts)[level - 1])'
  BY <1>1 DEF Here, Opens
<1>3. QED
  BY <1>1, <1>2 DEF Named, Parsing, Making, Stepping

LEMMA LoadEntriesNamed ==
  ASSUME TypeInv, Safe, MemoryLeft, Named, LoadEntries("OK")
  PROVE  Named'
<1> DEFINE d == mem[tmp].ptr
<1>1. /\ pc = "entries" /\ pc' = "drop" /\ UNCHANGED <<req, list, level, cur, tmp, node>>
      /\ mem' = [mem EXCEPT ![Lowest] = Entries(node), ![d].items = Lowest]
  BY DEF LoadEntries, MemoryLeft, openVars
<1>2. Lowest \in Blocks /\ Lowest \notin taken
  BY LowestFree DEF TypeInv, MemoryLeft
<1>3. /\ d \in taken /\ d \in Blocks /\ mem[d].kind = "dir" /\ d # Lowest
      /\ tmp \in taken /\ tmp \in Blocks /\ mem[tmp].kind = "item" /\ mem[tmp].type = "dir"
      /\ tmp # d /\ tmp # Lowest /\ pc \in Making /\ node \in Dirs
  BY <1>1, <1>2 DEF TypeInv, Safe, Building, Making, Held, Named
<1>4. PICK q \in Pointers : mem[d] = Dir(q)
  BY <1>3, ObjectKinds DEF TypeInv
<1>5. mem'[d] = [mem[d] EXCEPT !.items = Lowest] /\ mem'[Lowest] = Entries(node)
      /\ mem'[tmp] = mem[tmp]
  BY <1>1, <1>2, <1>3 DEF TypeInv
<1>6. mem'[d].items = Lowest /\ mem'[Lowest].node = node
  BY <1>4, <1>5, ObjectSet, OwnedByMade DEF Entries
<1>7. mem'[tmp].type = "dir" /\ mem'[tmp].ptr = d
  BY <1>3, <1>5
<1> HIDE DEF d
<1>8. NodeAt(tmp)' = node
  BY <1>1, <1>6, <1>7 DEF NodeAt
<1>9. QED
  BY <1>1, <1>3, <1>7, <1>8, MadeNamed

LEMMA DropCurrentNamed ==
  ASSUME TypeInv, Safe, Sound, fault = "none", Named, DropCurrent
  PROVE  Named'
<1>1. fault' = fault
  BY DropCurrentSound
<1>2. /\ pc = "drop" /\ cur' = tmp /\ UNCHANGED <<mem, req, list, level, tmp>>
      /\ pc' = IF level = Len(list) \/ (level = 1 /\ tmp = Null) THEN "found" ELSE "descend"
  BY <1>1 DEF DropCurrent
<1>3. /\ Here' = Here /\ Opens' = Opens
      /\ Along(req.parts)[level - 1] = (Along(req.parts)[level - 1])'
  BY <1>2 DEF Here, Opens
<1>4. Leads(cur)'
  BY <1>2, <1>3 DEF Named, Leads, NodeAt
<1>5. level \in Nat /\ level > 0
  BY <1>2 DEF TypeInv, Named, Stepping
<1>6. QED
  BY <1>2, <1>3, <1>4, <1>5 DEF Named, Parsing, Making, Stepping

LEMMA DescendNamed ==
  ASSUME Named, Descend
  PROVE  Named'
<1>1. pc = "descend" /\ mem' = mem
  BY DEF Descend, heapVars
<1>2. CASE \E r : Return(r)
  BY <1>2, ReturnNamed
<1>3. CASE UNCHANGED <<pc, openVars>>
  <2>1. UNCHANGED <<pc, req, list, level, cur>>
    BY <1>3 DEF openVars
  <2>2. /\ Here' = Here /\ Opens' = Opens /\ Leads(cur)' = Leads(cur)
        /\ Along(req.parts)[level - 1] = (Along(req.parts)[level - 1])'
    BY <1>1, <2>1 DEF Here, Opens, Leads, NodeAt
  <2>3. QED
    BY <1>1, <2>1, <2>2 DEF Named, Parsing, Making, Stepping
<1>4. CASE TypeRead(cur) = "dir" /\ pc' = "lookup" /\ UNCHANGED openVars
  <2>1. UNCHANGED <<req, list, level, cur>>
    BY <1>4 DEF openVars
  <2>2. cur # Null /\ mem[cur].type = "dir"
    BY <1>4 DEF TypeRead
  <2>3. Here' = Here /\ Opens' = Opens /\ SearchedIn(cur)' = NodeAt(cur)
    BY <1>1, <2>1, <2>2 DEF Here, Opens, SearchedIn, NodeAt
  <2>4. Here = {NodeAt(cur)} /\ NodeAt(cur) \in Dirs
    BY <1>1, <2>2 DEF Named, Leads
  <2>5. QED
    BY <1>1, <1>4, <2>1, <2>3, <2>4 DEF Named, Parsing, Making, Stepping
<1>5. QED
  BY <1>2, <1>3, <1>4 DEF Descend

LEMMA FoundNamed ==
  ASSUME TypeInv, Safe, Sound, Named, Found
  PROVE  Named'
<1>1. CASE cur = Null
  BY <1>1, ReturnNamed DEF Found
<1>2. CASE cur # Null
  <2>1. /\ pc = "found" /\ pc' = "newfd" /\ UNCHANGED <<req, list, level, cur, fatd>>
        /\ mem' = [mem EXCEPT ![fatd] = FatDesc(cur, 0)]
    BY <1>2 DEF Found, openVars
  <2>2. fatd \in Blocks /\ fatd \in taken /\ mem[fatd].kind = "fatdesc" /\ Held(cur, "item")
    BY <1>2, <2>1 DEF Safe, Building, Parsing, Held
  <2>3. level = Len(list) /\ Len(list) = Len(req.parts) /\ Opens /\ Here = {NodeAt(cur)}
    BY <1>2, <2>1 DEF Named, Leads, Parsing
  <2>4. mem'[fatd].item = cur /\ \A b \in Blocks \ {fatd} : mem'[b] = mem[b]
    BY <2>1, <2>2 DEF TypeInv, FatDesc
  <2>5. /\ cur \in Blocks /\ cur # fatd /\ mem[cur].type \in {"file", "dir"}
        /\ mem[cur].type = "file" => mem[cur].ptr \in Blocks \ {fatd}
        /\ mem[cur].type = "dir" =>
             mem[cur].ptr \in Blocks \ {fatd} /\ mem[mem[cur].ptr].items \in Blocks \ {fatd}
    <3>1. pc \notin Making
      BY <2>1 DEF Making
    <3>2. taken \subseteq Blocks
      BY DEF TypeInv
    <3>3. QED
      BY <2>2, <3>1, <3>2, ItemWhole DEF Held
  <2>6. NodeAt(cur)' = NodeAt(cur)
    BY <2>1, <2>4, <2>5 DEF NodeAt
  <2>7. NodeAt(mem[fatd].item)' = NodeAt(cur)
    BY <2>1, <2>4, <2>6 DEF NodeAt
  <2>8. Reached(req.parts)' = {NodeAt(cur)} /\ Opens'
    BY <2>1, <2>3 DEF Here, Reached, Opens
  <2>9. QED
    BY <2>1, <2>3, <2>7, <2>8 DEF Named, Parsing, Making, Stepping
<1>3. QED
  BY <1>1, <1>2

\* Every step keeps to the path.
LEMMA StepNamed ==
  ASSUME TypeInv, Safe, Sound, Named, OnlyReads, MemoryLeft, fault = "none", Call \/ Step
  PROVE  Named'
<1>1. CASE Call
  BY <1>1, CallNamed
<1>2. CASE CreateRoot \/ PathEnds \/ NamePart \/ AddPart
  BY <1>2, ParseNamed
<1>3. CASE CheckFails \/ WriteMode \/ FatOpen
  BY <1>3, ChecksNamed
<1>4. CASE Lookup \/ CreateItem \/ CloneItem \/ LoadDirectory
  BY <1>4, LookupNamed, CreateItemNamed, CloneItemNamed, LoadDirectoryNamed
<1>5. CASE \E res \in ReadResults : LoadEntries(res)
  BY <1>5, LoadEntriesNamed DEF OnlyReads
<1>6. CASE DropCurrent \/ Descend \/ Found
  BY <1>6, DropCurrentNamed, DescendNamed, FoundNamed
<1>7. CASE NewDescriptor
  BY <1>7, ReturnNamed DEF NewDescriptor
<1>8. QED
  BY <1>1, <1>2, <1>3, <1>4, <1>5, <1>6, <1>7 DEF Step

LEMMA NamedInvariant ==
  ASSUME OnlyReads
  PROVE  Spec /\ []MemoryLeft => []Named
<1>1. Init => Named
  <2> SUFFICES ASSUME Init PROVE Named
    OBVIOUS
  <2>1. pc = "idle" /\ list = <<>> /\ Len(list) = 0
    BY DEF Init
  <2>2. QED
    BY <2>1 DEF Named, Parsing, Making, Stepping
<1>2. CleanInv /\ MemoryLeft /\ Named /\ [Next]_vars => Named'
  <2> SUFFICES ASSUME TypeInv, Safe, Sound, MemoryLeft, Named, [Next]_vars PROVE Named'
    BY DEF CleanInv
  <2>1. CASE fault = "none" /\ (Call \/ Step)
    BY <2>1, StepNamed
  <2>2. CASE UNCHANGED vars
    <3>1. UNCHANGED <<mem, pc, req, list, level, cur, tmp, node, fatd>>
      BY <2>2 DEF vars, heapVars, openVars
    <3>2. /\ Here' = Here /\ Opens' = Opens /\ SearchedIn(cur)' = SearchedIn(cur)
          /\ Leads(cur)' = Leads(cur) /\ Leads(tmp)' = Leads(tmp)
          /\ (NodeAt(mem[fatd].item))' = NodeAt(mem[fatd].item)
          /\ (Along(req.parts)[level - 1])' = Along(req.parts)[level - 1]
      BY <3>1 DEF Here, Opens, SearchedIn, Leads, NodeAt
    <3>3. QED
      BY <3>1, <3>2 DEF Named, Parsing, Making, Stepping, Reached
  <2>3. QED
    BY <2>1, <2>2 DEF Next, Halted
<1>3. QED
  BY CleanInvariant, <1>1, <1>2, PTL DEF Spec

\* While memory lasts, if every directory can be read, files are opened for
\* reading and no part between the first and the last of a path is missing, no
\* call reads an object that is not there or frees what is not held.
\* (every dereference and kfree of file.c, pparser.c and fat16.c)
THEOREM FaultFree ==
  ASSUME OnlyReads, MiddlePartsExist
  PROVE  Spec /\ []MemoryLeft => []NoFault
<1>1. Init => NoFault
  BY DEF Init, NoFault
<1>2. CleanInv /\ Named /\ MemoryLeft /\ NoFault /\ [Next]_vars => NoFault'
  <2> SUFFICES ASSUME TypeInv, Safe, Sound, Named, MemoryLeft, fault = "none", [Next]_vars
               PROVE  fault' = "none"
    BY DEF CleanInv, NoFault
  <2>1. CASE Call \/ Step
    <3>1. CASE fault' = fault
      BY <3>1
    <3>2. CASE Descend
      <4>1. SUFFICES ASSUME cur = Null, fault' # fault PROVE FALSE
        BY <3>2 DEF Descend
      <4>2. pc = "descend"
        BY <3>2 DEF Descend
      <4>3. /\ level \in Nat /\ level > 1 /\ level < Len(req.parts) /\ Len(req.parts) \in Nat
            /\ Here = {} /\ Along(req.parts)[level - 1] \cap Dirs # {}
        BY <4>1, <4>2, RequestFacts DEF TypeInv, Safe, Building, Named, Leads, Parsing, Stepping
      <4>4. req \in Requests
        BY <4>3, RequestFacts DEF TypeInv
      <4>5. level - 1 \in 1 .. Len(req.parts) - 2 /\ (level - 1) + 1 = level
        BY <4>3
      <4>6. Along(req.parts)[(level - 1) + 1] # {}
        BY <4>3, <4>4, <4>5 DEF MiddlePartsExist
      <4>7. QED
        BY <4>3, <4>5, <4>6 DEF Here
    <3>3. QED
      BY <2>1, <3>1, <3>2, StepSound
  <2>2. CASE UNCHANGED vars
    BY <2>2 DEF vars
  <2>3. QED
    BY <2>1, <2>2 DEF Next, Halted
<1>3. QED
  BY CleanInvariant, NamedInvariant, <1>1, <1>2, PTL DEF Spec

\* fopen fails only when its path leads nowhere.
LEMMA GivesUp ==
  ASSUME TypeInv, Safe, Named, Descend \/ (Found /\ cur = Null), pc' = "idle"
  PROVE  Reached(req.parts) = {} /\ ret' = 0 /\ table' = table
<1>1. ret' = 0 /\ table' = table
  BY DEF Descend, Found, Return
<1>2. /\ Len(list) = Len(req.parts) /\ Len(req.parts) \in Nat /\ level \in Nat
      /\ level <= Len(list)
  BY RequestFacts DEF TypeInv, Named, Descend, Found
<1>3. Here \cap Dirs = {} /\ (level < Len(req.parts) \/ Here = {})
  <2>1. CASE Descend
    <3>1. pc = "descend" /\ TypeRead(cur) # "dir"
      BY <2>1 DEF Descend
    <3>2. level < Len(list) /\ Leads(cur)
      BY <3>1 DEF Safe, Building, Named
    <3>3. QED
      BY <1>2, <3>1, <3>2 DEF Leads, TypeRead
  <2>2. CASE Found /\ cur = Null
    BY <2>2 DEF Found, Named, Leads
  <2>3. QED
    BY <2>1, <2>2
<1>4. Along(req.parts)[Len(req.parts)] = {}
  <2>1. CASE level < Len(req.parts)
    BY <1>2, <1>3, <2>1, WalkDies DEF Here
  <2>2. CASE level = Len(req.parts)
    BY <1>3, <2>2 DEF Here
  <2>3. QED
    BY <1>2, <2>1, <2>2
<1>5. QED
  BY <1>1, <1>4 DEF Reached

\* It returns a descriptor of the node that the path leads to.
LEMMA GetsNode ==
  ASSUME TypeInv, Safe, Sound, Named, MemoryLeft, NewDescriptor, FreeSlots # {}
  PROVE  \E k \in FreeSlots : /\ ret' = k /\ table'[k] # Null
                              /\ NodeOf(k)' \in Reached(req.parts)
<1>1. PICK k \in FreeSlots : k = CHOOSE s \in FreeSlots : \A t \in FreeSlots : s <= t
  <2>1. FreeSlots \subseteq Nat
    BY PointersAre DEF FreeSlots
  <2>2. (CHOOSE s \in FreeSlots : \A t \in FreeSlots : s <= t) \in FreeSlots
    BY <2>1, LeastElement
  <2>3. QED
    BY <2>2
<1>2. /\ ret' = k /\ table' = [table EXCEPT ![k] = Lowest]
      /\ mem' = [mem EXCEPT ![Lowest] = Desc(k, fatd)] /\ pc = "newfd"
  BY <1>1 DEF NewDescriptor, Kzalloc, MemoryLeft, Return, IndexOf
<1>3. Lowest \in Blocks /\ Lowest \notin taken /\ Lowest # Null
  BY LowestFree, PointersAre DEF TypeInv, MemoryLeft
<1>4. table'[k] = Lowest
  BY <1>1, <1>2 DEF TypeInv, FreeSlots
<1>5. mem'[Lowest].private = fatd /\ \A b \in taken : mem'[b] = mem[b]
  BY <1>2, <1>3, OwnedByMade DEF TypeInv
<1> DEFINE i == mem[fatd].item
<1>6. fatd \in taken /\ mem[fatd].kind = "fatdesc" /\ i \in Blocks
  BY <1>2 DEF TypeInv, Safe, Building, Sound, Filled, Pointers, Held
<1>7. Held(i, "item")
  <2>1. OwnedBy(mem[fatd]) = i /\ OwnedKind["fatdesc"] = "item"
    BY <1>6 DEF OwnedBy, OwnedKind
  <2>2. QED
    BY <1>6, <2>1 DEF Safe, Owned
<1> HIDE DEF i
<1>8. /\ i \in taken /\ mem[i].type \in {"file", "dir"}
      /\ mem[i].type = "file" => mem[i].ptr \in taken
      /\ mem[i].type = "dir" => mem[i].ptr \in taken /\ mem[mem[i].ptr].items \in taken
  BY <1>2, <1>7, ItemWhole DEF Held, Making
<1>9. NodeAt(i) = NodeOf(k)'
  <2>1. (ItemOf(table[k]))' = i
    BY <1>4, <1>5, <1>6 DEF ItemOf, Private, i
  <2>2. mem'[i] = mem[i]
    BY <1>5, <1>8
  <2>3. NodeOf(k)' = IF mem[i].type = "dir" THEN mem'[mem'[mem[i].ptr].items].node
                                           ELSE mem'[mem[i].ptr].node
    BY <2>1, <2>2 DEF NodeOf
  <2>4. QED
    BY <1>5, <1>8, <2>3 DEF NodeAt
<1>10. Reached(req.parts) = {NodeAt(i)}
  BY <1>2 DEF Named, i
<1>11. QED
  BY <1>1, <1>2, <1>3, <1>4, <1>9, <1>10

\* While memory lasts, if every directory can be read: fopen for reading
\* returns a descriptor of exactly the node that the path names, if there is
\* one, no part before the last is a file, and a slot is free; else 0.
\* (fopen, fat16_get_final_file_from_directory)
THEOREM OpensNamed ==
  ASSUME OnlyReads
  PROVE  Spec /\ []MemoryLeft => OpensWhatIsNamed
<1> DEFINE A == pc # "idle" /\ pc' = "idle" /\ req.mode = "r" =>
                  IF Reached(req.parts) # {} /\ req.parts # <<>> /\ req.drive = 0
                     /\ Mounted /\ FreeSlots # {}
                  THEN \E k \in FreeSlots : /\ ret' = k /\ table'[k] # Null
                                            /\ NodeOf(k)' \in Reached(req.parts)
                  ELSE ret' = 0 /\ table' = table
<1>1. CleanInv /\ Named /\ MemoryLeft /\ [Next]_vars => [A]_vars
  <2> SUFFICES ASSUME TypeInv, Safe, Sound, Named, MemoryLeft, [Next]_vars,
                      pc # "idle", pc' = "idle", req.mode = "r"
               PROVE  IF Reached(req.parts) # {} /\ req.parts # <<>> /\ req.drive = 0
                         /\ Mounted /\ FreeSlots # {}
                      THEN \E k \in FreeSlots : /\ ret' = k /\ table'[k] # Null
                                                /\ NodeOf(k)' \in Reached(req.parts)
                      ELSE ret' = 0 /\ table' = table
    BY DEF CleanInv
  <2>1. pc \in {"checks", "newfd"} => (list # <<>> <=> req.parts # <<>>)
    <3>1. list \in Seq(Names) /\ req.parts \in Seq(Names)
      BY RequestFacts DEF TypeInv
    <3>2. pc \in {"checks", "newfd"} => Len(list) = Len(req.parts)
      BY DEF Named
    <3>3. (list = <<>> <=> Len(list) = 0) /\ (req.parts = <<>> <=> Len(req.parts) = 0)
      BY <3>1
    <3>4. QED
      BY <3>2, <3>3
  <2>2. CASE CheckFails
    BY <2>1, <2>2 DEF CheckFails, Opens, Return
  <2>3. CASE Descend \/ (Found /\ cur = Null)
    BY <2>3, GivesUp
  <2>4. CASE NewDescriptor
    <3>1. CASE FreeSlots = {}
      BY <2>4, <3>1 DEF NewDescriptor, Return
    <3>2. CASE FreeSlots # {}
      <4>1. Opens /\ Reached(req.parts) # {} /\ pc = "newfd"
        BY <2>4 DEF Named, NewDescriptor, Parsing
      <4>2. req.parts # <<>> /\ req.drive = 0 /\ Mounted
        BY <2>1, <4>1 DEF Opens
      <4>3. QED
        BY <2>4, <3>2, <4>1, <4>2, GetsNode
    <3>3. QED
      BY <3>1, <3>2
  <2>5. CASE Call
    BY <2>5 DEF Call, Fopen, Fread, Fstat, Fclose, Fseek, QueryCall
  <2>6. CASE CreateRoot \/ PathEnds \/ NamePart \/ AddPart \/ WriteMode \/ FatOpen
    BY <2>6 DEF CreateRoot, PathEnds, NamePart, AddPart, WriteMode, FatOpen, MemoryLeft
  <2>7. CASE \/ Lookup \/ CreateItem \/ CloneItem \/ LoadDirectory
             \/ \E res \in ReadResults : LoadEntries(res)
    BY <2>7 DEF Lookup, CreateItem, CloneItem, LoadDirectory, LoadEntries
  <2>8. CASE DropCurrent \/ (Found /\ cur # Null)
    BY <2>8 DEF DropCurrent, Found
  <2>9. CASE UNCHANGED vars
    BY <2>9 DEF vars
  <2>10. QED
    BY <2>2, <2>3, <2>4, <2>5, <2>6, <2>7, <2>8, <2>9 DEF Next, Halted, Step
<1>2. QED
  BY CleanInvariant, NamedInvariant, <1>1, PTL DEF Spec, OpensWhatIsNamed

=============================================================================
