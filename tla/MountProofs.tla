---------------------------- MODULE MountProofs ----------------------------
(***************************************************************************)
(* What mounting leaves behind, for heaps and volumes of every size and    *)
(* for tables of any number of filesystems.                                *)
(*                                                                         *)
(* The runs in use are what six pointers name: the private data, its three *)
(* streams, the listing and the stream of the header.  Two of them that    *)
(* are not null differ.  That the streams are not compared with null does  *)
(* no harm, because one of them is null only when the heap is full, and    *)
(* then the stream of the header is null, too.  The runs do not overlap;   *)
(* only that of the listing can go on behind the end of the heap.          *)
(***************************************************************************)
EXTENDS Mount, Numbers, FiniteSetTheorems, FunctionTheorems

\* The pointers, in the order of their allocation but for the last two.
Ptr == [k \in 1 .. 6 |-> CASE k = 1 -> disk.fs_private
                           [] k \in 2 .. 4 -> private.streams[k - 1]
                           [] k = 5 -> private.root.item
                           [] k = 6 -> stream]

HeapInv ==
  /\ \A b \in DOMAIN held : b \in 1 .. pool /\ held[b] \in Nat \ {0}
  /\ \A b, c \in DOMAIN held : b < c => b + held[b] <= c

Full == 1 .. pool \subseteq Taken

TypeInv ==
  /\ volume \in Volumes /\ pool \in Pools
  /\ pc \in {"fs_init", "disk", "search", "streams", "header", "root", "out", "done"}
  /\ filesystems \in [Slots -> {NoFs, Fat16}] /\ i \in 1 .. MaxFilesystems + 1
  /\ disk \in [filesystem : {NoFs, Fat16}, fs_private : 0 .. pool]
  /\ private \in [streams : [1 .. 3 -> 0 .. pool],
                  root : [item : 0 .. pool, sector_pos : Nat, ending_sector_pos : Nat]]
  /\ made \in 0 .. 3 /\ stream \in 0 .. pool /\ res \in {-1, 0}

\* There is one filesystem in the table, in its first slot.
TableInv ==
  /\ pc # "fs_init" => \A s \in Slots : filesystems[s] = (IF s = 1 THEN Fat16 ELSE NoFs)
  /\ pc = "fs_init" => \A s \in Slots : filesystems[s] = NoFs

\* What is in use is what the pointers name.
Named(p) ==
  /\ DOMAIN held = {p[k] : k \in 1 .. 6} \ {Null}
  /\ \A j, k \in 1 .. 6 : p[j] = p[k] => j = k \/ p[j] = Null

Resolving == pc \in {"streams", "header", "root", "out"}

\* How far fat16_resolve has come.
PhaseInv ==
  /\ pc \in {"fs_init", "disk"} => DOMAIN held = {}
  /\ pc = "search" => IF i = 1 THEN DOMAIN held = {}
                      ELSE /\ disk.fs_private = Null
                           /\ DOMAIN held \subseteq {private.streams[s] : s \in 1 .. 3}
  /\ Resolving => i = 1 /\ Named(Ptr) /\ disk.filesystem = Fat16
  /\ pc = "streams" =>
       /\ \A k \in made + 2 .. 6 : Ptr[k] = Null
       /\ \A k \in 1 .. made + 1 : Ptr[k] = Null => Full
  /\ pc \in {"header", "root"} =>
       /\ \A k \in 1 .. 6 : Ptr[k] = Null <=> k = 5
       /\ res = 0
  /\ pc = "root" => volume.signed
  /\ pc = "out" => IF res = 0
                   THEN volume.signed /\ \A k \in 1 .. 6 : Ptr[k] # Null
                   ELSE Ptr[5] = Null
  /\ pc = "streams" => res = 0

IInv ==
  /\ TypeInv /\ HeapInv /\ TableInv /\ PhaseInv
  /\ MountedIsComplete /\ RefusedLeavesStreams

-----------------------------------------------------------------------------
(* The heap.                                                               *)

LEMMA StreamsAre == DOMAIN Streams = 1 .. 3 /\ Len(Streams) = 3
BY DEF Streams

LEMMA HeldIsTaken ==
  ASSUME HeapInv, NEW b \in DOMAIN held
  PROVE  b \in Taken
<1>1. b \in 1 .. pool /\ held[b] \in Nat \ {0}
  BY DEF HeapInv
<1>2. b \in b .. b + held[b] - 1
  BY <1>1
<1>3. QED
  BY <1>2 DEF Taken

\* The free blocks that are reached from b on are all that are asked for, or
\* all up to the end of the heap, if as many are reached or the end is.
LEMMA ReachedIs ==
  ASSUME pool \in Nat, NEW n \in Nat \ {0}, NEW b \in 1 .. pool,
         Cardinality(Reached(b, n)) = n \/ pool \in Reached(b, n)
  PROVE  \E e \in b .. pool : (e = b + n - 1 \/ e = pool) /\ (b .. e) \cap Taken = {}
<1>1. CASE pool \in Reached(b, n)
  <2>1. (b .. pool) \cap Taken = {} /\ pool \in b .. pool
    BY <1>1 DEF Reached
  <2>2. QED
    BY <2>1
<1>2. CASE Cardinality(Reached(b, n)) = n
  <2> DEFINE e == b + n - 1
             all == b .. e
  <2>1. e \in Nat /\ e - b + 1 = n /\ b <= e
    OBVIOUS
  <2>2. IsFiniteSet(all) /\ Cardinality(all) = n
    BY <2>1, FS_Interval
  <2>3. Reached(b, n) \in SUBSET all
    BY <2>1 DEF Reached
  <2>4. Reached(b, n) = all
    <3> HIDE DEF all
    <3>1. QED
      BY <1>2, <2>2, <2>3, FS_Subset
  <2>5. e \in Reached(b, n)
    BY <2>1, <2>4
  <2>6. e \in b .. pool /\ (b .. e) \cap Taken = {}
    BY <2>5 DEF Reached
  <2>7. QED
    BY <2>6
<1>3. QED
  BY <1>1, <1>2

\* What a search for free blocks comes to: a run that begins where none does,
\* behind the runs below it, and ends before those above it.
LEMMA StartBlockIs ==
  ASSUME HeapInv, pool \in Nat, NEW n \in Nat \ {0}
  PROVE  /\ StartBlock(n) \in 0 .. pool
         /\ StartBlock(n) # Null =>
              /\ StartBlock(n) \notin DOMAIN held
              /\ \A c \in DOMAIN held : /\ c < StartBlock(n) => c + held[c] <= StartBlock(n)
                                        /\ StartBlock(n) < c => StartBlock(n) + n <= c
         /\ Full => StartBlock(n) = Null
         /\ n = 1 /\ StartBlock(n) = Null => Full
<1> DEFINE start == {b \in 1 .. pool : Cardinality(Reached(b, n)) = n \/ pool \in Reached(b, n)}
<1>2. ASSUME NEW b \in start
      PROVE  /\ b \in 1 .. pool /\ b \notin Taken /\ b \notin DOMAIN held
             /\ \A c \in DOMAIN held : (c < b => c + held[c] <= b) /\ (b < c => b + n <= c)
  <2>1. PICK e \in b .. pool : (e = b + n - 1 \/ e = pool) /\ (b .. e) \cap Taken = {}
    BY ReachedIs
  <2>2. b \in b .. e /\ b \in 1 .. pool
    BY <2>1
  <2>3. b \notin Taken
    BY <2>1, <2>2
  <2>4. b \notin DOMAIN held
    BY <2>3, HeldIsTaken
  <2>5. ASSUME NEW c \in DOMAIN held
        PROVE  (c < b => c + held[c] <= b) /\ (b < c => b + n <= c)
    <3>1. c \in 1 .. pool /\ held[c] \in Nat \ {0} /\ c \in Taken
      BY HeldIsTaken DEF HeapInv
    <3>2. c \notin b .. e
      BY <2>1, <3>1
    <3>3. b < c => b + n <= c
      BY <2>1, <2>2, <3>1, <3>2
    <3>4. b \notin c .. c + held[c] - 1
      BY <2>3 DEF Taken
    <3>5. c < b => c + held[c] <= b
      BY <2>2, <3>1, <3>4
    <3>6. QED
      BY <3>3, <3>5
  <2>6. QED
    BY <2>2, <2>3, <2>4, <2>5
<1>3. Full => start = {}
  BY <1>2 DEF Full
<1>4. ASSUME n = 1, start = {} PROVE Full
  <2> SUFFICES ASSUME NEW b \in 1 .. pool, b \notin Taken PROVE FALSE
    BY DEF Full
  <2>1. b .. b = {b}
    OBVIOUS
  <2>2. \A c \in b .. pool : c < b + n <=> c = b
    BY <1>4
  <2>3. Reached(b, n) = {b}
    BY <2>1, <2>2 DEF Reached
  <2>4. Cardinality(Reached(b, n)) = n
    BY <1>4, <2>3, FS_Singleton
  <2>5. QED
    BY <1>4, <2>4
<1>5. CASE start = {}
  <2>1. StartBlock(n) = Null
    BY <1>5 DEF StartBlock
  <2>2. QED
    BY <1>4, <1>5, <2>1 DEF Null
<1>6. CASE start # {}
  <2>1. start \subseteq Nat
    OBVIOUS
  <2>2. \E b \in start : \A c \in start : b <= c
    <3> HIDE DEF start
    <3>1. QED
      BY <1>6, <2>1, LeastElement
  <2>3. StartBlock(n) = (CHOOSE b \in start : \A c \in start : b <= c)
    BY <1>6 DEF StartBlock
  <2>4. StartBlock(n) \in start
    <3> HIDE DEF start
    <3>1. QED
      BY <2>2, <2>3
  <2>5. StartBlock(n) # Null
    BY <2>4 DEF Null
  <2>6. StartBlock(n) \in 0 .. pool
    BY <2>4
  <2>7. QED
    BY <1>2, <1>3, <1>6, <2>4, <2>5, <2>6
<1>7. QED
  BY <1>5, <1>6

\* If nothing is in use behind block m, the search does not go further than to
\* the block behind it.
LEMMA StartBlockLow ==
  ASSUME pool \in Nat, NEW n \in Nat \ {0}, NEW m \in Nat, Taken \subseteq 1 .. m
  PROVE  StartBlock(n) <= m + 1
<1> DEFINE start == {b \in 1 .. pool : Cardinality(Reached(b, n)) = n \/ pool \in Reached(b, n)}
           f == m + 1
<1>1. CASE start = {}
  <2>1. StartBlock(n) = 0
    BY <1>1 DEF StartBlock, Null
  <2>2. QED
    BY <2>1
<1>2. CASE start # {}
  <2>1. start \subseteq Nat
    OBVIOUS
  <2>2. \E b \in start : \A c \in start : b <= c
    <3> HIDE DEF start
    <3>1. QED
      BY <1>2, <2>1, LeastElement
  <2>3. StartBlock(n) = (CHOOSE b \in start : \A c \in start : b <= c)
    BY <1>2 DEF StartBlock
  <2>4. StartBlock(n) \in start /\ \A c \in start : StartBlock(n) <= c
    <3> HIDE DEF start
    <3>1. QED
      BY <2>2, <2>3
  <2>5. CASE f > pool
    <3>1. StartBlock(n) \in 1 .. pool
      BY <2>4
    <3>2. QED
      BY <2>5, <3>1
  <2>6. CASE f <= pool
    <3>1. f \in 1 .. pool /\ \A c \in f .. pool : (f .. c) \cap Taken = {}
      BY <2>6
    <3>2. Reached(f, n) = {c \in f .. pool : c < f + n}
      BY <3>1 DEF Reached
    <3>3. CASE pool < f + n
      <4>1. pool \in Reached(f, n)
        BY <2>6, <3>2, <3>3
      <4>2. QED
        BY <2>4, <3>1, <4>1
    <3>4. CASE ~(pool < f + n)
      <4> DEFINE e == f + n - 1
      <4>1. e \in Nat /\ f \in Nat /\ f <= e /\ e - f + 1 = n
        OBVIOUS
      <4>2. f + n <= pool /\ f \in Nat
        BY <3>4
      <4> HIDE DEF f
      <4>3. Reached(f, n) = f .. e
        BY <3>2, <4>2
      <4>4. Cardinality(f .. e) = n
        BY <4>1, FS_Interval
      <4>5. f \in start
        BY <3>1, <4>3, <4>4
      <4>6. QED
        BY <2>4, <4>5 DEF f
    <3>5. QED
      BY <3>3, <3>4
  <2>7. QED
    BY <2>4, <2>5, <2>6
<1>3. QED
  BY <1>1, <1>2

LEMMA WithIs ==
  ASSUME HeapInv, pool \in Nat, NEW n \in Nat \ {0}, held' = With(n), pool' = pool
  PROVE  /\ HeapInv'
         /\ DOMAIN held' = DOMAIN held \cup ({StartBlock(n)} \ {Null})
         /\ \A b \in DOMAIN held : held'[b] = held[b]
         /\ StartBlock(n) # Null => held'[StartBlock(n)] = n
<1>1. CASE StartBlock(n) = Null
  BY <1>1 DEF With, HeapInv
<1>2. CASE StartBlock(n) # Null
  <2> DEFINE s == StartBlock(n)
  <2>1. /\ s \in 0 .. pool /\ s # 0 /\ s \notin DOMAIN held
        /\ \A c \in DOMAIN held : (c < s => c + held[c] <= s) /\ (s < c => s + n <= c)
    BY <1>2, StartBlockIs DEF Null
  <2>2. held' = [b \in DOMAIN held \cup {s} |-> IF b \in DOMAIN held THEN held[b] ELSE n]
    BY <1>2 DEF With
  <2> HIDE DEF s
  <2>3. DOMAIN held' = DOMAIN held \cup {s}
    BY <2>2
  <2>4. \A b \in DOMAIN held : held'[b] = held[b]
    BY <2>2
  <2>5. held'[s] = n
    BY <2>1, <2>2
  <2>6. s \in 1 .. pool
    BY <2>1
  <2>7. \A b \in DOMAIN held' : b \in 1 .. pool' /\ held'[b] \in Nat \ {0}
    BY <2>3, <2>4, <2>5, <2>6 DEF HeapInv
  <2>8. ASSUME NEW b \in DOMAIN held', NEW c \in DOMAIN held', b < c
        PROVE  b + held'[b] <= c
    <3>1. CASE b = s
      <4>1. c \in DOMAIN held
        BY <2>3, <2>6, <2>8, <3>1
      <4>2. QED
        BY <2>1, <2>5, <2>8, <3>1, <4>1
    <3>2. CASE b # s /\ c = s
      BY <2>1, <2>3, <2>4, <2>8, <3>2
    <3>3. CASE b # s /\ c # s
      BY <2>3, <2>4, <2>8, <3>3 DEF HeapInv
    <3>4. QED
      BY <3>1, <3>2, <3>3
  <2>9. HeapInv'
    BY <2>7, <2>8 DEF HeapInv
  <2>10. QED
    BY <1>2, <2>3, <2>4, <2>5, <2>9 DEF s
<1>3. QED
  BY <1>1, <1>2

LEMMA WithoutIs ==
  ASSUME HeapInv, NEW bs, held' = Without(bs), pool' = pool
  PROVE  /\ HeapInv' /\ DOMAIN held' = DOMAIN held \ bs
         /\ \A b \in DOMAIN held' : held'[b] = held[b]
BY DEF HeapInv, Without

\* A run that is asked for gets a name of its own.
LEMMA NamedWith ==
  ASSUME HeapInv, pool \in Nat, NEW n \in Nat \ {0}, held' = With(n), pool' = pool,
         Named(Ptr), NEW k \in 1 .. 6, Ptr[k] = Null,
         \A j \in 1 .. 6 : Ptr'[j] = (IF j = k THEN StartBlock(n) ELSE Ptr[j])
  PROVE  Named(Ptr)'
<1>1. DOMAIN held' = DOMAIN held \cup ({StartBlock(n)} \ {Null})
  BY WithIs
<1>2. StartBlock(n) = Null \/ StartBlock(n) \notin DOMAIN held
  BY StartBlockIs
<1>3. \A j \in 1 .. 6 : Ptr[j] = Null \/ Ptr[j] \in DOMAIN held
  BY DEF Named
<1>4. DOMAIN held' = {Ptr'[j] : j \in 1 .. 6} \ {Null}
  <2>1. ASSUME NEW x \in DOMAIN held' PROVE x \in {Ptr'[j] : j \in 1 .. 6} \ {Null}
    <3>1. CASE x \in DOMAIN held
      <4>1. PICK j \in 1 .. 6 : x = Ptr[j] /\ x # Null
        BY <3>1 DEF Named
      <4>2. x = Ptr'[j]
        BY <4>1
      <4>3. QED
        BY <4>1, <4>2
    <3>2. CASE x = StartBlock(n) /\ x # Null
      BY <3>2
    <3>3. QED
      BY <1>1, <2>1, <3>1, <3>2
  <2>2. ASSUME NEW j \in 1 .. 6, Ptr'[j] # Null PROVE Ptr'[j] \in DOMAIN held'
    BY <1>1, <1>3, <2>2
  <2>3. QED
    BY <2>1, <2>2
<1>5. \A j, l \in 1 .. 6 : Ptr'[j] = Ptr'[l] => j = l \/ Ptr'[j] = Null
  BY <1>2, <1>3 DEF Named
<1>6. QED
  BY <1>4, <1>5 DEF Named

-----------------------------------------------------------------------------
(* The steps.                                                              *)

LEMMA Constants ==
  ASSUME TypeInv
  PROVE  /\ MaxFilesystems \in Nat \ {0} /\ SectorSize \in Nat \ {0}
         /\ BlockSize \in Nat \ {0} /\ EntrySize \in Nat \ {0} /\ pool \in Nat
         /\ volume.reserved \in Nat /\ volume.copies \in Nat /\ volume.perFat \in Nat
         /\ volume.entries \in Nat \ {0}
         /\ 1 \in Slots
<1>1. /\ MaxFilesystems \in Nat \ {0} /\ SectorSize \in Nat \ {0}
      /\ BlockSize \in Nat \ {0} /\ EntrySize \in Nat \ {0} /\ pool \in Nat
  BY MountAssumption DEF TypeInv
<1>2. volume \in [signed : BOOLEAN, reserved : Nat, copies : Nat, perFat : Nat,
                 entries : Nat \ {0}]
  BY MountAssumption DEF TypeInv
<1>3. /\ volume.reserved \in Nat /\ volume.copies \in Nat /\ volume.perFat \in Nat
      /\ volume.entries \in Nat \ {0}
  BY <1>2
<1>4. 1 \in Slots
  BY <1>1 DEF Slots
<1>5. QED
  BY <1>1, <1>3, <1>4

LEMMA PtrIs ==
  /\ Ptr[1] = disk.fs_private /\ Ptr[5] = private.root.item /\ Ptr[6] = stream
  /\ Ptr[2] = private.streams[1] /\ Ptr[3] = private.streams[2] /\ Ptr[4] = private.streams[3]
BY DEF Ptr

LEMMA InitInv == Init => IInv
<1> SUFFICES ASSUME Init PROVE IInv
  OBVIOUS
<1>1. /\ volume \in Volumes /\ pool \in Pools /\ pool \in Nat /\ pc = "fs_init"
      /\ filesystems = [s \in Slots |-> NoFs] /\ held = [b \in {} |-> 0]
      /\ disk = [filesystem |-> NoFs, fs_private |-> Null]
      /\ i = 1 /\ private = Zeroed /\ made = 0 /\ stream = Null /\ res = 0
      /\ MaxFilesystems \in Nat \ {0}
  BY MountAssumption DEF Init
<1>2. private \in [streams : [1 .. 3 -> 0 .. pool],
                  root : [item : 0 .. pool, sector_pos : Nat, ending_sector_pos : Nat]]
  BY <1>1, StreamsAre DEF Zeroed, NoRoot, Null
<1>3. TypeInv
  BY <1>1, <1>2 DEF TypeInv, Null
<1>4. HeapInv /\ TableInv /\ PhaseInv
  BY <1>1 DEF HeapInv, TableInv, PhaseInv, Resolving
<1>5. MountedIsComplete /\ RefusedLeavesStreams
  BY <1>1 DEF MountedIsComplete, RefusedLeavesStreams
<1>6. QED
  BY <1>3, <1>4, <1>5 DEF IInv

LEMMA FsInitInv ==
  ASSUME IInv, FsInit
  PROVE  IInv'
<1>1. /\ pc = "fs_init" /\ pc' = "disk"
      /\ volume' = volume /\ pool' = pool /\ held' = held /\ disk' = disk /\ i' = i
      /\ private' = private /\ made' = made /\ stream' = stream /\ res' = res
  BY DEF FsInit
<1>2. PICK s \in Slots :
        /\ filesystems[s] = NoFs /\ \A t \in 1 .. s - 1 : filesystems[t] # NoFs
        /\ filesystems' = [filesystems EXCEPT ![s] = Fat16]
  BY DEF FsInit
<1>3. /\ MaxFilesystems \in Nat \ {0} /\ filesystems \in [Slots -> {NoFs, Fat16}]
      /\ \A t \in Slots : filesystems[t] = NoFs
  BY <1>1, Constants DEF IInv, TypeInv, TableInv
<1>4. s = 1
  BY <1>2, <1>3 DEF Slots
<1>5. TypeInv'
  BY <1>1, <1>2, <1>3 DEF IInv, TypeInv
<1>6. TableInv'
  BY <1>1, <1>2, <1>3, <1>4 DEF TableInv
<1>7. HeapInv' /\ PhaseInv'
  BY <1>1 DEF IInv, HeapInv, PhaseInv, Resolving
<1>8. MountedIsComplete' /\ RefusedLeavesStreams'
  BY <1>1 DEF MountedIsComplete, RefusedLeavesStreams
<1>9. QED
  BY <1>5, <1>6, <1>7, <1>8 DEF IInv

LEMMA DiskInitInv ==
  ASSUME IInv, DiskInit
  PROVE  IInv'
<1>1. /\ pc = "disk" /\ pc' = "search" /\ i' = 1
      /\ disk' = [filesystem |-> NoFs, fs_private |-> Null]
      /\ volume' = volume /\ pool' = pool /\ held' = held /\ filesystems' = filesystems
      /\ private' = private /\ made' = made /\ stream' = stream /\ res' = res
  BY DEF DiskInit
<1>2. TypeInv'
  BY <1>1, Constants DEF IInv, TypeInv, Null
<1>3. TableInv' /\ HeapInv' /\ PhaseInv'
  BY <1>1 DEF IInv, TableInv, HeapInv, PhaseInv, Resolving
<1>4. MountedIsComplete' /\ RefusedLeavesStreams'
  BY <1>1 DEF MountedIsComplete, RefusedLeavesStreams
<1>5. QED
  BY <1>2, <1>3, <1>4 DEF IInv

LEMMA SkipSlotInv ==
  ASSUME IInv, SkipSlot
  PROVE  IInv'
<1>1. /\ pc = "search"
      /\ volume' = volume /\ pool' = pool /\ held' = held /\ filesystems' = filesystems
      /\ private' = private /\ made' = made /\ stream' = stream /\ res' = res
  BY DEF SkipSlot
<1>2. /\ MaxFilesystems \in Nat \ {0} /\ i \in 1 .. MaxFilesystems + 1
      /\ filesystems[1] = Fat16 /\ 1 \in Slots
      /\ disk \in [filesystem : {NoFs, Fat16}, fs_private : 0 .. pool]
  BY <1>1, Constants DEF IInv, TypeInv, TableInv
<1>3. CASE i \in Slots
  <2>1. filesystems[i] = NoFs /\ i' = i + 1 /\ pc' = pc /\ disk' = disk
    BY <1>3 DEF SkipSlot
  <2>2. i # 1
    BY <1>2, <2>1 DEF NoFs, Fat16
  <2>3. i' # 1 /\ i' \in 1 .. MaxFilesystems + 1
    BY <1>2, <1>3, <2>1, <2>2 DEF Slots
  <2>4. TypeInv' /\ TableInv' /\ HeapInv'
    BY <1>1, <2>1, <2>3 DEF IInv, TypeInv, TableInv, HeapInv
  <2>5. PhaseInv'
    BY <1>1, <2>1, <2>2, <2>3 DEF IInv, PhaseInv, Resolving
  <2>6. MountedIsComplete' /\ RefusedLeavesStreams'
    BY <1>1, <2>1 DEF MountedIsComplete, RefusedLeavesStreams
  <2>7. QED
    BY <2>4, <2>5, <2>6 DEF IInv
<1>4. CASE i \notin Slots
  <2>1. disk' = [disk EXCEPT !.filesystem = NoFs] /\ pc' = "done" /\ i' = i
    BY <1>4 DEF SkipSlot, Found
  <2>2. i # 1
    BY <1>2, <1>4
  <2>3. disk'.filesystem = NoFs /\ disk'.fs_private = disk.fs_private
    BY <1>2, <2>1
  <2>4. TypeInv' /\ TableInv' /\ HeapInv'
    BY <1>1, <2>1 DEF IInv, TypeInv, TableInv, HeapInv
  <2>5. PhaseInv'
    BY <2>1 DEF PhaseInv, Resolving
  <2>6. MountedIsComplete'
    BY <2>3 DEF MountedIsComplete, Mounted
  <2>7. RefusedLeavesStreams'
    BY <1>1, <2>2, <2>3, StreamsAre DEF RefusedLeavesStreams, IInv, PhaseInv
  <2>8. QED
    BY <2>4, <2>5, <2>6, <2>7 DEF IInv
<1>5. QED
  BY <1>3, <1>4

LEMMA ResolveInv ==
  ASSUME IInv, Resolve
  PROVE  IInv'
<1> DEFINE s == StartBlock(1)
<1>1. /\ pc = "search" /\ i \in Slots /\ filesystems[i] = Fat16 /\ held' = With(1)
      /\ disk' = [filesystem |-> Fat16, fs_private |-> s]
      /\ private' = Zeroed /\ made' = 0 /\ stream' = Null /\ res' = 0 /\ pc' = "streams"
      /\ volume' = volume /\ pool' = pool /\ filesystems' = filesystems /\ i' = i
  BY DEF Resolve
<1>2. pool \in Nat /\ HeapInv /\ 1 \in Nat \ {0}
  BY Constants DEF IInv
<1>3. i = 1 /\ DOMAIN held = {}
  BY <1>1 DEF IInv, TableInv, PhaseInv, NoFs, Fat16
<1>4. s \in 0 .. pool /\ (s = Null => Full)
  BY <1>2, StartBlockIs
<1>5. HeapInv' /\ DOMAIN held' = {s} \ {Null}
  BY <1>1, <1>2, <1>3, WithIs
<1> HIDE DEF s
<1>6. private' \in [streams : [1 .. 3 -> 0 .. pool],
                   root : [item : 0 .. pool, sector_pos : Nat, ending_sector_pos : Nat]]
      /\ private'.root.item = Null /\ \A k \in 1 .. 3 : private'.streams[k] = Null
  BY <1>1, <1>2, StreamsAre DEF Zeroed, NoRoot, Null
<1>7. TypeInv'
  BY <1>1, <1>2, <1>4, <1>6 DEF IInv, TypeInv, Null
<1>8. Ptr'[1] = s /\ \A k \in 2 .. 6 : Ptr'[k] = Null
  BY <1>1, <1>6 DEF Ptr
<1>9. Named(Ptr)'
  <2>1. {Ptr'[k] : k \in 1 .. 6} \ {Null} = {s} \ {Null}
    BY <1>8
  <2>2. \A j, k \in 1 .. 6 : Ptr'[j] = Ptr'[k] => j = k \/ Ptr'[j] = Null
    BY <1>8
  <2>3. QED
    BY <1>5, <2>1, <2>2 DEF Named
<1>10. s = Null => Full'
  <2>1. s = Null => held' = held
    BY <1>1 DEF With, s
  <2>2. QED
    BY <1>1, <1>4, <2>1 DEF Full, Taken
<1>11. PhaseInv'
  <2>1. \A k \in made' + 2 .. 6 : Ptr'[k] = Null
    BY <1>1, <1>8
  <2>2. \A k \in 1 .. made' + 1 : Ptr'[k] = Null => Full'
    BY <1>1, <1>8, <1>10
  <2>3. QED
    BY <1>1, <1>3, <1>9, <2>1, <2>2 DEF PhaseInv, Resolving
<1>12. TableInv'
  BY <1>1 DEF IInv, TableInv
<1>13. MountedIsComplete' /\ RefusedLeavesStreams'
  BY <1>1 DEF MountedIsComplete, RefusedLeavesStreams
<1>14. QED
  BY <1>5, <1>7, <1>11, <1>12, <1>13 DEF IInv

\* A full heap stays as it is.
LEMMA FullStays ==
  ASSUME HeapInv, pool \in Nat, NEW n \in Nat \ {0}, held' = With(n), pool' = pool, Full
  PROVE  Full'
<1>1. StartBlock(n) = Null
  BY StartBlockIs
<1>2. held' = held
  BY <1>1 DEF With
<1>3. QED
  BY <1>2 DEF Full, Taken

LEMMA NewStreamInv ==
  ASSUME IInv, NewStream
  PROVE  IInv'
<1> DEFINE s == StartBlock(1)
           k == made + 2
<1>1. /\ pc = "streams" /\ made < 3 /\ held' = With(1)
      /\ private' = [private EXCEPT !.streams[made + 1] = s]
      /\ made' = made + 1
      /\ volume' = volume /\ pool' = pool /\ pc' = pc /\ filesystems' = filesystems
      /\ disk' = disk /\ i' = i /\ stream' = stream /\ res' = res
  BY StreamsAre DEF NewStream, DiskstreamerNew
<1>2. /\ pool \in Nat /\ HeapInv /\ 1 \in Nat \ {0} /\ made \in 0 .. 3
      /\ private \in [streams : [1 .. 3 -> 0 .. pool],
                      root : [item : 0 .. pool, sector_pos : Nat, ending_sector_pos : Nat]]
  BY Constants DEF IInv, TypeInv
<1>3. made + 1 \in 1 .. 3 /\ k \in 2 .. 4 /\ k - 1 = made + 1
  BY <1>1, <1>2
<1>4. /\ i = 1 /\ Named(Ptr) /\ disk.filesystem = Fat16 /\ res = 0
      /\ \A j \in k .. 6 : Ptr[j] = Null
      /\ \A j \in 1 .. made + 1 : Ptr[j] = Null => Full
  BY <1>1 DEF IInv, PhaseInv, Resolving
<1>5. s \in 0 .. pool /\ (s = Null => Full) /\ HeapInv'
  BY <1>1, <1>2, StartBlockIs, WithIs
<1> HIDE DEF s
<1>6. /\ private' \in [streams : [1 .. 3 -> 0 .. pool],
                       root : [item : 0 .. pool, sector_pos : Nat, ending_sector_pos : Nat]]
      /\ private'.root = private.root
      /\ \A j \in 1 .. 3 : private'.streams[j] = (IF j = made + 1 THEN s ELSE private.streams[j])
  BY <1>1, <1>2, <1>3, <1>5
<1>7. \A j \in 1 .. 6 : Ptr'[j] = (IF j = k THEN s ELSE Ptr[j])
  <2>1. TAKE j \in 1 .. 6
  <2>2. CASE j \in 2 .. 4
    <3>1. Ptr'[j] = private'.streams[j - 1] /\ Ptr[j] = private.streams[j - 1] /\ j - 1 \in 1 .. 3
      BY <2>2 DEF Ptr
    <3>2. j = k <=> j - 1 = made + 1
      BY <1>2, <2>2
    <3>3. QED
      BY <1>6, <3>1, <3>2
  <2>3. CASE j \notin 2 .. 4
    BY <1>1, <1>3, <1>6, <2>3 DEF Ptr
  <2>4. QED
    BY <2>2, <2>3
<1>8. Ptr[k] = Null /\ k \in 1 .. 6
  BY <1>3, <1>4
<1>9. Named(Ptr)'
  <2> HIDE DEF k
  <2>1. QED
    BY <1>1, <1>2, <1>4, <1>7, <1>8, NamedWith DEF s
<1>10. \A j \in made' + 2 .. 6 : Ptr'[j] = Null
  BY <1>1, <1>2, <1>4, <1>7
<1>11. \A j \in 1 .. made' + 1 : Ptr'[j] = Null => Full'
  <2>1. TAKE j \in 1 .. made' + 1
  <2>2. Full => Full'
    BY <1>1, <1>2, FullStays
  <2>3. CASE j = k
    BY <1>3, <1>5, <1>7, <2>2, <2>3
  <2>4. CASE j # k
    <3>1. j \in 1 .. made + 1 /\ j \in 1 .. 6
      BY <1>1, <1>2, <2>4
    <3>2. QED
      BY <1>4, <1>7, <2>2, <2>4, <3>1
  <2>5. QED
    BY <2>3, <2>4
<1>12. PhaseInv'
  BY <1>1, <1>4, <1>9, <1>10, <1>11 DEF PhaseInv, Resolving
<1>13. TypeInv'
  BY <1>1, <1>2, <1>3, <1>6 DEF IInv, TypeInv
<1>14. TableInv'
  BY <1>1 DEF IInv, TableInv
<1>15. MountedIsComplete' /\ RefusedLeavesStreams'
  BY <1>1 DEF MountedIsComplete, RefusedLeavesStreams
<1>16. QED
  BY <1>5, <1>12, <1>13, <1>14, <1>15 DEF IInv

LEMMA HeaderStreamInv ==
  ASSUME IInv, HeaderStream
  PROVE  IInv'
<1> DEFINE s == StartBlock(1)
<1>1. /\ pc = "streams" /\ made = 3 /\ held' = With(1) /\ stream' = s
      /\ volume' = volume /\ pool' = pool /\ filesystems' = filesystems
      /\ disk' = disk /\ i' = i /\ private' = private /\ made' = made
      /\ s = Null => res' = -1 /\ pc' = "out"
      /\ s # Null => res' = res /\ pc' = "header"
  BY StreamsAre DEF HeaderStream, DiskstreamerNew
<1>2. pool \in Nat /\ HeapInv /\ 1 \in Nat \ {0}
  BY Constants DEF IInv
<1>3. /\ i = 1 /\ Named(Ptr) /\ disk.filesystem = Fat16 /\ res = 0
      /\ \A j \in 5 .. 6 : Ptr[j] = Null
      /\ \A j \in 1 .. 4 : Ptr[j] = Null => Full
  BY <1>1 DEF IInv, PhaseInv, Resolving
<1>4. s \in 0 .. pool /\ (Full => s = Null) /\ HeapInv'
  BY <1>1, <1>2, StartBlockIs, WithIs
<1>5. \A j \in 1 .. 6 : Ptr'[j] = (IF j = 6 THEN s ELSE Ptr[j])
  BY <1>1 DEF Ptr
<1>6. Named(Ptr)'
  BY <1>1, <1>2, <1>3, <1>5, NamedWith
<1> HIDE DEF s
<1>7. PhaseInv'
  <2>1. CASE s = Null
    <3>1. Ptr'[5] = Null
      BY <1>3, <1>5
    <3>2. QED
      BY <1>1, <1>3, <1>6, <2>1, <3>1 DEF PhaseInv, Resolving
  <2>2. CASE s # Null
    <3>1. \A j \in 1 .. 6 : Ptr'[j] = Null <=> j = 5
      <4>1. ~ Full
        BY <1>4, <2>2
      <4>2. TAKE j \in 1 .. 6
      <4>3. j \in 1 .. 4 \/ j = 5 \/ j = 6
        OBVIOUS
      <4>4. QED
        BY <1>3, <1>5, <2>2, <4>1, <4>3
    <3>2. QED
      BY <1>1, <1>3, <1>6, <2>2, <3>1 DEF PhaseInv, Resolving
  <2>3. QED
    BY <2>1, <2>2
<1>8. TypeInv'
  BY <1>1, <1>3, <1>4 DEF IInv, TypeInv
<1>9. TableInv'
  BY <1>1 DEF IInv, TableInv
<1>10. MountedIsComplete' /\ RefusedLeavesStreams'
  BY <1>1 DEF MountedIsComplete, RefusedLeavesStreams
<1>11. QED
  BY <1>4, <1>7, <1>8, <1>9, <1>10 DEF IInv

LEMMA ReadHeaderInv ==
  ASSUME IInv, ReadHeader
  PROVE  IInv'
<1>1. /\ pc = "header"
      /\ \/ volume.signed /\ res' = res /\ pc' = "root"
         \/ res' = -1 /\ pc' = "out"
      /\ volume' = volume /\ pool' = pool /\ filesystems' = filesystems /\ held' = held
      /\ disk' = disk /\ i' = i /\ private' = private /\ made' = made /\ stream' = stream
  BY DEF ReadHeader, Signature
<1>2. Ptr' = Ptr
  BY <1>1 DEF Ptr
<1>3. /\ i = 1 /\ Named(Ptr) /\ disk.filesystem = Fat16 /\ res = 0
      /\ \A j \in 1 .. 6 : Ptr[j] = Null <=> j = 5
  BY <1>1 DEF IInv, PhaseInv, Resolving
<1>4. Named(Ptr)'
  BY <1>1, <1>2, <1>3 DEF Named
<1>5. PhaseInv'
  BY <1>1, <1>2, <1>3, <1>4 DEF PhaseInv, Resolving
<1>6. TypeInv'
  BY <1>1, <1>3 DEF IInv, TypeInv
<1>7. TableInv' /\ HeapInv'
  BY <1>1 DEF IInv, TableInv, HeapInv
<1>8. MountedIsComplete' /\ RefusedLeavesStreams'
  BY <1>1 DEF MountedIsComplete, RefusedLeavesStreams
<1>9. QED
  BY <1>5, <1>6, <1>7, <1>8 DEF IInv

\* The blocks of the listing.
LEMMA RootBlocks ==
  ASSUME TypeInv
  PROVE  /\ (RootSize + BlockSize - 1) \div BlockSize \in Nat \ {0}
         /\ RootSector \in Nat /\ RootSector + (RootSize \div SectorSize) \in Nat
<1>1. /\ SectorSize \in Nat \ {0} /\ BlockSize \in Nat \ {0}
  BY Constants
<1>2. RootSize \in Nat \ {0} /\ RootSector \in Nat
  BY Constants DEF RootSize, RootSector
<1> DEFINE a == RootSize + BlockSize - 1
           q == a \div BlockSize
           r == a % BlockSize
           p == q * BlockSize
<1>3. a \in Nat /\ BlockSize <= a
  BY <1>1, <1>2
<1>4. q \in Nat /\ r \in Nat /\ r < BlockSize /\ a = p + r
  BY <1>1, <1>3, DivisionFacts
<1>5. q = 0 => p = 0
  BY <1>1
<1> HIDE DEF p, q, r
<1>6. q # 0
  BY <1>1, <1>3, <1>4, <1>5
<1>7. RootSize \div SectorSize \in Nat
  BY <1>1, <1>2, DivisionFacts
<1>8. RootSector + (RootSize \div SectorSize) \in Nat
  BY <1>2, <1>7
<1>9. QED
  BY <1>2, <1>4, <1>6, <1>8 DEF q

LEMMA ReadRootInv ==
  ASSUME IInv, ReadRoot
  PROVE  IInv'
<1> DEFINE n == (RootSize + BlockSize - 1) \div BlockSize
           s == StartBlock(n)
           e == RootSector + (RootSize \div SectorSize)
<1>1. /\ pc = "root" /\ held' = With(n) /\ pc' = "out"
      /\ private' = (IF s = Null THEN private
                      ELSE [private EXCEPT !.root =
                              [item |-> s, sector_pos |-> RootSector, ending_sector_pos |-> e]])
      /\ res' = (IF s = Null THEN -1 ELSE 0)
      /\ volume' = volume /\ pool' = pool /\ filesystems' = filesystems
      /\ disk' = disk /\ i' = i /\ made' = made /\ stream' = stream
  BY DEF ReadRoot, RootFailed
<1>2. pool \in Nat /\ HeapInv /\ n \in Nat \ {0} /\ RootSector \in Nat /\ e \in Nat
  BY Constants, RootBlocks DEF IInv
<1> HIDE DEF n, e
<1>3. /\ i = 1 /\ Named(Ptr) /\ disk.filesystem = Fat16 /\ volume.signed
      /\ \A j \in 1 .. 6 : Ptr[j] = Null <=> j = 5
      /\ private \in [streams : [1 .. 3 -> 0 .. pool],
                      root : [item : 0 .. pool, sector_pos : Nat, ending_sector_pos : Nat]]
  BY <1>1 DEF IInv, PhaseInv, Resolving, TypeInv
<1>4. s \in 0 .. pool /\ HeapInv'
  BY <1>1, <1>2, StartBlockIs, WithIs
<1>5. private.root.item = Null
  BY <1>3, PtrIs
<1> HIDE DEF s
<1>6. /\ private' \in [streams : [1 .. 3 -> 0 .. pool],
                       root : [item : 0 .. pool, sector_pos : Nat, ending_sector_pos : Nat]]
      /\ private'.streams = private.streams /\ private'.root.item = s
  <2>1. CASE s = Null
    BY <1>1, <1>3, <1>5, <2>1
  <2>2. CASE s # Null
    <3>1. private' = [private EXCEPT !.root =
                       [item |-> s, sector_pos |-> RootSector, ending_sector_pos |-> e]]
      BY <1>1, <2>2
    <3>2. [item |-> s, sector_pos |-> RootSector, ending_sector_pos |-> e]
             \in [item : 0 .. pool, sector_pos : Nat, ending_sector_pos : Nat]
      BY <1>2, <1>4
    <3>3. QED
      BY <1>3, <3>1, <3>2
  <2>3. QED
    BY <2>1, <2>2
<1>7. \A j \in 1 .. 6 : Ptr'[j] = (IF j = 5 THEN s ELSE Ptr[j])
  BY <1>1, <1>6 DEF Ptr
<1>8. Named(Ptr)'
  BY <1>1, <1>2, <1>3, <1>7, NamedWith DEF s
<1>9. PhaseInv'
  <2>1. CASE s = Null
    <3>1. Ptr'[5] = Null /\ res' # 0
      BY <1>1, <1>7, <2>1
    <3>2. QED
      BY <1>1, <1>3, <1>8, <3>1 DEF PhaseInv, Resolving
  <2>2. CASE s # Null
    <3>1. \A j \in 1 .. 6 : Ptr'[j] # Null
      BY <1>3, <1>7, <2>2
    <3>2. res' = 0
      BY <1>1, <2>2
    <3>3. QED
      BY <1>1, <1>3, <1>8, <3>1, <3>2 DEF PhaseInv, Resolving
  <2>3. QED
    BY <2>1, <2>2
<1>10. TypeInv'
  BY <1>1, <1>6 DEF IInv, TypeInv
<1>11. TableInv'
  BY <1>1 DEF IInv, TableInv
<1>12. MountedIsComplete' /\ RefusedLeavesStreams'
  BY <1>1 DEF MountedIsComplete, RefusedLeavesStreams
<1>13. QED
  BY <1>4, <1>9, <1>10, <1>11, <1>12 DEF IInv

LEMMA FiveElements ==
  ASSUME NEW S, NEW f \in [1 .. 5 -> S],
         \A x \in S : \E j \in 1 .. 5 : f[j] = x,
         \A j, k \in 1 .. 5 : f[j] = f[k] => j = k
  PROVE  Cardinality(S) = 5
<1>1. f \in Bijection(1 .. 5, S)
  BY Fun_IsBij
<1>2. ExistsBijection(1 .. 5, S)
  BY <1>1 DEF ExistsBijection
<1>3. QED
  BY <1>2, FS_CountingElements

LEMMA PartsAre == Parts = {Ptr[1], Ptr[5]} \cup {Ptr[2], Ptr[3], Ptr[4]}
<1>1. {private.streams[s] : s \in DOMAIN Streams} = {Ptr[2], Ptr[3], Ptr[4]}
  BY StreamsAre, PtrIs
<1>2. QED
  BY <1>1, PtrIs DEF Parts

LEMMA ResolveReturnsInv ==
  ASSUME IInv, ResolveReturns
  PROVE  IInv'
<1>1. /\ pc = "out" /\ stream' = Null
      /\ volume' = volume /\ pool' = pool /\ filesystems' = filesystems
      /\ private' = private /\ made' = made /\ res' = res
  BY DEF ResolveReturns
<1>2. /\ i = 1 /\ Named(Ptr) /\ disk.filesystem = Fat16 /\ filesystems[1] = Fat16
      /\ res \in {-1, 0} /\ HeapInv
      /\ disk \in [filesystem : {NoFs, Fat16}, fs_private : 0 .. pool]
      /\ 1 \in Slots /\ MaxFilesystems \in Nat \ {0}
  BY <1>1, Constants DEF IInv, PhaseInv, Resolving, TypeInv, TableInv
<1>3. DOMAIN held \subseteq {Ptr[k] : k \in 1 .. 6} \ {Null}
  BY <1>2 DEF Named
<1>4. CASE res = -1
  <2>1. /\ held' = Without({stream, disk.fs_private})
        /\ disk' = [disk EXCEPT !.fs_private = Null] /\ i' = i + 1 /\ pc' = "search"
    <3>1. res < 0
      BY <1>4
    <3>2. {stream} \cup {disk.fs_private} = {stream, disk.fs_private}
      OBVIOUS
    <3>3. QED
      BY <3>1, <3>2 DEF ResolveReturns, Closed, Released, NextSlot
  <2>2. HeapInv' /\ DOMAIN held' = DOMAIN held \ {stream, disk.fs_private}
    BY <1>1, <1>2, <2>1, WithoutIs
  <2>3. Ptr[5] = Null
    BY <1>1, <1>4 DEF IInv, PhaseInv
  <2>4. DOMAIN held' \subseteq {private.streams[s] : s \in 1 .. 3}
    <3>1. SUFFICES ASSUME NEW x \in DOMAIN held'
                   PROVE  x \in {private.streams[s] : s \in 1 .. 3}
      OBVIOUS
    <3>2. x \in DOMAIN held /\ x # Ptr[6] /\ x # Ptr[1]
      BY <2>2, PtrIs
    <3>3. PICK k \in 1 .. 6 : x = Ptr[k] /\ x # Null
      BY <1>3, <3>2
    <3>4. k \in 2 .. 4
      BY <2>3, <3>2, <3>3
    <3>5. Ptr[k] = private.streams[k - 1] /\ k - 1 \in 1 .. 3
      BY <3>4 DEF Ptr
    <3>6. QED
      BY <3>3, <3>5
  <2>5. disk' \in [filesystem : {NoFs, Fat16}, fs_private : 0 .. pool] /\ disk'.fs_private = Null
    BY <1>2, <2>1, Constants DEF IInv, Null
  <2>6. TypeInv'
    BY <1>1, <1>2, <2>1, <2>5, Constants DEF IInv, TypeInv, Null
  <2>7. PhaseInv'
    BY <1>1, <1>2, <2>1, <2>4, <2>5 DEF PhaseInv, Resolving
  <2>8. TableInv'
    BY <1>1, <2>1 DEF IInv, TableInv
  <2>9. MountedIsComplete' /\ RefusedLeavesStreams'
    BY <2>1 DEF MountedIsComplete, RefusedLeavesStreams
  <2>10. QED
    BY <2>2, <2>6, <2>7, <2>8, <2>9 DEF IInv
<1>5. CASE res = 0
  <2>1. /\ held' = Without({stream}) /\ pc' = "done" /\ i' = i
        /\ disk' = [disk EXCEPT !.filesystem = Fat16]
    <3>1. ~ (res < 0)
      BY <1>5
    <3>2. QED
      BY <1>2, <3>1 DEF ResolveReturns, Closed, Found
  <2>2. HeapInv' /\ DOMAIN held' = DOMAIN held \ {stream}
    BY <1>1, <1>2, <2>1, WithoutIs
  <2>3. disk' = disk
    BY <1>2, <2>1
  <2>4. volume.signed /\ \A k \in 1 .. 6 : Ptr[k] # Null
    BY <1>1, <1>5 DEF IInv, PhaseInv
  <2>5. \A k \in 1 .. 5 : Ptr'[k] = Ptr[k]
    BY <1>1, <2>3 DEF Ptr
  <2>6. \A j, k \in 1 .. 6 : Ptr[j] = Ptr[k] => j = k
    BY <1>2, <2>4 DEF Named
  <2>7. Parts' = {Ptr[1], Ptr[5]} \cup {Ptr[2], Ptr[3], Ptr[4]}
    <3>1. Parts' = Parts
      BY <1>1, <2>3 DEF Parts
    <3>2. QED
      BY <3>1, PartsAre
  <2>8. DOMAIN held' = {Ptr[1], Ptr[5]} \cup {Ptr[2], Ptr[3], Ptr[4]}
    <3>1. DOMAIN held = {Ptr[k] : k \in 1 .. 6}
      BY <1>2, <2>4 DEF Named
    <3>2. stream = Ptr[6]
      BY PtrIs
    <3>3. QED
      BY <2>2, <2>6, <3>1, <3>2
  <2>9. Cardinality(Parts') = 5
    <3> DEFINE f == [j \in 1 .. 5 |-> Ptr[j]]
    <3>1. f \in [1 .. 5 -> Parts']
      <4>1. \A j \in 1 .. 5 : Ptr[j] \in Parts'
        BY <2>7
      <4>2. QED
        BY <4>1
    <3>2. \A x \in Parts' : \E j \in 1 .. 5 : f[j] = x
      BY <2>7
    <3>3. \A j, k \in 1 .. 5 : f[j] = f[k] => j = k
      BY <2>6
    <3> HIDE DEF f
    <3>4. QED
      BY <3>1, <3>2, <3>3, FiveElements
  <2>10. MountedIsComplete'
    <3>1. Null \notin Parts'
      BY <2>4, <2>7
    <3>2. QED
      BY <1>1, <2>4, <2>7, <2>8, <2>9, <3>1, StreamsAre DEF MountedIsComplete
  <2>11. RefusedLeavesStreams'
    <3>1. Mounted'
      BY <1>2, <2>3 DEF Mounted, NoFs, Fat16
    <3>2. QED
      BY <3>1 DEF RefusedLeavesStreams
  <2>12. TypeInv'
    BY <1>1, <1>2, <2>1, <2>3, Constants DEF IInv, TypeInv, Null
  <2>13. PhaseInv' /\ TableInv'
    BY <1>1, <2>1 DEF IInv, PhaseInv, Resolving, TableInv
  <2>14. QED
    BY <2>2, <2>10, <2>11, <2>12, <2>13 DEF IInv
<1>6. QED
  BY <1>2, <1>4, <1>5

LEMMA StepInv == IInv /\ [Next]_vars => IInv'
<1> SUFFICES ASSUME IInv, [Next]_vars PROVE IInv'
  OBVIOUS
<1>1. CASE UNCHANGED vars
  <2>1. /\ volume' = volume /\ pool' = pool /\ pc' = pc /\ filesystems' = filesystems
        /\ held' = held /\ disk' = disk /\ i' = i /\ private' = private /\ made' = made
        /\ stream' = stream /\ res' = res
    BY <1>1 DEF vars
  <2>2. TypeInv' /\ HeapInv' /\ TableInv'
    BY <2>1 DEF IInv, TypeInv, HeapInv, TableInv
  <2>3. Ptr' = Ptr /\ Full' = Full
    BY <2>1 DEF Ptr, Full, Taken
  <2>4. Named(Ptr)' <=> Named(Ptr)
    BY <2>1, <2>3 DEF Named
  <2>5. PhaseInv'
    BY <2>1, <2>3, <2>4 DEF IInv, PhaseInv, Resolving
  <2>6. MountedIsComplete' /\ RefusedLeavesStreams'
    BY <2>1 DEF IInv, MountedIsComplete, RefusedLeavesStreams, Mounted, Parts
  <2>7. QED
    BY <2>2, <2>5, <2>6 DEF IInv
<1>2. QED
  BY <1>1, FsInitInv, DiskInitInv, SkipSlotInv, ResolveInv, NewStreamInv, HeaderStreamInv,
     ReadHeaderInv, ReadRootInv, ResolveReturnsInv DEF Next

-----------------------------------------------------------------------------
(* The end of the heap.                                                    *)

\* The blocks are taken from the first on, one by one, until the listing is.
RunInv ==
  /\ \A b \in DOMAIN held : b # private.root.item => held[b] = 1
  /\ pc = "streams" => \A b \in DOMAIN held : b <= made + 1
  /\ pc \in {"header", "root"} => \A b \in DOMAIN held : b <= 5
  /\ \A b \in DOMAIN held : b = private.root.item /\ RoomToMount => b + held[b] - 1 <= pool

\* The listing has no run yet.
LEMMA NoListing ==
  ASSUME IInv, pc \in {"streams", "header", "root"}
  PROVE  private.root.item = Null /\ Null \notin DOMAIN held
<1>1. Ptr[5] = Null
  BY DEF IInv, PhaseInv, TypeInv
<1>2. Null \notin DOMAIN held
  BY DEF IInv, HeapInv, Null
<1>3. QED
  BY <1>1, <1>2, PtrIs

LEMMA TakenLow ==
  ASSUME HeapInv, NEW m \in Nat, \A b \in DOMAIN held : held[b] = 1 /\ b <= m
  PROVE  Taken \subseteq 1 .. m
<1> SUFFICES ASSUME NEW b \in DOMAIN held, NEW c \in b .. b + held[b] - 1
             PROVE  c \in 1 .. m
  BY DEF Taken
<1>1. held[b] = 1 /\ b <= m /\ b \in 1 .. pool
  BY DEF HeapInv
<1>2. QED
  BY <1>1

\* A run of one block is asked for.
LEMMA OneBlock ==
  ASSUME HeapInv, pool \in Nat, NEW m \in Nat, held' = With(1), pool' = pool,
         \A b \in DOMAIN held : held[b] = 1 /\ b <= m
  PROVE  \A b \in DOMAIN held' : held'[b] = 1 /\ b <= m + 1
<1>1. /\ DOMAIN held' = DOMAIN held \cup ({StartBlock(1)} \ {Null})
      /\ \A b \in DOMAIN held : held'[b] = held[b]
      /\ StartBlock(1) # Null => held'[StartBlock(1)] = 1
  BY WithIs
<1>2. StartBlock(1) <= m + 1
  BY TakenLow, StartBlockLow
<1>3. \A b \in DOMAIN held : b \in 1 .. pool
  BY DEF HeapInv
<1>4. \A b \in DOMAIN held : b <= m + 1
  BY <1>3
<1>5. QED
  BY <1>1, <1>2, <1>4

\* If there is room, the listing fits behind five blocks.
LEMMA RoomForListing ==
  ASSUME TypeInv, RoomToMount
  PROVE  5 + ((RootSize + BlockSize - 1) \div BlockSize) <= pool
<1> DEFINE a == RootSize + BlockSize - 1
           q == a \div BlockSize
           m == pool - 4
<1>1. BlockSize \in Nat \ {0} /\ pool \in Nat /\ RootSize \in Nat \ {0}
  BY Constants DEF RootSize
<1>2. 5 * BlockSize + RootSize <= pool * BlockSize
  BY StreamsAre DEF RoomToMount
<1>3. 5 < pool
  <2>1. SUFFICES ASSUME pool <= 5 PROVE FALSE
    BY <1>1
  <2>2. pool \in 0 .. 5
    BY <1>1, <2>1
  <2>3. pool * BlockSize <= 5 * BlockSize
    BY <1>1, <2>2
  <2>4. 5 * BlockSize \in Nat /\ pool * BlockSize \in Nat
    BY <1>1
  <2>5. QED
    BY <1>1, <1>2, <2>3, <2>4
<1>4. m \in Nat /\ a \in Nat
  BY <1>1, <1>3
<1>5. m * BlockSize = pool * BlockSize - 4 * BlockSize
  BY <1>1
<1>6. a < m * BlockSize
  <2> DEFINE all == pool * BlockSize
  <2>1. all \in Int /\ 5 * BlockSize + RootSize <= all /\ m * BlockSize = all - 4 * BlockSize
    BY <1>1, <1>2, <1>5
  <2> HIDE DEF all
  <2>2. a < all - 4 * BlockSize
    BY <1>1, <2>1
  <2>3. QED
    BY <2>1, <2>2
<1> HIDE DEF a, m
<1>7. q < m /\ q \in Nat
  BY <1>1, <1>4, <1>6, DivisionBound, DivisionFacts
<1> HIDE DEF q
<1>8. 5 + q <= pool
  BY <1>1, <1>7 DEF m
<1>9. QED
  BY <1>8 DEF q, a

LEMMA InitRuns == Init => RunInv
BY DEF Init, RunInv

LEMMA RunStep == IInv /\ RunInv /\ [Next]_vars => RunInv'
<1> SUFFICES ASSUME IInv, RunInv, [Next]_vars PROVE RunInv'
  OBVIOUS
<1> USE DEF RunInv
<1>t. TypeInv /\ HeapInv /\ pool \in Nat /\ made \in 0 .. 3 /\ 1 \in Nat \ {0}
  BY Constants DEF IInv, TypeInv
<1>1. CASE FsInit \/ DiskInit \/ SkipSlot \/ ReadHeader \/ UNCHANGED vars
  <2>1. /\ held' = held /\ private' = private /\ made' = made /\ pool' = pool
        /\ volume' = volume
        /\ pc' = "streams" => pc = "streams"
        /\ pc' \in {"header", "root"} => pc \in {"header", "root"}
    BY <1>1 DEF FsInit, DiskInit, SkipSlot, ReadHeader, Found, vars
  <2>2. RoomToMount' = RoomToMount
    BY <2>1 DEF RoomToMount, RootSize
  <2>3. QED
    BY <2>1, <2>2
<1>2. CASE Resolve
  <2>1. /\ pc = "search" /\ held' = With(1) /\ pool' = pool /\ pc' = "streams" /\ made' = 0
        /\ private'.root.item = Null /\ DOMAIN held = {}
    BY <1>2 DEF Resolve, IInv, TableInv, PhaseInv, NoFs, Fat16, Zeroed, NoRoot
  <2>2. 0 \in Nat /\ \A b \in DOMAIN held : held[b] = 1 /\ b <= 0
    BY <2>1
  <2>3. HeapInv' /\ \A b \in DOMAIN held' : held'[b] = 1 /\ b <= 0 + 1
    <3>1. HeapInv'
      BY <1>t, <2>1, WithIs
    <3>2. \A b \in DOMAIN held' : held'[b] = 1 /\ b <= 0 + 1
      BY <1>t, <2>1, <2>2, OneBlock
    <3>3. QED
      BY <3>1, <3>2
  <2>4. Null \notin DOMAIN held'
    BY <2>3 DEF HeapInv, Null
  <2>5. QED
    BY <2>1, <2>3, <2>4
<1>3. CASE NewStream
  <2>1. /\ pc = "streams" /\ held' = With(1) /\ pool' = pool /\ pc' = pc /\ made' = made + 1
        /\ private' = [private EXCEPT !.streams[made + 1] = DiskstreamerNew]
    BY <1>3 DEF NewStream
  <2>2. private'.root.item = Null
    BY <2>1, NoListing, <1>t DEF TypeInv
  <2>3. made + 1 \in Nat /\ \A b \in DOMAIN held : held[b] = 1 /\ b <= made + 1
    BY <1>t, <2>1, NoListing
  <2>4. HeapInv' /\ \A b \in DOMAIN held' : held'[b] = 1 /\ b <= (made + 1) + 1
    <3>1. HeapInv'
      BY <1>t, <2>1, WithIs
    <3>2. \A b \in DOMAIN held' : held'[b] = 1 /\ b <= (made + 1) + 1
      BY <1>t, <2>1, <2>3, OneBlock
    <3>3. QED
      BY <3>1, <3>2
  <2>5. Null \notin DOMAIN held'
    BY <2>4 DEF HeapInv, Null
  <2>6. QED
    BY <2>1, <2>2, <2>4, <2>5
<1>4. CASE HeaderStream
  <2>1. /\ pc = "streams" /\ held' = With(1) /\ pool' = pool /\ pc' \in {"header", "out"}
        /\ made = 3 /\ private' = private
    BY <1>4, StreamsAre DEF HeaderStream
  <2>2. private'.root.item = Null
    BY <2>1, NoListing
  <2>3. \A b \in DOMAIN held : held[b] = 1 /\ b <= 4
    BY <1>t, <2>1, NoListing
  <2>4. HeapInv' /\ \A b \in DOMAIN held' : held'[b] = 1 /\ b <= 4 + 1
    <3>1. HeapInv'
      BY <1>t, <2>1, WithIs
    <3>2. \A b \in DOMAIN held' : held'[b] = 1 /\ b <= 4 + 1
      BY <1>t, <2>1, <2>3, OneBlock
    <3>3. QED
      BY <3>1, <3>2
  <2>5. Null \notin DOMAIN held'
    BY <2>4 DEF HeapInv, Null
  <2>6. QED
    BY <2>1, <2>2, <2>4, <2>5
<1>5. CASE ReadRoot
  <2> DEFINE n == (RootSize + BlockSize - 1) \div BlockSize
             s == StartBlock(n)
  <2>1. /\ pc = "root" /\ held' = With(n) /\ pool' = pool /\ volume' = volume /\ pc' = "out"
        /\ s = Null => private' = private
        /\ s # Null => private'.root.item = s
    BY <1>5, <1>t DEF ReadRoot, TypeInv
  <2>2. n \in Nat \ {0} /\ (RoomToMount => 5 + n <= pool)
    BY <1>t, RootBlocks, RoomForListing
  <2>3. RoomToMount' = RoomToMount
    BY <2>1 DEF RoomToMount, RootSize
  <2> HIDE DEF n
  <2>4. private.root.item = Null /\ \A b \in DOMAIN held : held[b] = 1 /\ b <= 5
    BY <1>t, <2>1, NoListing
  <2>5. s <= 5 + 1 /\ s \in 0 .. pool
    <3>1. Taken \subseteq 1 .. 5
      BY <1>t, <2>4, TakenLow
    <3>2. QED
      BY <1>t, <2>2, <3>1, StartBlockLow, StartBlockIs
  <2>6. /\ DOMAIN held' = DOMAIN held \cup ({s} \ {Null})
        /\ \A b \in DOMAIN held : held'[b] = held[b]
        /\ s # Null => held'[s] = n
    BY <1>t, <2>1, <2>2, WithIs
  <2>7. Null \notin DOMAIN held /\ (s # Null => s \notin DOMAIN held)
    BY <1>t, <2>1, <2>2, NoListing, StartBlockIs
  <2> HIDE DEF s
  <2>8. CASE s = Null
    BY <2>1, <2>4, <2>6, <2>7, <2>8
  <2>9. CASE s # Null
    <3>1. RoomToMount => s + n - 1 <= pool
      BY <1>t, <2>2, <2>5
    <3>2. QED
      BY <2>1, <2>3, <2>4, <2>6, <2>9, <3>1
  <2>10. QED
    BY <2>8, <2>9
<1>6. CASE ResolveReturns
  <2>1. /\ \E bs : held' = Without(bs)
        /\ pool' = pool /\ volume' = volume /\ private' = private /\ pc' \in {"search", "done"}
    BY <1>6 DEF ResolveReturns, Found
  <2>2. DOMAIN held' \subseteq DOMAIN held /\ \A b \in DOMAIN held' : held'[b] = held[b]
    BY <1>t, <2>1, WithoutIs
  <2>3. RoomToMount' = RoomToMount
    BY <2>1 DEF RoomToMount, RootSize
  <2>4. QED
    BY <2>1, <2>2, <2>3
<1>7. QED
  BY <1>1, <1>2, <1>3, <1>4, <1>5, <1>6 DEF Next

-----------------------------------------------------------------------------
(* The theorems.                                                           *)

\* Every pointer is null or a block of the heap, and so is the start of every
\* run in use.
THEOREM TypeCorrect == Spec => []TypeOK
<1>1. IInv => TypeOK
  <2> SUFFICES ASSUME IInv PROVE TypeOK
    OBVIOUS
  <2>1. \A b \in DOMAIN held : b \in 1 .. pool /\ held[b] \in Nat \ {0}
    BY DEF IInv, HeapInv
  <2>2. disk.filesystem \in {NoFs, Fat16} /\ disk.fs_private \in 0 .. pool
        /\ private.streams \in [1 .. 3 -> 0 .. pool] /\ private.root.item \in 0 .. pool
    BY DEF IInv, TypeInv
  <2>3. QED
    BY <2>1, <2>2, StreamsAre DEF IInv, TypeInv, TypeOK
<1>2. QED
  BY <1>1, InitInv, StepInv, PTL DEF Spec

\* No two runs share a block, and only the listing of a mount for which the heap
\* has no room goes behind the end of the heap.
THEOREM RunsAreApart == Spec => []RunsInHeap
<1>1. ASSUME IInv, RunInv
      PROVE  RunsInHeap
  <2>1. SUFFICES ASSUME NEW b \in DOMAIN held, b + held[b] - 1 > pool
                 PROVE  b = private.root.item /\ ~RoomToMount
    BY <1>1 DEF RunsInHeap, IInv, HeapInv
  <2>2. b \in 1 .. pool /\ pool \in Nat /\ held[b] \in Nat
    BY <1>1, Constants DEF IInv, HeapInv
  <2>3. held[b] # 1
    BY <2>1, <2>2
  <2>4. QED
    BY <1>1, <2>1, <2>2, <2>3 DEF RunInv
<1>2. Init => IInv /\ RunInv
  BY InitInv, InitRuns
<1>3. IInv /\ RunInv /\ [Next]_vars => (IInv /\ RunInv)'
  BY StepInv, RunStep
<1>4. QED
  BY <1>1, <1>2, <1>3, PTL DEF Spec

\* A mounted disk has everything that the file layer uses without looking.
THEOREM MountComplete == Spec => []MountedIsComplete
<1>1. IInv => MountedIsComplete
  BY DEF IInv
<1>2. QED
  BY <1>1, InitInv, StepInv, PTL DEF Spec

\* A refused volume leaves at most the three streams behind.
THEOREM RefusalReleases == Spec => []RefusedLeavesStreams
<1>1. IInv => RefusedLeavesStreams
  BY DEF IInv
<1>2. QED
  BY <1>1, InitInv, StepInv, PTL DEF Spec

=============================================================================
