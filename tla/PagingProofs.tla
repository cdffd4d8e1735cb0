---------------------------- MODULE PagingProofs ----------------------------
(***************************************************************************)
(* Theorems about Paging: it implements AddressSpace, the copies of the    *)
(* processor are stale only on pages that were set, and no frame serves    *)
(* two purposes.                                                           *)
(*                                                                         *)
(* The argument is a circle that the invariant closes.  The tables of the  *)
(* chunks stay as they were made because what is written elsewhere reaches *)
(* the frame that was meant; it does, because the map in force sends the   *)
(* pages of the heap to themselves and no other page into the heap; and it *)
(* does this because the tables stay as they were made.                    *)
(***************************************************************************)
EXTENDS Paging, Numbers, FiniteSetTheorems, FunctionTheorems, SequenceTheorems

Indices == 0 .. Entries - 1

\* The directory of chunk c, the table that entry t of directory d names, and
\* the entry for page p, in memory m.
DirIn(m, c) == FrameOf(m[c][0])
TabIn(m, d, t) == FrameOf(m[d][t])
EntryIn(m, d, p) == m[TabIn(m, d, p \div Entries)][p % Entries]

\* The frames of chunk c.
PartsIn(m, c) == {c, DirIn(m, c)} \cup {TabIn(m, DirIn(m, c), t) : t \in Indices}

\* The first n entries of directory d name different frames of s, and grant
\* every right.
Filled(m, d, n, s) ==
  \A t \in 0 .. n - 1 :
    /\ TabIn(m, d, t) \in s \ {d}
    /\ Bit(m[d][t], WRITEABLE) = 1 /\ Bit(m[d][t], FROM_ALL) = 1
    /\ \A u \in 0 .. n - 1 : TabIn(m, d, u) = TabIn(m, d, t) => u = t

\* Page p may be mapped to frame f: the heap is mapped to itself, and nothing
\* else into it.
Keeps(p, f) == f \in Frames /\ IF p \in Pool THEN f = p ELSE f \notin Pool

ChunkOk(m, c) ==
  /\ DirIn(m, c) \in Pool \ {c}
  /\ Filled(m, DirIn(m, c), Entries, Pool)
  /\ \A t \in Indices : TabIn(m, DirIn(m, c), t) # c
  /\ \A p \in Frames : Keeps(p, FrameOf(EntryIn(m, DirIn(m, c), p)))

Full == Pool \subseteq taken

TypeInv ==
  /\ mem \in [Frames -> [Indices -> 0 .. WordMod - 1]]
  /\ taken \subseteq Pool /\ cr3 \in Pool \cup {Null} /\ pg \in BOOLEAN
  /\ tlb \subseteq Frames \X Frames
  /\ pc \in {"idle", "table"} /\ flags \in FlagSets \cup {0}
  /\ i \in 0 .. Entries /\ dir \in Pool \cup {Null}
  /\ chunks \in Seq(Pool) /\ recent \subseteq Frames
  /\ creates \in 0 .. MaxCreates /\ sets \in 0 .. MaxSets

\* The chunks that were created.
ChunksInv ==
  \A j \in DOMAIN chunks :
    /\ ChunkOk(mem, chunks[j])
    /\ PartsIn(mem, chunks[j]) \subseteq taken
    /\ \A k \in DOMAIN chunks \ {j} :
         PartsIn(mem, chunks[j]) \cap PartsIn(mem, chunks[k]) = {}

\* The frame is in use, and not by a chunk that was created.
Private(f) == f \in taken /\ \A j \in DOMAIN chunks : f \notin PartsIn(mem, chunks[j])

\* The chunk in the making, of use only while there is a block for it.
ProgressInv ==
  pc = "table" =>
    /\ flags \in FlagSets
    /\ dir = Null => Full
    /\ dir # Null => Private(dir)
    /\ ~Full => /\ Filled(mem, dir, i, taken)
                /\ \A t \in 0 .. i - 1 :
                     /\ Private(TabIn(mem, dir, t))
                     /\ \A b \in Indices : mem[TabIn(mem, dir, t)][b] = PageEntry(t, b, flags)

\* The directory that is loaded and the copies made of it.
MachineInv ==
  /\ cr3 # Null => \E j \in DOMAIN chunks : cr3 = DirIn(mem, chunks[j])
  /\ pg => cr3 # Null
  /\ ~pg => tlb = {}
  /\ \A c \in tlb : Keeps(c[1], c[2])
  /\ StaleOnlyIfSet

IInv == TypeInv /\ ChunksInv /\ ProgressInv /\ MachineInv

-----------------------------------------------------------------------------
(* Frames, entries and flags.                                              *)

LEMMA Sizes ==
  /\ Entries \in Nat \ {0} /\ PageSize \in Nat \ {0}
  /\ Entries * Entries \in Nat \ {0}
  /\ Frames = 0 .. Entries * Entries - 1 /\ Indices = 0 .. Entries - 1
  /\ WordMod = (Entries * Entries) * PageSize
  /\ Pool \subseteq Frames /\ 0 \notin Pool /\ 0 \in Frames /\ 0 \in Indices
  /\ Frames \subseteq Nat
<1>1. Entries \in Nat \ {0} /\ PageSize \in Nat \ {0}
  BY PagingAssumption
<1>2. Entries * Entries \in Nat \ {0}
  BY <1>1
<1>3. Frames = 0 .. Entries * Entries - 1 /\ Indices = 0 .. Entries - 1
  BY DEF Frames, Indices
<1>4. 0 \in Frames /\ 0 \in Indices
  BY <1>1, <1>2, <1>3
<1>5. Pool \subseteq Frames /\ 0 \notin Pool
  BY PagingAssumption
<1>6. Frames \subseteq Nat
  BY DEF Frames
<1>7. QED
  BY <1>1, <1>2, <1>3, <1>4, <1>5, <1>6 DEF WordMod

\* What is less than b in a piece of b, of a of them.
LEMMA PieceBound ==
  ASSUME NEW a \in Nat, NEW b \in Nat \ {0}, NEW f \in Nat, f < a, NEW w \in 0 .. b - 1
  PROVE  f * b + w \in Nat /\ f * b + w < a * b
<1> DEFINE d == a - f - 1
           fb == f * b
           db == d * b
<1>1. d \in Nat /\ a = f + d + 1
  OBVIOUS
<1> HIDE DEF d
<1>2. fb \in Nat /\ db \in Nat /\ (f + d + 1) * b = fb + db + b
  BY <1>1, MultipleOfSum
<1>3. a * b = (f + d + 1) * b
  BY <1>1
<1> HIDE DEF fb, db
<1>4. w \in Nat /\ w < b
  OBVIOUS
<1>5. fb + w \in Nat /\ fb + w < fb + db + b
  BY <1>2, <1>4
<1>6. QED
  BY <1>2, <1>3, <1>5 DEF fb

LEMMA FrameOfType ==
  ASSUME NEW e \in 0 .. WordMod - 1
  PROVE  FrameOf(e) \in Frames
<1> DEFINE n == Entries * Entries
<1>1. n \in Nat /\ PageSize \in Nat \ {0} /\ WordMod = n * PageSize /\ Frames = 0 .. n - 1
  BY Sizes
<1> HIDE DEF n
<1>2. n * PageSize \in Nat
  BY <1>1
<1>3. e \in Nat /\ e < n * PageSize
  BY <1>1, <1>2
<1>4. e \div PageSize \in Nat /\ e \div PageSize < n
  BY <1>1, <1>3, DivisionBound, DivisionFacts
<1>5. QED
  BY <1>1, <1>4 DEF FrameOf

\* A frame and flags make an entry, and are what is read back from it.
LEMMA EntryFacts ==
  ASSUME NEW f \in Frames, NEW w \in 0 .. PageSize - 1
  PROVE  /\ f * PageSize + w \in 0 .. WordMod - 1
         /\ FrameOf(f * PageSize + w) = f
         /\ Bit(f * PageSize + w, WRITEABLE) = Bit(w, WRITEABLE)
         /\ Bit(f * PageSize + w, FROM_ALL) = Bit(w, FROM_ALL)
<1>1. /\ Entries * Entries \in Nat /\ PageSize \in Nat \ {0}
      /\ WordMod = (Entries * Entries) * PageSize /\ f \in Nat /\ f < Entries * Entries
  BY Sizes
<1>2. f * PageSize + w \in 0 .. WordMod - 1
  <2> DEFINE n == Entries * Entries
             e == f * PageSize + w
  <2>1. n \in Nat /\ f < n
    BY <1>1
  <2> HIDE DEF n
  <2>2. e \in Nat /\ e < n * PageSize /\ n * PageSize \in Nat
    BY <1>1, <2>1, PieceBound
  <2> HIDE DEF e
  <2>3. e \in 0 .. n * PageSize - 1
    BY <2>2
  <2>4. QED
    BY <1>1, <2>3 DEF n, e
<1>3. FrameOf(f * PageSize + w) = f
  <2>1. PageSize \in Nat \ {0} /\ f \in Int
    BY <1>1
  <2>2. (f * PageSize + w) \div PageSize = f
    BY <2>1, DivisionUnique
  <2>3. QED
    BY <2>2 DEF FrameOf
<1>4. PICK k \in Nat : f * PageSize = 8 * k
  <2> DEFINE q == PageSize \div 8
  <2>1. q \in Nat /\ PageSize = 8 * q
    BY PagingAssumption
  <2> HIDE DEF q
  <2>2. f * q \in Nat /\ f * PageSize = 8 * (f * q)
    BY <1>1, <2>1
  <2>3. QED
    BY <2>2
<1>5. w \in Nat
  BY <1>1
<1>6. ((8 * k + w) \div 2) % 2 = (w \div 2) % 2 /\ ((8 * k + w) \div 4) % 2 = (w \div 4) % 2
  BY <1>5
<1>7. QED
  BY <1>2, <1>3, <1>4, <1>6 DEF Bit, WRITEABLE, FROM_ALL

\* A directory's entries grant every right.
LEMMA WritableFacts ==
  ASSUME NEW f \in FlagSets
  PROVE  /\ f \in 0 .. PageSize - 1 /\ Writable(f) \in 0 .. PageSize - 1
         /\ Bit(Writable(f), WRITEABLE) = 1 /\ Bit(Writable(f), FROM_ALL) = 1
<1>1. f \in 0 .. PageSize - 1 /\ (f \div 4) % 2 = 1 /\ PageSize \in Nat /\ PageSize % 8 = 0
  BY PagingAssumption DEF Bit, FROM_ALL
<1>2. CASE (f \div 2) % 2 = 1
  BY <1>1, <1>2 DEF Writable, Bit, WRITEABLE, FROM_ALL
<1>3. CASE (f \div 2) % 2 # 1
  <2>1. f + 2 \in 0 .. PageSize - 1 /\ ((f + 2) \div 2) % 2 = 1 /\ ((f + 2) \div 4) % 2 = 1
    BY <1>1, <1>3
  <2>2. QED
    BY <1>1, <1>3, <2>1 DEF Writable, Bit, WRITEABLE, FROM_ALL
<1>4. QED
  BY <1>2, <1>3

LEMMA EffectiveFull ==
  ASSUME NEW de, NEW te \in Int, Bit(de, WRITEABLE) = 1, Bit(de, FROM_ALL) = 1
  PROVE  Effective(de, te) = te
BY DEF Effective, WRITEABLE, FROM_ALL

\* Page p is entry p % Entries of table p \div Entries.
LEMMA PageSplit ==
  ASSUME NEW p \in Frames
  PROVE  /\ p \div Entries \in Indices /\ p % Entries \in Indices
         /\ p = (p \div Entries) * Entries + (p % Entries)
<1>1. Entries \in Nat \ {0} /\ p \in Nat /\ p < Entries * Entries
  BY Sizes
<1>2. p \div Entries \in Nat /\ p \div Entries < Entries /\ p % Entries \in 0 .. Entries - 1
  BY <1>1, DivisionBound, DivisionFacts
<1>3. p = (p \div Entries) * Entries + (p % Entries)
  BY <1>1, DivisionFacts
<1> DEFINE q == p \div Entries
<1> HIDE DEF q
<1>4. q \in 0 .. Entries - 1
  BY <1>1, <1>2 DEF q
<1>5. QED
  BY <1>2, <1>3, <1>4, Sizes DEF q

LEMMA SamePage ==
  ASSUME NEW p \in Frames, NEW q \in Frames, p \div Entries = q \div Entries,
         p % Entries = q % Entries
  PROVE  p = q
BY PageSplit

LEMMA PageEntryIs ==
  ASSUME NEW t \in Indices, NEW b \in Indices, NEW f \in FlagSets
  PROVE  /\ t * Entries + b \in Frames
         /\ PageEntry(t, b, f) = (t * Entries + b) * PageSize + f
         /\ PageEntry(t, b, f) \in 0 .. WordMod - 1
         /\ FrameOf(PageEntry(t, b, f)) = t * Entries + b
         /\ (t * Entries + b) \div Entries = t /\ (t * Entries + b) % Entries = b
<1>1. /\ Entries \in Nat \ {0} /\ PageSize \in Nat \ {0} /\ t \in Nat /\ b \in 0 .. Entries - 1
      /\ t < Entries /\ b \in Nat
  BY Sizes
<1>2. t * Entries + b \in Frames
  <2> DEFINE e == t * Entries + b
             n == Entries * Entries
  <2>1. e \in Nat /\ e < n /\ n \in Nat
    BY <1>1, PieceBound
  <2> HIDE DEF e, n
  <2>2. e \in 0 .. n - 1
    BY <2>1
  <2>3. QED
    BY <2>2, Sizes DEF e, n
<1>3. PageEntry(t, b, f) = (t * Entries + b) * PageSize + f
  <2> DEFINE a == t * Entries * PageSize
  <2>1. a = (t * Entries) * PageSize /\ t * Entries \in Nat
    BY <1>1
  <2>2. a \in 0 .. WordMod - 1
    <3> DEFINE m == t * Entries
    <3>1. m + 0 \in Nat /\ m + 0 < Entries * Entries
      <4>1. 0 \in 0 .. Entries - 1
        BY <1>1
      <4>2. QED
        BY <1>1, <4>1, PieceBound
    <3>2. m \in Frames
      <4> DEFINE n == Entries * Entries
      <4>1. m \in Nat /\ m < n /\ n \in Nat
        BY <1>1, <2>1, <3>1
      <4> HIDE DEF m, n
      <4>2. m \in 0 .. n - 1
        BY <4>1
      <4>3. QED
        BY <4>2, Sizes DEF n
    <3>3. 0 \in 0 .. PageSize - 1
      BY <1>1
    <3>4. m * PageSize + 0 \in 0 .. WordMod - 1
      BY <3>2, <3>3, EntryFacts
    <3>5. m * PageSize \in Nat
      BY <1>1, <2>1
    <3>6. QED
      BY <2>1, <3>4, <3>5
  <2>3. WordMod \in Nat \ {0}
    BY Sizes
  <2>4. a % WordMod = a
    <3> HIDE DEF a
    <3>1. 0 * WordMod + a = a
      BY <2>2, <2>3
    <3>2. (0 * WordMod + a) % WordMod = a
      BY <2>2, <2>3, DivisionUnique
    <3>3. QED
      BY <3>1, <3>2
  <2>5. f \in Int
    BY WritableFacts, <1>1
  <2>6. (t * Entries + b) * PageSize = a + b * PageSize
    BY <1>1
  <2>7. QED
    BY <2>4, <2>6 DEF PageEntry
<1>4. f \in 0 .. PageSize - 1
  BY WritableFacts
<1>5. PageEntry(t, b, f) \in 0 .. WordMod - 1 /\ FrameOf(PageEntry(t, b, f)) = t * Entries + b
  BY <1>2, <1>3, <1>4, EntryFacts
<1>6. (t * Entries + b) \div Entries = t /\ (t * Entries + b) % Entries = b
  BY <1>1, DivisionUnique
<1>7. QED
  BY <1>2, <1>3, <1>5, <1>6

\* paging_get_indexes finds the place of the page that an address lies in.
LEMMA IndexesOf ==
  ASSUME NEW v \in 0 .. WordMod - 1
  PROVE  /\ v \div PageSize \in Frames
         /\ DirectoryIndex(v) = (v \div PageSize) \div Entries
         /\ TableIndex(v) = (v \div PageSize) % Entries
<1> DEFINE q == v \div PageSize
           x == v % PageSize
           s == q \div Entries
           r == q % Entries
           ep == Entries * PageSize
<1>1. Entries \in Nat \ {0} /\ PageSize \in Nat \ {0} /\ v \in Nat
  BY Sizes
<1>2. q \in Frames
  BY FrameOfType DEF FrameOf
<1>3. q \in Nat /\ x \in 0 .. PageSize - 1 /\ v = q * PageSize + x
  BY <1>1, DivisionFacts
<1> HIDE DEF q, x
<1>4. s \in Nat /\ r \in Nat /\ r < Entries /\ r \in 0 .. Entries - 1 /\ q = s * Entries + r
  BY <1>1, <1>3, DivisionFacts
<1>5. DirectoryIndex(v) = q \div Entries
  <2>1. v \div (PageSize * Entries) = q \div Entries
    BY <1>1, DivisionTwice DEF q
  <2>2. PageSize * Entries = Entries * PageSize
    BY <1>1
  <2>3. QED
    BY <2>1, <2>2 DEF DirectoryIndex
<1> HIDE DEF s, r
<1>6. TableIndex(v) = r
  <2> DEFINE y == r * PageSize + x
  <2>1. y \in Nat /\ y < ep /\ ep \in Nat \ {0}
    BY <1>1, <1>3, <1>4, PieceBound
  <2>2. v = s * ep + y
    <3>1. v = (s * Entries + r) * PageSize + x
      BY <1>3, <1>4
    <3>2. (s * Entries + r) * PageSize = s * (Entries * PageSize) + r * PageSize
      BY <1>1, <1>4
    <3>3. s * (Entries * PageSize) \in Nat /\ r * PageSize \in Nat /\ x \in Nat
      BY <1>1, <1>3, <1>4
    <3>4. QED
      BY <3>1, <3>2, <3>3
  <2>3. y \div PageSize = r
    BY <1>1, <1>3, <1>4, DivisionUnique
  <2> HIDE DEF y, ep
  <2>4. y \in 0 .. ep - 1
    BY <2>1
  <2>5. (s * ep + y) % ep = y
    <3>1. s \in Int /\ ep \in Nat \ {0}
      BY <1>4, <2>1
    <3>2. QED
      BY <2>4, <3>1, DivisionUnique, Zenon
  <2>6. QED
    BY <2>2, <2>3, <2>5 DEF TableIndex, ep
<1>7. QED
  BY <1>2, <1>5, <1>6 DEF q, r

-----------------------------------------------------------------------------
(* Chunks in memory.                                                       *)

Memories == [Frames -> [Indices -> 0 .. WordMod - 1]]

\* A chunk depends on its own frames only.
LEMMA SameChunk ==
  ASSUME NEW m, NEW m2, NEW c, ChunkOk(m, c), \A f \in PartsIn(m, c) : m2[f] = m[f]
  PROVE  /\ DirIn(m2, c) = DirIn(m, c)
         /\ PartsIn(m2, c) = PartsIn(m, c)
         /\ \A p \in Frames : EntryIn(m2, DirIn(m2, c), p) = EntryIn(m, DirIn(m, c), p)
         /\ ChunkOk(m2, c)
<1> DEFINE d == DirIn(m, c)
<1>1. c \in PartsIn(m, c) /\ d \in PartsIn(m, c)
  BY DEF PartsIn
<1>2. \A t \in Indices : TabIn(m, d, t) \in PartsIn(m, c)
  BY DEF PartsIn
<1>3. DirIn(m2, c) = d
  BY <1>1 DEF DirIn
<1> HIDE DEF d
<1>4. m2[d] = m[d]
  BY <1>1
<1>5. \A t : TabIn(m2, d, t) = TabIn(m, d, t)
  BY <1>4 DEF TabIn
<1>6. PartsIn(m2, c) = PartsIn(m, c)
  BY <1>3, <1>5 DEF PartsIn, d
<1>7. ASSUME NEW p \in Frames PROVE EntryIn(m2, d, p) = EntryIn(m, d, p)
  <2>1. p \div Entries \in Indices
    BY PageSplit
  <2>2. m2[TabIn(m, d, p \div Entries)] = m[TabIn(m, d, p \div Entries)]
    BY <1>2, <2>1
  <2>3. QED
    BY <1>5, <2>2 DEF EntryIn
<1>8. ChunkOk(m2, c)
  <2>1. d \in Pool \ {c} /\ Filled(m, d, Entries, Pool) /\ \A t \in Indices : TabIn(m, d, t) # c
    BY DEF ChunkOk, d
  <2>2. \A p \in Frames : Keeps(p, FrameOf(EntryIn(m, d, p)))
    BY DEF ChunkOk, d
  <2>3. Filled(m2, d, Entries, Pool)
    BY <2>1, <1>4, <1>5 DEF Filled
  <2>4. \A p \in Frames : Keeps(p, FrameOf(EntryIn(m2, d, p)))
    BY <2>2, <1>7
  <2>5. QED
    BY <1>3, <1>5, <2>1, <2>3, <2>4 DEF ChunkOk
<1>9. QED
  BY <1>3, <1>6, <1>7, <1>8 DEF d

\* The processor finds the entry that the table has.
LEMMA WalkChunk ==
  ASSUME NEW m \in Memories, NEW c, ChunkOk(m, c), NEW p \in Frames
  PROVE  /\ DirIn(m, c) \in Frames
         /\ TabIn(m, DirIn(m, c), p \div Entries) \in Pool
         /\ EntryIn(m, DirIn(m, c), p) \in 0 .. WordMod - 1
         /\ Effective(m[DirIn(m, c)][p \div Entries],
                      m[FrameOf(m[DirIn(m, c)][p \div Entries])][p % Entries])
              = EntryIn(m, DirIn(m, c), p)
<1> DEFINE d == DirIn(m, c)
           t == p \div Entries
           b == p % Entries
<1>1. d \in Pool /\ Filled(m, d, Entries, Pool)
  BY DEF ChunkOk
<1>2. t \in 0 .. Entries - 1 /\ b \in Indices
  BY PageSplit DEF Indices
<1>3. TabIn(m, d, t) \in Pool /\ Bit(m[d][t], WRITEABLE) = 1 /\ Bit(m[d][t], FROM_ALL) = 1
  <2> HIDE DEF d, t
  <2>1. QED
    BY <1>1, <1>2 DEF Filled
<1>4. TabIn(m, d, t) \in Frames /\ d \in Frames
  BY <1>1, <1>3, Sizes
<1>5. m[TabIn(m, d, t)][b] \in 0 .. WordMod - 1
  <2> HIDE DEF d, t, b
  <2>1. QED
    BY <1>2, <1>4 DEF Memories
<1>6. WordMod \in Nat
  BY Sizes
<1>7. Effective(m[d][t], m[TabIn(m, d, t)][b]) = m[TabIn(m, d, t)][b]
  <2> HIDE DEF d, t, b
  <2>1. m[TabIn(m, d, t)][b] \in Int
    BY <1>5, <1>6
  <2>2. QED
    BY <1>3, <2>1, EffectiveFull
<1>8. QED
  BY <1>3, <1>4, <1>5, <1>7 DEF EntryIn, TabIn

LEMMA WalkNow ==
  ASSUME mem \in Memories, NEW d, NEW c, ChunkOk(mem, c), d = DirIn(mem, c), NEW p \in Frames
  PROVE  Walk(d, p) = EntryIn(mem, d, p)
<1>1. Effective(mem[d][p \div Entries], mem[FrameOf(mem[d][p \div Entries])][p % Entries])
        = EntryIn(mem, d, p)
  BY WalkChunk, Zenon
<1>2. QED
  BY <1>1, Zenon DEF Walk

LEMMA WalkNext ==
  ASSUME mem' \in Memories, NEW d, NEW c, ChunkOk(mem', c), d = DirIn(mem', c), NEW p \in Frames
  PROVE  Walk(d, p)' = EntryIn(mem', d, p)
<1>1. Effective(mem'[d][p \div Entries], mem'[FrameOf(mem'[d][p \div Entries])][p % Entries])
        = EntryIn(mem', d, p)
  BY WalkChunk, Zenon
<1>2. QED
  BY <1>1, Zenon DEF Walk

LEMMA TypeMemories == TypeInv => mem \in Memories
BY DEF TypeInv, Memories

\* What the map in force makes of a page.
LEMMA WalkLoaded ==
  ASSUME TypeInv, ChunksInv, MachineInv, cr3 # Null
  PROVE  \E j \in DOMAIN chunks :
           /\ cr3 = DirIn(mem, chunks[j])
           /\ \A p \in Frames : /\ Walk(cr3, p) = EntryIn(mem, cr3, p)
                                /\ Keeps(p, FrameOf(Walk(cr3, p)))
<1>1. PICK j \in DOMAIN chunks : cr3 = DirIn(mem, chunks[j])
  BY DEF MachineInv
<1>2. ChunkOk(mem, chunks[j])
  BY <1>1 DEF ChunksInv
<1>3. ASSUME NEW p \in Frames
      PROVE  Walk(cr3, p) = EntryIn(mem, cr3, p) /\ Keeps(p, FrameOf(Walk(cr3, p)))
  <2>1. Walk(cr3, p) = EntryIn(mem, cr3, p)
    BY <1>1, <1>2, TypeMemories, WalkNow
  <2>2. Keeps(p, FrameOf(EntryIn(mem, cr3, p)))
    BY <1>1, <1>2 DEF ChunkOk
  <2>3. QED
    BY <2>1, <2>2
<1>4. QED
  BY <1>1, <1>3

\* A write reaches the frame that was meant, or one outside the heap.
LEMMA ReachKeeps ==
  ASSUME TypeInv, ChunksInv, MachineInv, NEW p \in Frames, NEW f \in Reach(p)
  PROVE  Keeps(p, f)
<1>1. CASE ~pg
  BY <1>1 DEF Reach, Keeps
<1>2. CASE pg
  <2>1. cr3 # Null
    BY <1>2 DEF MachineInv
  <2>2. Keeps(p, FrameOf(Walk(cr3, p)))
    BY <2>1, WalkLoaded
  <2>3. CASE f = FrameOf(Walk(cr3, p))
    BY <2>2, <2>3
  <2>4. CASE <<p, f>> \in tlb
    <3>1. Keeps(<<p, f>>[1], <<p, f>>[2])
      BY <2>4 DEF MachineInv
    <3>2. QED
      BY <3>1
  <2>5. QED
    BY <1>2, <2>3, <2>4 DEF Reach
<1>3. QED
  BY <1>1, <1>2

LEMMA ReachApart ==
  ASSUME TypeInv, ChunksInv, MachineInv, NEW p \in Frames, NEW f \in Reach(p),
         \A j \in DOMAIN chunks : p \notin PartsIn(mem, chunks[j])
  PROVE  f \in Frames /\ \A j \in DOMAIN chunks : f \notin PartsIn(mem, chunks[j])
<1>1. Keeps(p, f)
  BY ReachKeeps
<1>2. \A j \in DOMAIN chunks : PartsIn(mem, chunks[j]) \subseteq Pool
  BY DEF ChunksInv, TypeInv
<1>3. QED
  BY <1>1, <1>2 DEF Keeps

-----------------------------------------------------------------------------
(* The heap.                                                               *)

LEMMA GrantedFacts ==
  ASSUME TypeInv
  PROVE  /\ Full => Granted = Null
         /\ ~Full => Granted \in Pool \ taken /\ Granted # Null
         /\ Granted \in Frames
         /\ \A j \in DOMAIN chunks : ChunksInv => Granted \notin PartsIn(mem, chunks[j])
<1>1. Full => Granted = Null
  BY DEF Full, Granted
<1>2. ASSUME ~Full PROVE Granted \in Pool \ taken /\ Granted # Null
  <2> DEFINE S == Pool \ taken
  <2>1. S # {} /\ S \subseteq Nat
    BY <1>2, Sizes DEF Full
  <2>2. \E f \in S : \A g \in S : f <= g
    <3> HIDE DEF S
    <3>1. QED
      BY <2>1, LeastElement
  <2>3. Granted = CHOOSE f \in S : \A g \in S : f <= g
    BY <1>2 DEF Granted, Full
  <2>4. Granted \in S
    <3> HIDE DEF S
    <3>1. QED
      BY <2>2, <2>3
  <2>5. QED
    BY <2>4, Sizes DEF Null
<1>3. Granted \in Frames
  BY <1>1, <1>2, Sizes DEF Null
<1>4. \A j \in DOMAIN chunks : ChunksInv => Granted \notin PartsIn(mem, chunks[j])
  <2>1. ChunksInv => \A j \in DOMAIN chunks : PartsIn(mem, chunks[j]) \subseteq taken
    BY DEF ChunksInv
  <2>2. taken \subseteq Pool
    BY DEF TypeInv
  <2>3. Granted \notin taken
    BY <1>1, <1>2, <2>2, Sizes DEF Null
  <2>4. QED
    BY <2>1, <2>3
<1>5. QED
  BY <1>1, <1>2, <1>3, <1>4

LEMMA KzallocFacts ==
  ASSUME TypeInv, Kzalloc
  PROVE  /\ taken' \subseteq Pool /\ taken \subseteq taken'
         /\ Granted # Null => Granted \in taken'
         /\ Full => Full'
         /\ taken' \subseteq taken \cup {Granted}
BY GrantedFacts DEF Kzalloc, TypeInv, Full

-----------------------------------------------------------------------------
(* Steps that change no chunk.                                             *)

Undisturbed == \A j \in DOMAIN chunks : \A f \in PartsIn(mem, chunks[j]) : mem'[f] = mem[f]

LEMMA QuietChunk ==
  ASSUME ChunksInv, Undisturbed, NEW j \in DOMAIN chunks
  PROVE  /\ DirIn(mem', chunks[j]) = DirIn(mem, chunks[j])
         /\ PartsIn(mem', chunks[j]) = PartsIn(mem, chunks[j])
         /\ \A p \in Frames : EntryIn(mem', DirIn(mem', chunks[j]), p)
                                = EntryIn(mem, DirIn(mem, chunks[j]), p)
         /\ ChunkOk(mem', chunks[j])
<1>1. ChunkOk(mem, chunks[j]) /\ \A f \in PartsIn(mem, chunks[j]) : mem'[f] = mem[f]
  BY DEF ChunksInv, Undisturbed
<1>2. QED
  BY <1>1, SameChunk

LEMMA QuietChunks ==
  ASSUME ChunksInv, Undisturbed, chunks' = chunks, taken \subseteq taken'
  PROVE  ChunksInv'
<1>1. \A j \in DOMAIN chunks : PartsIn(mem', chunks[j]) = PartsIn(mem, chunks[j])
                               /\ ChunkOk(mem', chunks[j])
  BY QuietChunk
<1>2. QED
  BY <1>1 DEF ChunksInv

LEMMA QuietMachine ==
  ASSUME TypeInv, TypeInv', ChunksInv, ChunksInv', MachineInv, Undisturbed,
         \A j \in DOMAIN chunks : j \in DOMAIN chunks' /\ chunks'[j] = chunks[j],
         UNCHANGED <<cr3, pg, tlb, recent>>
  PROVE  MachineInv'
<1>1. cr3' # Null => \E j \in DOMAIN chunks' : cr3' = DirIn(mem', chunks'[j])
  BY QuietChunk DEF MachineInv
<1>2. /\ pg' => cr3' # Null
      /\ ~pg' => tlb' = {}
      /\ \A c \in tlb' : Keeps(c[1], c[2])
  BY DEF MachineInv
<1>3. StaleOnlyIfSet'
  <2> SUFFICES ASSUME NEW c \in tlb, c[1] \notin recent
               PROVE  c[2] = FrameOf(Walk(cr3, c[1]))'
    BY DEF StaleOnlyIfSet
  <2>1. c[1] \in Frames /\ cr3 # Null /\ c[2] = FrameOf(Walk(cr3, c[1]))
    BY DEF MachineInv, TypeInv, StaleOnlyIfSet
  <2>2. PICK j \in DOMAIN chunks : cr3 = DirIn(mem, chunks[j])
    BY <2>1 DEF MachineInv
  <2>3. ChunkOk(mem, chunks[j]) /\ ChunkOk(mem', chunks[j])
    BY <2>2, QuietChunk DEF ChunksInv
  <2>4. mem \in Memories /\ mem' \in Memories
    BY DEF TypeInv, Memories
  <2>5. Walk(cr3, c[1]) = EntryIn(mem, cr3, c[1])
    BY <2>1, <2>2, <2>3, <2>4, WalkNow
  <2>6. DirIn(mem', chunks[j]) = cr3
    BY <2>2, QuietChunk
  <2>7. Walk(cr3, c[1])' = EntryIn(mem', cr3, c[1])
    BY <2>1, <2>3, <2>4, <2>6, WalkNext
  <2>8. EntryIn(mem', cr3, c[1]) = EntryIn(mem, cr3, c[1])
    BY <2>1, <2>2, <2>6, QuietChunk
  <2>9. QED
    BY <2>1, <2>5, <2>7, <2>8
<1>4. QED
  BY <1>1, <1>2, <1>3 DEF MachineInv

-----------------------------------------------------------------------------
(* Steps.                                                                  *)

LEMMA InitInv == Init => IInv
<1> SUFFICES ASSUME Init PROVE IInv
  OBVIOUS
<1>1. 0 \in 0 .. WordMod - 1 /\ 0 \in 0 .. Entries
  BY Sizes
<1>2. TypeInv
  <2>1. mem \in [Frames -> [Indices -> 0 .. WordMod - 1]]
    BY <1>1 DEF Init, Indices
  <2>2. <<>> \in Seq(Pool) /\ 0 \in 0 .. MaxCreates /\ 0 \in 0 .. MaxSets
    BY EmptySeq, PagingAssumption
  <2>3. QED
    BY <1>1, <2>1, <2>2 DEF Init, TypeInv, Null
<1>3. DOMAIN chunks = {}
  BY DEF Init
<1>4. QED
  BY <1>2, <1>3 DEF Init, IInv, ChunksInv, ProgressInv, MachineInv, StaleOnlyIfSet

LEMMA CreateDirectoryInv ==
  ASSUME IInv, NEW f \in FlagSets, CreateDirectory(f)
  PROVE  IInv' /\ Undisturbed /\ chunks' = chunks
<1>1. TypeInv /\ ChunksInv /\ MachineInv
  BY DEF IInv
<1>2. PICK at \in Reach(Granted) : mem' = Zeroed(mem, Granted, at)
  BY DEF CreateDirectory
<1>3. /\ chunks' = chunks /\ pc' = "table" /\ flags' = f /\ dir' = Granted /\ i' = 0
      /\ UNCHANGED <<cr3, pg, tlb, recent, sets>> /\ Kzalloc
      /\ creates < MaxCreates /\ creates' = creates + 1
  BY DEF CreateDirectory
<1>4. at \in Frames /\ \A j \in DOMAIN chunks : at \notin PartsIn(mem, chunks[j])
  BY <1>1, GrantedFacts, ReachApart
<1>5. Undisturbed
  <2>1. \A g \in Frames : g # at => mem'[g] = mem[g]
    BY <1>1, <1>2 DEF Zeroed, TypeInv
  <2>2. \A j \in DOMAIN chunks : PartsIn(mem, chunks[j]) \subseteq Frames
    BY <1>1, Sizes DEF ChunksInv, TypeInv
  <2>3. QED
    BY <1>4, <2>1, <2>2 DEF Undisturbed
<1>6. TypeInv'
  <2>1. mem' \in [Frames -> [Indices -> 0 .. WordMod - 1]]
    <3>1. 0 \in 0 .. WordMod - 1
      BY Sizes
    <3>2. [b \in 0 .. Entries - 1 |-> 0] \in [Indices -> 0 .. WordMod - 1]
      BY <3>1 DEF Indices
    <3>3. QED
      BY <1>1, <1>2, <3>2 DEF TypeInv, Zeroed
  <2>2. taken' \subseteq Pool
    BY <1>1, <1>3, KzallocFacts
  <2>3. dir' \in Pool \cup {Null} /\ i' \in 0 .. Entries /\ creates' \in 0 .. MaxCreates
    <3>1. Granted \in Pool \cup {Null}
      BY <1>1, GrantedFacts
    <3>2. 0 \in 0 .. Entries
      BY Sizes
    <3>3. creates + 1 \in 0 .. MaxCreates
      BY <1>1, <1>3, PagingAssumption DEF TypeInv
    <3>4. QED
      BY <1>3, <3>1, <3>2, <3>3
  <2>4. QED
    BY <1>1, <1>3, <2>1, <2>2, <2>3 DEF TypeInv
<1>7. ChunksInv'
  BY <1>1, <1>3, <1>5, KzallocFacts, QuietChunks
<1>8. MachineInv'
  BY <1>1, <1>3, <1>5, <1>6, <1>7, QuietMachine
<1>9. ProgressInv'
  <2>1. dir' = Null => Full'
    BY <1>1, <1>3, GrantedFacts, KzallocFacts
  <2>2. dir' # Null => Private(dir)'
    <3> SUFFICES ASSUME Granted # Null PROVE Private(dir)'
      BY <1>3
    <3>1. Granted \in taken'
      BY <1>1, <1>3, KzallocFacts
    <3>2. \A j \in DOMAIN chunks : Granted \notin PartsIn(mem', chunks[j])
      BY <1>1, <1>5, QuietChunk, GrantedFacts
    <3>3. QED
      BY <1>3, <3>1, <3>2 DEF Private
  <2>3. 0 .. i' - 1 = {}
    BY <1>3
  <2>4. QED
    BY <1>3, <2>1, <2>2, <2>3 DEF ProgressInv, Filled
<1>10. QED
  BY <1>3, <1>5, <1>6, <1>7, <1>8, <1>9 DEF IInv

LEMMA DirApart ==
  ASSUME IInv, pc = "table"
  PROVE  dir \in Frames /\ \A j \in DOMAIN chunks : dir \notin PartsIn(mem, chunks[j])
<1>1. CASE dir = Null
  <2>1. \A j \in DOMAIN chunks : PartsIn(mem, chunks[j]) \subseteq Pool
    BY DEF IInv, ChunksInv, TypeInv
  <2>2. QED
    BY <1>1, <2>1, Sizes DEF Null
<1>2. CASE dir # Null
  BY <1>2, Sizes DEF IInv, ProgressInv, Private, TypeInv
<1>3. QED
  BY <1>1, <1>2

\* While there is a block, what is written to make a chunk arrives.
LEMMA ProgressReach ==
  ASSUME IInv, pc = "table", ~Full
  PROVE  /\ Reach(Granted) \subseteq {Granted} /\ Granted \in Pool \ taken /\ Granted # Null
         /\ Reach(dir) \subseteq {dir} /\ dir \in taken /\ dir \in Pool /\ dir # Null
         /\ Granted # dir
<1>1. TypeInv /\ ChunksInv /\ MachineInv /\ ProgressInv
  BY DEF IInv
<1>2. Granted \in Pool \ taken /\ Granted # Null
  BY <1>1, GrantedFacts
<1>3. dir # Null /\ dir \in taken /\ dir \in Pool
  BY <1>1 DEF ProgressInv, Private, TypeInv
<1>4. \A p \in Pool : Reach(p) \subseteq {p}
  BY <1>1, ReachKeeps, Sizes DEF Keeps
<1>5. QED
  BY <1>2, <1>3, <1>4

LEMMA CreateTableInv ==
  ASSUME IInv, CreateTable
  PROVE  IInv' /\ Undisturbed /\ chunks' = chunks
<1> DEFINE page == [b \in 0 .. Entries - 1 |-> PageEntry(i, b, flags)]
           entry == Granted * PageSize + Writable(flags)
<1>1. TypeInv /\ ChunksInv /\ MachineInv /\ ProgressInv
  BY DEF IInv
<1>2. PICK table \in Reach(Granted), directory \in Reach(dir) :
        mem' = [[mem EXCEPT ![table] = page] EXCEPT ![directory][i] = entry]
  BY DEF CreateTable
<1>3. /\ chunks' = chunks /\ pc = "table" /\ pc' = pc /\ flags' = flags /\ dir' = dir
      /\ i < Entries /\ i' = i + 1
      /\ UNCHANGED <<cr3, pg, tlb, recent, creates, sets>> /\ Kzalloc
  BY DEF CreateTable
<1>4. i \in Indices /\ i \in Nat /\ Entries \in Nat /\ flags \in FlagSets
  BY <1>1, <1>3, Sizes DEF TypeInv, ProgressInv
<1>5. page \in [Indices -> 0 .. WordMod - 1]
  BY <1>4, PageEntryIs DEF Indices
<1>6. entry \in 0 .. WordMod - 1 /\ FrameOf(entry) = Granted
      /\ Bit(entry, WRITEABLE) = 1 /\ Bit(entry, FROM_ALL) = 1
  BY <1>1, <1>4, GrantedFacts, WritableFacts, EntryFacts
<1>7. mem \in [Frames -> [Indices -> 0 .. WordMod - 1]]
  BY <1>1 DEF TypeInv
<1>8. table \in Frames /\ \A j \in DOMAIN chunks : table \notin PartsIn(mem, chunks[j])
  BY <1>1, GrantedFacts, ReachApart
<1>9. directory \in Frames /\ \A j \in DOMAIN chunks : directory \notin PartsIn(mem, chunks[j])
  BY <1>1, <1>3, DirApart, ReachApart
<1> HIDE DEF page, entry
<1>10. /\ mem' \in [Frames -> [Indices -> 0 .. WordMod - 1]]
       /\ \A g \in Frames : g # table /\ g # directory => mem'[g] = mem[g]
       /\ table # directory => mem'[table] = page
                              /\ \A t \in Indices : mem'[directory][t] =
                                   IF t = i THEN entry ELSE mem[directory][t]
  <2> DEFINE filled == [mem EXCEPT ![table] = page]
  <2>1. /\ filled \in [Frames -> [Indices -> 0 .. WordMod - 1]]
        /\ filled[table] = page
        /\ \A g \in Frames : g # table => filled[g] = mem[g]
    BY <1>5, <1>7, <1>8
  <2> HIDE DEF filled
  <2>2. mem' = [filled EXCEPT ![directory][i] = entry]
    BY <1>2 DEF filled
  <2>3. mem' = [filled EXCEPT ![directory] = [filled[directory] EXCEPT ![i] = entry]]
    BY <2>1, <2>2, <1>9
  <2>4. filled[directory] \in [Indices -> 0 .. WordMod - 1]
    BY <1>9, <2>1
  <2> DEFINE row == [filled[directory] EXCEPT ![i] = entry]
  <2>5. /\ row \in [Indices -> 0 .. WordMod - 1]
        /\ \A t \in Indices : row[t] = IF t = i THEN entry ELSE filled[directory][t]
    BY <1>4, <1>6, <2>4
  <2>6. mem' = [filled EXCEPT ![directory] = row]
    BY <2>3
  <2> HIDE DEF row
  <2>7. /\ mem' \in [Frames -> [Indices -> 0 .. WordMod - 1]]
        /\ mem'[directory] = row
        /\ \A g \in Frames : g # directory => mem'[g] = filled[g]
    BY <1>9, <2>1, <2>5, <2>6
  <2>8. QED
    BY <1>8, <1>9, <2>1, <2>5, <2>7
<1>11. Undisturbed
  <2>1. \A j \in DOMAIN chunks : PartsIn(mem, chunks[j]) \subseteq Frames
    BY <1>1, Sizes DEF ChunksInv, TypeInv
  <2>2. QED
    BY <1>8, <1>9, <1>10, <2>1 DEF Undisturbed
<1>12. TypeInv'
  <2>1. taken' \subseteq Pool
    BY <1>1, <1>3, KzallocFacts
  <2>2. i' \in 0 .. Entries
    BY <1>3, <1>4
  <2>3. QED
    BY <1>1, <1>3, <1>10, <2>1, <2>2 DEF TypeInv
<1>13. ChunksInv'
  BY <1>1, <1>3, <1>11, KzallocFacts, QuietChunks
<1>14. MachineInv'
  BY <1>1, <1>3, <1>11, <1>12, <1>13, QuietMachine
<1>15. ProgressInv'
  <2>1. Full => Full'
    BY <1>1, <1>3, KzallocFacts
  <2>2. \A g : Private(g) => Private(g)'
    <3>1. \A j \in DOMAIN chunks : PartsIn(mem', chunks[j]) = PartsIn(mem, chunks[j])
      BY <1>1, <1>11, QuietChunk
    <3>2. taken \subseteq taken'
      BY <1>1, <1>3, KzallocFacts
    <3>3. QED
      BY <1>3, <3>1, <3>2 DEF Private
  <2>3. dir' = Null => Full'
    BY <1>1, <1>3, <2>1 DEF ProgressInv
  <2>4. dir' # Null => Private(dir)'
    <3>1. dir # Null => Private(dir)
      BY <1>1, <1>3 DEF ProgressInv
    <3>2. \A j \in DOMAIN chunks : PartsIn(mem', chunks[j]) = PartsIn(mem, chunks[j])
      BY <1>1, <1>11, QuietChunk
    <3>3. taken \subseteq taken'
      BY <1>1, <1>3, KzallocFacts
    <3>4. QED
      BY <1>3, <3>1, <3>2, <3>3 DEF Private
  <2>5. ASSUME ~Full'
        PROVE  /\ Filled(mem', dir, i + 1, taken')
               /\ \A t \in 0 .. i : /\ Private(TabIn(mem, dir, t))'
                                    /\ \A b \in Indices : mem'[TabIn(mem', dir, t)][b]
                                                            = PageEntry(t, b, flags)
    <3>1. ~Full
      BY <2>1, <2>5
    <3>2. /\ table = Granted /\ Granted \in Pool \ taken /\ Granted # Null
          /\ directory = dir /\ dir \in taken /\ dir \in Pool /\ Granted # dir
      BY <1>2, <1>3, <3>1, ProgressReach
    <3>3. /\ mem'[Granted] = page
          /\ \A t \in Indices : mem'[dir][t] = IF t = i THEN entry ELSE mem[dir][t]
          /\ \A g \in Frames : g # Granted /\ g # dir => mem'[g] = mem[g]
      BY <1>10, <3>2
    <3>4. /\ Filled(mem, dir, i, taken)
          /\ \A t \in 0 .. i - 1 :
               /\ Private(TabIn(mem, dir, t))
               /\ \A b \in Indices : mem[TabIn(mem, dir, t)][b] = PageEntry(t, b, flags)
      BY <1>1, <1>3, <3>1 DEF ProgressInv
    <3>5. ASSUME NEW t \in 0 .. i - 1
          PROVE  /\ mem'[dir][t] = mem[dir][t] /\ TabIn(mem', dir, t) = TabIn(mem, dir, t)
                 /\ TabIn(mem, dir, t) \in taken \ {dir}
                 /\ mem'[TabIn(mem, dir, t)] = mem[TabIn(mem, dir, t)]
      <4>1. t \in Indices /\ t # i
        BY <1>4 DEF Indices
      <4>2. mem'[dir][t] = mem[dir][t]
        BY <3>3, <4>1
      <4>3. TabIn(mem, dir, t) \in taken \ {dir}
        BY <3>4 DEF Filled
      <4>4. TabIn(mem, dir, t) \in Frames /\ TabIn(mem, dir, t) # Granted
        BY <1>1, <3>2, <4>3, Sizes DEF TypeInv
      <4>5. QED
        BY <3>3, <4>2, <4>3, <4>4 DEF TabIn
    <3>6. mem'[dir][i] = entry /\ TabIn(mem', dir, i) = Granted
      BY <1>4, <1>6, <3>3 DEF TabIn
    <3>7. taken \subseteq taken' /\ Granted \in taken'
      BY <1>1, <1>3, <3>2, KzallocFacts
    <3>8. \A t \in 0 .. i : t \in 0 .. i - 1 \/ t = i
      BY <1>4
    <3>9. ASSUME NEW t \in 0 .. i
          PROVE  /\ TabIn(mem', dir, t) \in taken' \ {dir}
                 /\ Bit(mem'[dir][t], WRITEABLE) = 1 /\ Bit(mem'[dir][t], FROM_ALL) = 1
                 /\ \A u \in 0 .. i : TabIn(mem', dir, u) = TabIn(mem', dir, t) => u = t
      <4>1. CASE t = i
        <5>1. \A u \in 0 .. i - 1 : TabIn(mem', dir, u) # Granted
          BY <3>2, <3>5
        <5>2. QED
          BY <1>6, <3>2, <3>6, <3>7, <3>8, <4>1, <5>1
      <4>2. CASE t \in 0 .. i - 1
        <5>1. /\ Bit(mem[dir][t], WRITEABLE) = 1 /\ Bit(mem[dir][t], FROM_ALL) = 1
              /\ \A u \in 0 .. i - 1 : TabIn(mem, dir, u) = TabIn(mem, dir, t) => u = t
          BY <3>4, <4>2 DEF Filled
        <5>2. TabIn(mem', dir, t) = TabIn(mem, dir, t) /\ TabIn(mem, dir, t) \in taken \ {dir}
              /\ mem'[dir][t] = mem[dir][t]
          BY <3>5, <4>2
        <5>3. \A u \in 0 .. i - 1 : TabIn(mem', dir, u) = TabIn(mem, dir, u)
          BY <3>5
        <5>4. TabIn(mem', dir, i) # TabIn(mem', dir, t)
          BY <3>2, <3>6, <5>2
        <5>5. QED
          BY <3>7, <3>8, <5>1, <5>2, <5>3, <5>4
      <4>3. QED
        BY <3>8, <4>1, <4>2
    <3>10. Filled(mem', dir, i + 1, taken')
      <4>1. 0 .. (i + 1) - 1 = 0 .. i
        BY <1>4
      <4>2. QED
        BY <3>9, <4>1 DEF Filled
    <3>11. ASSUME NEW t \in 0 .. i
           PROVE  /\ Private(TabIn(mem, dir, t))'
                  /\ \A b \in Indices : mem'[TabIn(mem', dir, t)][b] = PageEntry(t, b, flags)
      <4>1. \A j \in DOMAIN chunks : PartsIn(mem', chunks[j]) = PartsIn(mem, chunks[j])
        BY <1>1, <1>11, QuietChunk
      <4>2. CASE t = i
        <5>1. \A j \in DOMAIN chunks : Granted \notin PartsIn(mem, chunks[j])
          BY <1>1, GrantedFacts
        <5>2. Private(TabIn(mem, dir, t))'
          BY <1>3, <3>6, <3>7, <4>1, <4>2, <5>1 DEF Private
        <5>3. \A b \in Indices : page[b] = PageEntry(i, b, flags)
          BY DEF page, Indices
        <5>4. QED
          BY <3>3, <3>6, <4>2, <5>2, <5>3
      <4>3. CASE t \in 0 .. i - 1
        <5>1. Private(TabIn(mem, dir, t))
          BY <3>4, <4>3
        <5>2. \A b \in Indices : mem[TabIn(mem, dir, t)][b] = PageEntry(t, b, flags)
          BY <3>4, <4>3
        <5>3. TabIn(mem', dir, t) = TabIn(mem, dir, t)
              /\ mem'[TabIn(mem, dir, t)] = mem[TabIn(mem, dir, t)]
          BY <3>5, <4>3
        <5>4. Private(TabIn(mem, dir, t))'
          BY <1>3, <3>7, <4>1, <5>1, <5>3 DEF Private
        <5>5. QED
          BY <5>2, <5>3, <5>4
      <4>4. QED
        BY <3>8, <4>2, <4>3
    <3>12. QED
      BY <3>10, <3>11
  <2>6. QED
    BY <1>3, <1>4, <2>3, <2>4, <2>5 DEF ProgressInv
<1>16. QED
  BY <1>3, <1>11, <1>12, <1>13, <1>14, <1>15 DEF IInv

\* The chunk itself: there is none for want of memory, or one that maps every
\* page to itself.
CreatedChunk ==
  /\ chunks' = Append(chunks, Granted)
  /\ DirIn(mem', Granted) = dir
  /\ \A p \in Frames : EntryIn(mem', dir, p) = p * PageSize + flags
  /\ flags \in FlagSets

LEMMA AppendFacts ==
  ASSUME TypeInv, Granted \in Pool, chunks' = Append(chunks, Granted)
  PROVE  /\ chunks' \in Seq(Pool) /\ Len(chunks) \in Nat
         /\ DOMAIN chunks = 1 .. Len(chunks) /\ DOMAIN chunks' = 1 .. Len(chunks) + 1
         /\ \A j \in DOMAIN chunks : j \in DOMAIN chunks' /\ chunks'[j] = chunks[j]
         /\ \A j \in DOMAIN chunks' : j \in DOMAIN chunks \/ chunks'[j] = Granted
         /\ \A j, k \in DOMAIN chunks' : j # k => j \in DOMAIN chunks \/ k \in DOMAIN chunks
<1>1. chunks \in Seq(Pool)
  BY DEF TypeInv
<1>2. /\ chunks' \in Seq(Pool) /\ Len(chunks') = Len(chunks) + 1
      /\ \A j \in 1 .. Len(chunks) : chunks'[j] = chunks[j]
      /\ chunks'[Len(chunks) + 1] = Granted
  BY <1>1, AppendProperties
<1>3. Len(chunks) \in Nat /\ DOMAIN chunks = 1 .. Len(chunks) /\ DOMAIN chunks' = 1 .. Len(chunks')
  BY <1>1, <1>2, LenProperties
<1>4. QED
  BY <1>2, <1>3

LEMMA CreateChunkInv ==
  ASSUME IInv, CreateChunk
  PROVE  IInv' /\ Undisturbed /\ (chunks' = chunks \/ CreatedChunk)
<1>1. TypeInv /\ ChunksInv /\ MachineInv /\ ProgressInv
  BY DEF IInv
<1>2. PICK at \in Reach(Granted) :
        mem' = [Zeroed(mem, Granted, at) EXCEPT ![at][0] = dir * PageSize]
  BY DEF CreateChunk
<1>3. /\ chunks' = (IF Granted = Null THEN chunks ELSE Append(chunks, Granted))
      /\ pc = "table" /\ i = Entries /\ Kzalloc
      /\ pc' = "idle" /\ i' = 0 /\ dir' = Null /\ flags' = 0
      /\ UNCHANGED <<cr3, pg, tlb, recent, creates, sets>>
  BY DEF CreateChunk
<1>4. at \in Frames /\ \A j \in DOMAIN chunks : at \notin PartsIn(mem, chunks[j])
  BY <1>1, GrantedFacts, ReachApart
<1>5. mem \in [Frames -> [Indices -> 0 .. WordMod - 1]]
  BY <1>1 DEF TypeInv
<1>6. /\ mem' \in [Frames -> [Indices -> 0 .. WordMod - 1]]
      /\ mem'[at][0] = dir * PageSize
      /\ \A g \in Frames : g # at => mem'[g] = mem[g]
  <2> DEFINE zeroed == Zeroed(mem, Granted, at)
             word == dir * PageSize
  <2>1. zeroed \in [Frames -> [Indices -> 0 .. WordMod - 1]]
        /\ \A g \in Frames : g # at => zeroed[g] = mem[g]
    <3>1. 0 \in 0 .. WordMod - 1
      BY Sizes
    <3>2. [b \in 0 .. Entries - 1 |-> 0] \in [Indices -> 0 .. WordMod - 1]
      BY <3>1 DEF Indices
    <3>3. QED
      BY <1>4, <1>5, <3>2 DEF Zeroed
  <2>2. word \in 0 .. WordMod - 1
    <3>1. dir \in Frames /\ 0 \in 0 .. PageSize - 1
      BY <1>1, Sizes DEF TypeInv, Null
    <3>2. dir * PageSize + 0 \in 0 .. WordMod - 1
      BY <3>1, EntryFacts
    <3>3. dir * PageSize + 0 = dir * PageSize
      <4>1. dir \in Nat /\ PageSize \in Nat
        BY <3>1, Sizes
      <4>2. dir * PageSize \in Nat
        BY <4>1
      <4>3. QED
        BY <4>2
    <3>4. QED
      BY <3>2, <3>3
  <2> HIDE DEF zeroed, word
  <2> DEFINE row == [zeroed[at] EXCEPT ![0] = word]
  <2>3. zeroed[at] \in [Indices -> 0 .. WordMod - 1] /\ 0 \in Indices
    BY <1>4, <2>1, Sizes
  <2>4. row \in [Indices -> 0 .. WordMod - 1] /\ row[0] = word
    BY <2>2, <2>3
  <2>5. mem' = [zeroed EXCEPT ![at] = row]
    <3>1. mem' = [zeroed EXCEPT ![at][0] = word]
      BY <1>2 DEF zeroed, word
    <3>2. QED
      BY <1>4, <2>1, <3>1
  <2> HIDE DEF row
  <2>6. /\ mem' \in [Frames -> [Indices -> 0 .. WordMod - 1]] /\ mem'[at] = row
        /\ \A g \in Frames : g # at => mem'[g] = zeroed[g]
    BY <1>4, <2>1, <2>4, <2>5
  <2>7. QED
    BY <2>1, <2>4, <2>6 DEF word
<1>7. Undisturbed
  <2>1. \A j \in DOMAIN chunks : PartsIn(mem, chunks[j]) \subseteq Frames
    BY <1>1, Sizes DEF ChunksInv, TypeInv
  <2>2. QED
    BY <1>4, <1>6, <2>1 DEF Undisturbed
<1>8. /\ taken' \subseteq Pool /\ taken \subseteq taken' /\ 0 \in 0 .. Entries
      /\ Granted # Null => Granted \in taken'
  BY <1>1, <1>3, KzallocFacts, Sizes
<1>9. CASE Granted = Null
  <2>1. chunks' = chunks
    BY <1>3, <1>9
  <2>2. TypeInv'
    BY <1>1, <1>3, <1>6, <1>8, <2>1 DEF TypeInv
  <2>3. ChunksInv'
    BY <1>1, <1>7, <1>8, <2>1, QuietChunks
  <2>4. MachineInv'
    BY <1>1, <1>3, <1>7, <2>1, <2>2, <2>3, QuietMachine
  <2>5. ProgressInv'
    BY <1>3 DEF ProgressInv
  <2>6. QED
    BY <1>7, <2>1, <2>2, <2>3, <2>4, <2>5 DEF IInv
<1>10. CASE Granted # Null
  <2>1. chunks' = Append(chunks, Granted) /\ Granted \in Pool \ taken /\ ~Full
    BY <1>1, <1>3, <1>10, GrantedFacts
  <2>2. /\ at = Granted /\ dir \in taken /\ dir \in Pool /\ Granted # dir /\ dir # Null
    BY <1>2, <1>3, <2>1, IInv, ProgressReach
  <2>3. /\ Filled(mem, dir, Entries, taken)
        /\ \A t \in 0 .. Entries - 1 :
             /\ Private(TabIn(mem, dir, t))
             /\ \A b \in Indices : mem[TabIn(mem, dir, t)][b] = PageEntry(t, b, flags)
        /\ Private(dir) /\ flags \in FlagSets
    BY <1>1, <1>3, <2>1, <2>2 DEF ProgressInv
  <2>4. DirIn(mem', Granted) = dir
    <3>1. dir \in Frames /\ 0 \in 0 .. PageSize - 1 /\ PageSize \in Nat /\ dir \in Nat
      BY <2>2, Sizes
    <3>2. FrameOf(dir * PageSize + 0) = dir
      BY <3>1, EntryFacts
    <3>3. dir * PageSize + 0 = dir * PageSize
      <4>1. dir * PageSize \in Nat
        BY <3>1
      <4>2. QED
        BY <4>1
    <3>4. QED
      BY <1>6, <2>2, <3>2, <3>3 DEF DirIn
  <2>5. mem'[dir] = mem[dir]
    BY <1>6, <2>2, Sizes
  <2>6. ASSUME NEW t \in Indices
        PROVE  /\ TabIn(mem', dir, t) = TabIn(mem, dir, t)
               /\ TabIn(mem, dir, t) \in taken \ {dir} /\ TabIn(mem, dir, t) # Granted
               /\ mem'[TabIn(mem, dir, t)] = mem[TabIn(mem, dir, t)]
    <3>1. TabIn(mem, dir, t) \in taken \ {dir}
      BY <2>3 DEF Filled, Indices
    <3>2. TabIn(mem, dir, t) # Granted /\ TabIn(mem, dir, t) \in Frames
      BY <1>1, <2>1, <3>1, Sizes DEF TypeInv
    <3>3. QED
      BY <1>6, <2>2, <2>5, <3>1, <3>2 DEF TabIn
  <2>7. ASSUME NEW p \in Frames
        PROVE  EntryIn(mem', dir, p) = p * PageSize + flags /\ FrameOf(EntryIn(mem', dir, p)) = p
    <3> DEFINE t == p \div Entries
               b == p % Entries
    <3>1. t \in Indices /\ b \in Indices /\ p = t * Entries + b
      BY PageSplit
    <3>2. EntryIn(mem', dir, p) = mem[TabIn(mem, dir, t)][b]
      BY <2>6, <3>1 DEF EntryIn
    <3> HIDE DEF t, b
    <3>3. mem[TabIn(mem, dir, t)][b] = PageEntry(t, b, flags)
      BY <2>3, <3>1 DEF Indices
    <3>4. QED
      BY <2>3, <3>1, <3>2, <3>3, PageEntryIs
  <2>8. ChunkOk(mem', Granted)
    <3>1. Filled(mem', dir, Entries, Pool)
      <4>1. taken \subseteq Pool
        BY <1>1 DEF TypeInv
      <4>2. \A t \in 0 .. Entries - 1 : TabIn(mem', dir, t) = TabIn(mem, dir, t)
        BY <2>6 DEF Indices
      <4>3. QED
        BY <2>3, <2>5, <4>1, <4>2 DEF Filled
    <3>2. \A t \in Indices : TabIn(mem', dir, t) # Granted
      BY <2>6
    <3>3. \A p \in Frames : Keeps(p, FrameOf(EntryIn(mem', dir, p)))
      BY <2>7 DEF Keeps
    <3>4. QED
      BY <2>2, <2>4, <3>1, <3>2, <3>3 DEF ChunkOk
  <2>9. PartsIn(mem', Granted) = {Granted, dir} \cup {TabIn(mem, dir, t) : t \in Indices}
    BY <2>4, <2>6 DEF PartsIn
  <2>10. PartsIn(mem', Granted) \subseteq taken'
    BY <1>8, <1>10, <2>2, <2>6, <2>9
  <2>11. ASSUME NEW j \in DOMAIN chunks
         PROVE  /\ ChunkOk(mem', chunks[j]) /\ PartsIn(mem', chunks[j]) \subseteq taken'
                /\ PartsIn(mem', chunks[j]) \cap PartsIn(mem', Granted) = {}
                /\ \A k \in DOMAIN chunks \ {j} :
                     PartsIn(mem', chunks[j]) \cap PartsIn(mem', chunks[k]) = {}
    <3>1. ChunkOk(mem', chunks[j]) /\ PartsIn(mem', chunks[j]) = PartsIn(mem, chunks[j])
      BY <1>1, <1>7, QuietChunk
    <3>2. /\ PartsIn(mem, chunks[j]) \subseteq taken
          /\ \A k \in DOMAIN chunks \ {j} :
               PartsIn(mem, chunks[j]) \cap PartsIn(mem, chunks[k]) = {}
      BY <1>1 DEF ChunksInv
    <3>3. \A k \in DOMAIN chunks : PartsIn(mem', chunks[k]) = PartsIn(mem, chunks[k])
      BY <1>1, <1>7, QuietChunk
    <3>4. Granted \notin PartsIn(mem, chunks[j]) /\ dir \notin PartsIn(mem, chunks[j])
      BY <2>1, <2>3, <3>2 DEF Private
    <3>5. \A t \in Indices : TabIn(mem, dir, t) \notin PartsIn(mem, chunks[j])
      BY <2>3 DEF Private, Indices
    <3>6. QED
      BY <1>8, <2>9, <3>1, <3>2, <3>3, <3>4, <3>5
  <2>12. /\ chunks' \in Seq(Pool)
         /\ \A j \in DOMAIN chunks : j \in DOMAIN chunks' /\ chunks'[j] = chunks[j]
         /\ \A j \in DOMAIN chunks' : j \in DOMAIN chunks \/ chunks'[j] = Granted
         /\ \A j, k \in DOMAIN chunks' : j # k => j \in DOMAIN chunks \/ k \in DOMAIN chunks
    BY <1>1, <2>1, AppendFacts
  <2>13. TypeInv'
    BY <1>1, <1>3, <1>6, <1>8, <2>12 DEF TypeInv
  <2>14. ChunksInv'
    <3> SUFFICES ASSUME NEW j \in DOMAIN chunks'
                 PROVE  /\ ChunkOk(mem', chunks'[j])
                        /\ PartsIn(mem', chunks'[j]) \subseteq taken'
                        /\ \A k \in DOMAIN chunks' \ {j} :
                             PartsIn(mem', chunks'[j]) \cap PartsIn(mem', chunks'[k]) = {}
      BY DEF ChunksInv
    <3>1. ChunkOk(mem', chunks'[j]) /\ PartsIn(mem', chunks'[j]) \subseteq taken'
      BY <2>8, <2>10, <2>11, <2>12
    <3>2. ASSUME NEW k \in DOMAIN chunks' \ {j}
          PROVE  PartsIn(mem', chunks'[j]) \cap PartsIn(mem', chunks'[k]) = {}
      <4>1. CASE j \in DOMAIN chunks
        BY <2>11, <2>12, <4>1
      <4>2. CASE j \notin DOMAIN chunks
        <5>1. k \in DOMAIN chunks /\ chunks'[j] = Granted /\ chunks'[k] = chunks[k]
          BY <2>12, <4>2
        <5>2. PartsIn(mem', chunks[k]) \cap PartsIn(mem', Granted) = {}
          BY <2>11, <5>1
        <5>3. QED
          BY <5>1, <5>2
      <4>3. QED
        BY <4>1, <4>2
    <3>3. QED
      BY <3>1, <3>2
  <2>15. MachineInv'
    BY <1>1, <1>3, <1>7, <2>12, <2>13, <2>14, QuietMachine
  <2>16. ProgressInv'
    BY <1>3 DEF ProgressInv
  <2>17. CreatedChunk
    BY <2>1, <2>3, <2>4, <2>7 DEF CreatedChunk
  <2>18. QED
    BY <1>7, <2>13, <2>14, <2>15, <2>16, <2>17 DEF IInv
<1>11. QED
  BY <1>9, <1>10

\* What the code calls the directory of a chunk.
LEMMA DirectoryIs ==
  /\ \A c : Directory(c) = DirIn(mem, c)
  /\ \A c : Directory(c)' = DirIn(mem', c)
BY DEF Directory, DirIn

\* Steps that write no memory.
LEMMA SwitchInv ==
  ASSUME IInv, NEW j \in DOMAIN chunks, Switch(chunks[j])
  PROVE  IInv' /\ mem' = mem /\ chunks' = chunks /\ cr3' = DirIn(mem, chunks[j])
<1>1. /\ mem' = mem /\ chunks' = chunks /\ taken' = taken /\ pg' = pg /\ pc' = pc
      /\ pc = "idle" /\ tlb' = {} /\ recent' = {} /\ cr3' = DirIn(mem, chunks[j])
      /\ UNCHANGED <<flags, i, dir, creates, sets>>
  BY DirectoryIs DEF Switch, Loaded
<1>2. DirIn(mem, chunks[j]) \in Pool
  BY DEF IInv, ChunksInv, ChunkOk
<1>3. TypeInv'
  BY <1>1, <1>2 DEF IInv, TypeInv
<1>4. ChunksInv'
  BY <1>1 DEF IInv, ChunksInv
<1>5. ProgressInv'
  BY <1>1 DEF ProgressInv
<1>6. MachineInv'
  <2>1. cr3' # Null
    BY <1>1, <1>2, Sizes DEF Null
  <2>2. QED
    BY <1>1, <2>1 DEF MachineInv, StaleOnlyIfSet
<1>7. QED
  BY <1>1, <1>3, <1>4, <1>5, <1>6 DEF IInv

LEMMA EnableInv ==
  ASSUME IInv, EnablePaging
  PROVE  IInv' /\ mem' = mem /\ chunks' = chunks /\ cr3' = cr3
<1>1. /\ mem' = mem /\ chunks' = chunks /\ taken' = taken /\ pg' = TRUE /\ pc' = pc
      /\ pc = "idle" /\ ~pg /\ cr3 # Null
      /\ UNCHANGED <<cr3, tlb, recent, flags, i, dir, creates, sets>>
  BY DEF EnablePaging
<1>2. TypeInv'
  BY <1>1 DEF IInv, TypeInv
<1>3. ChunksInv' /\ ProgressInv'
  BY <1>1 DEF IInv, ChunksInv, ProgressInv
<1>4. tlb' = {}
  BY <1>1 DEF IInv, MachineInv
<1>5. MachineInv'
  BY <1>1, <1>4 DEF IInv, MachineInv, StaleOnlyIfSet
<1>6. QED
  BY <1>1, <1>2, <1>3, <1>5 DEF IInv

LEMMA CachePageInv ==
  ASSUME IInv, NEW p \in Frames, CachePage(p)
  PROVE  IInv' /\ mem' = mem /\ chunks' = chunks /\ cr3' = cr3
<1>1. /\ mem' = mem /\ chunks' = chunks /\ taken' = taken /\ pg' = pg /\ pg
      /\ tlb' = tlb \cup {<<p, FrameOf(Walk(cr3, p))>>}
      /\ UNCHANGED <<cr3, recent, pc, flags, i, dir, creates, sets>>
  BY DEF CachePage
<1>2. cr3 # Null
  BY <1>1 DEF IInv, MachineInv
<1>3. Keeps(p, FrameOf(Walk(cr3, p)))
  BY <1>2, WalkLoaded DEF IInv
<1>4. TypeInv'
  BY <1>1, <1>3 DEF IInv, TypeInv, Keeps
<1>5. ChunksInv'
  BY <1>1 DEF IInv, ChunksInv
<1>6. ProgressInv'
  BY <1>1 DEF IInv, ProgressInv, Full, Private
<1>7. \A q \in Frames : Walk(cr3, q)' = Walk(cr3, q)
  BY <1>1 DEF Walk
<1>8. MachineInv'
  <2>1. \A c \in tlb' : Keeps(c[1], c[2])
    BY <1>1, <1>3 DEF IInv, MachineInv
  <2>2. StaleOnlyIfSet'
    <3> SUFFICES ASSUME NEW c \in tlb', c[1] \notin recent
                 PROVE  c[2] = FrameOf(Walk(cr3, c[1]))'
      BY <1>1 DEF StaleOnlyIfSet
    <3>1. CASE c = <<p, FrameOf(Walk(cr3, p))>>
      BY <1>7, <3>1 DEF FrameOf
    <3>2. CASE c \in tlb
      <4>1. c[1] \in Frames /\ c[2] = FrameOf(Walk(cr3, c[1]))
        BY <3>2 DEF IInv, TypeInv, MachineInv, StaleOnlyIfSet
      <4>2. QED
        BY <1>7, <4>1 DEF FrameOf
    <3>3. QED
      BY <1>1, <3>1, <3>2
  <2>3. QED
    BY <1>1, <1>2, <2>1, <2>2 DEF IInv, MachineInv
<1>9. QED
  BY <1>1, <1>4, <1>5, <1>6, <1>8 DEF IInv

\* paging_set changes the entry of one page of one chunk.
SetPage(j, p, val) ==
  /\ \A k \in DOMAIN chunks :
       /\ DirIn(mem', chunks[k]) = DirIn(mem, chunks[k])
       /\ \A q \in Frames :
            EntryIn(mem', DirIn(mem', chunks[k]), q) =
              IF k = j /\ q = p THEN val ELSE EntryIn(mem, DirIn(mem, chunks[k]), q)

LEMMA PagingSetInv ==
  ASSUME IInv, NEW j \in DOMAIN chunks, NEW v \in Addresses, NEW val \in Values,
         PagingSet(Directory(chunks[j]), v, val)
  PROVE  /\ IInv' /\ chunks' = chunks /\ cr3' = cr3
         /\ mem' = mem \/ SetPage(j, v \div PageSize, val)
<1> DEFINE d == DirIn(mem, chunks[j])
           p == v \div PageSize
           T == TabIn(mem, d, p \div Entries)
           e == p % Entries
<1>1. TypeInv /\ ChunksInv /\ MachineInv
  BY DEF IInv
<1>2. /\ chunks' = chunks /\ pc = "idle" /\ pc' = pc /\ sets < MaxSets /\ sets' = sets + 1
      /\ UNCHANGED <<taken, cr3, pg, tlb, flags, i, dir, creates>>
      /\ \/ mem' = mem /\ recent' = recent
         \/ \E directory \in Reach(d) :
              \E table \in Reach(FrameOf(mem[directory][DirectoryIndex(v)])) :
                /\ mem' = [mem EXCEPT ![table][TableIndex(v)] = val]
                /\ recent' = IF d = cr3 THEN recent \cup {v \div PageSize} ELSE recent
  BY DirectoryIs DEF PagingSet
<1>3. ProgressInv'
  BY <1>2 DEF ProgressInv
<1>4. sets' \in 0 .. MaxSets
  BY <1>1, <1>2, PagingAssumption DEF TypeInv
<1>5. CASE mem' = mem /\ recent' = recent
  <2>1. TypeInv'
    BY <1>1, <1>2, <1>4, <1>5 DEF TypeInv
  <2>2. ChunksInv'
    BY <1>1, <1>2, <1>5 DEF ChunksInv
  <2>3. Undisturbed
    BY <1>5 DEF Undisturbed
  <2>4. MachineInv'
    BY <1>1, <1>2, <1>5, <2>1, <2>2, <2>3, QuietMachine
  <2>5. QED
    BY <1>2, <1>3, <1>5, <2>1, <2>2, <2>4 DEF IInv
<1>6. ASSUME NEW directory \in Reach(d),
             NEW table \in Reach(FrameOf(mem[directory][DirectoryIndex(v)])),
             mem' = [mem EXCEPT ![table][TableIndex(v)] = val],
             recent' = IF d = cr3 THEN recent \cup {v \div PageSize} ELSE recent
      PROVE  IInv' /\ SetPage(j, v \div PageSize, val)
  <2>1. /\ p \in Frames /\ p \notin Pool
        /\ DirectoryIndex(v) = p \div Entries /\ TableIndex(v) = e
    <3>1. v \in 0 .. WordMod - 1
      BY PagingAssumption DEF WordMod
    <3>2. QED
      BY <3>1, IndexesOf, PagingAssumption
  <2>2. p \div Entries \in Indices /\ e \in Indices
    BY <2>1, PageSplit
  <2>3. val \in Nat /\ FrameOf(val) \in Frames \ Pool
    BY PagingAssumption DEF FrameOf
  <2>4. val \in 0 .. WordMod - 1
    <3> DEFINE n == Entries * Entries
               f == val \div PageSize
               w == val % PageSize
    <3>1. n \in Nat /\ PageSize \in Nat \ {0} /\ WordMod = n * PageSize
      BY Sizes
    <3>2. f \in Nat /\ f < n /\ w \in 0 .. PageSize - 1 /\ val = f * PageSize + w
      <4>1. f \in Frames
        BY <2>3 DEF FrameOf
      <4>2. f \in Nat /\ w \in 0 .. PageSize - 1 /\ val = f * PageSize + w
        BY <2>3, <3>1, DivisionFacts
      <4> HIDE DEF f, w
      <4>3. f < n
        BY <4>1, Sizes DEF n
      <4>4. QED
        BY <4>2, <4>3
    <3> HIDE DEF n, f, w
    <3>3. val < n * PageSize /\ n * PageSize \in Nat
      BY <3>1, <3>2, PieceBound
    <3>4. QED
      BY <2>3, <3>1, <3>3
  <2>5. ChunkOk(mem, chunks[j]) /\ PartsIn(mem, chunks[j]) \subseteq taken
    BY <1>1 DEF ChunksInv
  <2>6. d \in Pool \ {chunks[j]} /\ T \in Pool \ {d} /\ T # chunks[j] /\ T \in PartsIn(mem, chunks[j])
    <3> HIDE DEF p
    <3> DEFINE t == p \div Entries
    <3>1. t \in Indices /\ t \in 0 .. Entries - 1
      BY <2>2 DEF Indices
    <3> HIDE DEF t
    <3>2. d \in Pool \ {chunks[j]} /\ TabIn(mem, d, t) \in Pool \ {d} /\ TabIn(mem, d, t) # chunks[j]
      BY <2>5, <3>1 DEF ChunkOk, Filled
    <3>3. TabIn(mem, d, t) \in PartsIn(mem, chunks[j])
      BY <3>1 DEF PartsIn
    <3>4. QED
      BY <3>2, <3>3 DEF t
  <2> HIDE DEF d, p, T, e
  <2>7. directory = d
    BY <1>1, <2>6, ReachKeeps, Sizes DEF Keeps
  <2>8. table = T
    <3>1. FrameOf(mem[directory][DirectoryIndex(v)]) = T
      BY <2>1, <2>7 DEF T, TabIn
    <3>2. QED
      BY <1>1, <2>6, <3>1, ReachKeeps, Sizes DEF Keeps
  <2>9. mem \in [Frames -> [Indices -> 0 .. WordMod - 1]] /\ T \in Frames
    BY <1>1, <2>6, Sizes DEF TypeInv
  <2>10. /\ mem' \in [Frames -> [Indices -> 0 .. WordMod - 1]]
         /\ \A g \in Frames : g # T => mem'[g] = mem[g]
         /\ \A b \in Indices : mem'[T][b] = IF b = e THEN val ELSE mem[T][b]
    <3> DEFINE row == [mem[T] EXCEPT ![e] = val]
    <3>1. mem[T] \in [Indices -> 0 .. WordMod - 1]
      BY <2>9
    <3>2. /\ row \in [Indices -> 0 .. WordMod - 1]
          /\ \A b \in Indices : row[b] = IF b = e THEN val ELSE mem[T][b]
      BY <2>2, <2>4, <3>1
    <3>3. mem' = [mem EXCEPT ![T] = row]
      BY <1>6, <2>1, <2>8, <2>9
    <3> HIDE DEF row
    <3>4. QED
      BY <2>9, <3>2, <3>3
  <2>11. ASSUME NEW k \in DOMAIN chunks, k # j
         PROVE  /\ DirIn(mem', chunks[k]) = DirIn(mem, chunks[k])
                /\ PartsIn(mem', chunks[k]) = PartsIn(mem, chunks[k])
                /\ \A q \in Frames : EntryIn(mem', DirIn(mem', chunks[k]), q)
                                       = EntryIn(mem, DirIn(mem, chunks[k]), q)
                /\ ChunkOk(mem', chunks[k])
    <3>1. ChunkOk(mem, chunks[k]) /\ PartsIn(mem, chunks[k]) \subseteq Frames
      BY <1>1, Sizes DEF ChunksInv, TypeInv
    <3>2. T \notin PartsIn(mem, chunks[k])
      BY <1>1, <2>6, <2>11 DEF ChunksInv
    <3>3. \A f \in PartsIn(mem, chunks[k]) : mem'[f] = mem[f]
      BY <2>10, <3>1, <3>2
    <3>4. QED
      BY <3>1, <3>3, SameChunk
  <2>12. chunks[j] \in Frames /\ d \in Frames
    BY <1>1, <2>5, <2>6, Sizes DEF TypeInv, PartsIn
  <2>13. DirIn(mem', chunks[j]) = d /\ mem'[d] = mem[d]
    BY <2>6, <2>10, <2>12 DEF DirIn, d
  <2>14. \A t : TabIn(mem', d, t) = TabIn(mem, d, t)
    BY <2>13 DEF TabIn
  <2>15. PartsIn(mem', chunks[j]) = PartsIn(mem, chunks[j])
    BY <2>13, <2>14 DEF PartsIn, d
  <2>16. ASSUME NEW q \in Frames
         PROVE  EntryIn(mem', d, q) = IF q = p THEN val ELSE EntryIn(mem, d, q)
    <3> DEFINE t == q \div Entries
               b == q % Entries
    <3>1. t \in Indices /\ b \in Indices
      BY PageSplit
    <3>2. TabIn(mem, d, t) \in Frames
      BY <1>1, <2>5, TypeMemories, WalkChunk, Sizes DEF d
    <3>3. EntryIn(mem', d, q) = mem'[TabIn(mem, d, t)][b] /\ EntryIn(mem, d, q) = mem[TabIn(mem, d, t)][b]
      BY <2>14 DEF EntryIn
    <3> HIDE DEF t, b
    <3>4. CASE q = p
      <4>1. TabIn(mem, d, t) = T /\ b = e
        BY <3>4 DEF T, e, t, b
      <4>2. QED
        BY <2>2, <2>10, <3>3, <3>4, <4>1
    <3>5. CASE q # p
      <4>1. CASE TabIn(mem, d, t) = T
        <5> DEFINE u == p \div Entries
        <5>1. u \in 0 .. Entries - 1 /\ t \in 0 .. Entries - 1
          BY <2>2, <3>1 DEF Indices
        <5>2. TabIn(mem, d, u) = TabIn(mem, d, t)
          BY <4>1 DEF T
        <5>3. Filled(mem, d, Entries, Pool)
          BY <2>5 DEF ChunkOk, d
        <5> HIDE DEF u
        <5>4. u = t
          BY <5>1, <5>2, <5>3 DEF Filled
        <5>5. b # e
          BY <2>1, <3>5, <5>4, SamePage DEF u, t, b, e
        <5>6. QED
          BY <2>10, <3>1, <3>3, <3>5, <4>1, <5>5
      <4>2. CASE TabIn(mem, d, t) # T
        BY <2>10, <3>2, <3>3, <3>5, <4>2
      <4>3. QED
        BY <4>1, <4>2
    <3>6. QED
      BY <3>4, <3>5
  <2>17. ChunkOk(mem', chunks[j])
    <3>1. /\ d \in Pool \ {chunks[j]} /\ Filled(mem, d, Entries, Pool)
          /\ \A t \in Indices : TabIn(mem, d, t) # chunks[j]
          /\ \A q \in Frames : Keeps(q, FrameOf(EntryIn(mem, d, q)))
      BY <2>5 DEF ChunkOk, d
    <3>2. Filled(mem', d, Entries, Pool)
      BY <2>13, <2>14, <3>1 DEF Filled
    <3>3. Keeps(p, FrameOf(val))
      BY <2>1, <2>3 DEF Keeps
    <3>4. \A q \in Frames : Keeps(q, FrameOf(EntryIn(mem', d, q)))
      BY <2>16, <3>1, <3>3
    <3>5. QED
      BY <2>13, <2>14, <3>1, <3>2, <3>4 DEF ChunkOk
  <2>18. SetPage(j, p, val)
    BY <2>11, <2>13, <2>16 DEF SetPage, d
  <2>19. TypeInv'
    <3>1. recent' \subseteq Frames
      BY <1>1, <1>6, <2>1 DEF TypeInv, p
    <3>2. QED
      BY <1>1, <1>2, <1>4, <2>10, <3>1 DEF TypeInv
  <2>20. ChunksInv'
    <3>1. \A k \in DOMAIN chunks : PartsIn(mem', chunks[k]) = PartsIn(mem, chunks[k])
                                   /\ ChunkOk(mem', chunks[k])
      BY <2>11, <2>15, <2>17
    <3>2. QED
      BY <1>1, <1>2, <3>1 DEF ChunksInv
  <2>21. MachineInv'
    <3>1. \A k \in DOMAIN chunks : DirIn(mem', chunks[k]) = DirIn(mem, chunks[k])
      BY <2>18 DEF SetPage
    <3>2. StaleOnlyIfSet'
      <4> SUFFICES ASSUME NEW c \in tlb, c[1] \notin recent'
                   PROVE  c[2] = FrameOf(Walk(cr3, c[1]))'
        BY <1>2 DEF StaleOnlyIfSet
      <4>1. c[1] \in Frames /\ c[1] \notin recent /\ cr3 # Null
            /\ c[2] = FrameOf(Walk(cr3, c[1]))
        BY <1>1, <1>6 DEF MachineInv, TypeInv, StaleOnlyIfSet
      <4>2. PICK k \in DOMAIN chunks : cr3 = DirIn(mem, chunks[k])
        BY <1>1, <4>1 DEF MachineInv
      <4>3. k = j => c[1] # p
        BY <1>6, <4>2 DEF d, p
      <4>4. EntryIn(mem', cr3, c[1]) = EntryIn(mem, cr3, c[1])
        BY <2>18, <3>1, <4>1, <4>2, <4>3 DEF SetPage
      <4>5. ChunkOk(mem, chunks[k]) /\ ChunkOk(mem', chunks[k])
        BY <1>1, <2>11, <2>17 DEF ChunksInv
      <4>6. mem \in Memories /\ mem' \in Memories
        BY <2>9, <2>10 DEF Memories
      <4>7. Walk(cr3, c[1]) = EntryIn(mem, cr3, c[1])
        BY <4>1, <4>2, <4>5, <4>6, WalkNow
      <4>8. Walk(cr3, c[1])' = EntryIn(mem', cr3, c[1])
        BY <1>2, <3>1, <4>1, <4>2, <4>5, <4>6, WalkNext
      <4>9. QED
        BY <4>1, <4>4, <4>7, <4>8 DEF FrameOf
    <3>3. QED
      BY <1>1, <1>2, <3>1, <3>2 DEF MachineInv
  <2>22. QED
    BY <1>3, <2>18, <2>19, <2>20, <2>21 DEF IInv, p
<1>7. QED
  BY <1>2, <1>5, <1>6

LEMMA StepInv == IInv /\ [Next]_vars => IInv'
<1> SUFFICES ASSUME IInv, [Next]_vars PROVE IInv'
  OBVIOUS
<1>1. ASSUME NEW f \in FlagSets, CreateDirectory(f) PROVE IInv'
  BY <1>1, CreateDirectoryInv
<1>2. CASE CreateTable
  BY <1>2, CreateTableInv
<1>3. CASE CreateChunk
  BY <1>3, CreateChunkInv
<1>4. CASE EnablePaging
  BY <1>4, EnableInv
<1>5. ASSUME NEW j \in DOMAIN chunks, Switch(chunks[j]) PROVE IInv'
  BY <1>5, SwitchInv
<1>6. ASSUME NEW j \in DOMAIN chunks, NEW v \in Addresses, NEW val \in Values,
             PagingSet(Directory(chunks[j]), v, val)
      PROVE  IInv'
  BY <1>6, PagingSetInv
<1>7. ASSUME NEW v \in Addresses, CachePage(v \div PageSize) PROVE IInv'
  <2>1. v \div PageSize \in Frames
    BY PagingAssumption, IndexesOf DEF WordMod
  <2>2. QED
    BY <1>7, <2>1, CachePageInv
<1>8. CASE UNCHANGED vars
  <2>1. /\ UNCHANGED <<mem, taken, cr3, pg, tlb>> /\ UNCHANGED <<pc, flags, i, dir, chunks>>
        /\ UNCHANGED <<recent, creates, sets>>
    BY <1>8 DEF vars
  <2>2. TypeInv'
    BY <2>1 DEF IInv, TypeInv
  <2>3. ChunksInv'
    BY <2>1 DEF IInv, ChunksInv
  <2>4. ProgressInv'
    BY <2>1 DEF IInv, ProgressInv, Full, Private
  <2>5. Undisturbed
    BY <2>1 DEF Undisturbed
  <2>6. MachineInv'
    BY <2>1, <2>2, <2>3, <2>5, QuietMachine DEF IInv
  <2>7. QED
    BY <2>2, <2>3, <2>4, <2>6 DEF IInv
<1>9. QED
  BY <1>1, <1>2, <1>3, <1>4, <1>5, <1>6, <1>7, <1>8 DEF Next

-----------------------------------------------------------------------------
(* The invariants.                                                         *)

\* Words, frames and counters stay in their ranges.  (kzalloc, paging_set)
THEOREM TypeCorrect == Spec => []TypeOK
<1>1. IInv => TypeOK
  BY DEF IInv, TypeInv, TypeOK, Indices
<1>2. QED
  BY <1>1, InitInv, StepInv, PTL DEF Spec

\* The processor's copies disagree with the loaded tables only on pages that
\* were set since they were loaded.  (paging_switch, paging_set)
THEOREM CopiesCurrent == Spec => []StaleOnlyIfSet
<1>1. IInv => StaleOnlyIfSet
  BY DEF IInv, MachineInv
<1>2. QED
  BY <1>1, InitInv, StepInv, PTL DEF Spec

\* A chunk has a block, a directory and its tables.
LEMMA PartsCount ==
  ASSUME NEW m, NEW c, ChunkOk(m, c)
  PROVE  Cardinality(PartsIn(m, c)) = Entries + 2
<1> DEFINE d == DirIn(m, c)
           S == {TabIn(m, d, t) : t \in Indices}
           f == [t \in Indices |-> TabIn(m, d, t)]
<1>1. d # c /\ Filled(m, d, Entries, Pool) /\ \A t \in Indices : TabIn(m, d, t) # c
  BY DEF ChunkOk
<1> HIDE DEF d
<1>2. f \in Bijection(Indices, S)
  <2>1. \A t, u \in Indices : f[t] = f[u] => t = u
    BY <1>1 DEF Filled, Indices
  <2>2. f \in [Indices -> S] /\ \A y \in S : \E t \in Indices : f[t] = y
    OBVIOUS
  <2>3. QED
    BY <2>1, <2>2 DEF Bijection, Injection, Surjection, IsInjective
<1>3. IsFiniteSet(Indices) /\ Cardinality(Indices) = Entries
  <2>1. Entries - 1 \in Int /\ 0 \in Int /\ 0 <= Entries - 1 /\ Entries - 1 - 0 + 1 = Entries
    BY Sizes
  <2>2. QED
    BY <2>1, FS_Interval DEF Indices
<1> HIDE DEF S, f
<1>4. IsFiniteSet(S) /\ Cardinality(S) = Entries
  BY <1>2, <1>3, FS_Bijection DEF ExistsBijection
<1>5. d \notin S /\ c \notin S \cup {d}
  BY <1>1 DEF S, Filled, Indices
<1>6. IsFiniteSet(S \cup {d}) /\ Cardinality(S \cup {d}) = Entries + 1
  BY <1>4, <1>5, FS_AddElement
<1>7. Cardinality((S \cup {d}) \cup {c}) = Entries + 1 + 1
  BY <1>5, <1>6, FS_AddElement
<1>8. PartsIn(m, c) = (S \cup {d}) \cup {c}
  BY DEF PartsIn, S, d
<1>9. QED
  BY <1>7, <1>8, Sizes

\* No frame serves two purposes.  (kzalloc for every table)
THEOREM FramesApart == Spec => []TablesApart
<1>1. IInv => TablesApart
  <2> SUFFICES ASSUME IInv, NEW j \in DOMAIN chunks
               PROVE  /\ Cardinality(PartsIn(mem, chunks[j])) = Entries + 2
                      /\ PartsIn(mem, chunks[j]) \subseteq taken
                      /\ \A k \in DOMAIN chunks \ {j} :
                           PartsIn(mem, chunks[j]) \cap PartsIn(mem, chunks[k]) = {}
    BY DEF TablesApart, PartsIn, DirIn, TabIn, Directory, Indices
  <2>1. QED
    BY PartsCount DEF IInv, ChunksInv
<1>2. QED
  BY <1>1, InitInv, StepInv, PTL DEF Spec

-----------------------------------------------------------------------------
(* The refinement.                                                         *)

\* The map of chunk c.
MapIn(m, c) == [p \in Frames |-> EntryIn(m, DirIn(m, c), p)]

Entire == [Frames -> 0 .. WordMod - 1]

LEMMA MapsAre ==
  /\ IInv => Maps = [j \in DOMAIN chunks |-> MapIn(mem, chunks[j])]
  /\ IInv' => Maps' = [j \in DOMAIN chunks' |-> MapIn(mem', chunks'[j])]
<1>1. ASSUME IInv PROVE Maps = [j \in DOMAIN chunks |-> MapIn(mem, chunks[j])]
  <2>1. ASSUME NEW j \in DOMAIN chunks, NEW p \in Frames
        PROVE  Walk(Directory(chunks[j]), p) = EntryIn(mem, DirIn(mem, chunks[j]), p)
    <3>1. ChunkOk(mem, chunks[j]) /\ mem \in Memories
      BY <1>1, TypeMemories DEF IInv, ChunksInv
    <3>2. QED
      BY <3>1, DirectoryIs, WalkNow
  <2>2. QED
    BY <2>1 DEF Maps, MapIn
<1>2. ASSUME IInv' PROVE Maps' = [j \in DOMAIN chunks' |-> MapIn(mem', chunks'[j])]
  <2>1. ASSUME NEW j \in DOMAIN chunks', NEW p \in Frames
        PROVE  Walk(Directory(chunks[j]), p)' = EntryIn(mem', DirIn(mem', chunks'[j]), p)
    <3>1. ChunkOk(mem', chunks'[j]) /\ mem' \in Memories
      BY <1>2 DEF IInv, ChunksInv, TypeInv, Memories
    <3>2. QED
      BY <3>1, DirectoryIs, WalkNext
  <2>2. QED
    BY <2>1 DEF Maps, MapIn
<1>3. QED
  BY <1>1, <1>2

LEMMA MapType ==
  ASSUME NEW m \in Memories, NEW c, ChunkOk(m, c)
  PROVE  MapIn(m, c) \in Entire
BY WalkChunk DEF MapIn, Entire

\* Different chunks have different directories.
LEMMA DirsDiffer ==
  ASSUME ChunksInv, NEW j \in DOMAIN chunks, NEW k \in DOMAIN chunks,
         DirIn(mem, chunks[j]) = DirIn(mem, chunks[k])
  PROVE  j = k
BY DEF ChunksInv, PartsIn

Current == IF Loads = {} THEN 0 ELSE CHOOSE j \in Loads : TRUE

LEMMA LoadsAre ==
  /\ Loads = {j \in DOMAIN chunks : DirIn(mem, chunks[j]) = cr3}
  /\ Loads' = {j \in DOMAIN chunks' : DirIn(mem', chunks'[j]) = cr3'}
BY DEF Loads, Directory, DirIn

LEMMA SameCurrent ==
  ASSUME Loads' = Loads
  PROVE  Current' = Current
BY DEF Current

\* A step that changes no chunk and does not load one.
LEMMA QuietStep ==
  ASSUME IInv, IInv', chunks' = chunks, cr3' = cr3, Undisturbed
  PROVE  Maps' = Maps /\ Current' = Current
<1>1. ChunksInv
  BY DEF IInv
<1>2. \A j \in DOMAIN chunks : DirIn(mem', chunks[j]) = DirIn(mem, chunks[j])
                               /\ MapIn(mem', chunks[j]) = MapIn(mem, chunks[j])
  BY <1>1, QuietChunk DEF MapIn
<1>3. Maps' = Maps
  BY <1>2, MapsAre
<1>4. Loads' = Loads
  BY <1>2, LoadsAre
<1>5. QED
  BY <1>3, <1>4, SameCurrent

IdentityMap(f) == [p \in Frames |-> p * PageSize + f]

LEMMA CreatedStep ==
  ASSUME IInv, IInv', CreateChunk, CreatedChunk, Undisturbed
  PROVE  Maps' = Append(Maps, IdentityMap(flags)) /\ Current' = Current
<1>1. TypeInv /\ ChunksInv /\ TypeInv' /\ ChunksInv'
  BY DEF IInv
<1>2. Granted \in Pool
  <2>1. chunks' = (IF Granted = Null THEN chunks ELSE Append(chunks, Granted))
    BY DEF CreateChunk
  <2>2. chunks' # chunks
    BY <1>1, AppendProperties, LenProperties DEF CreatedChunk, TypeInv
  <2>3. QED
    BY <1>1, <2>1, <2>2, GrantedFacts
<1> DEFINE n == Len(chunks)
<1>3. /\ n \in Nat /\ DOMAIN chunks = 1 .. n /\ DOMAIN chunks' = 1 .. n + 1
      /\ \A j \in 1 .. n : chunks'[j] = chunks[j]
      /\ chunks'[n + 1] = Granted
  <2>1. chunks \in Seq(Pool) /\ chunks' = Append(chunks, Granted)
    BY <1>1 DEF TypeInv, CreatedChunk
  <2>2. QED
    BY <1>1, <1>2, <2>1, AppendFacts, AppendProperties
<1> HIDE DEF n
<1>4. \A j \in 1 .. n : /\ DirIn(mem', chunks[j]) = DirIn(mem, chunks[j])
                        /\ MapIn(mem', chunks[j]) = MapIn(mem, chunks[j])
  BY <1>1, <1>3, QuietChunk DEF MapIn
<1>5. DirIn(mem', Granted) = dir /\ MapIn(mem', Granted) = IdentityMap(flags)
  BY DEF CreatedChunk, MapIn, IdentityMap
<1>6. Maps' = Append(Maps, IdentityMap(flags))
  <2>1. Maps = [j \in 1 .. n |-> MapIn(mem, chunks[j])]
    BY <1>3, MapsAre
  <2>2. Maps' = [j \in 1 .. n + 1 |-> MapIn(mem', chunks'[j])]
    BY <1>3, MapsAre
  <2>3. \A j \in 1 .. n : MapIn(mem, chunks[j]) \in Entire
    BY <1>1, <1>3, TypeMemories, MapType DEF ChunksInv
  <2>4. \A j \in 1 .. n + 1 : MapIn(mem', chunks'[j]) \in Entire
    <3>1. mem' \in Memories
      BY <1>1 DEF TypeInv, Memories
    <3>2. \A j \in 1 .. n + 1 : ChunkOk(mem', chunks'[j])
      BY <1>1, <1>3 DEF ChunksInv
    <3>3. QED
      BY <3>1, <3>2, MapType
  <2>5. Maps \in Seq(Entire) /\ Len(Maps) = n
    <3>1. Maps \in [1 .. n -> Entire]
      BY <2>1, <2>3
    <3>2. Maps \in Seq(Entire)
      BY <1>3, <3>1, SeqDef
    <3>3. QED
      BY <1>3, <3>1, <3>2, LenProperties
  <2>6. Maps' \in Seq(Entire) /\ Len(Maps') = n + 1
    <3>1. Maps' \in [1 .. n + 1 -> Entire] /\ n + 1 \in Nat
      BY <1>3, <2>2, <2>4
    <3>2. Maps' \in Seq(Entire)
      BY <3>1, SeqDef
    <3>3. QED
      BY <3>1, <3>2, LenProperties
  <2>7. \A j \in 1 .. n : Maps'[j] = Maps[j]
    BY <1>3, <1>4, <2>1, <2>2
  <2>8. Maps'[n + 1] = IdentityMap(flags) /\ IdentityMap(flags) \in Entire
    BY <1>3, <1>5, <2>2, <2>4
  <2>9. /\ Append(Maps, IdentityMap(flags)) \in Seq(Entire)
        /\ Len(Append(Maps, IdentityMap(flags))) = n + 1
        /\ \A j \in 1 .. n : Append(Maps, IdentityMap(flags))[j] = Maps[j]
        /\ Append(Maps, IdentityMap(flags))[n + 1] = IdentityMap(flags)
    BY <2>5, <2>8, AppendProperties
  <2>10. \A j \in 1 .. n + 1 : Maps'[j] = Append(Maps, IdentityMap(flags))[j]
    <3>1. \A j \in 1 .. n + 1 : j \in 1 .. n \/ j = n + 1
      BY <1>3
    <3>2. QED
      BY <2>7, <2>8, <2>9, <3>1
  <2>11. QED
    BY <2>6, <2>9, <2>10, SeqEqual
<1>7. Loads' = Loads
  <2>1. dir # cr3
    <3>1. dir \in PartsIn(mem', chunks'[n + 1]) /\ dir \in Pool
      BY <1>1, <1>3, <1>5 DEF PartsIn, ChunksInv, ChunkOk
    <3>2. CASE cr3 = Null
      BY <3>1, <3>2, Sizes DEF Null
    <3>3. CASE cr3 # Null
      <4>1. PICK k \in 1 .. n : cr3 = DirIn(mem, chunks[k])
        BY <1>3, <3>3 DEF IInv, MachineInv
      <4>2. cr3 \in PartsIn(mem', chunks'[k])
        BY <1>3, <1>4, <4>1 DEF PartsIn
      <4>3. k \in DOMAIN chunks' /\ n + 1 \in DOMAIN chunks' \ {k}
        BY <1>3
      <4>4. PartsIn(mem', chunks'[k]) \cap PartsIn(mem', chunks'[n + 1]) = {}
        BY <1>1, <4>3 DEF ChunksInv
      <4>5. QED
        BY <3>1, <4>2, <4>4
    <3>4. QED
      BY <3>2, <3>3
  <2>2. cr3' = cr3
    BY DEF CreateChunk
  <2>3. \A j \in 1 .. n + 1 : j \in 1 .. n \/ j = n + 1
    BY <1>3
  <2>4. \A j \in 1 .. n : j \in 1 .. n + 1
    BY <1>3
  <2>5. QED
    BY <1>3, <1>4, <1>5, <2>1, <2>2, <2>3, <2>4, LoadsAre
<1>8. QED
  BY <1>6, <1>7, SameCurrent

\* Loading a directory.
LEMMA SwitchUses ==
  ASSUME IInv, NEW j \in DOMAIN chunks, Switch(chunks[j])
  PROVE  Maps' = Maps /\ Current' = j
<1>1. IInv' /\ mem' = mem /\ chunks' = chunks /\ cr3' = DirIn(mem, chunks[j])
  BY SwitchInv
<1>2. Maps' = Maps
  BY <1>1, MapsAre
<1>3. Loads' = {j}
  <2>1. \A k \in DOMAIN chunks : DirIn(mem, chunks[k]) = DirIn(mem, chunks[j]) => k = j
    BY DirsDiffer DEF IInv
  <2>2. QED
    BY <1>1, <2>1, LoadsAre
<1>4. QED
  BY <1>2, <1>3 DEF Current

\* Setting a page.
LEMMA SetPageMaps ==
  ASSUME IInv, IInv', chunks' = chunks, cr3' = cr3,
         NEW j \in DOMAIN chunks, NEW p \in Frames, NEW val \in Values, SetPage(j, p, val)
  PROVE  /\ Maps'[j][p] = val /\ Maps' = [Maps EXCEPT ![j][p] = val]
         /\ Current' = Current
<1>1. /\ Maps = [k \in DOMAIN chunks |-> MapIn(mem, chunks[k])]
      /\ Maps' = [k \in DOMAIN chunks |-> MapIn(mem', chunks[k])]
  BY MapsAre
<1>2. \A k \in DOMAIN chunks : k # j => MapIn(mem', chunks[k]) = MapIn(mem, chunks[k])
  BY DEF SetPage, MapIn
<1>3. MapIn(mem', chunks[j]) = [MapIn(mem, chunks[j]) EXCEPT ![p] = val]
  BY DEF SetPage, MapIn
<1>4. MapIn(mem', chunks[j])[p] = val
  BY <1>3 DEF MapIn
<1>5. Maps' = [Maps EXCEPT ![j][p] = val]
  <2>1. \A k \in DOMAIN chunks :
          MapIn(mem', chunks[k]) =
            IF k = j THEN [MapIn(mem, chunks[k]) EXCEPT ![p] = val] ELSE MapIn(mem, chunks[k])
    BY <1>2, <1>3
  <2>2. Maps' = [k \in DOMAIN chunks |->
                   IF k = j THEN [Maps[k] EXCEPT ![p] = val] ELSE Maps[k]]
    BY <1>1, <2>1
  <2>3. QED
    BY <1>1, <2>2
<1>6. Loads' = Loads
  BY LoadsAre DEF SetPage
<1>7. QED
  BY <1>1, <1>4, <1>5, <1>6, SameCurrent

\* Every step of the tables is a step of the address spaces, or none.
LEMMA StepRefines ==
  ASSUME IInv, IInv', [Next]_vars
  PROVE  [Space!Next]_(Space!asVars)
<1> DEFINE Stutter == Maps' = Maps /\ Current' = Current
<1>1. Stutter => UNCHANGED Space!asVars
  BY DEF Space!asVars, Current
<1>2. Undisturbed /\ chunks' = chunks /\ cr3' = cr3 => Stutter
  BY QuietStep
<1>3. mem' = mem => Undisturbed
  BY DEF Undisturbed
<1> HIDE DEF Stutter
<1>4. ASSUME NEW f \in FlagSets, CreateDirectory(f) PROVE Stutter
  BY <1>2, <1>4, CreateDirectoryInv DEF CreateDirectory
<1>5. CASE CreateTable
  <2>1. cr3' = cr3
    BY <1>5 DEF CreateTable
  <2>2. QED
    BY <1>1, <1>2, <1>5, <2>1, CreateTableInv
<1>6. CASE CreateChunk
  <2>1. cr3' = cr3
    BY <1>6 DEF CreateChunk
  <2>2. Undisturbed /\ (chunks' = chunks \/ CreatedChunk)
    BY <1>6, CreateChunkInv
  <2>3. CASE chunks' = chunks
    BY <1>1, <1>2, <2>1, <2>2, <2>3
  <2>4. CASE CreatedChunk
    <3>1. flags \in FlagSets
      BY <2>4 DEF CreatedChunk
    <3>2. Maps' = Append(Maps, IdentityMap(flags)) /\ Current' = Current
      BY <1>6, <2>2, <2>4, CreatedStep
    <3>3. Space!Create(flags)
      BY <3>1, <3>2 DEF Space!Create, IdentityMap, Current
    <3>4. QED
      BY <3>1, <3>3 DEF Space!Next
  <2>5. QED
    BY <2>2, <2>3, <2>4
<1>7. CASE EnablePaging
  BY <1>1, <1>2, <1>3, <1>7, EnableInv
<1>8. DOMAIN Maps = DOMAIN chunks
  BY DEF Maps
<1>9. ASSUME NEW j \in DOMAIN chunks, Switch(chunks[j]) PROVE Space!Next
  <2>1. Maps' = Maps /\ Current' = j
    BY <1>9, SwitchUses
  <2>2. Space!Use(j)
    BY <2>1 DEF Space!Use, Current
  <2>3. QED
    BY <1>8, <2>2 DEF Space!Next
<1>10. ASSUME NEW j \in DOMAIN chunks, NEW v \in Addresses, NEW val \in Values,
              PagingSet(Directory(chunks[j]), v, val)
       PROVE  Stutter \/ Space!Next
  <2>1. /\ chunks' = chunks /\ cr3' = cr3
        /\ mem' = mem \/ SetPage(j, v \div PageSize, val)
    BY <1>10, PagingSetInv
  <2>2. CASE mem' = mem
    BY <1>2, <1>3, <2>1, <2>2
  <2>3. CASE SetPage(j, v \div PageSize, val)
    <3>1. v \div PageSize \in Frames
      BY PagingAssumption, IndexesOf DEF WordMod
    <3>2. /\ Maps'[j][v \div PageSize] = val
          /\ Maps' = [Maps EXCEPT ![j][v \div PageSize] = val]
          /\ Current' = Current
      BY <2>1, <2>3, <3>1, SetPageMaps
    <3>3. Space!MapPage(j, v \div PageSize, val)
      BY <3>2 DEF Space!MapPage, Current
    <3>4. QED
      BY <1>8, <3>1, <3>3 DEF Space!Next
  <2>4. QED
    BY <2>1, <2>2, <2>3
<1>11. ASSUME NEW v \in Addresses, CachePage(v \div PageSize) PROVE Stutter
  <2>1. v \div PageSize \in Frames
    BY PagingAssumption, IndexesOf DEF WordMod
  <2>2. QED
    BY <1>2, <1>3, <1>11, <2>1, CachePageInv
<1>12. CASE UNCHANGED vars
  <2>1. mem' = mem /\ chunks' = chunks /\ cr3' = cr3
    BY <1>12 DEF vars
  <2>2. QED
    BY <1>1, <1>2, <1>3, <2>1
<1>13. QED
  BY <1>1, <1>4, <1>5, <1>6, <1>7, <1>9, <1>10, <1>11, <1>12 DEF Next

LEMMA InitRefines == Init => Space!Init
<1> SUFFICES ASSUME Init PROVE Space!Init
  OBVIOUS
<1>1. DOMAIN chunks = {}
  BY DEF Init
<1>2. Loads = {}
  BY <1>1 DEF Loads
<1>3. Maps = <<>>
  BY <1>1 DEF Maps
<1>4. QED
  BY <1>2, <1>3 DEF Space!Init

\* Page tables that are reached through themselves, and that may run out of
\* memory half made, implement the address spaces that callers rely on.
\* (paging_create_new_4gb_chunk, paging_switch, paging_set)
THEOREM PagingImplementsAddressSpace == Spec => AddressSpaceSpec
<1>1. IInv /\ IInv' /\ [Next]_vars => [Space!Next]_(Space!asVars)
  BY StepRefines
<1>2. QED
  BY <1>1, InitRefines, InitInv, StepInv, PTL DEF AddressSpaceSpec, Space!Spec, Spec

=============================================================================
