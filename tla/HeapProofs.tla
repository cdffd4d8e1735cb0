----------------------------- MODULE HeapProofs -----------------------------
(***************************************************************************)
(* Theorems about the kernel heap, for every table size, block size, heap  *)
(* address, word width and set of request sizes.                           *)
(***************************************************************************)
EXTENDS Heap, TLAPS

-----------------------------------------------------------------------------
(* Sizes and addresses.                                                    *)

\* heap_address_to_block undoes heap_block_to_address.
LEMMA AddressRoundTrip ==
  ASSUME NEW b \in Int
  PROVE  AddressToBlock(BlockToAddress(b)) = b
BY HeapAssumption DEF AddressToBlock, BlockToAddress

\* A block address is an integer and differs from 0, the failure value.
LEMMA AddressType ==
  ASSUME NEW b \in Blocks
  PROVE  /\ BlockToAddress(b) \in Nat
         /\ BlockToAddress(b) # Null
BY HeapAssumption DEF BlockToAddress, Blocks, Null

\* A request is rounded to a natural number of blocks.
LEMMA BlocksForType ==
  ASSUME NEW size \in Sizes
  PROVE  BlocksFor(size) \in Nat
<1>1. size \in Nat
  BY HeapAssumption
<1>2. size % BlockSize \in 0 .. (BlockSize - 1) /\ size % BlockSize <= size
  BY <1>1, HeapAssumption
<1>3. AlignUp(size) \in Nat
  BY <1>1, <1>2, HeapAssumption DEF AlignUp
<1>4. QED
  BY <1>3, HeapAssumption DEF BlocksFor

\* Unless the sum wraps around the word, the blocks granted hold the bytes
\* asked for, so that kzalloc's memset stays inside its own run, and with one
\* block less they would not.
THEOREM BlocksHoldRequest ==
  ASSUME NEW size \in Nat, size + BlockSize <= WordMod
  PROVE  /\ BlocksFor(size) * BlockSize >= size
         /\ (BlocksFor(size) - 1) * BlockSize < size \/ size = 0
<1>1. size % BlockSize \in 0 .. (BlockSize - 1) /\ size % BlockSize <= size
  BY HeapAssumption
<1>2. CASE size % BlockSize = 0
  BY <1>2, HeapAssumption DEF BlocksFor, AlignUp
<1>3. CASE size % BlockSize # 0
  <2> DEFINE up == size - (size % BlockSize) + BlockSize
  <2>1. up \in Nat /\ up < WordMod /\ up >= size /\ up - BlockSize < size
    BY <1>1, <1>3, HeapAssumption
  <2>2. up = (size \div BlockSize + 1) * BlockSize
    BY <1>1, HeapAssumption
  <2>3. AlignUp(size) = up
    BY <2>1, <1>3, HeapAssumption DEF AlignUp
  <2>4. up \div BlockSize = size \div BlockSize + 1
    BY <2>2, HeapAssumption
  <2>5. /\ BlocksFor(size) * BlockSize = up
        /\ (BlocksFor(size) - 1) * BlockSize = up - BlockSize
    BY <2>2, <2>3, <2>4, HeapAssumption DEF BlocksFor
  <2>6. QED
    BY <2>1, <2>5
<1>4. QED
  BY <1>2, <1>3

-----------------------------------------------------------------------------
(* Type correctness, with no condition on the requests.                    *)

TypeInv == TypeOK /\ (pc = "mark" => start # -1)

LEMMA TypeStep == TypeInv /\ [Next]_vars => TypeInv'
<1> SUFFICES ASSUME TypeInv, [Next]_vars
             PROVE  TypeInv'
  OBVIOUS
<1> USE DEF TypeInv, TypeOK
<1>1. ASSUME NEW size \in Sizes, Kmalloc(size)
      PROVE  TypeInv'
  BY <1>1, BlocksForType DEF Kmalloc
<1>2. ASSUME NEW p \in held, Kfree(p)
      PROVE  TypeInv'
  <2>1. PICK b \in Blocks : p.ptr = BlockToAddress(b)
    OBVIOUS
  <2>2. start' = b /\ b \in Nat
    BY <1>2, <2>1, AddressRoundTrip DEF Kfree, Blocks
  <2>3. QED
    BY <1>2, <2>2 DEF Kfree
<1>3. CASE SearchTaken
  BY <1>3 DEF SearchTaken
<1>4. CASE SearchFree
  <2>1. i \in Blocks
    BY <1>4, HeapAssumption DEF SearchFree, Blocks
  <2>2. QED
    BY <1>4, <2>1 DEF SearchFree
<1>5. CASE SearchFails
  BY <1>5 DEF SearchFails, Return
<1>6. CASE SearchSucceeds
  BY <1>6 DEF SearchSucceeds, SearchOver, FirstEntry, Flags, Blocks
<1>7. CASE MarkTaken
  <2>1. entries' \in [Blocks -> SUBSET Flags]
    BY <1>7 DEF MarkTaken
  <2>2. past' \subseteq Nat
    BY <1>7 DEF MarkTaken
  <2>3. entry' \in SUBSET Flags
    BY <1>7 DEF MarkTaken, NextEntry, Flags
  <2>4. QED
    <3>1. /\ held' = held /\ ret' = ret /\ pc' = pc
          /\ n' = n /\ counter' = counter /\ start' = start /\ i' \in Nat
      BY <1>7 DEF MarkTaken
    <3>2. QED
      BY <2>1, <2>2, <2>3, <3>1
<1>8. CASE MallocReturns
  BY <1>8 DEF MallocReturns, Return
<1>9. CASE MarkFree
  <2>1. entries' \in [Blocks -> SUBSET Flags] /\ pc' \in {"free", "idle"}
    BY <1>9 DEF MarkFree, Return
  <2>2. /\ past' = past /\ held' = held /\ ret' = ret
        /\ n' \in Nat /\ counter' \in Nat /\ i' \in Nat
        /\ start' \in Blocks \cup {-1} /\ entry' \in SUBSET Flags
    BY <1>9 DEF MarkFree, Return
  <2>3. QED
    BY <2>1, <2>2
<1>10. CASE MarkFreeOver
  BY <1>10 DEF MarkFreeOver, Return
<1>11. CASE UNCHANGED vars
  BY <1>11 DEF vars
<1>12. QED
  BY <1>1, <1>2, <1>3, <1>4, <1>5, <1>6, <1>7, <1>8, <1>9, <1>10, <1>11
     DEF Next, Call, Step

\* The table keeps Total entries, and every pointer returned or held is the
\* address of a block of the pool (or 0).
THEOREM TypeCorrect == Spec => []TypeOK
<1>1. Init => TypeInv
  BY DEF Init, TypeInv, TypeOK
<1>2. TypeInv => TypeOK
  BY DEF TypeInv
<1>3. QED
  BY <1>1, <1>2, TypeStep, PTL DEF Spec

-----------------------------------------------------------------------------
(* The inductive invariant.  What the steps have to preserve, beside the   *)
(* types:                                                                  *)

Inner ==
  /\ TableMatchesHeld /\ HeldDisjoint /\ HeldNotEmpty
  /\ SearchInv /\ MarkInv /\ FreeInv

\* A held pointer is the address of its first block.
LEMMA HeldPointer ==
  ASSUME TypeOK, NEW p \in held
  PROVE  /\ AddressToBlock(p.ptr) \in Blocks
         /\ p.ptr = BlockToAddress(AddressToBlock(p.ptr))
         /\ p.n \in Nat
<1>1. PICK b \in Blocks : p.ptr = BlockToAddress(b)
  BY DEF TypeOK
<1>2. AddressToBlock(p.ptr) = b
  BY <1>1, AddressRoundTrip DEF Blocks
<1>3. QED
  BY <1>1, <1>2 DEF TypeOK

\* A search starts with nothing seen.
LEMMA KmallocInner ==
  ASSUME IInv, NonEmptyRequests, NEW size \in Sizes, Kmalloc(size)
  PROVE  Inner'
<1> USE DEF Kmalloc
<1>1. n' \in Nat /\ n' >= 1
  BY BlocksForType DEF NonEmptyRequests
<1>2. InHand' = {} /\ InHand = {}
  BY DEF InHand
<1>3. TableMatchesHeld' /\ HeldDisjoint' /\ HeldNotEmpty'
  BY <1>2 DEF IInv, TableMatchesHeld, HeldDisjoint, HeldNotEmpty
<1>4. SearchInv'
  BY <1>1, HeapAssumption DEF SearchInv, NoFitBelow
<1>5. MarkInv' /\ FreeInv'
  BY DEF MarkInv, FreeInv
<1>6. QED
  BY <1>3, <1>4, <1>5 DEF Inner

\* A taken block ends every run of free blocks that reaches it.
LEMMA SearchTakenInner ==
  ASSUME IInv, SearchTaken
  PROVE  Inner'
<1> USE DEF SearchTaken
<1>1. InHand' = {} /\ InHand = {}
  BY DEF InHand
<1>2. TableMatchesHeld' /\ HeldDisjoint' /\ HeldNotEmpty'
  BY <1>1 DEF IInv, TableMatchesHeld, HeldDisjoint, HeldNotEmpty
<1>3. NoFitBelow(i)'
  <2>1. SUFFICES ASSUME NEW s \in 0 .. Total, s + n <= i + 1
                 PROVE  \E b \in Run(s, n) : ~IsFree(entries[b])
    BY DEF NoFitBelow
  <2>2. CASE s + n <= i
    BY <2>2 DEF IInv, SearchInv, NoFitBelow
  <2>3. CASE s + n = i + 1
    BY <2>3 DEF IInv, SearchInv, Run, TypeOK
  <2>4. QED
    BY <2>1, <2>2, <2>3 DEF IInv, TypeOK
<1>4. SearchInv'
  BY <1>3, HeapAssumption DEF IInv, SearchInv, TypeOK
<1>5. MarkInv' /\ FreeInv'
  BY DEF MarkInv, FreeInv
<1>6. QED
  BY <1>2, <1>4, <1>5 DEF Inner

\* A free block extends the run seen so far, or completes it.
LEMMA SearchFreeInner ==
  ASSUME IInv, SearchFree
  PROVE  Inner'
<1> USE DEF SearchFree
<1>1. InHand' = {} /\ InHand = {}
  BY DEF InHand
<1>2. TableMatchesHeld' /\ HeldDisjoint' /\ HeldNotEmpty'
  BY <1>1 DEF IInv, TableMatchesHeld, HeldDisjoint, HeldNotEmpty
<1>3. /\ i \in Nat /\ n \in Nat /\ counter \in Nat /\ i < Total /\ n >= 1
      /\ start \in Blocks \cup {-1} /\ counter < n
  BY DEF IInv, TypeOK, SearchInv
<1>4. i \in Blocks
  BY <1>3, HeapAssumption DEF Blocks
<1>5. /\ start' # -1 /\ start' \in Blocks /\ start' <= i
      /\ counter' = i + 1 - start'
      /\ start' > 0 => ~IsFree(entries[start' - 1])
  BY <1>3, <1>4 DEF IInv, SearchInv, Blocks
<1>6. \A b \in start' .. (start' + counter' - 1) : b < Total /\ IsFree(entries[b])
  <2>1. start' + counter' - 1 = i
    BY <1>3, <1>5 DEF Blocks
  <2>2. SUFFICES ASSUME NEW b \in start' .. i
                 PROVE  b < Total /\ IsFree(entries[b])
    BY <2>1
  <2>3. CASE b = i
    BY <2>3, <1>3
  <2>4. CASE b # i
    <3>1. start # -1 /\ b \in start .. (start + counter - 1)
      BY <2>4, <1>3, <1>5 DEF IInv, SearchInv, Blocks
    <3>2. QED
      BY <3>1 DEF IInv, SearchInv
  <2>5. QED
    BY <2>3, <2>4
<1>7. ASSUME counter + 1 # n
      PROVE  NoFitBelow(i)'
  <2>1. /\ i' = i + 1 /\ n' = n /\ entries' = entries
        /\ counter' = counter + 1 /\ counter' < n
    BY <1>7, <1>3
  <2>2. SUFFICES ASSUME NEW s \in 0 .. Total, s + n <= i + 1
                 PROVE  \E b \in Run(s, n) : ~IsFree(entries[b])
    BY <2>1 DEF NoFitBelow
  <2>3. CASE s + n <= i
    BY <2>3 DEF IInv, SearchInv, NoFitBelow
  <2>4. CASE s + n = i + 1
    <3>1. s < start'
      BY <2>4, <2>1, <1>3, <1>5, HeapAssumption DEF Blocks
    <3>2. start' - 1 \in Run(s, n)
      BY <3>1, <2>4, <1>3, <1>5, HeapAssumption DEF Blocks, Run
    <3>3. ~IsFree(entries[start' - 1])
      BY <3>1, <1>5, HeapAssumption DEF Blocks
    <3>4. QED
      BY <3>2, <3>3
  <2>5. QED
    BY <2>2, <2>3, <2>4, <1>3, HeapAssumption
<1>8. SearchInv'
  <2>1. /\ n' = n /\ entries' = entries /\ counter' = counter + 1
        /\ counter' \in Nat /\ n' >= 1 /\ i' \in {i, i + 1}
    BY <1>3
  <2>2. /\ start' # -1
        /\ \A b \in start' .. (start' + counter' - 1) :
             b < Total /\ IsFree(entries'[b])
    BY <1>5, <1>6, <2>1
  <2>3. i' <= Total
    BY <2>1, <1>3, HeapAssumption
  <2>4. pc' = "found" => counter' = n'
    BY <1>3 DEF IInv, SearchInv
  <2>5. ASSUME pc' = "search"
        PROVE  /\ counter' < n' /\ counter' = i' - start' /\ start' < i'
               /\ start' > 0 => ~IsFree(entries'[start' - 1])
               /\ NoFitBelow(i)'
    <3>1. counter + 1 # n /\ i' = i + 1
      BY <2>5
    <3>2. NoFitBelow(i)'
      BY <3>1, <1>7
    <3>3. QED
      BY <3>1, <3>2, <2>1, <1>3, <1>5 DEF Blocks
  <2>6. QED
    BY <2>1, <2>2, <2>3, <2>4, <2>5 DEF SearchInv
<1>9. MarkInv' /\ FreeInv'
  BY DEF MarkInv, FreeInv, SearchFree
<1>10. QED
  BY <1>2, <1>8, <1>9 DEF Inner

\* The failing search changes nothing but the result.
LEMMA SearchFailsInner ==
  ASSUME IInv, SearchFails
  PROVE  Inner'
<1> USE DEF SearchFails, Return, SearchOver
<1>1. InHand' = {} /\ InHand = {}
  BY DEF InHand
<1>2. TableMatchesHeld' /\ HeldDisjoint' /\ HeldNotEmpty'
  BY <1>1 DEF IInv, TableMatchesHeld, HeldDisjoint, HeldNotEmpty
<1>3. SearchInv' /\ MarkInv' /\ FreeInv'
  BY DEF SearchInv, MarkInv, FreeInv
<1>4. QED
  BY <1>2, <1>3 DEF Inner

\* A search that ends with a start block has seen free blocks only from
\* there to the end of its run, or to the end of the table.
LEMMA SearchFoundFree ==
  ASSUME IInv, SearchOver, start # -1
  PROVE  /\ start \in Blocks
         /\ n >= 1
         /\ \A b \in Blocks : b \in Run(start, n) => IsFree(entries[b])
         /\ start + n > Total => IsFree(entries[Total - 1])
<1>1. start \in Blocks /\ n \in Nat /\ i \in Nat /\ counter \in Nat /\ n >= 1
  BY DEF IInv, TypeOK, SearchInv, SearchOver
<1>2. /\ \A b \in start .. (start + counter - 1) : b < Total /\ IsFree(entries[b])
      /\ counter = n \/ counter = Total - start
  BY DEF IInv, SearchInv, SearchOver
<1>3. ASSUME NEW b \in Blocks, b \in Run(start, n)
      PROVE  IsFree(entries[b])
  BY <1>1, <1>2, <1>3, HeapAssumption DEF Run, Blocks
<1>4. ASSUME start + n > Total
      PROVE  IsFree(entries[Total - 1])
  <2>1. CASE counter = n
    <3>1. Total \in start .. (start + counter - 1)
      BY <2>1, <1>1, <1>4, HeapAssumption DEF Blocks
    <3>2. QED
      BY <3>1, <1>2, HeapAssumption
  <2>2. CASE counter = Total - start
    <3>1. Total - 1 \in start .. (start + counter - 1)
      BY <2>2, <1>1, HeapAssumption DEF Blocks
    <3>2. QED
      BY <3>1, <1>2
  <2>3. QED
    BY <2>1, <2>2, <1>2
<1>5. QED
  BY <1>1, <1>3, <1>4

\* The run that is about to be marked is nobody's: its blocks in the table
\* are free, and a held run that reaches past the table holds the last block.
LEMMA SearchSucceedsInner ==
  ASSUME IInv, SearchSucceeds
  PROVE  Inner'
<1> USE DEF SearchSucceeds
<1>1. SearchOver /\ start # -1
  OBVIOUS
<1>2. start \in Blocks /\ n \in Nat /\ n >= 1
  BY <1>1, SearchFoundFree DEF IInv, TypeOK
<1>3. InHand = {} /\ InHand' = {}
  BY <1>2, HeapAssumption DEF InHand, SearchOver, Blocks
<1>4. TableMatchesHeld' /\ HeldNotEmpty'
  BY <1>3 DEF IInv, TableMatchesHeld, HeldNotEmpty
<1>5. \A p \in held : Extent(p) \cap Run(start, n) = {}
  <2>1. SUFFICES ASSUME NEW p \in held, NEW b \in Extent(p), b \in Run(start, n)
                 PROVE  FALSE
    OBVIOUS
  <2>2. AddressToBlock(p.ptr) \in Blocks /\ p.n \in Nat
    BY HeldPointer DEF IInv
  <2>3. \A c \in Blocks : c \in Extent(p) => ~IsFree(entries[c])
    BY DEF IInv, TableMatchesHeld, EntryIn, IsFree
  <2>4. CASE b < Total
    <3>1. b \in Blocks
      BY <2>1, <2>4, <1>2, HeapAssumption DEF Run, Blocks
    <3>2. QED
      BY <3>1, <2>1, <2>3, <1>1, SearchFoundFree
  <2>5. CASE b >= Total
    <3>1. Total - 1 \in Blocks /\ Total - 1 \in Extent(p) /\ start + n > Total
      BY <2>1, <2>2, <2>5, <1>2, HeapAssumption DEF Extent, Run, Blocks
    <3>2. QED
      BY <3>1, <2>3, <1>1, SearchFoundFree
  <2>6. QED
    BY <2>1, <2>2, <2>4, <2>5, <1>2, HeapAssumption DEF Run, Blocks
<1>6. HeldDisjoint'
  <2>1. \A p, q \in held : p # q => Extent(p) \cap Extent(q) = {}
    BY DEF IInv, HeldDisjoint
  <2>2. QED
    BY <1>5, <2>1 DEF HeldDisjoint
<1>7. FirstEntry(n) = EntryIn(start, n, start)
  BY <1>2 DEF FirstEntry, EntryIn, Blocks
<1>8. MarkInv'
  BY <1>2, <1>7 DEF MarkInv, Blocks
<1>9. SearchInv' /\ FreeInv'
  BY DEF SearchInv, FreeInv
<1>10. QED
  BY <1>4, <1>6, <1>8, <1>9 DEF Inner

\* One more block of the new run is marked, with the entry prepared for it.
LEMMA MarkTakenInner ==
  ASSUME IInv, MarkTaken
  PROVE  Inner'
<1>1. /\ pc = "mark" /\ pc' = "mark" /\ i <= start + n - 1 /\ i' = i + 1
      /\ held' = held /\ n' = n /\ start' = start
      /\ entry' = NextEntry(i, start + n - 1)
      /\ i < Total => entries' = [entries EXCEPT ![i] = entry]
      /\ i >= Total => entries' = entries
  BY HeapAssumption DEF MarkTaken, EndBlock, IInv, TypeOK
<1>2. /\ start \in Blocks /\ n \in Nat /\ i \in Nat /\ start <= i
      /\ entry = EntryIn(start, n, i)
      /\ entries \in [Blocks -> SUBSET Flags]
  BY <1>1 DEF IInv, TypeOK, MarkInv, Blocks
<1>3. InHand = start .. (i - 1) /\ InHand' = start .. i
  BY <1>1, <1>2 DEF InHand, Blocks
<1>4. \A b \in Blocks : entries'[b] = IF b = i THEN entry ELSE entries[b]
  BY <1>1, <1>2, HeapAssumption DEF Blocks
<1>5. \A p \in held : Extent(p) \cap Run(start, n) = {}
  BY <1>1 DEF IInv, HeldDisjoint
<1>6. i \in Run(start, n)
  BY <1>1, <1>2 DEF Run, Blocks
<1>7. TableMatchesHeld'
  <2>1. SUFFICES ASSUME NEW b \in Blocks
                 PROVE
        /\ \A p \in held : b \in Extent(p) =>
             entries'[b] = EntryIn(AddressToBlock(p.ptr), p.n, b)
        /\ b \in start .. i => entries'[b] = EntryIn(start, n, b)
        /\ b \notin start .. i /\ (\A p \in held : b \notin Extent(p))
             => entries'[b] = {}
    BY <1>1, <1>3 DEF TableMatchesHeld
  <2>2. /\ \A p \in held : b \in Extent(p) =>
             entries[b] = EntryIn(AddressToBlock(p.ptr), p.n, b)
        /\ b \in start .. (i - 1) => entries[b] = EntryIn(start, n, b)
        /\ b \notin start .. (i - 1) /\ (\A p \in held : b \notin Extent(p))
             => entries[b] = {}
    BY <1>3 DEF IInv, TableMatchesHeld
  <2>3. CASE b = i
    <3>1. \A p \in held : b \notin Extent(p)
      BY <2>3, <1>5, <1>6
    <3>2. entries'[b] = EntryIn(start, n, b)
      BY <2>3, <1>2, <1>4
    <3>3. b \in start .. i
      BY <2>3, <1>2 DEF Blocks
    <3>4. QED
      BY <3>1, <3>2, <3>3
  <2>4. CASE b # i
    <3>1. entries'[b] = entries[b]
      BY <2>4, <1>4
    <3>2. b \in start .. i <=> b \in start .. (i - 1)
      BY <2>4, <1>2 DEF Blocks
    <3>3. QED
      BY <2>2, <3>1, <3>2
  <2>5. QED
    BY <2>3, <2>4
<1>8. HeldDisjoint' /\ HeldNotEmpty'
  BY <1>1 DEF IInv, HeldDisjoint, HeldNotEmpty
<1>9. MarkInv'
  <2>1. n >= 1
    BY <1>1 DEF IInv, MarkInv
  <2>2. i + 1 < start + n => NextEntry(i, start + n - 1) = EntryIn(start, n, i + 1)
    BY <1>2 DEF NextEntry, EntryIn, Blocks
  <2>3. QED
    BY <1>1, <1>2, <2>1, <2>2 DEF MarkInv, Blocks
<1>10. SearchInv' /\ FreeInv'
  BY <1>1 DEF SearchInv, FreeInv
<1>11. QED
  BY <1>7, <1>8, <1>9, <1>10 DEF Inner

\* The marked run becomes the caller's.
LEMMA MallocReturnsInner ==
  ASSUME IInv, MallocReturns
  PROVE  Inner'
<1> DEFINE new == [ptr |-> BlockToAddress(start), n |-> n]
<1>1. /\ pc = "mark" /\ pc' = "idle" /\ i > start + n - 1
      /\ held' = held \cup {new} /\ entries' = entries
  BY DEF MallocReturns, Return, EndBlock
<1>2. start \in Blocks /\ n \in Nat /\ n >= 1 /\ i \in Nat /\ i = start + n
  BY <1>1 DEF IInv, TypeOK, MarkInv, Blocks
<1>3. AddressToBlock(new.ptr) = start /\ Extent(new) = Run(start, n)
  BY <1>2, AddressRoundTrip DEF Extent, Blocks
<1>4. InHand = Run(start, n) /\ InHand' = {}
  BY <1>1, <1>2 DEF InHand, Run, Blocks
<1>5. TableMatchesHeld'
  <2>1. SUFFICES ASSUME NEW b \in Blocks
                 PROVE
        /\ \A p \in held \cup {new} : b \in Extent(p) =>
             entries[b] = EntryIn(AddressToBlock(p.ptr), p.n, b)
        /\ (\A p \in held \cup {new} : b \notin Extent(p)) => entries[b] = {}
    BY <1>1, <1>4 DEF TableMatchesHeld
  <2>2. /\ \A p \in held : b \in Extent(p) =>
             entries[b] = EntryIn(AddressToBlock(p.ptr), p.n, b)
        /\ b \in Run(start, n) => entries[b] = EntryIn(start, n, b)
        /\ b \notin Run(start, n) /\ (\A p \in held : b \notin Extent(p))
             => entries[b] = {}
    BY <1>4 DEF IInv, TableMatchesHeld
  <2>3. b \in Extent(new) => entries[b] = EntryIn(AddressToBlock(new.ptr), new.n, b)
    BY <2>2, <1>3
  <2>4. QED
    BY <2>2, <2>3, <1>3
<1>6. HeldDisjoint'
  <2>1. /\ \A p, q \in held : p # q => Extent(p) \cap Extent(q) = {}
        /\ \A p \in held : Extent(p) \cap Extent(new) = {}
    BY <1>1, <1>3 DEF IInv, HeldDisjoint
  <2>2. \A p, q \in held \cup {new} : p # q => Extent(p) \cap Extent(q) = {}
    BY <2>1
  <2>3. QED
    BY <1>1, <2>2 DEF HeldDisjoint
<1>7. HeldNotEmpty'
  BY <1>1, <1>2 DEF IInv, HeldNotEmpty
<1>8. SearchInv' /\ MarkInv' /\ FreeInv'
  BY <1>1 DEF SearchInv, MarkInv, FreeInv
<1>9. QED
  BY <1>5, <1>6, <1>7, <1>8 DEF Inner

\* The run that is given back is in hand as a whole.
LEMMA KfreeInner ==
  ASSUME IInv, NEW p \in held, Kfree(p)
  PROVE  Inner'
<1>1. /\ pc = "idle" /\ pc' = "free" /\ start' = AddressToBlock(p.ptr)
      /\ i' = start' /\ n' = p.n /\ held' = held \ {p} /\ entries' = entries
  BY DEF Kfree
<1>2. start' \in Blocks /\ p.n \in Nat /\ p.n >= 1
  BY <1>1, HeldPointer DEF IInv, HeldNotEmpty
<1>3. InHand = {} /\ InHand' = Extent(p) /\ Run(start', n') = Extent(p)
  BY <1>1 DEF InHand, Extent, Run
<1>4. TableMatchesHeld'
  <2>1. SUFFICES ASSUME NEW b \in Blocks
                 PROVE
        /\ \A q \in held \ {p} : b \in Extent(q) =>
             entries[b] = EntryIn(AddressToBlock(q.ptr), q.n, b)
        /\ b \in Extent(p) => entries[b] = EntryIn(AddressToBlock(p.ptr), p.n, b)
        /\ b \notin Extent(p) /\ (\A q \in held \ {p} : b \notin Extent(q))
             => entries[b] = {}
    BY <1>1, <1>3 DEF TableMatchesHeld
  <2>2. /\ \A q \in held : b \in Extent(q) =>
             entries[b] = EntryIn(AddressToBlock(q.ptr), q.n, b)
        /\ (\A q \in held : b \notin Extent(q)) => entries[b] = {}
    BY <1>3 DEF IInv, TableMatchesHeld
  <2>3. QED
    BY <2>2
<1>5. HeldDisjoint'
  <2>1. \A q, r \in held : q # r => Extent(q) \cap Extent(r) = {}
    BY DEF IInv, HeldDisjoint
  <2>2. \A q \in held \ {p} : Extent(q) \cap Run(start, n)' = {}
    BY <2>1, <1>3 DEF Run
  <2>3. QED
    BY <2>1, <2>2, <1>1 DEF HeldDisjoint
<1>6. HeldNotEmpty'
  BY <1>1 DEF IInv, HeldNotEmpty
<1>7. FreeInv'
  BY <1>1, <1>2, HeapAssumption DEF FreeInv, Blocks
<1>8. SearchInv' /\ MarkInv'
  BY <1>1 DEF SearchInv, MarkInv
<1>9. QED
  BY <1>4, <1>5, <1>6, <1>7, <1>8 DEF Inner

\* One block is freed; the chain goes on exactly if the run does.
LEMMA MarkFreeInner ==
  ASSUME IInv, MarkFree
  PROVE  Inner'
<1>1. /\ pc = "free" /\ i < Total /\ entries' = [entries EXCEPT ![i] = {}]
      /\ held' = held
      /\ "NEXT" \in entries[i] =>
           pc' = "free" /\ i' = i + 1 /\ n' = n /\ start' = start
      /\ "NEXT" \notin entries[i] => pc' = "idle"
  BY DEF MarkFree, Return
<1>2. /\ start \in Blocks /\ n \in Nat /\ i \in Blocks
      /\ start <= i /\ i < start + n
      /\ entries \in [Blocks -> SUBSET Flags]
  BY <1>1, HeapAssumption DEF IInv, TypeOK, FreeInv, Blocks
<1>3. InHand = i .. (start + n - 1)
  BY <1>1 DEF InHand
<1>4. entries[i] = EntryIn(start, n, i)
  BY <1>2, <1>3 DEF IInv, TableMatchesHeld, Blocks
<1>5. "NEXT" \in entries[i] <=> i < start + n - 1
  BY <1>4 DEF EntryIn
<1>6. InHand' = (i + 1) .. (start + n - 1)
  BY <1>1, <1>2, <1>5 DEF InHand, Blocks
<1>7. \A b \in Blocks : entries'[b] = IF b = i THEN {} ELSE entries[b]
  BY <1>1, <1>2
<1>8. \A p \in held : Extent(p) \cap Run(start, n) = {}
  BY <1>1 DEF IInv, HeldDisjoint
<1>9. i \in Run(start, n)
  BY <1>2 DEF Run, Blocks
<1>10. TableMatchesHeld'
  <2>1. SUFFICES ASSUME NEW b \in Blocks
                 PROVE
        /\ \A p \in held : b \in Extent(p) =>
             entries'[b] = EntryIn(AddressToBlock(p.ptr), p.n, b)
        /\ b \in InHand' => entries'[b] = EntryIn(start', n', b)
        /\ b \notin InHand' /\ (\A p \in held : b \notin Extent(p))
             => entries'[b] = {}
    BY <1>1 DEF TableMatchesHeld
  <2>2. /\ \A p \in held : b \in Extent(p) =>
             entries[b] = EntryIn(AddressToBlock(p.ptr), p.n, b)
        /\ b \in i .. (start + n - 1) => entries[b] = EntryIn(start, n, b)
        /\ b \notin i .. (start + n - 1) /\ (\A p \in held : b \notin Extent(p))
             => entries[b] = {}
    BY <1>3 DEF IInv, TableMatchesHeld
  <2>3. CASE b = i
    <3>1. /\ \A p \in held : b \notin Extent(p)
          /\ b \notin InHand' /\ entries'[b] = {}
      BY <2>3, <1>2, <1>6, <1>7, <1>8, <1>9 DEF Blocks
    <3>2. QED
      BY <3>1
  <2>4. CASE b # i
    <3>1. entries'[b] = entries[b]
      BY <2>4, <1>7
    <3>2. b \in InHand' <=> b \in i .. (start + n - 1)
      BY <2>4, <1>2, <1>6 DEF Blocks
    <3>3. b \in InHand' => start' = start /\ n' = n
      BY <1>1, <1>2, <1>5, <1>6 DEF Blocks
    <3>4. QED
      BY <2>2, <3>1, <3>2, <3>3
  <2>5. QED
    BY <2>3, <2>4
<1>11. HeldDisjoint' /\ HeldNotEmpty'
  <2>1. pc' \in {"mark", "free"} => Run(start, n)' = Run(start, n)
    BY <1>1
  <2>2. QED
    BY <1>1, <2>1 DEF IInv, HeldDisjoint, HeldNotEmpty
<1>12. FreeInv'
  BY <1>1, <1>2, <1>5, HeapAssumption DEF FreeInv, Blocks
<1>13. SearchInv' /\ MarkInv'
  BY <1>1 DEF SearchInv, MarkInv
<1>14. QED
  BY <1>10, <1>11, <1>12, <1>13 DEF Inner

\* The free of a run that reaches past the table stops at its end.
LEMMA MarkFreeOverInner ==
  ASSUME IInv, MarkFreeOver
  PROVE  Inner'
<1>1. /\ pc = "free" /\ i = Total /\ pc' = "idle"
      /\ held' = held /\ entries' = entries
  BY DEF MarkFreeOver, Return
<1>2. InHand \cap Blocks = {} /\ InHand' = {}
  BY <1>1, HeapAssumption DEF InHand, Blocks
<1>3. TableMatchesHeld'
  BY <1>1, <1>2 DEF IInv, TableMatchesHeld
<1>4. HeldDisjoint' /\ HeldNotEmpty' /\ SearchInv' /\ MarkInv' /\ FreeInv'
  BY <1>1 DEF IInv, HeldDisjoint, HeldNotEmpty, SearchInv, MarkInv, FreeInv
<1>5. QED
  BY <1>3, <1>4 DEF Inner

-----------------------------------------------------------------------------
(* The theorems.                                                           *)

LEMMA InductiveStep ==
  ASSUME NonEmptyRequests, IInv, [Next]_vars
  PROVE  IInv'
<1>1. TypeOK'
  <2>1. TypeInv
    BY DEF IInv, TypeInv, MarkInv
  <2>2. QED
    BY <2>1, TypeStep DEF TypeInv
<1>2. Inner'
  <2>1. CASE UNCHANGED vars
    <3>1. Inner
      BY DEF IInv, Inner
    <3>2. QED
      BY <2>1, <3>1 DEF vars, Inner, TableMatchesHeld, HeldDisjoint, InHand,
         HeldNotEmpty, SearchInv, NoFitBelow, MarkInv, FreeInv
  <2>2. CASE Call
    BY <2>2, KmallocInner, KfreeInner DEF Call
  <2>3. CASE Step
    BY <2>3, SearchTakenInner, SearchFreeInner, SearchFailsInner,
       SearchSucceedsInner, MarkTakenInner, MallocReturnsInner,
       MarkFreeInner, MarkFreeOverInner DEF Step
  <2>4. QED
    BY <2>1, <2>2, <2>3 DEF Next
<1>3. QED
  BY <1>1, <1>2 DEF Inner, IInv

LEMMA InductiveInit == Init => IInv
<1> SUFFICES ASSUME Init
             PROVE  IInv
  OBVIOUS
<1>1. TypeOK /\ HeldDisjoint /\ HeldNotEmpty /\ SearchInv /\ MarkInv /\ FreeInv
  BY DEF Init, TypeOK, HeldDisjoint, HeldNotEmpty, SearchInv, MarkInv, FreeInv
<1>2. TableMatchesHeld
  BY DEF Init, TableMatchesHeld, InHand
<1>3. QED
  BY <1>1, <1>2 DEF IInv

\* The table, the disjointness and the loop invariants hold for every table
\* size and every set of requests of at least one byte.
THEOREM HeapInvariant ==
  ASSUME NonEmptyRequests
  PROVE  Spec => []IInv
<1>1. Init => IInv
  BY InductiveInit
<1>2. IInv /\ [Next]_vars => IInv'
  BY InductiveStep
<1>3. QED
  BY <1>1, <1>2, PTL DEF Spec

\* The table says of every block exactly what the held pointers say of it.
THEOREM TableCorrect ==
  ASSUME NonEmptyRequests
  PROVE  Spec => []TableMatchesHeld
<1>1. IInv => TableMatchesHeld
  BY DEF IInv
<1>2. QED
  BY <1>1, HeapInvariant, PTL

\* No two held runs share a block, even past the end of the pool.
THEOREM NoSharedBlock ==
  ASSUME NonEmptyRequests
  PROVE  Spec => []HeldDisjoint
<1>1. IInv => HeldDisjoint
  BY DEF IInv
<1>2. QED
  BY <1>1, HeapInvariant, PTL

\* kmalloc fails only when every run of the size asked for meets a held one.
THEOREM FailureMeansFull ==
  ASSUME NonEmptyRequests
  PROVE  Spec => FailsOnlyWhenFull
<1> DEFINE Full == \A s \in Blocks : Run(s, n) \subseteq Blocks =>
                     \E p \in held : Run(s, n) \cap Extent(p) # {}
<1>1. IInv /\ SearchFails => Full
  <2> SUFFICES ASSUME IInv, SearchFails, NEW s \in Blocks, Run(s, n) \subseteq Blocks
               PROVE  \E p \in held : Run(s, n) \cap Extent(p) # {}
    OBVIOUS
  <2>1. pc = "search" /\ i = Total /\ n \in Nat /\ n >= 1
    BY DEF SearchFails, SearchOver, IInv, SearchInv, TypeOK
  <2>2. s + n <= Total
    <3>1. s + n - 1 \in Run(s, n)
      BY <2>1, HeapAssumption DEF Run, Blocks
    <3>2. QED
      BY <3>1, <2>1, HeapAssumption DEF Blocks
  <2>3. PICK b \in Run(s, n) : ~IsFree(entries[b])
    BY <2>1, <2>2, HeapAssumption DEF IInv, SearchInv, NoFitBelow, Blocks
  <2>4. b \in Blocks /\ b \notin InHand
    BY <2>1 DEF InHand
  <2>5. PICK p \in held : b \in Extent(p)
    BY <2>3, <2>4 DEF IInv, TableMatchesHeld, IsFree
  <2>6. QED
    BY <2>3, <2>5
<1>2. IInv /\ [Next]_vars => [SearchFails => Full]_vars
  BY <1>1
<1>3. QED
  BY <1>2, HeapInvariant, PTL DEF FailsOnlyWhenFull, Spec

\* No step rewrites the table entry of a run that stays held.
THEOREM EntriesStable ==
  ASSUME NonEmptyRequests
  PROVE  Spec => HeldEntriesStable
<1> DEFINE Stable == \A p \in held \cap held' : \A b \in Extent(p) \cap Blocks :
                       entries'[b] = entries[b]
<1>1. IInv /\ IInv' /\ Next => Stable
  <2> SUFFICES ASSUME IInv, IInv', Next, NEW p \in held, p \in held',
                      NEW b \in Blocks, b \in Extent(p)
               PROVE  entries'[b] = entries[b]
    OBVIOUS
  <2>1. entries[b] = EntryIn(AddressToBlock(p.ptr), p.n, b)
    BY DEF IInv, TableMatchesHeld
  <2>2. Extent(p)' = Extent(p)
    BY DEF Extent, Run, AddressToBlock
  <2>3. entries'[b] = EntryIn(AddressToBlock(p.ptr), p.n, b)
    BY <2>2 DEF IInv, TableMatchesHeld, EntryIn, AddressToBlock
  <2>4. QED
    BY <2>1, <2>3
<1>2. IInv /\ IInv' /\ [Next]_vars => [Stable]_vars
  BY <1>1
<1>3. QED
  BY <1>2, HeapInvariant, PTL DEF HeldEntriesStable, Spec

-----------------------------------------------------------------------------
(* One-block requests: the pool is never overrun, and the heap is the      *)
(* allocator that its callers rely on.                                     *)

LEMMA OneIsNonEmpty == OneBlockRequests => NonEmptyRequests
BY DEF OneBlockRequests, NonEmptyRequests

\* Every request, held run and search is of one block; a call in progress
\* was made with some size.
OneBlock ==
  /\ past = {}
  /\ \A p \in held : p.n = 1
  /\ pc \in {"search", "found", "mark", "free"} => n = 1
  /\ pc = "search" => start = -1
  /\ pc \in {"search", "found", "mark"} => Sizes # {}

LEMMA OneBlockStep ==
  ASSUME OneBlockRequests, IInv, OneBlock, [Next]_vars
  PROVE  OneBlock'
<1>1. ASSUME NEW size \in Sizes, Kmalloc(size)
      PROVE  OneBlock'
  BY <1>1 DEF Kmalloc, OneBlock, OneBlockRequests
<1>2. ASSUME NEW p \in held, Kfree(p)
      PROVE  OneBlock'
  BY <1>2 DEF Kfree, OneBlock
<1>3. CASE SearchTaken
  BY <1>3 DEF SearchTaken, OneBlock
<1>4. CASE SearchFree
  <2>1. counter + 1 = n
    BY <1>4 DEF SearchFree, OneBlock, IInv, SearchInv
  <2>2. QED
    BY <1>4, <2>1 DEF SearchFree, OneBlock
<1>5. CASE SearchFails
  BY <1>5 DEF SearchFails, Return, OneBlock
<1>6. CASE SearchSucceeds
  BY <1>6 DEF SearchSucceeds, SearchOver, OneBlock
<1>7. CASE MarkTaken
  <2>1. i < Total
    BY <1>7, HeapAssumption DEF MarkTaken, EndBlock, OneBlock, IInv, MarkInv, TypeOK, Blocks
  <2>2. QED
    BY <1>7, <2>1 DEF MarkTaken, OneBlock
<1>8. CASE MallocReturns
  BY <1>8 DEF MallocReturns, Return, OneBlock
<1>9. CASE MarkFree
  BY <1>9 DEF MarkFree, Return, OneBlock
<1>10. CASE MarkFreeOver
  BY <1>10 DEF MarkFreeOver, Return, OneBlock
<1>11. CASE UNCHANGED vars
  BY <1>11 DEF vars, OneBlock
<1>12. QED
  BY <1>1, <1>2, <1>3, <1>4, <1>5, <1>6, <1>7, <1>8, <1>9, <1>10, <1>11
     DEF Next, Call, Step

LEMMA OneBlockInvariant ==
  ASSUME OneBlockRequests
  PROVE  Spec => [](IInv /\ OneBlock)
<1>1. Init => IInv /\ OneBlock
  BY InductiveInit DEF Init, OneBlock
<1>2. IInv /\ OneBlock /\ [Next]_vars => (IInv /\ OneBlock)'
  BY InductiveStep, OneBlockStep, OneIsNonEmpty
<1>3. QED
  BY <1>1, <1>2, PTL DEF Spec

\* With one-block requests no table write leaves the table and no run that
\* is handed out leaves the pool.
THEOREM StaysWithinHeap ==
  ASSUME OneBlockRequests
  PROVE  Spec => []WithinHeap
<1>1. IInv /\ OneBlock => WithinHeap
  <2> SUFFICES ASSUME IInv, OneBlock, NEW p \in held
               PROVE  Extent(p) \subseteq Blocks
    BY DEF OneBlock, WithinHeap
  <2>1. AddressToBlock(p.ptr) \in Blocks /\ p.n = 1
    BY HeldPointer DEF IInv, OneBlock
  <2>2. QED
    BY <2>1 DEF Extent, Run, Blocks
<1>2. QED
  BY <1>1, OneBlockInvariant, PTL

\* The refinement mapping.
Owned == {[start |-> AddressToBlock(p.ptr), n |-> p.n] : p \in held}
Answer == IF ret = Null THEN -1 ELSE AddressToBlock(ret)
Lengths == {BlocksFor(size) : size \in Sizes}

LEMMA OneIsALength ==
  ASSUME OneBlockRequests, Sizes # {}
  PROVE  1 \in Lengths
BY DEF OneBlockRequests, Lengths

\* -ENOMEM is a refusal: every block is held.
LEMMA SearchFailsRefuses ==
  ASSUME OneBlockRequests, IInv, OneBlock, SearchFails
  PROVE  Alloc!Next
<1>1. pc = "search" /\ i = Total /\ n = 1 /\ held' = held /\ ret' = Null
  BY DEF SearchFails, SearchOver, IInv, SearchInv, OneBlock
<1>2. ASSUME NEW s \in Blocks
      PROVE  ~Alloc!Fits(s, 1)
  <2>1. \E b \in Run(s, 1) : ~IsFree(entries[b])
    BY <1>1, HeapAssumption DEF IInv, SearchInv, NoFitBelow, Blocks
  <2>2. ~IsFree(entries[s]) /\ s \notin InHand
    BY <1>1, <2>1 DEF Run, Blocks, InHand
  <2>3. PICK p \in held : s \in Extent(p)
    BY <2>2 DEF IInv, TableMatchesHeld, IsFree
  <2>4. s \in Alloc!Run(AddressToBlock(p.ptr), p.n) /\ s \in Alloc!Run(s, 1)
    BY <2>3 DEF Extent, Run, Alloc!Run, Blocks
  <2>5. [start |-> AddressToBlock(p.ptr), n |-> p.n] \in Owned
    BY DEF Owned
  <2>6. QED
    BY <2>4, <2>5 DEF Alloc!Fits, Owned
<1>3. Answer' = -1 /\ Owned' = Owned
  BY <1>1 DEF Answer, Owned, AddressToBlock
<1>4. Alloc!Refuse(1)
  BY <1>2, <1>3 DEF Alloc!Refuse, Owned, Answer
<1>5. 1 \in Lengths
  BY <1>1, OneIsALength DEF OneBlock
<1>6. QED
  BY <1>4, <1>5 DEF Alloc!Next, Lengths

\* The marked block was nobody's: its address is a grant.
LEMMA MallocReturnsGrants ==
  ASSUME OneBlockRequests, IInv, OneBlock, MallocReturns
  PROVE  Alloc!Next
<1>1. /\ pc = "mark" /\ n = 1 /\ start \in Blocks
      /\ ret' = BlockToAddress(start)
      /\ held' = held \cup {[ptr |-> BlockToAddress(start), n |-> 1]}
  BY DEF MallocReturns, OneBlock, IInv, MarkInv, TypeOK
<1>2. AddressToBlock(BlockToAddress(start)) = start /\ ret' # Null
  BY <1>1, AddressRoundTrip, AddressType DEF Blocks
<1>3. Answer' = start
  BY <1>1, <1>2 DEF Answer, AddressToBlock, Null
<1>4. Owned' = Owned \cup {[start |-> start, n |-> 1]}
  <2> DEFINE new == [ptr |-> BlockToAddress(start), n |-> 1]
  <2> DEFINE run(q) == [start |-> AddressToBlock(q.ptr), n |-> q.n]
  <2>1. Owned = {run(q) : q \in held} /\ Owned' = {run(q) : q \in held \cup {new}}
    BY <1>1 DEF Owned, AddressToBlock
  <2>2. run(new) = [start |-> start, n |-> 1]
    BY <1>2
  <2> HIDE DEF new, run
  <2>3. QED
    BY <2>1, <2>2
<1>5. Alloc!Fits(start, 1)
  <2>1. Alloc!Run(start, 1) = Run(start, n) /\ Run(start, n) \subseteq Blocks
    BY <1>1 DEF Alloc!Run, Run, Blocks
  <2>2. ASSUME NEW p \in held
        PROVE  Run(start, n) \cap Alloc!Run(AddressToBlock(p.ptr), p.n) = {}
    BY <1>1 DEF IInv, HeldDisjoint, Extent, Run, Alloc!Run
  <2>3. ASSUME NEW a \in Owned
        PROVE  Run(start, n) \cap Alloc!Run(a.start, a.n) = {}
    BY <2>2 DEF Owned
  <2>4. QED
    BY <2>1, <2>3 DEF Alloc!Fits, Owned
<1>6. Alloc!Grant(1)
  BY <1>1, <1>3, <1>4, <1>5 DEF Alloc!Grant, Owned, Answer
<1>7. 1 \in Lengths
  BY <1>1, OneIsALength DEF OneBlock
<1>8. QED
  BY <1>6, <1>7 DEF Alloc!Next, Lengths

\* kfree gives back the one run that starts at the pointer's block.
LEMMA KfreeGivesBack ==
  ASSUME IInv, OneBlock, NEW p \in held, Kfree(p)
  PROVE  Alloc!Next
<1> DEFINE run(q) == [start |-> AddressToBlock(q.ptr), n |-> q.n]
<1>1. held' = held \ {p} /\ ret' = ret
  BY DEF Kfree
<1>2. ASSUME NEW q \in held, q # p
      PROVE  run(q) # run(p)
  <2>1. Extent(q) \cap Extent(p) = {}
    BY <1>2 DEF IInv, HeldDisjoint
  <2>2. AddressToBlock(p.ptr) \in Extent(p) /\ AddressToBlock(q.ptr) \in Extent(q)
    BY HeldPointer DEF IInv, OneBlock, Extent, Run, Blocks
  <2>3. QED
    BY <2>1, <2>2
<1>3. Owned = {run(q) : q \in held} /\ Owned' = {run(q) : q \in held \ {p}}
  BY <1>1 DEF Owned, AddressToBlock
<1>4. Owned' = Owned \ {run(p)}
  BY <1>2, <1>3
<1>5. Answer' = Answer
  BY <1>1 DEF Answer, AddressToBlock
<1>6. run(p) \in Owned
  BY <1>3
<1>7. Alloc!GiveBack(run(p))
  BY <1>4, <1>5 DEF Alloc!GiveBack, Owned, Answer
<1>8. QED
  BY <1>6, <1>7 DEF Alloc!Next, Owned

\* For one-block requests the heap implements the allocator with no table
\* and no loops: what its callers may rely on.
THEOREM HeapImplementsAlloc ==
  ASSUME OneBlockRequests
  PROVE  Spec => AllocSpec
<1>1. Init => Alloc!Init
  BY DEF Init, Alloc!Init, Null
<1>2. IInv /\ OneBlock /\ [Next]_vars => [Alloc!Next]_(Alloc!vars)
  <2> SUFFICES ASSUME IInv, OneBlock, [Next]_vars
               PROVE  Alloc!Next \/ UNCHANGED Alloc!vars
    OBVIOUS
  <2>1. ASSUME held' = held, ret' = ret
        PROVE  UNCHANGED Alloc!vars
    <3>1. Owned' = Owned /\ Answer' = Answer
      BY <2>1 DEF Owned, Answer, AddressToBlock
    <3>2. QED
      BY <3>1 DEF Alloc!vars, Owned, Answer
  <2>2. CASE UNCHANGED vars
    BY <2>1, <2>2 DEF vars
  <2>3. CASE Call
    BY <2>1, <2>3, KfreeGivesBack DEF Call, Kmalloc
  <2>4. CASE SearchTaken \/ SearchFree \/ SearchSucceeds
    BY <2>1, <2>4 DEF SearchTaken, SearchFree, SearchSucceeds
  <2>5. CASE SearchFails
    BY <2>5, SearchFailsRefuses
  <2>6. CASE MarkTaken
    BY <2>1, <2>6 DEF MarkTaken
  <2>7. CASE MallocReturns
    BY <2>7, MallocReturnsGrants
  <2>8. CASE MarkFree \/ MarkFreeOver
    BY <2>1, <2>8 DEF MarkFree, MarkFreeOver
  <2>9. QED
    BY <2>2, <2>3, <2>4, <2>5, <2>6, <2>7, <2>8 DEF Next, Step
<1>3. QED
  BY <1>1, <1>2, OneBlockInvariant, PTL DEF AllocSpec, Alloc!Spec, Spec

=============================================================================
