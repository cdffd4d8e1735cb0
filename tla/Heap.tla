-------------------------------- MODULE Heap --------------------------------
(***************************************************************************)
(* The kernel heap: src/src/memory/heap/heap.c behind kmalloc and kfree of *)
(* kheap.c.  The pool is Total blocks of BlockSize bytes from HeapAddr on; *)
(* a table holds one entry per block.  An entry byte is the set of its     *)
(* flags: FREE (0x00) is {}, and TAKEN, FIRST and NEXT stand for           *)
(* HEAP_BLOCK_TABLE_ENTRY_TAKEN, HEAP_BLOCK_IS_FIRST, HEAP_BLOCK_HAS_NEXT. *)
(*                                                                         *)
(* Each iteration of the three loops (search, mark taken, mark free) is a  *)
(* step, so that the loop invariants are invariants of the specification.  *)
(* The kernel never allocates from an interrupt handler: one call is in    *)
(* progress at a time, and pc says where it is.                            *)
(***************************************************************************)
EXTENDS Integers

CONSTANTS
  Total,      \* kernel_heap_table.total, the number of table entries
  BlockSize,  \* CHUCHUOS_HEAP_BLOCK_SIZE
  HeapAddr,   \* CHUCHUOS_HEAP_ADDRESS, heap->saddr
  WordMod,    \* 2^32: size_t and uint32_t arithmetic is modulo WordMod
  Sizes       \* the sizes in bytes that kernel code passes to kmalloc

ASSUME HeapAssumption ==
  /\ Total \in Nat \ {0}
  /\ BlockSize \in Nat \ {0}
  /\ HeapAddr \in Nat \ {0}
  /\ WordMod \in Nat \ {0}
  /\ Sizes \subseteq Nat

VARIABLES
  entries,  \* table->entries[0 .. Total-1]
  past,     \* the indices >= Total at which the table was written
  held,     \* history: the pointers callers hold, with the blocks asked for
  ret,      \* what the last kmalloc returned
  pc,       \* the loop in progress, or "idle" between two calls
  n,        \* total_blocks (in "free", history: the length of the run)
  i,        \* the index of the loop in progress
  counter,  \* block_counter of the search
  start,    \* block_start of the search, start_block afterwards
  entry     \* the entry byte that the next iteration of the marking writes

vars == <<entries, past, held, ret, pc, n, i, counter, start, entry>>
locals == <<n, i, counter, start, entry>>

Blocks == 0 .. Total - 1
Flags == {"TAKEN", "FIRST", "NEXT"}
Null == 0

-----------------------------------------------------------------------------
(* Sizes, addresses and entries.                                           *)

AlignUp(val) ==
  IF val % BlockSize = 0
  THEN val
  ELSE (val - (val % BlockSize) + BlockSize) % WordMod

\* Variant for the checks: forgets the partial last block.
BlocksForTruncated(size) == size \div BlockSize

BlocksFor(size) == AlignUp(size) \div BlockSize

BlockToAddress(b) == HeapAddr + b * BlockSize

\* Variant for the checks: forgets where the heap starts.
AddressToBlockFromZero(ptr) == ptr \div BlockSize

AddressToBlock(ptr) == (ptr - HeapAddr) \div BlockSize

IsFree(e) == "TAKEN" \notin e

FirstEntry(k) == {"TAKEN", "FIRST"} \cup (IF k > 1 THEN {"NEXT"} ELSE {})

\* Variant for the checks: every entry but the last of the run is linked one
\* block too far (i # end for i # end - 1).
NextEntryOneTooFar(j, end) ==
  {"TAKEN"} \cup (IF j # end THEN {"NEXT"} ELSE {})

\* The entry byte prepared at the end of iteration j for iteration j + 1.
NextEntry(j, end) ==
  {"TAKEN"} \cup (IF j # end - 1 THEN {"NEXT"} ELSE {})

-----------------------------------------------------------------------------
(* A call returns: its locals are gone.                                    *)

Return ==
  /\ pc' = "idle"
  /\ n' = 0 /\ i' = 0 /\ counter' = 0 /\ start' = -1 /\ entry' = {}

\* heap_create accepts the kernel's constants (pool aligned to the block
\* size, Total entries) and clears the table.
Init ==
  /\ entries = [b \in Blocks |-> {}]
  /\ past = {} /\ held = {} /\ ret = Null
  /\ pc = "idle"
  /\ n = 0 /\ i = 0 /\ counter = 0 /\ start = -1 /\ entry = {}

(* kmalloc -> heap_malloc -> heap_malloc_blocks -> heap_get_start_block.   *)
Kmalloc(size) ==
  /\ pc = "idle"
  /\ pc' = "search"
  /\ n' = BlocksFor(size)
  /\ i' = 0 /\ counter' = 0 /\ start' = -1
  /\ UNCHANGED <<entries, past, held, ret, entry>>

\* Variant for the checks: a taken block does not reset the search.
SearchTakenNoReset ==
  /\ pc = "search" /\ i < Total /\ ~IsFree(entries[i])
  /\ i' = i + 1
  /\ UNCHANGED <<entries, past, held, ret, pc, n, counter, start, entry>>

SearchTaken ==
  /\ pc = "search" /\ i < Total /\ ~IsFree(entries[i])
  /\ counter' = 0 /\ start' = -1
  /\ i' = i + 1
  /\ UNCHANGED <<entries, past, held, ret, pc, n, entry>>

SearchFree ==
  /\ pc = "search" /\ i < Total /\ IsFree(entries[i])
  /\ start' = IF start = -1 THEN i ELSE start
  /\ counter' = counter + 1
  /\ IF counter + 1 = n
     THEN pc' = "found" /\ i' = i
     ELSE pc' = pc /\ i' = i + 1
  /\ UNCHANGED <<entries, past, held, ret, n, entry>>

\* The search broke out of its loop, or ran off the end of the table.
SearchOver == pc = "found" \/ (pc = "search" /\ i = Total)

\* -ENOMEM: heap_malloc_blocks returns address 0.
SearchFails ==
  /\ SearchOver /\ start = -1
  /\ ret' = Null
  /\ Return
  /\ UNCHANGED <<entries, past, held>>

\* block_start is taken as the answer, at a break or not.
SearchSucceeds ==
  /\ SearchOver /\ start # -1
  /\ pc' = "mark"
  /\ i' = start
  /\ entry' = FirstEntry(n)
  /\ UNCHANGED <<entries, past, held, ret, n, counter, start>>

(* heap_mark_block_taken, then heap_malloc_blocks returns the address.     *)
\* Variant for the checks: the block after the run is marked too.
EndBlockOneTooFar == start + n

EndBlock == start + n - 1

MarkTaken ==
  /\ pc = "mark" /\ i <= EndBlock
  /\ IF i < Total
     THEN entries' = [entries EXCEPT ![i] = entry] /\ past' = past
     ELSE entries' = entries /\ past' = past \cup {i}
  /\ entry' = NextEntry(i, EndBlock)
  /\ i' = i + 1
  /\ UNCHANGED <<held, ret, pc, n, counter, start>>

MallocReturns ==
  /\ pc = "mark" /\ i > EndBlock
  /\ ret' = BlockToAddress(start)
  /\ held' = held \cup {[ptr |-> ret', n |-> n]}
  /\ Return
  /\ UNCHANGED <<entries, past>>

(* kfree -> heap_free -> heap_mark_blocks_free.                            *)
Kfree(p) ==
  /\ pc = "idle"
  /\ pc' = "free"
  /\ start' = AddressToBlock(p.ptr)
  /\ i' = start'
  /\ n' = p.n
  /\ held' = held \ {p}
  /\ UNCHANGED <<entries, past, ret, counter, entry>>

\* Variant for the checks: the loop goes on until it meets a free block, it
\* does not look at HEAP_BLOCK_HAS_NEXT.
MarkFreeToNextFree ==
  /\ pc = "free" /\ i < Total
  /\ entries' = [entries EXCEPT ![i] = {}]
  /\ IF ~IsFree(entries[i])
     THEN i' = i + 1 /\ UNCHANGED <<pc, n, counter, start, entry>>
     ELSE Return
  /\ UNCHANGED <<past, held, ret>>

\* Variant for the checks: the entry is tested after it was cleared.
MarkFreeTestsCleared ==
  /\ pc = "free" /\ i < Total
  /\ entries' = [entries EXCEPT ![i] = {}]
  /\ IF "NEXT" \in entries'[i]
     THEN i' = i + 1 /\ UNCHANGED <<pc, n, counter, start, entry>>
     ELSE Return
  /\ UNCHANGED <<past, held, ret>>

\* Variant for the checks: the loop forgets to advance.
MarkFreeStuck ==
  /\ pc = "free" /\ i < Total
  /\ entries' = [entries EXCEPT ![i] = @ \ {"TAKEN"}]
  /\ IF "NEXT" \in entries[i] THEN UNCHANGED <<pc, locals>> ELSE Return
  /\ UNCHANGED <<past, held, ret>>

MarkFree ==
  /\ pc = "free" /\ i < Total
  /\ entries' = [entries EXCEPT ![i] = {}]
  /\ IF "NEXT" \in entries[i]
     THEN i' = i + 1 /\ UNCHANGED <<pc, n, counter, start, entry>>
     ELSE Return
  /\ UNCHANGED <<past, held, ret>>

\* The chain ran up to the end of the table.
MarkFreeOver ==
  /\ pc = "free" /\ i = Total
  /\ Return
  /\ UNCHANGED <<entries, past, held, ret>>

-----------------------------------------------------------------------------
Call ==
  \/ \E size \in Sizes : Kmalloc(size)
  \/ \E p \in held : Kfree(p)

Step ==
  \/ SearchTaken \/ SearchFree \/ SearchFails \/ SearchSucceeds
  \/ MarkTaken \/ MallocReturns
  \/ MarkFree \/ MarkFreeOver

Next == Call \/ Step

Spec == Init /\ [][Next]_vars

\* The processor keeps executing a call that was entered.
FairSpec == Spec /\ WF_vars(Step)

-----------------------------------------------------------------------------
(* Correctness.                                                            *)

TypeOK ==
  /\ entries \in [Blocks -> SUBSET Flags]
  /\ past \subseteq Nat
  /\ held \subseteq [ptr : {BlockToAddress(b) : b \in Blocks}, n : Nat]
  /\ ret \in {Null} \cup {BlockToAddress(b) : b \in Blocks}
  /\ pc \in {"idle", "search", "found", "mark", "free"}
  /\ n \in Nat /\ i \in Nat /\ counter \in Nat
  /\ start \in Blocks \cup {-1}
  /\ entry \in SUBSET Flags

\* The run of k blocks from s, and the run of a pointer that a caller holds.
Run(s, k) == s .. (s + k - 1)
Extent(p) == Run(AddressToBlock(p.ptr), p.n)

\* What the table must say about block b of the run of k blocks from s.
EntryIn(s, k, b) ==
  {"TAKEN"} \cup (IF b = s THEN {"FIRST"} ELSE {})
            \cup (IF b < s + k - 1 THEN {"NEXT"} ELSE {})

\* The blocks that the call in progress has marked and not (yet) unmarked.
InHand ==
  CASE pc = "mark" -> start .. (i - 1)
    [] pc = "free" -> i .. (start + n - 1)
    [] OTHER -> {}

\* The table is the callers' pointers and nothing else: a block of a held
\* run is chained as its run is, a block of the run in hand likewise, and
\* every other block is free.  (heap_mark_block_taken, heap_mark_blocks_free)
TableMatchesHeld ==
  \A b \in Blocks :
    /\ \A p \in held : b \in Extent(p) =>
         entries[b] = EntryIn(AddressToBlock(p.ptr), p.n, b)
    /\ b \in InHand => entries[b] = EntryIn(start, n, b)
    /\ b \notin InHand /\ (\A p \in held : b \notin Extent(p))
         => entries[b] = {}

\* Two callers never hold the same block, also past the end of the table
\* and while a run is being marked or unmarked.  (heap_get_start_block)
HeldDisjoint ==
  /\ \A p, q \in held : p # q => Extent(p) \cap Extent(q) = {}
  /\ pc \in {"mark", "free"} =>
       \A p \in held : Extent(p) \cap Run(start, n) = {}

\* kmalloc returns 0 only if no run of n blocks of the pool is free of held
\* blocks.  (heap_get_start_block's -ENOMEM)
FailsOnlyWhenFull ==
  [][ SearchFails =>
        \A s \in Blocks : Run(s, n) \subseteq Blocks =>
          \E p \in held : Run(s, n) \cap Extent(p) # {} ]_vars

\* No call writes the table entry of a block of a run that stays held: a
\* free stops at the end of its own run, a malloc marks its own run only.
HeldEntriesStable ==
  [][ \A p \in held \cap held' : \A b \in Extent(p) \cap Blocks :
        entries'[b] = entries[b] ]_vars

\* Every call returns, whatever the chains in the table look like.
CallsReturn == pc # "idle" ~> pc = "idle"

\* A run that was handed out lies in the pool, and the table was never
\* written past its end.
WithinHeap ==
  /\ past = {}
  /\ \A p \in held : Extent(p) \subseteq Blocks

-----------------------------------------------------------------------------
(* Conditions on the sizes that callers ask for, under which the theorems  *)
(* of HeapProofs hold.                                                     *)

NonEmptyRequests == \A size \in Sizes : BlocksFor(size) >= 1

OneBlockRequests == \A size \in Sizes : BlocksFor(size) = 1

-----------------------------------------------------------------------------
(* The inductive invariant: with the table and the disjointness go the     *)
(* invariants of the three loops.                                          *)

HeldNotEmpty == \A p \in held : p.n >= 1

\* No n free blocks in a row below k.
NoFitBelow(k) ==
  \A s \in 0 .. Total : s + n <= k => \E b \in Run(s, n) : ~IsFree(entries[b])

SearchInv ==
  pc \in {"search", "found"} =>
    /\ n >= 1
    /\ i <= Total
    /\ start = -1 => counter = 0
    /\ start # -1 => \A b \in start .. (start + counter - 1) :
                       b < Total /\ IsFree(entries[b])
    /\ pc = "search" =>
         /\ counter < n
         /\ start # -1 => counter = i - start /\ start < i
         /\ start = -1 /\ i > 0 => ~IsFree(entries[i - 1])
         /\ start > 0 => ~IsFree(entries[start - 1])
         /\ NoFitBelow(i)
    /\ pc = "found" => start # -1 /\ counter = n

MarkInv ==
  pc = "mark" =>
    /\ n >= 1
    /\ start # -1
    /\ start <= i /\ i <= start + n
    /\ i < start + n => entry = EntryIn(start, n, i)

FreeInv ==
  pc = "free" =>
    /\ start # -1
    /\ start <= i /\ i < start + n /\ i <= Total

IInv ==
  /\ TypeOK
  /\ TableMatchesHeld /\ HeldDisjoint /\ HeldNotEmpty
  /\ SearchInv /\ MarkInv /\ FreeInv

-----------------------------------------------------------------------------
(* The refinement: the runs behind the held pointers, and the block behind *)
(* the address returned last.                                              *)

Alloc == INSTANCE BlockAlloc WITH
  Lengths <- {BlocksFor(size) : size \in Sizes},
  owned <- {[start |-> AddressToBlock(p.ptr), n |-> p.n] : p \in held},
  ret <- IF ret = Null THEN -1 ELSE AddressToBlock(ret)

AllocSpec == Alloc!Spec

=============================================================================
