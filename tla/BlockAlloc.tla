----------------------------- MODULE BlockAlloc -----------------------------
(***************************************************************************)
(* What a caller of kmalloc / kfree (src/src/memory/heap/kheap.h) relies   *)
(* on, with no table and no loops: a pool of numbered blocks out of which  *)
(* runs of consecutive blocks are handed out and taken back.  Heap is      *)
(* shown to implement this module for one-block requests, and FileTable    *)
(* allocates from a pool that behaves like it.                             *)
(***************************************************************************)
EXTENDS Integers

CONSTANTS
  Blocks,    \* the block numbers of the pool
  Lengths    \* the run lengths, in blocks, that callers ask for

VARIABLES
  owned,     \* the runs [start, n] that callers hold
  ret        \* the first block of the run the last call returned, or -1

vars == <<owned, ret>>

Run(s, k) == s .. (s + k - 1)

\* A run of k blocks from s lies in the pool and shares no block with a run
\* that somebody holds.
Fits(s, k) ==
  /\ Run(s, k) \subseteq Blocks
  /\ \A a \in owned : Run(s, k) \cap Run(a.start, a.n) = {}

Init == owned = {} /\ ret = -1

\* A request for k blocks is granted with a run that fits ...
Grant(k) ==
  \E s \in Blocks :
    /\ Fits(s, k)
    /\ owned' = owned \cup {[start |-> s, n |-> k]}
    /\ ret' = s

\* ... and is refused only if no run of k blocks fits.
Refuse(k) ==
  /\ \A s \in Blocks : ~Fits(s, k)
  /\ ret' = -1
  /\ UNCHANGED owned

GiveBack(a) ==
  /\ owned' = owned \ {a}
  /\ UNCHANGED ret

Next ==
  \/ \E k \in Lengths : Grant(k) \/ Refuse(k)
  \/ \E a \in owned : GiveBack(a)

Spec == Init /\ [][Next]_vars

=============================================================================
