---------------------------- MODULE AddressSpace ----------------------------
(***************************************************************************)
(* What a caller of memory/paging relies on: a chunk that is created maps  *)
(* every page to itself, paging_set changes one page of one chunk, and one *)
(* chunk at a time is the one the processor uses.                          *)
(***************************************************************************)
EXTENDS Naturals, Sequences

CONSTANTS
  Pages,     \* the page numbers of the virtual address space
  Identity,  \* Identity[f][p]: the entry that maps page p to itself, flags f
  PageFlags, \* the flags that chunks are created with
  Vals       \* the entries that paging_set is called with

VARIABLES
  spaces,    \* the entry of each page, for each chunk in order of creation
  current    \* the chunk the processor uses, or 0 before the first one

asVars == <<spaces, current>>

Init == spaces = <<>> /\ current = 0

Create(f) ==
  /\ spaces' = Append(spaces, Identity[f])
  /\ UNCHANGED current

MapPage(c, p, val) ==
  /\ spaces'[c][p] = val
  /\ spaces' = [spaces EXCEPT ![c][p] = val]
  /\ UNCHANGED current

Use(c) == current' = c /\ UNCHANGED spaces

Next ==
  \/ \E f \in PageFlags : Create(f)
  \/ \E c \in DOMAIN spaces : Use(c) \/ \E p \in Pages, val \in Vals : MapPage(c, p, val)

Spec == Init /\ [][Next]_asVars

=============================================================================
