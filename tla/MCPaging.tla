------------------------------ MODULE MCPaging ------------------------------
(***************************************************************************)
(* Four entries per table: sixteen frames, of which thirteen are the       *)
(* heap's: two chunks, and one frame left for a third that fails.          *)
(***************************************************************************)
EXTENDS Paging

HeapFrames == 2 .. 14

\* Page 0, where null pointers write to, the last page of the last table, and
\* an address inside a page.
SetAddresses == {0, 240, 20}

\* Onto frames 15 and 1.
SetValues == {15 * 16 + 7, 16 + 3}

=============================================================================
