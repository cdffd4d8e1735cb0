---------------------------- MODULE BlockDevice ----------------------------
(***************************************************************************)
(* What a caller of disk_read_block relies on, and what FatRead assumes:   *)
(* a request is answered, if at all, with the words of its sectors, all of *)
(* them, in order and once.                                                *)
(***************************************************************************)
EXTENDS Naturals, Sequences

CONSTANTS
  Requests,   \* the [lba, total] that are read
  Content(_)  \* Content(r): the words of the sectors of request r

VARIABLES
  wanted,     \* the request that is not answered yet: {} or one
  answer      \* the words of the last request that was

bdVars == <<wanted, answer>>

Init == wanted = {} /\ answer = <<>>

Request(r) ==
  /\ wanted = {}
  /\ wanted' = {r} /\ answer' = <<>>

Answer(r) ==
  /\ wanted = {r}
  /\ wanted' = {} /\ answer' = Content(r)

Next == \E r \in Requests : Request(r) \/ Answer(r)

Spec == Init /\ [][Next]_bdVars

=============================================================================
