----------------------------- MODULE MCFatRead -----------------------------
(***************************************************************************)
(* A fragmented file of four clusters, each of two sectors of two bytes;   *)
(* an int holds the positions up to 31, so that the last cluster, number   *)
(* 8, is out of reach.                                                     *)
(***************************************************************************)
EXTENDS FatRead

Fragmented == <<3, 5, 2, 8>>

ASSUME FragmentedFits == FileFits

\* Reads from every position in the file and up to a cluster behind it, and
\* from the highest positions; of sizes up to three clusters and around the
\* ends of the range of an int.
AllReads ==
  [pos : (0 .. 17) \cup {31, 32, 59, 62, 63},
   size : {1, 2, 3, 4, 5, 8, 12, 32, 63}, nmemb : 1 .. 3]

=============================================================================
