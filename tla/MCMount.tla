------------------------------ MODULE MCMount ------------------------------
(***************************************************************************)
(* Heaps of one to eight blocks, volumes with and without the signature,   *)
(* with one or two tables of one or two sectors, and root directories that *)
(* fill one or two blocks, or no whole number of sectors.                  *)
(***************************************************************************)
EXTENDS Mount

MCVolumes == [signed : BOOLEAN, reserved : {1, 3}, copies : {1, 2}, perFat : {1, 2},
              entries : {2, 3, 4, 6}]

MCPools == 1 .. 8

=============================================================================
