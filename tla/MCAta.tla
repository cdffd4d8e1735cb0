------------------------------- MODULE MCAta -------------------------------
(***************************************************************************)
(* Registers of two bits, sectors of three words.  The boot sector reads   *)
(* three sectors from sector 1 on, the kernel one at a time (as the        *)
(* streamer does) or two, at addresses that fill each of the registers.    *)
(***************************************************************************)
EXTENDS Ata

BootRead == {[lba |-> 1, total |-> 3]}

KernelReadsSmall == [lba : {0, 3, 6, 27, 64, 100, 127}, total : {1, 2}] \ {[lba |-> 127, total |-> 2]}

=============================================================================
