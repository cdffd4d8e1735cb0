----------------------------- MODULE MCConsole -----------------------------
(***************************************************************************)
(* kernel_main in short: a line before the interrupts are enabled, then a  *)
(* line and a rest without a newline.                                      *)
(***************************************************************************)
EXTENDS Console

MCText == <<"char", "newline", "idt", "sti", "char", "char", "newline", "char", "char">>

ASSUME TextFitsScreen == Fits

=============================================================================
