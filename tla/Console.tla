------------------------------ MODULE Console ------------------------------
(***************************************************************************)
(* The one place where two activities of the kernel touch the same data:   *)
(* kernel_main prints (kernel.c) while the keyboard's interrupt handler    *)
(* prints (idt/idt.c), both at terminal_row and terminal_col.              *)
(*                                                                         *)
(* An interrupt is taken between two instructions of kernel_main; the      *)
(* handlers run with interrupts disabled, to their iret.  So each load and *)
(* store of terminal_row, terminal_col and video_mem in kernel_main is a   *)
(* step of its own, as the compiled code has it, and a handler is one.     *)
(*                                                                         *)
(* The master interrupt controller and the keyboard controller are         *)
(* external: the first holds back requests of a priority not above one in  *)
(* service until it is told the end of it, the second requests when its    *)
(* output buffer becomes full, and nothing in the kernel reads the buffer. *)
(* kernel.asm tells the first from which vector on it requests; the table  *)
(* that idt_init fills says whose handler that is.                         *)
(***************************************************************************)
EXTENDS Integers, Sequences, FiniteSets

CONSTANTS
  Width, Height,  \* VGA_WIDTH, VGA_HEIGHT
  Text,           \* what kernel_main does: "char", "newline", "idt", "sti"
  Vectors,        \* CHUCHUOS_TOTAL_INTERRUPTS
  PicBase,        \* 0x20, kernel.asm's remapping of the master
  Vector21h,      \* 0x21, the vector of int21h
  KeyLength,      \* the length of the handler's line
  MaxPresses      \* bound: the number of key presses

ASSUME ConsoleAssumption ==
  /\ Width \in Nat \ {0} /\ Height \in Nat \ {0}
  /\ Text \in Seq({"char", "newline", "idt", "sti"})
  /\ \A j \in DOMAIN Text : Text[j] = "sti" => \E l \in 1 .. j - 1 : Text[l] = "idt"
  /\ {PicBase, PicBase + 1, Vector21h} \subseteq 1 .. Vectors - 1
  /\ KeyLength \in 1 .. Width /\ MaxPresses \in Nat

VARIABLES
  video_mem,    \* who wrote each cell
  terminal_row, terminal_col,
  mainPc,       \* the next instruction of kernel_main
  pos,          \* the element of Text it is at
  x, y,         \* the registers that hold a column and a row
  idt,          \* idt_descriptors: the handler of each vector
  intr,         \* the interrupt flag of the processor
  irr, isr,     \* the interrupt requests, and those in service
  full,         \* the keyboard controller's output buffer is full
  presses,      \* the number of key presses
  lines         \* history: the number of lines the handler printed

mainVars == <<mainPc, pos, x, y>>
picVars == <<idt, intr, irr, isr, full, presses, lines>>
cursor == <<terminal_row, terminal_col>>
consoleVars == <<video_mem, cursor, mainVars, picVars>>

Timer == 0
Keyboard == 1
Cells == 0 .. Width * Height - 1
Blank == <<"blank", 0>>

Cell(col, row) == row * Width + col

ConsoleInit ==
  /\ video_mem = [c \in Cells |-> Blank]   \* terminal_initialize
  /\ terminal_row = 0 /\ terminal_col = 0
  /\ mainPc = "next" /\ pos = 1 /\ x = 0 /\ y = 0
  /\ idt = [v \in 0 .. Vectors - 1 |-> "none"]
  /\ intr = FALSE /\ irr = {} /\ isr = {} /\ full = FALSE
  /\ presses = 0 /\ lines = 0

-----------------------------------------------------------------------------
(* kernel_main: print, and terminal_writechar for each character.          *)

Main(from, to) == mainPc = from /\ mainPc' = to

At(kind) == pos <= Len(Text) /\ Text[pos] = kind

\* Variant for the checks: the loop over all vectors comes last.
IdtLoopLast == [v \in 0 .. Vectors - 1 |-> "no_interrupt"]

\* The table after the calls of idt_set: all vectors, then two of them again.
Idt == [v \in 0 .. Vectors - 1 |->
          IF v = Vector21h THEN "int21h" ELSE IF v = 0 THEN "idt_zero" ELSE "no_interrupt"]

\* idt_init, with interrupts disabled.
IdtInit ==
  /\ At("idt") /\ Main("next", "next")
  /\ pos' = pos + 1 /\ idt' = Idt
  /\ UNCHANGED <<video_mem, cursor, x, y, intr, irr, isr, full, presses, lines>>

EnableInterrupts ==
  /\ At("sti") /\ Main("next", "next")
  /\ pos' = pos + 1 /\ intr' = TRUE
  /\ UNCHANGED <<video_mem, cursor, x, y, idt, irr, isr, full, presses, lines>>

\* terminal_row += 1 and terminal_col = 0, at a newline.
LoadRow ==
  /\ At("newline") /\ Main("next", "storeRow")
  /\ y' = terminal_row
  /\ UNCHANGED <<video_mem, cursor, pos, x, picVars>>

\* Variant for the checks: the line ends twice.
StoreRowTwice ==
  /\ Main("storeRow", "clearCol")
  /\ terminal_row' = y + 2
  /\ UNCHANGED <<video_mem, terminal_col, pos, x, y, picVars>>

StoreRow ==
  /\ Main("storeRow", "clearCol")
  /\ terminal_row' = y + 1
  /\ UNCHANGED <<video_mem, terminal_col, pos, x, y, picVars>>

ClearCol ==
  /\ Main("clearCol", "next")
  /\ terminal_col' = 0 /\ pos' = pos + 1
  /\ UNCHANGED <<video_mem, terminal_row, x, y, picVars>>

\* terminal_putchar(terminal_col, terminal_row, ...): the row is loaded first.
LoadPutRow ==
  /\ At("char") /\ Main("next", "putCol")
  /\ y' = terminal_row
  /\ UNCHANGED <<video_mem, cursor, pos, x, picVars>>

LoadPutCol ==
  /\ Main("putCol", "put")
  /\ x' = terminal_col
  /\ UNCHANGED <<video_mem, cursor, pos, y, picVars>>

PutChar ==
  /\ Main("put", "loadCol")
  /\ video_mem' = [video_mem EXCEPT ![Cell(x, y)] = <<"main", pos>>]
  /\ UNCHANGED <<cursor, pos, x, y, picVars>>

\* terminal_col += 1.
LoadCol ==
  /\ Main("loadCol", "storeCol")
  /\ x' = terminal_col
  /\ UNCHANGED <<video_mem, cursor, pos, y, picVars>>

StoreCol ==
  /\ Main("storeCol", "wrap")
  /\ terminal_col' = x + 1
  /\ UNCHANGED <<video_mem, terminal_row, pos, x, y, picVars>>

\* The row is compared with the width, which it does not reach.
Wrap ==
  /\ Main("wrap", "next")
  /\ pos' = pos + 1
  /\ IF terminal_row >= Width
     THEN terminal_row' = terminal_row + 1 /\ terminal_col' = 0
     ELSE UNCHANGED cursor
  /\ UNCHANGED <<video_mem, x, y, picVars>>

MainStep ==
  \/ IdtInit \/ EnableInterrupts \/ LoadRow \/ StoreRow \/ ClearCol
  \/ LoadPutRow \/ LoadPutCol \/ PutChar \/ LoadCol \/ StoreCol \/ Wrap

-----------------------------------------------------------------------------
(* The devices and the interrupt controller.                               *)

Tick ==
  /\ irr' = irr \cup {Timer}
  /\ UNCHANGED <<video_mem, cursor, mainVars, idt, intr, isr, full, presses, lines>>

Press ==
  /\ presses < MaxPresses
  /\ presses' = presses + 1
  /\ full' = TRUE
  /\ irr' = IF full THEN irr ELSE irr \cup {Keyboard}
  /\ UNCHANGED <<video_mem, cursor, mainVars, idt, intr, isr, lines>>

\* outb(0x20, 0x20): the end of the service of the highest priority.
EndOfInterrupt(s) == s \ {CHOOSE n \in s : \A m \in s : n <= m}

Deliverable(n) ==
  /\ intr /\ n \in irr
  /\ \A m \in irr : n <= m
  /\ \A m \in isr : n < m

\* A request is delivered to its vector's handler, which ends its service.
Serve(n, handler) ==
  /\ Deliverable(n) /\ idt[PicBase + n] = handler
  /\ irr' = irr \ {n}
  /\ isr' = EndOfInterrupt(isr \cup {n})
  /\ UNCHANGED <<mainVars, idt, intr, full, presses>>

\* no_interrupt_handler.
NoInterrupt ==
  /\ \E n \in {Timer, Keyboard} : Serve(n, "no_interrupt")
  /\ UNCHANGED <<video_mem, cursor, lines>>

\* Variant for the checks: the handler's line overwrites the current one.
HandlerColumnZero == 0

\* The column at which the handler's line starts.
HandlerColumn == terminal_col

\* int21h_handler: print("Keyboard pressed!\n").
Int21h ==
  /\ \E n \in {Timer, Keyboard} : Serve(n, "int21h")
  /\ LET at == Cell(HandlerColumn, terminal_row)
     IN video_mem' = [c \in Cells |->
          IF c \in at .. at + KeyLength - 1 THEN <<"key", c - at>> ELSE video_mem[c]]
  /\ terminal_row' = terminal_row + 1
  /\ terminal_col' = 0
  /\ lines' = lines + 1

\* After its last message kernel_main loops and changes nothing.
ConsoleNext == MainStep \/ Tick \/ Press \/ NoInterrupt \/ Int21h

\* The processor goes on executing kernel_main between interrupts, and takes
\* an interrupt that stays deliverable; the timer's period is far longer than
\* its handler takes, so that the keyboard's request is deliverable again and
\* again and is taken in the end.
ConsoleSpec ==
  /\ ConsoleInit /\ [][ConsoleNext]_consoleVars
  /\ WF_consoleVars(MainStep) /\ WF_consoleVars(NoInterrupt) /\ SF_consoleVars(Int21h)

-----------------------------------------------------------------------------
(* Correctness.                                                            *)

Pcs == {"next", "storeRow", "clearCol", "putCol", "put", "loadCol", "storeCol", "wrap"}

\* Where the text alone puts the cursor: the newlines before an element, and
\* the characters since the last of them.
RowAt(j) == Cardinality({l \in 1 .. j - 1 : Text[l] = "newline"})

ColAt(j) ==
  Cardinality({l \in 1 .. j - 1 : Text[l] = "char" /\ \A m \in l .. j - 1 : Text[m] # "newline"})

\* The text fits the screen, with room for the handler's line anywhere in it;
\* and the screen is not higher than it is wide.
TextFits ==
  /\ \A j \in 1 .. Len(Text) + 1 : RowAt(j) + 1 < Height /\ ColAt(j) + KeyLength <= Width
  /\ Height <= Width

\* int21h is not the handler of the timer.
TimerIsOther == PicBase # Vector21h

Fits == TextFits /\ TimerIsOther

\* Types; the cursor stays on the screen with room for the handler's line.
ConsoleTypeOK ==
  /\ \A c \in Cells : video_mem[c][1] \in {"blank", "main", "key"}
  /\ terminal_row \in 0 .. Height - 1 /\ terminal_col \in 0 .. Width - KeyLength
  /\ mainPc \in Pcs /\ pos \in 1 .. Len(Text) + 1
  /\ x \in 0 .. Width - 1 /\ y \in 0 .. Height - 1
  /\ idt \in [0 .. Vectors - 1 -> {"none", "no_interrupt", "idt_zero", "int21h"}]
  /\ intr \in BOOLEAN /\ full \in BOOLEAN
  /\ irr \subseteq {Timer, Keyboard} /\ isr \subseteq {Timer, Keyboard}
  /\ presses \in 0 .. MaxPresses /\ lines \in Nat

\* The characters that were put on the screen so far ...
Written ==
  {<<"main", j>> : j \in {j \in DOMAIN Text : Text[j] = "char" /\
       (j < pos \/ (j = pos /\ mainPc \in {"loadCol", "storeCol", "wrap"}))}}
  \cup (IF lines > 0 THEN {<<"key", j>> : j \in 0 .. KeyLength - 1} ELSE {})

\* ... and are no longer on it.
Overwritten == Written \ {video_mem[c] : c \in Cells}

\* Whenever the interrupt hits kernel_main's printing, at most one character
\* of either text is overwritten by the other.  (terminal_writechar)
AtMostOneLost == Cardinality(Overwritten) <= 1

\* The first key press is answered, whatever the timer does.
\* (the vectors of kernel.asm and idt_init, outb(0x20, 0x20) in both handlers)
PressAnswered == presses > 0 ~> lines > 0

=============================================================================
