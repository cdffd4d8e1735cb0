---------------------------- MODULE DeviceProofs ----------------------------
(***************************************************************************)
(* Theorems about the devices: reading sectors through the drive's ports,  *)
(* for every width of the registers, every size of a sector and every      *)
(* request that the registers can say, whichever sectors are bad; and      *)
(* printing on the screen while the keyboard's handler prints, for screens *)
(* and texts of every size.                                                *)
(***************************************************************************)
EXTENDS Ata, Console, Numbers, FiniteSetTheorems, SequenceTheorems

-----------------------------------------------------------------------------
(* The registers.                                                          *)

LEMMA RequestType ==
  ASSUME NEW r \in Reads
  PROVE  /\ r.lba \in Nat /\ r.lba < ByteMod * (ByteMod * (ByteMod * HeadMod))
         /\ r.total \in Nat /\ 0 < r.total /\ r.total < ByteMod
         /\ ByteMod \in Nat \ {0} /\ HeadMod \in Nat \ {0} /\ HeadMod <= ByteMod
         /\ Words \in Nat \ {0} /\ Mode \in Nat /\ Mode % HeadMod = 0
<1>1. /\ ByteMod \in Nat \ {0} /\ HeadMod \in Nat \ {0} /\ Words \in Nat \ {0}
      /\ HeadMod <= ByteMod /\ Mode \in Nat /\ Mode % HeadMod = 0
  BY AtaAssumption
<1> DEFINE most == ByteMod * ByteMod * ByteMod * HeadMod
<1>2. r.lba \in 0 .. most - 1 /\ r.total \in 1 .. ByteMod - 1
  BY AtaAssumption
<1>3. most \in Int /\ most = ByteMod * (ByteMod * (ByteMod * HeadMod))
  BY <1>1
<1> HIDE DEF most
<1>4. r.lba \in Nat /\ r.lba < most /\ r.total \in Nat /\ 0 < r.total /\ r.total < ByteMod
  BY <1>1, <1>2, <1>3
<1>5. QED
  BY <1>1, <1>3, <1>4

\* The number, taken apart byte by byte, and what is left for the high bits.
LEMMA Bytes ==
  ASSUME NEW r \in Reads
  PROVE  LET b1 == r.lba \div ByteMod
             b2 == b1 \div ByteMod
             b3 == b2 \div ByteMod
         IN /\ b1 \in Nat /\ b2 \in Nat /\ b3 \in Nat /\ b3 < HeadMod
            /\ r.lba = (r.lba % ByteMod) +
                 ByteMod * ((b1 % ByteMod) + ByteMod * ((b2 % ByteMod) + ByteMod * b3))
            /\ r.lba \div (ByteMod * ByteMod) = b2
            /\ r.lba \div (ByteMod * ByteMod * ByteMod) = b3
<1> DEFINE a == r.lba
           m == ByteMod
           b1 == a \div m
           b2 == b1 \div m
           b3 == b2 \div m
<1>1. /\ a \in Nat /\ m \in Nat \ {0} /\ HeadMod \in Nat \ {0}
      /\ a < m * (m * (m * HeadMod))
  BY RequestType
<1>2. m * m \in Nat \ {0}
  BY <1>1
<1>3. a \div (m * m) = b2 /\ a \div (m * m * m) = b3
  <2>1. a \div (m * m) = b2
    BY <1>1, DivisionTwice
  <2>2. a \div ((m * m) * m) = (a \div (m * m)) \div m
    BY <1>1, <1>2, DivisionTwice
  <2>3. QED
    BY <2>1, <2>2
<1>4. b1 \in Nat /\ a % m \in Nat /\ a = b1 * m + (a % m)
  BY <1>1, DivisionFacts
<1>5. b2 \in Nat /\ b1 % m \in Nat /\ b1 = b2 * m + (b1 % m)
  BY <1>1, <1>4, DivisionFacts
<1>6. b3 \in Nat /\ b2 % m \in Nat /\ b2 = b3 * m + (b2 % m)
  BY <1>1, <1>5, DivisionFacts
<1>7. b3 < HeadMod
  <2>1. a < (m * (m * HeadMod)) * m /\ m * (m * HeadMod) \in Nat
    BY <1>1
  <2>2. b1 < m * (m * HeadMod)
    BY <1>1, <2>1, DivisionBound
  <2>3. b1 < (m * HeadMod) * m /\ m * HeadMod \in Nat
    BY <1>1, <2>2
  <2>4. b2 < m * HeadMod
    BY <1>1, <1>4, <2>3, DivisionBound
  <2>5. b2 < HeadMod * m /\ HeadMod \in Nat
    BY <1>1, <2>4
  <2>6. QED
    BY <1>1, <1>5, <2>5, DivisionBound
<1>8. a = (a % m) + m * ((b1 % m) + m * ((b2 % m) + m * b3))
  <2> DEFINE r0 == a % m
             r1 == b1 % m
             r2 == b2 % m
  <2>1. /\ r0 \in Nat /\ r1 \in Nat /\ r2 \in Nat
        /\ a = b1 * m + r0 /\ b1 = b2 * m + r1 /\ b2 = b3 * m + r2
    BY <1>4, <1>5, <1>6
  <2> HIDE DEF r0, r1, r2, b1, b2, b3
  <2>2. b2 = r2 + m * b3
    BY <1>1, <1>6, <2>1
  <2>3. b1 = r1 + m * (r2 + m * b3)
    BY <1>1, <1>5, <2>1, <2>2
  <2>4. a = r0 + m * (r1 + m * (r2 + m * b3))
    BY <1>1, <1>4, <2>1, <2>3
  <2>5. QED
    BY <2>4 DEF r0, r1, r2
<1> HIDE DEF b1, b2, b3
<1>9. QED
  BY <1>3, <1>4, <1>5, <1>6, <1>7, <1>8 DEF b1, b2, b3

\* The drive takes from the head register what was put there beside the mode.
LEMMA HeadBits ==
  ASSUME NEW h \in Nat, h < HeadMod
  PROVE  (h + Mode) % HeadMod = h
<1> DEFINE m == HeadMod
           q == Mode \div m
<1>1. m \in Nat \ {0} /\ Mode \in Nat /\ Mode % m = 0 /\ h \in 0 .. m - 1
  BY AtaAssumption
<1>2. q \in Nat /\ Mode = q * m + (Mode % m)
  BY <1>1, DivisionFacts
<1> HIDE DEF q, m
<1>3. h + Mode = q * m + h
  BY <1>1, <1>2
<1>4. (q * m + h) % m = h
  <2>1. m \in Nat \ {0} /\ q \in Int /\ h \in 0 .. m - 1
    BY <1>1, <1>2
  <2>2. QED
    BY <2>1, DivisionUnique
<1>5. QED
  BY <1>3, <1>4 DEF m

\* Both callers leave the number of the sector in the registers, and the count.
LEMMA RegistersAddress ==
  ASSUME NEW r \in Reads
  PROVE  /\ Addressed(KernelRegisters(r)) = r.lba
         /\ Addressed(BootRegisters(r)) = r.lba
         /\ KernelRegisters(r).count = r.total /\ BootRegisters(r).count = r.total
<1> DEFINE m == ByteMod
           b1 == r.lba \div m
           b2 == b1 \div m
           b3 == b2 \div m
<1>1. /\ b1 \in Nat /\ b2 \in Nat /\ b3 \in Nat /\ b3 < HeadMod
      /\ r.lba = (r.lba % m) + m * ((b1 % m) + m * ((b2 % m) + m * b3))
      /\ r.lba \div (m * m) = b2 /\ r.lba \div (m * m * m) = b3
  BY Bytes
<1>2. (b3 + Mode) % HeadMod = b3
  BY <1>1, HeadBits
<1>3. b3 % m = b3
  <2>1. b3 \in Nat /\ b3 < m /\ m \in Nat \ {0}
    BY <1>1, RequestType
  <2> HIDE DEF b3, m
  <2>2. 0 * m + b3 = b3 /\ 0 \in Int /\ b3 \in 0 .. m - 1
    BY <2>1
  <2>3. (0 * m + b3) % m = b3
    BY <2>1, <2>2, DivisionUnique
  <2>4. QED
    BY <2>2, <2>3
<1>4. r.total % ByteMod = r.total
  BY RequestType
<1>5. r.lba \div 1 = r.lba
  BY RequestType
<1> HIDE DEF b1, b2, b3
<1>6. Addressed(KernelRegisters(r)) = (r.lba % m) + m * ((b1 % m) + m * ((b2 % m) + m * b3))
  BY <1>1, <1>2 DEF Addressed, KernelRegisters, b1
<1>7. Addressed(BootRegisters(r)) = (r.lba % m) + m * ((b1 % m) + m * ((b2 % m) + m * b3))
  BY <1>1, <1>2, <1>3, <1>5 DEF Addressed, BootRegisters, b1
<1>8. QED
  BY <1>1, <1>4, <1>6, <1>7 DEF KernelRegisters, BootRegisters

-----------------------------------------------------------------------------
(* The loops.                                                              *)

\* Word number j of the read, from 0 on.
WordOf(j) == Word(rd.lba + (j \div Words), j % Words)

\* The drive and the loops are at the same word of the same sector, and the
\* words before it are in the buffer.
IInv ==
  /\ pc \in {"idle", "poll", "copy"}
  /\ rd \in Reads \cup {NoRead}
  /\ buf \in Seq(Nat \X Nat)
  /\ pc = "idle" => /\ drive = "idle" /\ lba \in Nat /\ left = 0 /\ word = 0
                    /\ i = 0 /\ b = rd.total /\ Len(buf) = b * Words
  /\ pc # "idle" => /\ rd \in Reads
                    /\ b \in Nat /\ b < rd.total /\ left = rd.total - b
                    /\ lba = rd.lba + b
                    /\ i \in 0 .. Words - 1 /\ word = i
                    /\ Len(buf) = b * Words + i
  /\ pc = "poll" => drive \in {"busy", "drq", "error"} /\ i = 0
  /\ pc = "copy" => drive = "drq"
  /\ \A j \in 1 .. Len(buf) : buf[j] = WordOf(j - 1)

LEMMA InitInv == Init => IInv
<1>1. <<>> \in Seq(Nat \X Nat) /\ Len(<<>>) = 0
  BY EmptySeq
<1>2. 0 * Words = 0
  BY AtaAssumption
<1>3. QED
  BY <1>1, <1>2 DEF Init, IInv, NoRead

LEMMA CommandInv ==
  ASSUME IInv, NEW r \in Reads, NEW reg, Command(r, reg),
         Addressed(reg) = r.lba, reg.count = r.total
  PROVE  IInv'
<1>1. <<>> \in Seq(Nat \X Nat) /\ Len(<<>>) = 0
  BY EmptySeq
<1>2. r.total \in Nat /\ 0 < r.total /\ r.lba \in Nat /\ Words \in Nat \ {0}
  BY RequestType
<1>3. /\ pc' = "poll" /\ rd' = r /\ b' = 0 /\ i' = 0 /\ buf' = <<>> /\ drive' = "busy"
      /\ lba' = r.lba /\ word' = 0
  BY DEF Command
<1>4. left' = r.total
  BY <1>2 DEF Command
<1>5. lba' = rd'.lba + b' /\ left' = rd'.total - b' /\ i' \in 0 .. Words - 1
  BY <1>2, <1>3, <1>4
<1>6. Len(buf') = b' * Words + i'
  BY <1>1, <1>2, <1>3
<1>7. QED
  BY <1>1, <1>2, <1>3, <1>5, <1>6 DEF IInv

\* The word that is copied is the next one of the read.
LEMMA NextWord ==
  ASSUME IInv, pc = "copy"
  PROVE  /\ WordOf(Len(buf)) = Word(lba, word) /\ Word(lba, word) \in Nat \X Nat
         /\ Append(buf, Word(lba, word)) \in Seq(Nat \X Nat)
         /\ Len(Append(buf, Word(lba, word))) = Len(buf) + 1
         /\ \A j \in 1 .. Len(buf) + 1 :
              Append(buf, Word(lba, word))[j] = WordOf(j - 1)
<1> DEFINE w == Word(lba, word)
           len == Len(buf)
<1>1. /\ rd \in Reads /\ b \in Nat /\ lba = rd.lba + b /\ word = i /\ i \in 0 .. Words - 1
      /\ len = b * Words + i /\ buf \in Seq(Nat \X Nat)
      /\ \A j \in 1 .. len : buf[j] = WordOf(j - 1)
  BY DEF IInv
<1>2. Words \in Nat \ {0} /\ rd.lba \in Nat
  BY <1>1, RequestType
<1>3. (b * Words + i) \div Words = b /\ (b * Words + i) % Words = i
  <2>1. b \in Int /\ i \in 0 .. Words - 1 /\ Words \in Nat \ {0}
    BY <1>1, <1>2
  <2>2. QED
    BY <2>1, DivisionUnique
<1>4. WordOf(len) = w
  BY <1>1, <1>3 DEF WordOf
<1>5. w \in Nat \X Nat
  BY <1>1, <1>2 DEF Word
<1> HIDE DEF w
<1>6. /\ Append(buf, w) \in Seq(Nat \X Nat) /\ Len(Append(buf, w)) = len + 1
      /\ \A j \in 1 .. len + 1 : Append(buf, w)[j] = IF j <= len THEN buf[j] ELSE w
  BY <1>1, <1>5, AppendProperties
<1>7. len \in Nat
  BY <1>1
<1>8. ASSUME NEW j \in 1 .. len + 1
      PROVE  Append(buf, w)[j] = WordOf(j - 1)
  <2>1. Append(buf, w)[j] = IF j <= len THEN buf[j] ELSE w
    BY <1>6
  <2> HIDE DEF len
  <2>2. CASE j <= len
    <3>1. j \in 1 .. len
      BY <1>7, <2>2
    <3>2. QED
      BY <1>1, <2>1, <2>2, <3>1
  <2>3. CASE ~(j <= len)
    <3>1. j - 1 = len
      BY <1>7, <2>3
    <3>2. QED
      BY <1>4, <2>1, <2>3, <3>1
  <2>4. QED
    BY <2>2, <2>3
<1>9. QED
  BY <1>4, <1>5, <1>6, <1>8 DEF w

LEMMA CopyWordFacts ==
  ASSUME IInv, CopyWord
  PROVE  /\ pc = "copy" /\ Drq /\ rd' = rd /\ WordTaken
         /\ buf' = Append(buf, Word(lba, word))
         /\ buf' \in Seq(Nat \X Nat) /\ Len(buf') = b * Words + i + 1
         /\ \A j \in 1 .. Len(buf') : buf'[j] = WordOf(j - 1)
<1>1. pc = "copy" /\ Drq /\ rd' = rd
  BY DEF CopyWord, IInv, Drq
<1>2. buf' = Append(buf, Word(lba, word)) /\ WordTaken
  BY <1>1 DEF CopyWord
<1>3. Len(buf) = b * Words + i
  BY <1>1 DEF IInv
<1>4. Len(buf') = b * Words + i + 1
  BY <1>1, <1>2, <1>3, NextWord
<1>5. buf' \in Seq(Nat \X Nat) /\ Len(buf') = Len(buf) + 1
  BY <1>1, <1>2, NextWord
<1>6. \A j \in 1 .. Len(buf') : buf'[j] = WordOf(j - 1)
  BY <1>1, <1>2, <1>5, NextWord
<1>7. QED
  BY <1>1, <1>2, <1>4, <1>5, <1>6

LEMMA CopyWordInv ==
  ASSUME IInv, CopyWord
  PROVE  IInv'
<1>1. /\ pc = "copy" /\ Drq /\ rd' = rd /\ WordTaken
      /\ buf' \in Seq(Nat \X Nat) /\ Len(buf') = b * Words + i + 1
      /\ \A j \in 1 .. Len(buf') : buf'[j] = WordOf(j - 1)
  BY CopyWordFacts
<1>2. /\ rd \in Reads /\ b \in Nat /\ b < rd.total /\ left = rd.total - b
      /\ lba = rd.lba + b /\ i \in 0 .. Words - 1 /\ word = i
  BY <1>1 DEF IInv
<1>3. Words \in Nat \ {0} /\ rd.lba \in Nat /\ rd.total \in Nat
  BY <1>2, RequestType
<1>4. \A j \in 1 .. Len(buf') : buf'[j] = WordOf(j - 1)'
  BY <1>1 DEF WordOf
<1>5. CASE i + 1 # Words
  <2>1. /\ i' = i + 1 /\ pc' = pc /\ b' = b /\ word' = word + 1
        /\ drive' = drive /\ lba' = lba /\ left' = left
    BY <1>1, <1>2, <1>3, <1>5 DEF CopyWord, SectorCopied, WordTaken
  <2>2. Len(buf') = b' * Words + i'
    <3> DEFINE bw == b * Words
    <3>1. bw \in Nat /\ Len(buf') = bw + i + 1
      BY <1>1, <1>2, <1>3
    <3> HIDE DEF bw
    <3>2. Len(buf') = bw + i'
      BY <1>2, <2>1, <3>1
    <3>3. QED
      BY <2>1, <3>2 DEF bw
  <2>3. i' \in 0 .. Words - 1
    BY <1>2, <1>3, <1>5, <2>1
  <2>4. drive = "drq"
    BY <1>1 DEF Drq
  <2>5. QED
    BY <1>1, <1>2, <1>4, <2>1, <2>2, <2>3, <2>4 DEF IInv
<1>6. CASE i + 1 = Words
  <2>1. /\ i' = 0 /\ b' = b + 1 /\ pc' = (IF b + 1 = rd.total THEN "idle" ELSE "poll")
        /\ word' = 0 /\ left' = left - 1
        /\ lba' = (IF left > 1 THEN lba + 1 ELSE lba)
        /\ drive' = (IF left > 1 THEN "busy" ELSE "idle")
    BY <1>1, <1>2, <1>3, <1>6 DEF CopyWord, SectorCopied, WordTaken
  <2>2. Len(buf') = b' * Words + i' /\ Len(buf') = b' * Words
    <3> DEFINE bw == b * Words
    <3>1. bw \in Nat /\ Len(buf') = bw + i + 1 /\ b' * Words = bw + Words
      BY <1>1, <1>2, <1>3, <2>1
    <3> HIDE DEF bw
    <3>2. Len(buf') = bw + Words /\ bw + Words + 0 = bw + Words
      BY <1>2, <1>3, <1>6, <3>1
    <3>3. QED
      BY <2>1, <3>1, <3>2
  <2>3. 0 \in 0 .. Words - 1
    BY <1>3
  <2>4. CASE b + 1 = rd.total
    <3>1. left = 1 /\ pc' = "idle" /\ drive' = "idle" /\ left' = 0 /\ lba' \in Nat
      BY <1>2, <1>3, <2>1, <2>4
    <3>2. b' = rd'.total
      BY <1>1, <2>1, <2>4
    <3>3. QED
      BY <1>1, <1>2, <1>4, <2>1, <2>2, <2>3, <3>1, <3>2 DEF IInv
  <2>5. CASE b + 1 # rd.total
    <3>1. /\ pc' = "poll" /\ drive' = "busy" /\ lba' = lba + 1 /\ left' = left - 1
          /\ b + 1 < rd.total
      BY <1>2, <1>3, <2>1, <2>5
    <3>2. b' \in Nat /\ b' < rd'.total /\ left' = rd'.total - b' /\ lba' = rd'.lba + b'
      <4>1. rd'.total = rd.total /\ rd'.lba = rd.lba /\ b' = b + 1
        BY <1>1, <2>1
      <4>2. /\ b \in Nat /\ rd.total \in Nat /\ rd.lba \in Nat /\ b + 1 < rd.total
            /\ left' = rd.total - b - 1 /\ lba' = rd.lba + b + 1
        BY <1>2, <1>3, <3>1
      <4>3. QED
        BY <4>1, <4>2
    <3>3. /\ pc' \in {"idle", "poll", "copy"} /\ pc' # "idle" /\ pc' # "copy"
          /\ rd' = rd /\ drive' \in {"busy", "drq", "error"}
      BY <1>1, <3>1
    <3>4. rd' \in Reads \cup {NoRead} /\ rd' \in Reads
      BY <1>2, <3>3
    <3>5. i' \in 0 .. Words - 1 /\ word' = i' /\ i' = 0
      BY <2>1, <2>3
    <3>6. buf' \in Seq(Nat \X Nat) /\ Len(buf') = b' * Words + i'
      BY <1>1, <2>2
    <3>7. QED
      BY <1>4, <3>2, <3>3, <3>4, <3>5, <3>6 DEF IInv
  <2>6. QED
    BY <2>4, <2>5
<1>7. QED
  BY <1>5, <1>6

LEMMA StepInv == IInv /\ [Next]_vars => IInv'
<1> SUFFICES ASSUME IInv, [Next]_vars PROVE IInv'
  OBVIOUS
<1>1. ASSUME NEW r \in KernelReads, Command(r, KernelRegisters(r))
      PROVE  IInv'
  BY <1>1, CommandInv, RegistersAddress DEF Reads
<1>2. ASSUME NEW r \in BootReads, Command(r, BootRegisters(r))
      PROVE  IInv'
  BY <1>2, CommandInv, RegistersAddress DEF Reads
<1>3. CASE Poll
  BY <1>3 DEF Poll, Ready, Drq, IInv, WordOf, device
<1>4. CASE CopyWord
  BY <1>4, CopyWordInv
<1>5. CASE DriveReads
  BY <1>5 DEF DriveReads, IInv, WordOf, cpu
<1>6. CASE UNCHANGED vars
  BY <1>6 DEF vars, cpu, device, IInv, WordOf
<1>7. QED
  BY <1>1, <1>2, <1>3, <1>4, <1>5, <1>6 DEF Next

\* Between two reads the drive has nothing left to deliver, and so the next
\* read takes no word of the last one for its own.
THEOREM DriveIsDrained == Spec => []DriveDrained
<1>1. IInv => DriveDrained
  BY DEF IInv, DriveDrained
<1>2. QED
  BY <1>1, InitInv, StepInv, PTL DEF Spec

-----------------------------------------------------------------------------
(* The loops are one atomic read.                                          *)

\* A command is a request.
LEMMA CommandRequests ==
  ASSUME IInv, NEW r \in Reads, NEW reg, Command(r, reg)
  PROVE  Device!Next
<1>1. pc = "idle" /\ pc' = "poll" /\ rd' = r /\ buf' = <<>>
  BY DEF Command
<1>2. Device!Request(r)
  BY <1>1 DEF Device!Request
<1>3. QED
  BY <1>2 DEF Device!Next

\* The last word of the last sector completes the answer, no other does.
LEMMA CopyWordAnswers ==
  ASSUME IInv, CopyWord
  PROVE  [Device!Next]_(Device!bdVars)
<1>1. /\ pc = "copy" /\ rd' = rd /\ buf' \in Seq(Nat \X Nat)
      /\ Len(buf') = b * Words + i + 1
      /\ \A j \in 1 .. Len(buf') : buf'[j] = WordOf(j - 1)
  BY CopyWordFacts
<1>2. rd \in Reads /\ b \in Nat /\ i \in 0 .. Words - 1
  BY <1>1 DEF IInv
<1>3. CASE pc' # "idle"
  BY <1>1, <1>3 DEF Device!bdVars
<1>4. CASE pc' = "idle"
  <2>1. i + 1 = Words /\ b + 1 = rd.total
    BY <1>1, <1>4 DEF CopyWord, SectorCopied
  <2>2. Len(buf') = rd.total * Words
    <3>1. Words \in Nat
      BY AtaAssumption
    <3> DEFINE bw == b * Words
    <3>2. bw \in Nat /\ Len(buf') = bw + i + 1 /\ (b + 1) * Words = bw + Words
      BY <1>1, <1>2, <3>1
    <3> HIDE DEF bw
    <3>3. Len(buf') = (b + 1) * Words
      BY <1>2, <2>1, <3>1, <3>2
    <3>4. QED
      BY <2>1, <3>3
  <2>3. buf' \in [1 .. Len(buf') -> Nat \X Nat]
    BY <1>1, LenProperties
  <2>4. buf' = [j \in 1 .. rd.total * Words |-> WordOf(j - 1)]
    BY <1>1, <2>2, <2>3
  <2>5. buf' = Sectors(rd)
    BY <2>4 DEF Sectors, WordOf
  <2>6. Device!Answer(rd)
    BY <1>1, <1>4, <2>5 DEF Device!Answer
  <2>7. QED
    BY <1>2, <2>6 DEF Device!Next
<1>5. QED
  BY <1>3, <1>4

\* Polling and copying word by word implement the atomic read that the
\* streamer relies on, for the kernel and for the boot sector.
THEOREM AtaImplementsBlockDevice == Spec => BlockDeviceSpec
<1>1. Init => Device!Init
  BY DEF Init, Device!Init
<1>2. IInv /\ [Next]_vars => [Device!Next]_(Device!bdVars)
  <2> SUFFICES ASSUME IInv, [Next]_vars
               PROVE  [Device!Next]_(Device!bdVars)
    OBVIOUS
  <2>1. ASSUME NEW r \in KernelReads, Command(r, KernelRegisters(r))
        PROVE  Device!Next
    BY <2>1, CommandRequests DEF Reads
  <2>2. ASSUME NEW r \in BootReads, Command(r, BootRegisters(r))
        PROVE  Device!Next
    BY <2>2, CommandRequests DEF Reads
  <2>3. CASE Poll
    BY <2>3 DEF Poll, Device!bdVars
  <2>4. CASE CopyWord
    BY <2>4, CopyWordAnswers
  <2>5. CASE DriveReads
    BY <2>5 DEF DriveReads, cpu, Device!bdVars
  <2>6. CASE UNCHANGED vars
    BY <2>6 DEF vars, cpu, Device!bdVars
  <2>7. QED
    BY <2>1, <2>2, <2>3, <2>4, <2>5, <2>6 DEF Next
<1>3. QED
  BY <1>1, <1>2, InitInv, StepInv, PTL DEF BlockDeviceSpec, Device!Spec, Spec

-----------------------------------------------------------------------------
(* The variables' values.                                                  *)

LEMMA InvTypeOK == IInv => TypeOK
<1> SUFFICES ASSUME IInv PROVE TypeOK
  OBVIOUS
<1>1. Words \in Nat \ {0} /\ ByteMod \in Nat \ {0}
  BY AtaAssumption
<1>2. rd.total \in Nat /\ rd.total < ByteMod
  <2>1. CASE rd = NoRead
    BY <1>1, <2>1 DEF NoRead
  <2>2. CASE rd \in Reads
    BY <2>2, RequestType
  <2>3. QED
    BY <2>1, <2>2 DEF IInv
<1>3. CASE pc = "idle"
  <2>1. /\ drive = "idle" /\ lba \in Nat /\ left = 0 /\ word = 0 /\ i = 0 /\ b = rd.total
        /\ Len(buf) = b * Words
    BY <1>3 DEF IInv
  <2>2. Len(buf) \in 0 .. rd.total * Words
    BY <1>1, <1>2, <2>1
  <2>3. QED
    BY <1>1, <1>2, <1>3, <2>1, <2>2 DEF IInv, TypeOK
<1>4. CASE pc # "idle"
  <2>1. /\ rd \in Reads /\ b \in Nat /\ b < rd.total /\ left = rd.total - b
        /\ lba = rd.lba + b /\ i \in 0 .. Words - 1 /\ word = i
        /\ Len(buf) = b * Words + i /\ drive \in {"idle", "busy", "drq", "error"}
        /\ pc \in {"idle", "poll", "copy"}
    BY <1>4 DEF IInv
  <2>2. Len(buf) \in 0 .. rd.total * Words
    <3> DEFINE d == rd.total - b - 1
               bw == b * Words
               dw == d * Words
    <3>1. d \in Nat /\ rd.total = b + d + 1
      BY <1>2, <2>1
    <3>2. bw \in Nat /\ dw \in Nat /\ rd.total * Words = bw + dw + Words
      <4>1. b \in Nat /\ d \in Nat /\ Words \in Nat
        BY <1>1, <2>1, <3>1
      <4>2. rd.total * Words = (b + d + 1) * Words
        BY <3>1
      <4> HIDE DEF d
      <4>3. QED
        BY <4>1, <4>2, MultipleOfSum
    <3> HIDE DEF d, bw, dw
    <3>3. bw + i \in 0 .. bw + dw + Words
      BY <1>1, <2>1, <3>2
    <3>4. QED
      BY <2>1, <3>2, <3>3 DEF bw
  <2>3. left \in 0 .. ByteMod /\ b \in 0 .. rd.total
    <3>1. b \in Nat /\ b < rd.total /\ left = rd.total - b
      BY <2>1
    <3>2. ByteMod \in Nat
      BY <1>1
    <3>3. QED
      BY <1>2, <3>1, <3>2
  <2>4. lba \in Nat
    <3>1. rd.lba \in Nat
      BY <2>1, RequestType
    <3>2. b \in Nat /\ lba = rd.lba + b
      BY <2>1
    <3>3. QED
      BY <3>1, <3>2
  <2>5. QED
    BY <2>1, <2>2, <2>3, <2>4 DEF TypeOK
<1>5. QED
  BY <1>3, <1>4

\* The counters stay within the request, and the buffer is never overrun.
THEOREM TypeCorrect == Spec => []TypeOK
BY InitInv, StepInv, InvTypeOK, PTL DEF Spec

-----------------------------------------------------------------------------
(* The screen.  What was printed before the cursor is not written again,   *)
(* and behind it there is nothing; so the texts can only meet in the one   *)
(* cell that kernel_main is about to print or has just printed.            *)

Putting == {"putCol", "put", "loadCol", "storeCol", "wrap"}

Marks == {Blank} \cup {<<"main", j>> : j \in Nat} \cup {<<"key", j>> : j \in Nat}

ConsoleTypes ==
  /\ video_mem \in [Cells -> Marks]
  /\ {terminal_row, terminal_col, x, y, lines} \subseteq Nat
  /\ mainPc \in Pcs /\ pos \in 1 .. Len(Text) + 1
  /\ idt \in {[v \in 0 .. Vectors - 1 |-> "none"], Idt}
  /\ intr \in BOOLEAN /\ full \in BOOLEAN
  /\ irr \subseteq {Timer, Keyboard} /\ isr \subseteq {Timer, Keyboard}
  /\ presses \in 0 .. MaxPresses

\* The keyboard requests once.
Once ==
  /\ Keyboard \in irr => full
  /\ lines <= 1
  /\ lines = 1 => full /\ Keyboard \notin irr

\* What the registers and the cursor are to the text.
Cursor ==
  /\ mainPc \in {"storeRow", "clearCol"} => At("newline")
  /\ mainPc \in Putting => At("char")
  /\ terminal_row <= lines + RowAt(IF mainPc = "clearCol" THEN pos + 1 ELSE pos)
  /\ terminal_col <= ColAt(IF mainPc = "wrap" THEN pos + 1 ELSE pos)
  /\ x < Width /\ (mainPc \in {"put", "storeCol"} => x <= ColAt(pos))
  /\ mainPc = "storeCol" => terminal_col <= x
  /\ y <= terminal_row
  /\ mainPc \in {"storeRow", "putCol", "put"} /\ y # terminal_row =>
       y + 1 = terminal_row /\ lines = 1
  /\ mainPc = "storeRow" /\ y # terminal_row => terminal_col = 0
  /\ mainPc = "put" /\ y = terminal_row => x = terminal_col

\* Behind the cursor the screen is blank.
Clear ==
  /\ \A c \in Cells : c > Cell(terminal_col, terminal_row) => video_mem[c] = Blank
  /\ \A c \in Cells : c = Cell(terminal_col, terminal_row) /\ mainPc \notin {"loadCol", "storeCol"}
       => video_mem[c] = Blank
  /\ mainPc = "clearCol" =>
       \A c \in Cells : c >= Cell(0, terminal_row) => video_mem[c] = Blank

\* Nothing is lost before the handler's line, nor by it when it comes between
\* the loads of the cursor and the store of the character.
Lost ==
  /\ lines = 0 => Overwritten = {}
  /\ mainPc \in {"putCol", "put"} /\ y # terminal_row => Overwritten = {}
  /\ \E o : Overwritten \subseteq {o}

ConsoleInv == ConsoleTypes /\ Once /\ Cursor /\ Clear /\ Lost

-----------------------------------------------------------------------------
(* The lines and columns of the text.                                      *)

LEMMA Layout ==
  ASSUME NEW j \in 1 .. Len(Text)
  PROVE  /\ RowAt(j) \in Nat /\ ColAt(j) \in Nat
         /\ RowAt(j + 1) = RowAt(j) + (IF Text[j] = "newline" THEN 1 ELSE 0)
         /\ ColAt(j + 1) = IF Text[j] = "newline" THEN 0
                           ELSE IF Text[j] = "char" THEN ColAt(j) + 1 ELSE ColAt(j)
<1> DEFINE R == {l \in 1 .. j - 1 : Text[l] = "newline"}
           C == {l \in 1 .. j - 1 : Text[l] = "char" /\ \A m \in l .. j - 1 : Text[m] # "newline"}
           D == {l \in 1 .. (j + 1) - 1 :
                   Text[l] = "char" /\ \A m \in l .. (j + 1) - 1 : Text[m] # "newline"}
<1>0. j \in Nat /\ j >= 1
  BY ConsoleAssumption
<1>1. IsFiniteSet(R) /\ IsFiniteSet(C) /\ j \notin R /\ j \notin C
  <2>1. IsFiniteSet(1 .. j - 1) /\ R \subseteq 1 .. j - 1 /\ C \subseteq 1 .. j - 1
    BY <1>0, FS_Interval
  <2>2. j \notin 1 .. j - 1
    BY <1>0
  <2>3. QED
    BY <2>1, <2>2, FS_Subset
<1>2. RowAt(j) \in Nat /\ ColAt(j) \in Nat
  BY <1>1, FS_CardinalityType DEF RowAt, ColAt
<1>3. 1 .. (j + 1) - 1 = (1 .. j - 1) \cup {j}
  BY <1>0
<1>4. RowAt(j + 1) = RowAt(j) + (IF Text[j] = "newline" THEN 1 ELSE 0)
  <2> DEFINE S == {l \in 1 .. (j + 1) - 1 : Text[l] = "newline"}
  <2>1. RowAt(j + 1) = Cardinality(S) /\ RowAt(j) = Cardinality(R)
    BY DEF RowAt
  <2>2. CASE Text[j] = "newline"
    <3>1. S = R \cup {j}
      BY <1>3, <2>2
    <3> HIDE DEF R, S
    <3>2. QED
      BY <1>1, <2>1, <2>2, <3>1, FS_AddElement
  <2>3. CASE Text[j] # "newline"
    <3>1. S = R
      BY <1>3, <2>3
    <3> HIDE DEF R, S
    <3>2. QED
      BY <1>2, <2>1, <2>3, <3>1
  <2>4. QED
    BY <2>2, <2>3
<1>5. ColAt(j + 1) = Cardinality(D) /\ ColAt(j) = Cardinality(C)
  BY DEF ColAt
<1>6. CASE Text[j] = "newline"
  <2>1. D = {}
    <3>1. ASSUME NEW l \in D PROVE FALSE
      <4>1. j \in l .. (j + 1) - 1
        BY <1>0
      <4>2. QED
        BY <1>6, <4>1
    <3>2. QED
      BY <3>1
  <2> HIDE DEF D
  <2>2. QED
    BY <1>2, <1>4, <1>5, <1>6, <2>1, FS_EmptySet
<1>7. CASE Text[j] # "newline"
  <2>1. \A l \in 1 .. j : (\A m \in l .. (j + 1) - 1 : Text[m] # "newline")
                            <=> (\A m \in l .. j - 1 : Text[m] # "newline")
    <3> SUFFICES ASSUME NEW l \in 1 .. j
                 PROVE  (\A m \in l .. (j + 1) - 1 : Text[m] # "newline")
                            <=> (\A m \in l .. j - 1 : Text[m] # "newline")
      OBVIOUS
    <3>1. l .. (j + 1) - 1 = (l .. j - 1) \cup {j}
      BY <1>0
    <3>2. QED
      BY <1>7, <3>1
  <2>2. \A m \in j .. j - 1 : Text[m] # "newline"
    BY <1>0
  <2>3. CASE Text[j] = "char"
    <3>1. D = C \cup {j}
      <4>1. \A l : l \in D <=> l \in C \/ l = j
        BY <1>0, <1>3, <2>1, <2>2, <2>3
      <4>2. QED
        BY <4>1
    <3> HIDE DEF C, D
    <3>2. QED
      BY <1>1, <1>2, <1>4, <1>5, <1>7, <2>3, <3>1, FS_AddElement
  <2>4. CASE Text[j] # "char"
    <3>1. D = C
      <4>1. \A l : l \in D <=> l \in C
        BY <1>0, <1>3, <2>1, <2>4
      <4>2. QED
        BY <4>1
    <3> HIDE DEF C, D
    <3>2. QED
      BY <1>2, <1>4, <1>5, <1>7, <2>4, <3>1
  <2>5. QED
    BY <2>3, <2>4
<1>8. QED
  BY <1>6, <1>7

LEMMA LayoutStarts == RowAt(1) = 0 /\ ColAt(1) = 0
<1>1. 1 .. 1 - 1 = {}
  OBVIOUS
<1>2. QED
  BY <1>1, FS_EmptySet DEF RowAt, ColAt

LEMMA LayoutFits ==
  ASSUME TextFits, NEW j \in 1 .. Len(Text) + 1
  PROVE  /\ RowAt(j) \in Nat /\ ColAt(j) \in Nat
         /\ RowAt(j) + 1 < Height /\ ColAt(j) + KeyLength <= Width /\ ColAt(j) < Width
<1>1. RowAt(j) + 1 < Height /\ ColAt(j) + KeyLength <= Width
  BY DEF TextFits
<1>2. Len(Text) \in Nat /\ KeyLength \in Nat /\ KeyLength >= 1 /\ Width \in Nat
  BY ConsoleAssumption
<1>3. IsFiniteSet(1 .. j - 1)
  BY <1>2, FS_Interval
<1>4. RowAt(j) \in Nat /\ ColAt(j) \in Nat
  <2>1. /\ IsFiniteSet({l \in 1 .. j - 1 : Text[l] = "newline"})
        /\ IsFiniteSet({l \in 1 .. j - 1 :
                          Text[l] = "char" /\ \A m \in l .. j - 1 : Text[m] # "newline"})
    BY <1>3, FS_Subset
  <2>2. QED
    BY <2>1, FS_CardinalityType DEF RowAt, ColAt
<1>5. QED
  BY <1>1, <1>2, <1>4

-----------------------------------------------------------------------------
(* Cells.                                                                  *)

LEMMA CellOrder ==
  ASSUME NEW c \in Nat, c < Width, NEW d \in Nat, NEW r \in Nat, NEW s \in Nat, r < s
  PROVE  Cell(c, r) < Cell(d, s)
<1>1. Width \in Nat
  BY ConsoleAssumption
<1>2. PICK n \in Nat : s = r + 1 + n
  <2>1. s - (r + 1) \in Nat /\ s = r + 1 + (s - (r + 1))
    OBVIOUS
  <2>2. QED
    BY <2>1
<1>3. n * Width \in Nat /\ r * Width \in Nat
  BY <1>1
<1>4. s * Width = r * Width + Width + n * Width
  BY <1>1, <1>2
<1>5. QED
  BY <1>1, <1>3, <1>4 DEF Cell

LEMMA CellType ==
  ASSUME NEW c \in Nat, NEW r \in Nat
  PROVE  /\ Cell(c, r) \in Nat
         /\ c < Width /\ r < Height => Cell(c, r) \in Cells
         /\ \A d \in Nat : Cell(c + d, r) = Cell(c, r) + d
<1>1. Width \in Nat /\ Height \in Nat
  BY ConsoleAssumption
<1>2. r * Width \in Nat
  BY <1>1
<1>3. ASSUME c < Width, r < Height
      PROVE  Cell(c, r) \in Cells
  <2>1. Cell(c, r) < Cell(0, Height)
    BY <1>1, <1>3, CellOrder
  <2>2. Cell(0, Height) = Width * Height
    BY <1>1 DEF Cell
  <2>3. Width * Height \in Nat
    BY <1>1
  <2>4. QED
    BY <1>1, <1>2, <2>1, <2>2, <2>3 DEF Cells, Cell
<1>4. QED
  BY <1>1, <1>2, <1>3 DEF Cell

\* The cursor stays on the screen.
LEMMA OnScreen ==
  ASSUME TextFits, ConsoleTypes, Once, Cursor
  PROVE  /\ terminal_row < Height /\ terminal_col + KeyLength <= Width /\ terminal_col < Width
         /\ lines = 0 => terminal_row + 1 < Height
<1> DEFINE j == IF mainPc = "clearCol" THEN pos + 1 ELSE pos
           k == IF mainPc = "wrap" THEN pos + 1 ELSE pos
<1>1. j \in 1 .. Len(Text) + 1 /\ k \in 1 .. Len(Text) + 1
  BY ConsoleAssumption DEF ConsoleTypes, Cursor, At, Putting
<1>2. terminal_row <= lines + RowAt(j) /\ terminal_col <= ColAt(k)
  BY DEF Cursor
<1> HIDE DEF j, k
<1>3. /\ RowAt(j) \in Nat /\ RowAt(j) + 1 < Height
      /\ ColAt(k) \in Nat /\ ColAt(k) + KeyLength <= Width
  BY <1>1, LayoutFits
<1>4. KeyLength \in Nat /\ KeyLength >= 1 /\ Width \in Nat /\ Height \in Nat
  BY ConsoleAssumption
<1>5. lines \in Nat /\ lines <= 1 /\ terminal_row \in Nat /\ terminal_col \in Nat
  BY DEF ConsoleTypes, Once
<1>6. QED
  BY <1>2, <1>3, <1>4, <1>5

-----------------------------------------------------------------------------
(* What is lost.                                                           *)

LEMMA BlankApart == Blank \notin Written
BY DEF Blank, Written

\* What a write to the cells of s can take from the screen, if no cell of s
\* but one has anything on it.
LEMMA Write ==
  ASSUME NEW s \in SUBSET Cells, \A c \in Cells \ s : video_mem'[c] = video_mem[c],
         Written' \subseteq Written \cup {video_mem'[c] : c \in s},
         NEW k, \A c \in s \ {k} : video_mem[c] = Blank
  PROVE  /\ Overwritten' \subseteq Overwritten \cup {video_mem[k]}
         /\ video_mem[k] = Blank => Overwritten' \subseteq Overwritten
<1>1. ASSUME NEW o \in Overwritten', o \notin Overwritten
      PROVE  o = video_mem[k] /\ o # Blank
  <2>1. o \in Written' /\ \A c \in Cells : video_mem'[c] # o
    BY <1>1 DEF Overwritten
  <2>2. o \in Written
    BY <2>1
  <2>3. PICK c \in Cells : video_mem[c] = o
    BY <1>1, <2>2 DEF Overwritten
  <2>4. c \in s
    BY <2>1, <2>3
  <2>5. o # Blank
    BY <2>2, BlankApart
  <2>6. QED
    BY <2>3, <2>4, <2>5
<1>2. QED
  BY <1>1

\* A step that writes nothing, of the text or on the screen.
LEMMA KeepLost ==
  ASSUME Lost, video_mem' = video_mem, lines' = lines, Written' \subseteq Written,
         mainPc' \in {"putCol", "put"} /\ y' # terminal_row' =>
           mainPc \in {"putCol", "put"} /\ y # terminal_row
  PROVE  Lost'
<1>1. Overwritten' \subseteq Overwritten
  BY DEF Overwritten
<1>2. PICK o : Overwritten \subseteq {o}
  BY DEF Lost
<1>3. QED
  BY <1>1, <1>2 DEF Lost

\* The text that was written before and after a step.
LEMMA KeepWritten ==
  ASSUME ConsoleTypes, Cursor, lines' = lines,
         \/ pos' = pos /\ (mainPc' \in {"loadCol", "storeCol", "wrap"} =>
                             mainPc \in {"loadCol", "storeCol", "wrap"})
         \/ pos' = pos + 1 /\ mainPc' = "next" /\ (At("char") => mainPc = "wrap")
  PROVE  Written' \subseteq Written
<1>1. pos \in Nat
  BY DEF ConsoleTypes
<1>2. ASSUME NEW j \in DOMAIN Text, Text[j] = "char",
             j < pos' \/ (j = pos' /\ mainPc' \in {"loadCol", "storeCol", "wrap"})
      PROVE  j < pos \/ (j = pos /\ mainPc \in {"loadCol", "storeCol", "wrap"})
  <2>1. j \in Nat /\ j <= Len(Text)
    BY ConsoleAssumption
  <2>2. CASE pos' = pos
    BY <1>2, <2>2, <1>1, <2>1
  <2>3. CASE pos' = pos + 1 /\ mainPc' = "next" /\ (At("char") => mainPc = "wrap")
    <3>1. j < pos + 1
      BY <1>2, <2>3
    <3>2. j = pos => At("char")
      BY <1>2, <2>1 DEF At
    <3>3. QED
      BY <1>1, <2>1, <2>3, <3>1, <3>2
  <2>4. QED
    BY <2>2, <2>3
<1>3. QED
  BY <1>2 DEF Written

-----------------------------------------------------------------------------
(* The steps.                                                              *)

LEMMA ConsoleInitInv == TextFits /\ ConsoleInit => ConsoleInv
<1> SUFFICES ASSUME TextFits, ConsoleInit PROVE ConsoleInv
  OBVIOUS
<1>1. /\ mainPc = "next" /\ pos = 1 /\ x = 0 /\ y = 0 /\ terminal_row = 0 /\ terminal_col = 0
      /\ video_mem = [c \in Cells |-> Blank] /\ idt = [v \in 0 .. Vectors - 1 |-> "none"]
      /\ intr = FALSE /\ irr = {} /\ isr = {} /\ full = FALSE /\ presses = 0 /\ lines = 0
  BY DEF ConsoleInit
<1>2. /\ Width \in Nat /\ Width > 0 /\ Len(Text) \in Nat /\ MaxPresses \in Nat
  BY ConsoleAssumption
<1>3. ConsoleTypes
  <2>1. video_mem \in [Cells -> Marks]
    BY <1>1 DEF Marks
  <2>2. mainPc \in Pcs /\ pos \in 1 .. Len(Text) + 1 /\ presses \in 0 .. MaxPresses
    BY <1>1, <1>2 DEF Pcs
  <2>3. intr \in BOOLEAN /\ full \in BOOLEAN
    BY <1>1
  <2>4. idt \in {[v \in 0 .. Vectors - 1 |-> "none"], Idt}
    BY <1>1
  <2>5. {terminal_row, terminal_col, x, y, lines} \subseteq Nat
    BY <1>1
  <2>6. irr \subseteq {Timer, Keyboard} /\ isr \subseteq {Timer, Keyboard}
    BY <1>1
  <2>7. QED
    BY <2>1, <2>2, <2>3, <2>4, <2>5, <2>6 DEF ConsoleTypes
<1>4. Once
  BY <1>1 DEF Once
<1>5. Cursor
  BY <1>1, <1>2, LayoutStarts DEF Cursor, Putting
<1>6. Clear
  BY <1>1 DEF Clear
<1>7. Written = {}
  <2>1. \A j \in DOMAIN Text : ~(j < 1)
    BY ConsoleAssumption
  <2>2. QED
    BY <1>1, <2>1 DEF Written
<1>8. Lost
  BY <1>1, <1>7 DEF Lost, Overwritten
<1>9. QED
  BY <1>3, <1>4, <1>5, <1>6, <1>8 DEF ConsoleInv

\* Elements of the text that print nothing.
LEMMA SilentInv ==
  ASSUME TextFits, ConsoleInv, IdtInit \/ EnableInterrupts
  PROVE  ConsoleInv'
<1>1. /\ mainPc = "next" /\ mainPc' = "next" /\ pos' = pos + 1 /\ ~At("char") /\ ~At("newline")
      /\ pos \in 1 .. Len(Text) /\ Text[pos] # "char" /\ Text[pos] # "newline"
      /\ idt' \in {idt, Idt} /\ intr' \in BOOLEAN
      /\ UNCHANGED <<video_mem, terminal_row, terminal_col, x, y, irr, isr, full, presses, lines>>
  <2>1. Len(Text) \in Nat /\ pos \in 1 .. Len(Text) + 1
    BY ConsoleAssumption DEF ConsoleInv, ConsoleTypes
  <2>2. /\ pos <= Len(Text) /\ Text[pos] # "char" /\ Text[pos] # "newline"
        /\ mainPc = "next" /\ mainPc' = "next" /\ pos' = pos + 1
    BY DEF IdtInit, EnableInterrupts, Main, At
  <2>3. /\ idt' \in {idt, Idt} /\ intr' \in BOOLEAN
        /\ UNCHANGED <<video_mem, terminal_row, terminal_col, x, y, irr, isr, full, presses,
                       lines>>
    <3>1. intr' \in BOOLEAN
      BY DEF IdtInit, EnableInterrupts, ConsoleInv, ConsoleTypes
    <3>2. QED
      BY <3>1 DEF IdtInit, EnableInterrupts, cursor
  <2>4. pos \in 1 .. Len(Text) /\ ~At("char") /\ ~At("newline")
    BY <2>1, <2>2 DEF At
  <2>5. QED
    BY <2>2, <2>3, <2>4
<1>2. RowAt(pos + 1) = RowAt(pos) /\ ColAt(pos + 1) = ColAt(pos) /\ RowAt(pos) \in Nat
  <2>1. /\ RowAt(pos) \in Nat
        /\ RowAt(pos + 1) = RowAt(pos) + (IF Text[pos] = "newline" THEN 1 ELSE 0)
        /\ ColAt(pos + 1) = IF Text[pos] = "newline" THEN 0
                            ELSE IF Text[pos] = "char" THEN ColAt(pos) + 1 ELSE ColAt(pos)
    BY <1>1, Layout
  <2>2. Text[pos] # "char" /\ Text[pos] # "newline"
    BY <1>1
  <2>3. QED
    BY <2>1, <2>2
<1>3. ConsoleTypes'
  BY <1>1 DEF ConsoleInv, ConsoleTypes
<1>4. Once'
  BY <1>1 DEF ConsoleInv, Once
<1>5. Cursor'
  BY <1>1, <1>2 DEF ConsoleInv, Cursor, Putting
<1>6. Clear'
  BY <1>1 DEF ConsoleInv, Clear
<1>7. Lost'
  <2>1. Written' \subseteq Written
    BY <1>1, KeepWritten DEF ConsoleInv
  <2>2. QED
    BY <1>1, <2>1, KeepLost DEF ConsoleInv
<1>8. QED
  BY <1>3, <1>4, <1>5, <1>6, <1>7 DEF ConsoleInv

\* The cursor is loaded.
LEMMA LoadInv ==
  ASSUME TextFits, ConsoleInv, LoadRow \/ LoadPutRow \/ LoadPutCol \/ LoadCol
  PROVE  ConsoleInv'
<1>1. /\ \/ mainPc = "next" /\ mainPc' = "storeRow" /\ At("newline") /\ y' = terminal_row /\ x' = x
         \/ mainPc = "next" /\ mainPc' = "putCol" /\ At("char") /\ y' = terminal_row /\ x' = x
         \/ mainPc = "putCol" /\ mainPc' = "put" /\ x' = terminal_col /\ y' = y
         \/ mainPc = "loadCol" /\ mainPc' = "storeCol" /\ x' = terminal_col /\ y' = y
      /\ UNCHANGED <<video_mem, terminal_row, terminal_col, pos, idt, intr, irr, isr, full,
                     presses, lines>>
  BY DEF LoadRow, LoadPutRow, LoadPutCol, LoadCol, Main, cursor, picVars
<1>2. ConsoleTypes /\ Once /\ Cursor /\ Clear /\ Lost
  BY DEF ConsoleInv
<1>3. terminal_col < Width /\ terminal_row \in Nat /\ terminal_col \in Nat
  BY <1>2, OnScreen DEF ConsoleTypes
<1>4. ConsoleTypes'
  BY <1>1, <1>2 DEF ConsoleTypes, Pcs
<1>5. Once'
  BY <1>1, <1>2 DEF Once
<1>6. Cursor'
  <2>1. At("newline")' = At("newline") /\ At("char")' = At("char")
    BY <1>1 DEF At
  <2>2. QED
    BY <1>1, <1>2, <1>3, <2>1 DEF Cursor, Putting
<1>7. Clear'
  BY <1>1, <1>2 DEF Clear
<1>8. Lost'
  <2>1. Written' \subseteq Written
    BY <1>1, <1>2, KeepWritten
  <2>2. QED
    BY <1>1, <1>2, <2>1, KeepLost
<1>9. QED
  BY <1>4, <1>5, <1>6, <1>7, <1>8 DEF ConsoleInv

LEMMA StoreRowInv ==
  ASSUME TextFits, ConsoleInv, StoreRow
  PROVE  ConsoleInv'
<1>1. /\ mainPc = "storeRow" /\ mainPc' = "clearCol" /\ terminal_row' = y + 1
      /\ UNCHANGED <<video_mem, terminal_col, pos, x, y, idt, intr, irr, isr, full, presses,
                     lines>>
  BY DEF StoreRow, Main, picVars
<1>2. ConsoleTypes /\ Once /\ Cursor /\ Clear /\ Lost
  BY DEF ConsoleInv
<1>3. /\ terminal_row \in Nat /\ terminal_col \in Nat /\ y \in Nat /\ lines \in Nat
      /\ terminal_col < Width
  BY <1>2, OnScreen DEF ConsoleTypes
<1>4. pos \in 1 .. Len(Text) /\ Text[pos] = "newline"
  BY <1>1, <1>2, ConsoleAssumption DEF Cursor, At, ConsoleTypes
<1>5. RowAt(pos) \in Nat /\ RowAt(pos + 1) = RowAt(pos) + 1
  BY <1>4, Layout
<1>6. /\ y <= terminal_row /\ terminal_row <= lines + RowAt(pos)
      /\ y = terminal_row \/ (y + 1 = terminal_row /\ terminal_col = 0)
  BY <1>1, <1>2 DEF Cursor
<1>7. ConsoleTypes'
  BY <1>1, <1>2, <1>3 DEF ConsoleTypes, Pcs
<1>8. Once'
  BY <1>1, <1>2 DEF Once
<1>9. Cursor'
  <2>1. At("newline")' = At("newline")
    BY <1>1 DEF At
  <2>2. terminal_row' <= lines + RowAt(pos + 1) /\ y <= terminal_row'
    BY <1>1, <1>3, <1>5, <1>6
  <2>3. QED
    BY <1>1, <1>2, <2>1, <2>2 DEF Cursor, Putting
<1>10. Clear'
  <2> DEFINE f == Cell(terminal_col, terminal_row)
             g == Cell(terminal_col, y + 1)
             h == Cell(0, y + 1)
  <2>1. f \in Nat /\ g \in Nat /\ h \in Nat /\ h <= g
    <3>1. y + 1 \in Nat /\ 0 \in Nat /\ 0 + terminal_col = terminal_col
      BY <1>3
    <3>2. Cell(0, y + 1) \in Nat /\ \A d \in Nat : Cell(0 + d, y + 1) = Cell(0, y + 1) + d
      BY <3>1, CellType
    <3>3. f \in Nat /\ g \in Nat
      BY <1>3, <3>1, CellType
    <3>4. Cell(0 + terminal_col, y + 1) = Cell(0, y + 1) + terminal_col
      BY <1>3, <3>2
    <3>5. g = h + terminal_col
      BY <3>1, <3>4
    <3>6. h \in Nat
      BY <3>2
    <3> HIDE DEF f, g, h
    <3>7. QED
      BY <1>3, <3>3, <3>5, <3>6
  <2>2. f < h \/ f = h
    <3>1. CASE y = terminal_row
      BY <1>3, <3>1, CellOrder
    <3>2. CASE y + 1 = terminal_row /\ terminal_col = 0
      BY <3>2
    <3>3. QED
      BY <1>6, <3>1, <3>2
  <2>3. \A c \in Cells : c >= f => video_mem[c] = Blank
    <3>1. Cells \subseteq Int
      BY ConsoleAssumption DEF Cells
    <3>2. QED
      BY <1>1, <1>2, <2>1, <3>1 DEF Clear
  <2>4. /\ Cell(terminal_col, terminal_row)' = g /\ Cell(0, terminal_row)' = h
    BY <1>1 DEF Cell
  <2> HIDE DEF f, g, h
  <2>5. \A c \in Cells : c >= h => video_mem[c] = Blank
    <3>1. Cells \subseteq Int
      BY ConsoleAssumption DEF Cells
    <3>2. QED
      BY <2>1, <2>2, <2>3, <3>1
  <2>6. \A c \in Cells : c >= g => c >= h
    <3>1. Cells \subseteq Int
      BY ConsoleAssumption DEF Cells
    <3>2. QED
      BY <2>1, <3>1
  <2>7. \A c \in Cells : (c > g \/ c = g) => c >= g
    BY <2>1, ConsoleAssumption DEF Cells
  <2>8. QED
    BY <1>1, <2>4, <2>5, <2>6, <2>7 DEF Clear
<1>11. Lost'
  <2>1. Written' \subseteq Written
    BY <1>1, <1>2, KeepWritten
  <2>2. QED
    BY <1>1, <1>2, <2>1, KeepLost
<1>12. QED
  BY <1>7, <1>8, <1>9, <1>10, <1>11 DEF ConsoleInv

LEMMA ClearColInv ==
  ASSUME TextFits, ConsoleInv, ClearCol
  PROVE  ConsoleInv'
<1>1. /\ mainPc = "clearCol" /\ mainPc' = "next" /\ terminal_col' = 0 /\ pos' = pos + 1
      /\ UNCHANGED <<video_mem, terminal_row, x, y, idt, intr, irr, isr, full, presses, lines>>
  BY DEF ClearCol, Main, picVars
<1>2. ConsoleTypes /\ Once /\ Cursor /\ Clear /\ Lost
  BY DEF ConsoleInv
<1>3. pos \in 1 .. Len(Text) /\ Text[pos] = "newline"
  BY <1>1, <1>2, ConsoleAssumption DEF Cursor, At, ConsoleTypes
<1>4. pos + 1 \in 1 .. Len(Text) + 1 /\ ColAt(pos + 1) \in Nat
  <2>1. pos + 1 \in 1 .. Len(Text) + 1
    BY <1>3, ConsoleAssumption
  <2>2. QED
    BY <2>1, LayoutFits
<1>5. ConsoleTypes'
  BY <1>1, <1>2, <1>4 DEF ConsoleTypes, Pcs
<1>6. Once'
  BY <1>1, <1>2 DEF Once
<1>7. Cursor'
  <2>1. 0 <= ColAt(pos + 1)
    BY <1>4
  <2>2. QED
    BY <1>1, <1>2, <2>1 DEF Cursor, Putting
<1>8. Clear'
  <2>1. Cell(terminal_col, terminal_row)' = Cell(0, terminal_row)
    BY <1>1 DEF Cell
  <2>2. Cells \subseteq Int /\ Cell(0, terminal_row) \in Nat
    BY <1>2, CellType, ConsoleAssumption DEF Cells, ConsoleTypes
  <2>3. QED
    BY <1>1, <1>2, <2>1, <2>2 DEF Clear
<1>9. Lost'
  <2>1. ~At("char")
    BY <1>3 DEF At
  <2>2. Written' \subseteq Written
    BY <1>1, <1>2, <2>1, KeepWritten
  <2>3. QED
    BY <1>1, <1>2, <2>2, KeepLost
<1>10. QED
  BY <1>5, <1>6, <1>7, <1>8, <1>9 DEF ConsoleInv

\* A character is stored where the cursor is, or, if the handler came between,
\* in front of it.
LEMMA PutCharInv ==
  ASSUME TextFits, ConsoleInv, PutChar
  PROVE  ConsoleInv'
<1> DEFINE k == Cell(x, y)
           f == Cell(terminal_col, terminal_row)
<1>1. /\ mainPc = "put" /\ mainPc' = "loadCol"
      /\ video_mem' = [video_mem EXCEPT ![k] = <<"main", pos>>]
      /\ UNCHANGED <<terminal_row, terminal_col, pos, x, y, idt, intr, irr, isr, full, presses,
                     lines>>
  BY DEF PutChar, Main, picVars, cursor
<1>2. ConsoleTypes /\ Once /\ Cursor /\ Clear /\ Lost
  BY DEF ConsoleInv
<1>3. /\ terminal_row \in Nat /\ terminal_col \in Nat /\ x \in Nat /\ y \in Nat
      /\ pos \in Nat /\ x < Width /\ y <= terminal_row /\ terminal_row < Height /\ y < Height
  <2>1. Height \in Nat /\ y <= terminal_row /\ x < Width
    BY <1>2, ConsoleAssumption DEF Cursor
  <2>2. QED
    BY <1>2, <2>1, OnScreen DEF ConsoleTypes
<1>4. k \in Cells /\ k \in Nat /\ f \in Nat
  BY <1>3, CellType
<1>5. (y = terminal_row /\ k = f) \/ (y # terminal_row /\ lines = 1 /\ k < f)
  <2>1. CASE y = terminal_row
    BY <1>1, <1>2, <2>1 DEF Cursor
  <2>2. CASE y # terminal_row
    <3>1. y < terminal_row
      BY <1>3, <2>2
    <3>2. lines = 1
      BY <1>1, <1>2, <2>2 DEF Cursor
    <3>3. QED
      BY <1>3, <2>2, <3>1, <3>2, CellOrder
  <2>3. QED
    BY <2>1, <2>2
<1>6. f' = f
  BY <1>1 DEF Cell
<1> HIDE DEF k, f
<1>7. ConsoleTypes'
  <2>1. video_mem' \in [Cells -> Marks]
    BY <1>1, <1>2, <1>3, <1>4 DEF ConsoleTypes, Marks
  <2>2. QED
    BY <1>1, <1>2, <2>1 DEF ConsoleTypes, Pcs
<1>8. Once'
  BY <1>1, <1>2 DEF Once
<1>9. Cursor'
  <2>1. At("char")' = At("char")
    BY <1>1 DEF At
  <2>2. QED
    BY <1>1, <1>2, <2>1 DEF Cursor, Putting
<1>10. Clear'
  <2>1. \A c \in Cells : c > f => video_mem'[c] = Blank
    <3>1. \A c \in Cells : c > f => c # k
      BY <1>4, <1>5, ConsoleAssumption DEF Cells
    <3>2. \A c \in Cells : c > f => video_mem[c] = Blank
      BY <1>2 DEF Clear, f
    <3>3. QED
      BY <1>1, <1>2, <3>1, <3>2 DEF ConsoleTypes
  <2>2. QED
    BY <1>1, <1>6, <2>1 DEF Clear, f
<1>11. Lost'
  <2>1. video_mem'[k] = <<"main", pos>> /\ \A c \in Cells \ {k} : video_mem'[c] = video_mem[c]
    BY <1>1, <1>2, <1>4 DEF ConsoleTypes
  <2>2. Written' \subseteq Written \cup {<<"main", pos>>}
    <3>1. ASSUME NEW j \in DOMAIN Text, j < pos \/ j = pos
          PROVE  j < pos \/ <<"main", j>> = <<"main", pos>>
      BY <3>1
    <3>2. QED
      BY <1>1, <3>1 DEF Written
  <2>3. Written' \subseteq Written \cup {video_mem'[c] : c \in {k}}
    BY <2>1, <2>2
  <2>4. /\ Overwritten' \subseteq Overwritten \cup {video_mem[k]}
        /\ video_mem[k] = Blank => Overwritten' \subseteq Overwritten
    BY <1>4, <2>1, <2>3, Write
  <2>5. CASE y = terminal_row
    <3>1. video_mem[k] = Blank
      BY <1>1, <1>2, <1>4, <1>5, <2>5 DEF Clear, f
    <3>2. PICK o : Overwritten \subseteq {o}
      BY <1>2 DEF Lost
    <3>3. QED
      BY <1>1, <1>2, <2>4, <3>1, <3>2 DEF Lost
  <2>6. CASE y # terminal_row
    <3>1. Overwritten = {} /\ lines' = 1
      BY <1>1, <1>2, <1>5, <2>6 DEF Lost
    <3>2. QED
      BY <1>1, <2>4, <3>1 DEF Lost
  <2>7. QED
    BY <2>5, <2>6
<1>12. QED
  BY <1>7, <1>8, <1>9, <1>10, <1>11 DEF ConsoleInv

LEMMA StoreColInv ==
  ASSUME TextFits, ConsoleInv, StoreCol
  PROVE  ConsoleInv'
<1>1. /\ mainPc = "storeCol" /\ mainPc' = "wrap" /\ terminal_col' = x + 1
      /\ UNCHANGED <<video_mem, terminal_row, pos, x, y, idt, intr, irr, isr, full, presses,
                     lines>>
  BY DEF StoreCol, Main, picVars
<1>2. ConsoleTypes /\ Once /\ Cursor /\ Clear /\ Lost
  BY DEF ConsoleInv
<1>3. /\ terminal_row \in Nat /\ terminal_col \in Nat /\ x \in Nat
      /\ terminal_col <= x /\ x <= ColAt(pos)
  BY <1>1, <1>2 DEF ConsoleTypes, Cursor
<1>4. pos \in 1 .. Len(Text) /\ Text[pos] = "char"
  BY <1>1, <1>2, ConsoleAssumption DEF Cursor, At, ConsoleTypes, Putting
<1>5. ColAt(pos) \in Nat /\ ColAt(pos + 1) = ColAt(pos) + 1
  BY <1>4, Layout
<1>6. ConsoleTypes'
  BY <1>1, <1>2, <1>3 DEF ConsoleTypes, Pcs
<1>7. Once'
  BY <1>1, <1>2 DEF Once
<1>8. Cursor'
  <2>1. At("char")' = At("char")
    BY <1>1 DEF At
  <2>2. x + 1 <= ColAt(pos + 1)
    BY <1>3, <1>5
  <2>3. QED
    BY <1>1, <1>2, <2>1, <2>2 DEF Cursor, Putting
<1>9. Clear'
  <2> DEFINE f == Cell(terminal_col, terminal_row)
             g == Cell(x + 1, terminal_row)
  <2>1. f \in Nat /\ g \in Nat /\ f < g
    <3>1. PICK d \in Nat : x + 1 = terminal_col + d /\ d > 0
      <4>1. (x + 1) - terminal_col \in Nat /\ (x + 1) - terminal_col > 0
            /\ x + 1 = terminal_col + ((x + 1) - terminal_col)
        BY <1>3
      <4>2. QED
        BY <4>1
    <3>2. Cell(terminal_col + d, terminal_row) = f + d /\ f \in Nat
      BY <1>3, CellType
    <3>3. QED
      BY <3>1, <3>2
  <2>2. Cell(terminal_col, terminal_row)' = g
    BY <1>1 DEF Cell
  <2>3. \A c \in Cells : c > f => video_mem[c] = Blank
    BY <1>2 DEF Clear
  <2> HIDE DEF f, g
  <2>4. \A c \in Cells : c > g \/ c = g => c > f
    BY <2>1, ConsoleAssumption DEF Cells
  <2>5. QED
    BY <1>1, <2>2, <2>3, <2>4 DEF Clear
<1>10. Lost'
  <2>1. Written' \subseteq Written
    BY <1>1, <1>2, KeepWritten
  <2>2. QED
    BY <1>1, <1>2, <2>1, KeepLost
<1>11. QED
  BY <1>6, <1>7, <1>8, <1>9, <1>10 DEF ConsoleInv

LEMMA WrapInv ==
  ASSUME TextFits, ConsoleInv, Wrap
  PROVE  ConsoleInv'
<1>1. ConsoleTypes /\ Once /\ Cursor /\ Clear /\ Lost
  BY DEF ConsoleInv
<1>2. ~(terminal_row >= Width)
  <2>1. terminal_row < Height /\ Height <= Width /\ terminal_row \in Nat
    BY <1>1, OnScreen DEF TextFits, ConsoleTypes
  <2>2. QED
    BY <2>1, ConsoleAssumption
<1>3. /\ mainPc = "wrap" /\ mainPc' = "next" /\ pos' = pos + 1
      /\ UNCHANGED <<video_mem, terminal_row, terminal_col, x, y, idt, intr, irr, isr, full,
                     presses, lines>>
  BY <1>2 DEF Wrap, Main, cursor, picVars
<1>4. pos \in 1 .. Len(Text) /\ Text[pos] = "char"
  BY <1>1, <1>3, ConsoleAssumption DEF Cursor, At, ConsoleTypes, Putting
<1>5. RowAt(pos) \in Nat /\ RowAt(pos + 1) = RowAt(pos)
  BY <1>4, Layout
<1>6. ConsoleTypes'
  BY <1>1, <1>3, <1>4, ConsoleAssumption DEF ConsoleTypes, Pcs
<1>7. Once'
  BY <1>1, <1>3 DEF Once
<1>8. Cursor'
  BY <1>1, <1>3, <1>5 DEF Cursor, Putting
<1>9. Clear'
  BY <1>1, <1>3 DEF Clear
<1>10. Lost'
  <2>1. Written' \subseteq Written
    BY <1>1, <1>3, KeepWritten
  <2>2. QED
    BY <1>1, <1>3, <2>1, KeepLost
<1>11. QED
  BY <1>6, <1>7, <1>8, <1>9, <1>10 DEF ConsoleInv

\* A step of a device, and an interrupt of which nothing is seen.
LEMMA QuietInv ==
  ASSUME ConsoleInv, Tick \/ Press \/ NoInterrupt
  PROVE  ConsoleInv'
<1>1. ConsoleTypes /\ Once /\ Cursor /\ Clear /\ Lost
  BY DEF ConsoleInv
<1>2. UNCHANGED <<video_mem, terminal_row, terminal_col, mainPc, pos, x, y, idt, lines>>
  BY DEF Tick, Press, NoInterrupt, Serve, cursor, mainVars
<1>3. irr' \subseteq irr \cup {Timer, Keyboard} /\ isr' \subseteq isr \cup {Timer, Keyboard}
  BY DEF Tick, Press, NoInterrupt, Serve, EndOfInterrupt
<1>4. presses' \in 0 .. MaxPresses
  BY <1>1, ConsoleAssumption DEF Tick, Press, NoInterrupt, Serve, ConsoleTypes
<1>5. intr' \in BOOLEAN
  BY <1>1 DEF Tick, Press, NoInterrupt, Serve, ConsoleTypes
<1>6. full' \in BOOLEAN /\ (full => full')
  BY <1>1 DEF Tick, Press, NoInterrupt, Serve, ConsoleTypes
<1>7. /\ Keyboard \in irr' => Keyboard \in irr \/ (~full /\ full')
  BY DEF Tick, Press, NoInterrupt, Serve, Timer, Keyboard
<1>8. ConsoleTypes'
  BY <1>1, <1>2, <1>3, <1>4, <1>5, <1>6 DEF ConsoleTypes
<1>9. Once'
  BY <1>1, <1>2, <1>6, <1>7 DEF Once
<1>10. Cursor'
  <2>1. At("newline")' = At("newline") /\ At("char")' = At("char")
    BY <1>2 DEF At
  <2>2. QED
    BY <1>1, <1>2, <2>1 DEF Cursor, Putting
<1>11. Clear'
  BY <1>1, <1>2 DEF Clear
<1>12. Lost'
  BY <1>1, <1>2, KeepWritten, KeepLost
<1>13. QED
  BY <1>8, <1>9, <1>10, <1>11, <1>12 DEF ConsoleInv

\* The keyboard's handler runs once, and prints where the screen is blank, but
\* for the cell of a character that kernel_main has just printed.
LEMMA Int21hInv ==
  ASSUME TextFits, TimerIsOther, ConsoleInv, Int21h
  PROVE  ConsoleInv'
<1> DEFINE at == Cell(terminal_col, terminal_row)
           s == at .. at + KeyLength - 1
<1>1. ConsoleTypes /\ Once /\ Cursor /\ Clear /\ Lost
  BY DEF ConsoleInv
<1>2. PICK n \in {Timer, Keyboard} : Serve(n, "int21h")
  BY DEF Int21h
<1>3. n = Keyboard
  <2>1. idt[PicBase + n] = "int21h" /\ PicBase + n \in 0 .. Vectors - 1
    BY <1>2, ConsoleAssumption DEF Serve, Timer, Keyboard
  <2>2. PicBase + n = Vector21h
    BY <1>1, <2>1 DEF ConsoleTypes, Idt
  <2>3. n # Timer
    BY <2>2, ConsoleAssumption DEF TimerIsOther, Timer
  <2>4. QED
    BY <2>3
<1>4. Keyboard \in irr /\ full /\ lines = 0
  <2>1. Keyboard \in irr /\ full
    BY <1>1, <1>2, <1>3 DEF Serve, Deliverable, Once
  <2>2. lines \in Nat /\ lines <= 1 /\ lines # 1
    BY <1>1, <2>1 DEF Once, ConsoleTypes
  <2>3. QED
    BY <2>1, <2>2
<1>5. /\ irr' = irr \ {Keyboard} /\ isr' \subseteq isr \cup {Keyboard}
      /\ UNCHANGED <<mainPc, pos, x, y, idt, intr, full, presses>>
  BY <1>2, <1>3 DEF Serve, EndOfInterrupt, mainVars
<1>6. /\ terminal_row' = terminal_row + 1 /\ terminal_col' = 0 /\ lines' = 1
      /\ video_mem' = [c \in Cells |-> IF c \in s THEN <<"key", c - at>> ELSE video_mem[c]]
  BY <1>4 DEF Int21h, HandlerColumn
<1>7. /\ terminal_row \in Nat /\ terminal_col \in Nat /\ terminal_row < Height
      /\ terminal_col < Width /\ terminal_col + (KeyLength - 1) < Width
      /\ KeyLength - 1 \in Nat /\ KeyLength \in Nat /\ Width \in Nat
  <2>1. KeyLength \in Nat /\ KeyLength >= 1 /\ Width \in Nat
    BY ConsoleAssumption
  <2>2. /\ terminal_row \in Nat /\ terminal_col \in Nat /\ terminal_row < Height
        /\ terminal_col < Width /\ terminal_col + KeyLength <= Width
    BY <1>1, OnScreen DEF ConsoleTypes
  <2>3. QED
    BY <2>1, <2>2
<1> DEFINE g == Cell(0, terminal_row + 1)
<1>8. /\ at \in Nat /\ at \in Cells /\ at + (KeyLength - 1) \in Cells /\ g \in Nat
      /\ at + (KeyLength - 1) < g
  <2>1. at \in Nat /\ at \in Cells
    BY <1>7, CellType
  <2>2. Cell(terminal_col + (KeyLength - 1), terminal_row) = at + (KeyLength - 1)
    BY <1>7, CellType
  <2>3. terminal_col + (KeyLength - 1) \in Nat /\ terminal_row + 1 \in Nat
        /\ terminal_row < terminal_row + 1
    BY <1>7
  <2>4. Cell(terminal_col + (KeyLength - 1), terminal_row) \in Cells
    BY <1>7, <2>3, CellType
  <2>5. Cell(terminal_col + (KeyLength - 1), terminal_row) < g
    BY <1>7, <2>3, CellOrder
  <2>6. g \in Nat
    BY <2>3, CellType
  <2>7. QED
    BY <2>1, <2>2, <2>4, <2>5, <2>6
<1>9. Cell(terminal_col, terminal_row)' = g /\ Cell(0, terminal_row)' = g
  BY <1>6 DEF Cell
<1>10. \A c \in Cells : c > at => video_mem[c] = Blank
  BY <1>1 DEF Clear
<1>11. mainPc \notin {"loadCol", "storeCol"} => video_mem[at] = Blank
  BY <1>1, <1>8 DEF Clear
<1> HIDE DEF at, g
<1>12. ConsoleTypes'
  <2>1. video_mem' \in [Cells -> Marks]
    <3>1. \A c \in s : c - at \in Nat
      BY <1>7, <1>8
    <3>2. \A c \in s : <<"key", c - at>> \in Marks
      BY <3>1 DEF Marks
    <3>3. QED
      BY <1>1, <1>6, <3>2 DEF ConsoleTypes
  <2>2. QED
    BY <1>1, <1>5, <1>6, <1>7, <2>1 DEF ConsoleTypes
<1>13. Once'
  BY <1>4, <1>5, <1>6 DEF Once
<1>14. Cursor'
  <2>1. At("newline")' = At("newline") /\ At("char")' = At("char")
    BY <1>5 DEF At
  <2> DEFINE j == IF mainPc = "clearCol" THEN pos + 1 ELSE pos
             m == IF mainPc = "wrap" THEN pos + 1 ELSE pos
  <2>2. j \in 1 .. Len(Text) + 1 /\ m \in 1 .. Len(Text) + 1
    BY <1>1, ConsoleAssumption DEF ConsoleTypes, Cursor, At, Putting
  <2>3. RowAt(j) \in Nat /\ ColAt(m) \in Nat /\ ColAt(pos) \in Nat
    BY <1>1, <2>2, LayoutFits DEF ConsoleTypes
  <2>4. terminal_row <= RowAt(j)
    BY <1>1, <1>4, <1>7, <2>3 DEF Cursor
  <2>5. terminal_row' <= lines' + RowAt(j) /\ terminal_col' <= ColAt(m)
    BY <1>6, <1>7, <2>3, <2>4
  <2>6. y <= terminal_row' /\ y # terminal_row'
    BY <1>1, <1>6, <1>7 DEF Cursor, ConsoleTypes
  <2>7. mainPc \in {"storeRow", "putCol", "put"} => y + 1 = terminal_row'
    BY <1>1, <1>4, <1>6 DEF Cursor
  <2>8. 0 <= x
    BY <1>1 DEF ConsoleTypes
  <2>9. QED
    BY <1>1, <1>5, <1>6, <2>1, <2>5, <2>6, <2>7, <2>8 DEF Cursor, Putting
<1>15. Clear'
  <2>1. \A c \in Cells : c >= g => video_mem'[c] = Blank
    <3>1. \A c \in Cells : c >= g => c > at /\ c \notin s
      BY <1>7, <1>8, ConsoleAssumption DEF Cells
    <3>2. QED
      BY <1>6, <1>10, <3>1
  <2>2. \A c \in Cells : c > g \/ c = g => c >= g
    BY <1>8, ConsoleAssumption DEF Cells
  <2>3. QED
    BY <1>9, <2>1, <2>2 DEF Clear
<1>16. Lost'
  <2>1. s \subseteq Cells
    BY <1>7, <1>8, ConsoleAssumption DEF Cells
  <2>2. \A c \in Cells \ s : video_mem'[c] = video_mem[c]
    BY <1>6
  <2>3. \A j \in 0 .. KeyLength - 1 : \E c \in s : video_mem'[c] = <<"key", j>>
    <3> SUFFICES ASSUME NEW j \in 0 .. KeyLength - 1
                 PROVE  \E c \in s : video_mem'[c] = <<"key", j>>
      OBVIOUS
    <3>1. at + j \in s /\ (at + j) - at = j
      BY <1>7, <1>8
    <3>2. video_mem'[at + j] = <<"key", j>>
      BY <1>6, <2>1, <3>1
    <3>3. QED
      BY <3>1, <3>2
  <2>4. Written' \subseteq Written \cup {<<"key", j>> : j \in 0 .. KeyLength - 1}
    BY <1>5 DEF Written
  <2> HIDE DEF s
  <2>5. Written' \subseteq Written \cup {video_mem'[c] : c \in s}
    BY <2>3, <2>4
  <2>6. \A c \in s \ {at} : video_mem[c] = Blank
    BY <1>7, <1>8, <1>10, <2>1 DEF s
  <2>7. /\ Overwritten' \subseteq Overwritten \cup {video_mem[at]}
        /\ video_mem[at] = Blank => Overwritten' \subseteq Overwritten
    BY <2>1, <2>2, <2>5, <2>6, Write
  <2>8. Overwritten = {}
    BY <1>1, <1>4 DEF Lost
  <2>9. QED
    BY <1>5, <1>6, <1>11, <2>7, <2>8 DEF Lost
<1>17. QED
  BY <1>12, <1>13, <1>14, <1>15, <1>16 DEF ConsoleInv

LEMMA ConsoleStepInv == Fits /\ ConsoleInv /\ [ConsoleNext]_consoleVars => ConsoleInv'
<1> SUFFICES ASSUME TextFits, TimerIsOther, ConsoleInv, [ConsoleNext]_consoleVars
             PROVE  ConsoleInv'
  BY DEF Fits
<1>1. CASE MainStep
  BY <1>1, SilentInv, LoadInv, StoreRowInv, ClearColInv, PutCharInv, StoreColInv, WrapInv
     DEF MainStep
<1>2. CASE Tick \/ Press \/ NoInterrupt
  BY <1>2, QuietInv
<1>3. CASE Int21h
  BY <1>3, Int21hInv
<1>4. CASE UNCHANGED consoleVars
  <2>1. UNCHANGED <<video_mem, terminal_row, terminal_col, mainPc, pos, x, y, idt, intr, irr, isr,
                    full, presses, lines>>
    BY <1>4 DEF consoleVars, cursor, mainVars, picVars
  <2>2. ConsoleTypes' /\ Once' /\ Clear'
    BY <2>1 DEF ConsoleInv, ConsoleTypes, Once, Clear
  <2>3. Cursor'
    <3>1. At("newline")' = At("newline") /\ At("char")' = At("char")
      BY <2>1 DEF At
    <3>2. QED
      BY <2>1, <3>1 DEF ConsoleInv, Cursor, Putting
  <2>4. Lost'
    BY <2>1, KeepWritten, KeepLost DEF ConsoleInv
  <2>5. QED
    BY <2>2, <2>3, <2>4 DEF ConsoleInv
<1>5. QED
  BY <1>1, <1>2, <1>3, <1>4 DEF ConsoleNext

\* If the text fits the screen and the timer has another handler, the cursor
\* stays on the screen with room for the handler's line, and every variable in
\* its range.  (terminal_writechar, which compares with the width only)
THEOREM ConsoleTypeCorrect ==
  ASSUME Fits
  PROVE  ConsoleSpec => []ConsoleTypeOK
<1>1. ConsoleInv => ConsoleTypeOK
  <2> SUFFICES ASSUME ConsoleTypes, Once, Cursor PROVE ConsoleTypeOK
    BY DEF ConsoleInv
  <2>1. TextFits /\ Width \in Nat /\ Height \in Nat /\ KeyLength \in Nat
    BY ConsoleAssumption DEF Fits
  <2>2. terminal_row < Height /\ terminal_col + KeyLength <= Width
    BY <2>1, OnScreen
  <2>3. /\ terminal_row \in 0 .. Height - 1 /\ terminal_col \in 0 .. Width - KeyLength
        /\ x \in 0 .. Width - 1 /\ y \in 0 .. Height - 1
    BY <2>1, <2>2 DEF ConsoleTypes, Cursor
  <2>4. \A c \in Cells : video_mem[c][1] \in {"blank", "main", "key"}
    <3>1. \A w \in Marks : w[1] \in {"blank", "main", "key"}
      BY DEF Marks, Blank
    <3>2. QED
      BY <3>1 DEF ConsoleTypes
  <2>5. idt \in [0 .. Vectors - 1 -> {"none", "no_interrupt", "idt_zero", "int21h"}]
    BY DEF ConsoleTypes, Idt
  <2>6. QED
    BY <2>3, <2>4, <2>5 DEF ConsoleTypes, ConsoleTypeOK
<1>2. Fits /\ ConsoleInit => ConsoleInv
  BY ConsoleInitInv DEF Fits
<1>3. QED
  BY <1>1, <1>2, ConsoleStepInv, PTL DEF ConsoleSpec

\* On the same conditions, wherever the interrupt hits kernel_main's printing,
\* at most one character of either text is overwritten by the other.
\* (terminal_writechar)
THEOREM OneLost ==
  ASSUME Fits
  PROVE  ConsoleSpec => []AtMostOneLost
<1>1. ConsoleInv => AtMostOneLost
  <2> SUFFICES ASSUME Lost PROVE Cardinality(Overwritten) <= 1
    BY DEF ConsoleInv, AtMostOneLost
  <2>1. PICK o : Overwritten \subseteq {o}
    BY DEF Lost
  <2>2. Overwritten = {} \/ Overwritten = {o}
    BY <2>1
  <2>3. CASE Overwritten = {}
    <3>1. Cardinality({}) = 0
      BY FS_EmptySet
    <3>2. QED
      BY <2>3, <3>1
  <2>4. CASE Overwritten = {o}
    <3>1. Cardinality({o}) = 1
      BY FS_Singleton
    <3>2. QED
      BY <2>4, <3>1
  <2>5. QED
    BY <2>2, <2>3, <2>4
<1>2. Fits /\ ConsoleInit => ConsoleInv
  BY ConsoleInitInv DEF Fits
<1>3. QED
  BY <1>1, <1>2, ConsoleStepInv, PTL DEF ConsoleSpec

=============================================================================
