--------------------------- MODULE FatReadProofs ---------------------------
(***************************************************************************)
(* Theorems about reading a file's bytes, for every geometry of the volume,*)
(* every chain of clusters, every width of an int and every read.          *)
(***************************************************************************)
EXTENDS FatRead, Numbers, SequenceTheorems, TLAPS

-----------------------------------------------------------------------------
(* Integers.                                                               *)

IntRange == -IntHalf .. IntHalf - 1

\* Of what is not negative, C's division is the usual one.
LEMMA QuotientNat ==
  ASSUME NEW a \in Nat, NEW m \in Nat \ {0}
  PROVE  Quotient(a, m) = a \div m /\ Remainder(a, m) = a % m
<1>1. Quotient(a, m) = a \div m
  BY DEF Quotient
<1> DEFINE q == a \div m
           r == a % m
<1>2. Remainder(a, m) = a - m * q
  BY <1>1 DEF Remainder
<1>3. q \in Int /\ r \in Int /\ a = q * m + r
  BY DivisionFacts
<1> HIDE DEF q, r
<1>4. m * q = q * m /\ a - m * q = r
  BY <1>3
<1>5. QED
  BY <1>1, <1>2, <1>4 DEF q, r

\* An int holds what is made of any integer.
LEMMA SignedType ==
  ASSUME NEW v \in Int
  PROVE  Signed(v) \in IntRange
BY FatReadAssumption DEF Signed, IntRange

LEMMA SignedSame ==
  ASSUME NEW v \in IntRange
  PROVE  Signed(v) = v
BY FatReadAssumption DEF Signed, IntRange

\* Division does not leave the range of an int.
LEMMA QuotientType ==
  ASSUME NEW a \in IntRange, NEW m \in Nat \ {0}
  PROVE  Quotient(a, m) \in IntRange
BY FatReadAssumption DEF Quotient, IntRange

LEMMA RemainderType ==
  ASSUME NEW a \in Int, NEW m \in Nat \ {0}
  PROVE  Remainder(a, m) \in Int
BY DEF Quotient, Remainder

LEMMA LeastType ==
  ASSUME NEW a \in Int, NEW b \in Int
  PROVE  /\ Least(a, b) \in {a, b}
         /\ Least(a, b) <= a /\ Least(a, b) <= b
BY DEF Least

LEMMA ClusterBytesType == ClusterBytes \in Nat \ {0}
BY FatReadAssumption DEF ClusterBytes

-----------------------------------------------------------------------------
(* The variables' values.                                                  *)

ReadRequest ==
  [pos : 0 .. 2 * IntHalf - 1, size : 1 .. 2 * IntHalf - 1, nmemb : 1 .. 2 * IntHalf - 1]

TypeInv ==
  /\ pc \in {"idle", "member", "retrieve", "walk", "sector"}
  /\ rd \in ReadRequest
  /\ k \in 0 .. rd.nmemb
  /\ pc \in {"retrieve", "walk", "sector"} => k < rd.nmemb
  /\ offset \in IntRange /\ ahead \in IntRange /\ spos \in IntRange
  /\ total \in IntRange /\ chunk \in IntRange /\ ret \in IntRange
  /\ pc = "idle" => total = 0 /\ chunk = 0
  /\ rd.size < IntHalf => total \in 0 .. rd.size /\ chunk \in Nat
  /\ rd.size >= IntHalf => total <= 0 /\ chunk <= 0
  /\ chunk <= ClusterBytes
  /\ cl \in Nat
  /\ out \in Seq(Int)

LEMMA ReadType ==
  ASSUME NEW r \in ReadRequest
  PROVE  /\ r.pos \in Nat /\ r.size \in Nat \ {0} /\ r.nmemb \in Nat \ {0}
         /\ r.pos < 2 * IntHalf /\ r.size < 2 * IntHalf /\ r.nmemb < 2 * IntHalf
         /\ IntHalf \in Nat \ {0}
BY FatReadAssumption DEF ReadRequest

\* A member of 2 GB or more has a negative int.
LEMMA SizeSigned ==
  ASSUME NEW r \in ReadRequest
  PROVE  /\ Signed(r.size) \in IntRange
         /\ r.size < IntHalf => Signed(r.size) = r.size
         /\ r.size >= IntHalf => Signed(r.size) < 0
<1>1. r.size \in Nat /\ r.size < 2 * IntHalf /\ IntHalf \in Nat \ {0}
  BY ReadType
<1>2. Signed(r.size) \in IntRange
  BY <1>1, SignedType
<1>3. r.size < IntHalf => Signed(r.size) = r.size
  BY <1>1, SignedSame DEF IntRange
<1>4. r.size >= IntHalf => Signed(r.size) < 0
  <2>1. SUFFICES ASSUME r.size >= IntHalf PROVE Signed(r.size) < 0
    OBVIOUS
  <2> DEFINE m == 2 * IntHalf
             a == r.size - IntHalf
  <2>2. m \in Nat \ {0} /\ a \in 0 .. m - 1 /\ 1 * m + a = r.size + IntHalf /\ a < IntHalf
    BY <1>1, <2>1
  <2> HIDE DEF m, a
  <2>3. (1 * m + a) % m = a
    BY <2>2, DivisionUnique
  <2>4. (r.size + IntHalf) % m = a
    BY <2>2, <2>3
  <2>5. Signed(r.size) = a - IntHalf
    BY <2>4 DEF Signed, m
  <2>6. QED
    BY <1>1, <2>2, <2>5
<1>5. QED
  BY <1>2, <1>3, <1>4

LEMMA ChainType ==
  /\ Len(Chain) \in Nat \ {0}
  /\ \A j \in 1 .. Len(Chain) : Chain[j] \in Nat
  /\ DOMAIN Chain = 1 .. Len(Chain)
  /\ \A c : FatEntries(c) \subseteq Nat
<1>1. /\ Chain \in Seq(Nat \ {0, 1}) /\ Len(Chain) \in Nat
      /\ DOMAIN Chain = 1 .. Len(Chain)
  BY FatReadAssumption
<1>2. Len(Chain) # 0
  BY FatReadAssumption, EmptySeq
<1>3. \A j \in 1 .. Len(Chain) : Chain[j] \in Nat
  BY <1>1
<1>4. \A c : FatEntries(c) \subseteq Nat
  <2>1. ASSUME NEW c, NEW j \in DOMAIN Chain
        PROVE  (IF j = Len(Chain) THEN EndMark ELSE Chain[j + 1]) \in Nat
    BY <1>1, <1>3, FatReadAssumption
  <2>2. QED
    BY <2>1, FatReadAssumption DEF FatEntries
<1>5. QED
  BY <1>1, <1>2, <1>3, <1>4

LEMMA InitType == Init => TypeInv
<1> SUFFICES ASSUME Init PROVE TypeInv
  OBVIOUS
<1>1. Chain[1] \in Nat /\ NoRead \in ReadRequest
  BY ChainType, FatReadAssumption DEF NoRead, ReadRequest
<1>2. <<>> \in Seq(Int)
  BY EmptySeq
<1>3. QED
  BY <1>1, <1>2, ClusterBytesType, FatReadAssumption DEF Init, TypeInv, NoRead, IntRange

LEMMA ReturnType ==
  ASSUME TypeInv, NEW r \in IntRange, Return(r)
  PROVE  TypeInv'
<1>1. Chain[1] \in Nat /\ NoRead \in ReadRequest
  BY ChainType, FatReadAssumption DEF NoRead, ReadRequest
<1>2. <<>> \in Seq(Int)
  BY EmptySeq
<1>3. QED
  BY <1>1, <1>2, ClusterBytesType, FatReadAssumption DEF Return, TypeInv, NoRead, IntRange

\* The bytes that one call of diskstreamer_read copies.
Copied == [j \in 1 .. Piece(chunk) |-> Buffered(spos, j - 1)]

LEMMA PieceType ==
  ASSUME TypeInv
  PROVE  /\ Piece(chunk) \in Int
         /\ Piece(chunk) = (IF chunk > SectorSize THEN SectorSize ELSE chunk)
         /\ chunk \in Nat => Piece(chunk) \in Nat
         /\ Copied \in Seq(Int)
         /\ Len(Copied) = IF chunk \in Nat THEN Piece(chunk) ELSE 0
         /\ \A j \in 1 .. Piece(chunk) : Copied[j] = Buffered(spos, j - 1)
<1>1. chunk \in Int /\ spos \in Int
  BY FatReadAssumption DEF TypeInv, IntRange
<1>2. /\ Piece(chunk) \in Int
      /\ Piece(chunk) = (IF chunk > SectorSize THEN SectorSize ELSE chunk)
      /\ chunk \in Nat => Piece(chunk) \in Nat
  BY <1>1, FatReadAssumption DEF Piece, Least
<1>3. \A j \in 1 .. Piece(chunk) : Buffered(spos, j - 1) \in Int
  BY <1>1, <1>2 DEF Buffered, Junk
<1>4. Copied \in [1 .. Piece(chunk) -> Int]
  BY <1>3 DEF Copied
<1>5. Copied \in Seq(Int) /\ Len(Copied) = IF chunk \in Nat THEN Piece(chunk) ELSE 0
  <2>1. CASE chunk \in Nat
    BY <1>2, <1>4, <2>1, SeqDef, LenProperties
  <2>2. CASE chunk \notin Nat
    <3>1. 1 .. Piece(chunk) = 1 .. 0
      <4>1. Piece(chunk) < 0
        BY <1>1, <1>2, <2>2, FatReadAssumption
      <4>2. QED
        BY <1>2, <4>1
    <3>2. Copied \in [1 .. 0 -> Int] /\ 0 \in Nat
      BY <1>4, <3>1
    <3>3. Copied \in Seq(Int) /\ Len(Copied) = 0
      BY <3>2, SeqDef, LenProperties
    <3>4. QED
      BY <2>2, <3>3
  <2>3. QED
    BY <2>1, <2>2
<1>6. QED
  BY <1>2, <1>5 DEF Copied

\* Of a negative total nothing is copied.
LEMMA NothingCopied ==
  ASSUME TypeInv, chunk <= 0
  PROVE  Copied = <<>>
<1>1. chunk \in Int
  BY FatReadAssumption DEF TypeInv, IntRange
<1>2. Copied \in Seq(Int) /\ Len(Copied) = 0
  <2>1. CASE chunk = 0
    BY <2>1, PieceType, FatReadAssumption
  <2>2. CASE chunk # 0
    <3>1. chunk \notin Nat
      BY <1>1, <2>2
    <3>2. QED
      BY <3>1, PieceType
  <2>3. QED
    BY <2>1, <2>2
<1>3. QED
  BY <1>2, EmptySeq

LEMMA OutGrows ==
  ASSUME TypeInv, chunk \in Nat
  PROVE  /\ out \o Copied \in Seq(Int)
         /\ Len(out \o Copied) = Len(out) + Piece(chunk)
         /\ \A j \in 1 .. Len(out) + Piece(chunk) :
              (out \o Copied)[j] = IF j <= Len(out) THEN out[j] ELSE Copied[j - Len(out)]
<1>1. out \in Seq(Int) /\ Copied \in Seq(Int) /\ Len(Copied) = Piece(chunk)
  BY PieceType DEF TypeInv
<1>2. /\ out \o Copied \in Seq(Int)
      /\ Len(out \o Copied) = Len(out) + Len(Copied)
      /\ \A j \in 1 .. Len(out) + Len(Copied) :
           (out \o Copied)[j] = IF j <= Len(out) THEN out[j] ELSE Copied[j - Len(out)]
  BY <1>1, ConcatProperties
<1>3. QED
  BY <1>1, <1>2

LEMMA TypeStep == TypeInv /\ [Next]_vars => TypeInv'
<1> SUFFICES ASSUME TypeInv, [Next]_vars
             PROVE  TypeInv'
  OBVIOUS
<1> USE DEF TypeInv
<1>i. IntRange \subseteq Int /\ \A a \in IntRange : a > 0 => a - 1 \in IntRange
  BY FatReadAssumption DEF IntRange
<1>r. /\ rd.pos \in Nat /\ rd.size \in Nat \ {0} /\ rd.nmemb \in Nat \ {0}
      /\ IntHalf \in Nat \ {0} /\ total \in Int /\ chunk \in Int
  BY <1>i, ReadType
<1>1. ASSUME NEW r \in Reads, Read(r)
      PROVE  TypeInv'
  <2>1. r \in ReadRequest /\ r.nmemb \in Nat /\ r.size \in Nat
    <3>1. r \in ReadRequest
      BY FatReadAssumption DEF ReadRequest
    <3>2. QED
      BY <3>1, ReadType
  <2>2. total' = 0 /\ chunk' = 0 /\ k' = 0
    BY <1>1 DEF Read
  <2>3. out' \in Seq(Int) /\ out' = <<>>
    BY <1>1, EmptySeq DEF Read
  <2>4. QED
    BY <1>1, <2>1, <2>2, <2>3 DEF Read
<1>2. CASE NextMember
  <2>1. rd.pos + k * rd.size \in Int
    BY <1>r
  <2>2. MemberOffset(k) \in IntRange
    BY <2>1, SignedType DEF MemberOffset
  <2>3. /\ total' \in IntRange
        /\ rd.size < IntHalf => total' = rd.size
        /\ rd.size >= IntHalf => total' < 0
    BY <1>2, SizeSigned DEF NextMember
  <2>4. /\ rd.size < IntHalf => total' \in 0 .. rd.size
        /\ rd.size >= IntHalf => total' <= 0
    BY <1>r, <1>i, <2>3
  <2>5. QED
    BY <1>2, <1>r, <2>2, <2>3, <2>4 DEF NextMember
<1>3. CASE ReadReturns
  <2>1. Signed(rd.nmemb) \in IntRange
    BY <1>r, SignedType
  <2>2. QED
    BY <1>3, <2>1, ReturnType DEF ReadReturns
<1>4. CASE Retrieve
  <2>1. Quotient(offset, ClusterBytes) \in IntRange
    BY QuotientType, ClusterBytesType
  <2>2. QED
    BY <1>4, <2>1, ChainType DEF Retrieve
<1>5. ASSUME NEW e \in FatEntries(cl), Walk(e)
      PROVE  TypeInv'
  <2>1. CASE e \in StopEntries
    <3>1. -EIO \in IntRange
      BY <1>r DEF EIO, IntRange
    <3>2. QED
      BY <1>5, <2>1, <3>1, ReturnType DEF Walk
  <2>2. CASE e \notin StopEntries
    BY <1>5, <1>i, <2>2, ChainType DEF Walk
  <2>3. QED
    BY <2>1, <2>2
<1>6. CASE StartChunk
  <2>1. Position(cl, offset) \in IntRange
    <3>1. ClusterSector(cl) * SectorSize \in Int
      BY FatReadAssumption DEF ClusterSector
    <3>2. Remainder(offset, ClusterBytes) \in Int
      BY <1>i, RemainderType, ClusterBytesType
    <3>3. QED
      BY <3>1, <3>2, SignedType DEF Position
  <2>2. /\ chunk' \in IntRange /\ chunk' <= ClusterBytes
        /\ total' \in IntRange
        /\ rd.size < IntHalf => chunk' \in Nat /\ total' \in 0 .. rd.size
        /\ rd.size >= IntHalf => chunk' <= 0 /\ total' <= 0
    <3>1. chunk' = (IF total < ClusterBytes THEN total ELSE ClusterBytes) /\ total' = total - chunk'
      BY <1>6 DEF StartChunk, Least
    <3>2. ClusterBytes \in Nat \ {0} /\ total \in IntRange
      BY ClusterBytesType
    <3>3. chunk' \in IntRange /\ chunk' <= ClusterBytes /\ total' \in IntRange
      BY <1>r, <3>1, <3>2 DEF IntRange
    <3>4. rd.size < IntHalf => chunk' \in Nat /\ total' \in 0 .. rd.size
      BY <1>r, <3>1, <3>2
    <3>5. rd.size >= IntHalf => chunk' <= 0 /\ total' <= 0
      BY <1>r, <3>1, <3>2
    <3>6. QED
      BY <3>3, <3>4, <3>5
  <2>3. offset' \in IntRange
    <3>1. offset + chunk' \in Int /\ offset' = Signed(offset + chunk')
      BY <1>6, <1>i, <2>2 DEF StartChunk
    <3>2. QED
      BY <3>1, SignedType
  <2>4. /\ pc' = "sector" /\ rd' = rd /\ k' = k /\ ahead' = ahead /\ cl' = cl
        /\ out' = out /\ ret' = ret /\ spos' = Position(cl, offset) /\ k < rd.nmemb
    BY <1>6 DEF StartChunk
  <2>5. QED
    BY <2>1, <2>2, <2>3, <2>4
<1>7. CASE ReadSector
  <2>1. Piece(chunk) \in Int /\ spos \in Int
    BY <1>i, PieceType
  <2>2. spos' \in IntRange
    <3>1. spos' = Signed(spos + Piece(chunk))
      BY <1>7 DEF ReadSector
    <3>2. QED
      BY <2>1, <3>1, SignedType
  <2>3. out' \in Seq(Int)
    <3>1. out' = out \o Copied /\ Copied \in Seq(Int)
      BY <1>7, PieceType DEF ReadSector, Copied
    <3>2. QED
      BY <3>1, ConcatProperties
  <2>4. /\ pc' \in {"member", "retrieve", "sector"}
        /\ k' \in 0 .. rd.nmemb
        /\ pc' \in {"retrieve", "walk", "sector"} => k' < rd.nmemb
    <3>1. k \in Nat /\ k < rd.nmemb
      BY <1>7, <1>r DEF ReadSector
    <3>2. QED
      BY <1>7, <3>1, <1>r DEF ReadSector
  <2>5. /\ chunk' \in IntRange /\ chunk' <= ClusterBytes
        /\ rd.size < IntHalf => chunk' \in Nat
        /\ rd.size >= IntHalf => chunk' <= 0
    <3>1. chunk' = IF chunk > SectorSize THEN chunk - SectorSize ELSE 0
      BY <1>7 DEF ReadSector
    <3>2. /\ SectorSize \in Nat /\ ClusterBytes \in Nat
          /\ chunk \in -IntHalf .. IntHalf - 1 /\ chunk <= ClusterBytes
          /\ rd.size >= IntHalf => chunk <= 0
      BY FatReadAssumption, ClusterBytesType DEF IntRange
    <3>3. chunk' \in -IntHalf .. IntHalf - 1 /\ chunk' <= ClusterBytes /\ chunk' \in Nat
      BY <1>r, <3>1, <3>2
    <3>4. rd.size >= IntHalf => chunk' <= 0
      BY <1>r, <3>1, <3>2
    <3>5. QED
      BY <3>3, <3>4 DEF IntRange
  <2>6. rd' = rd /\ offset' = offset /\ total' = total /\ ahead' = ahead /\ cl' = cl /\ ret' = ret
    BY <1>7 DEF ReadSector
  <2>7. QED
    BY <2>2, <2>3, <2>4, <2>5, <2>6
<1>8. CASE UNCHANGED vars
  BY <1>8 DEF vars
<1>9. QED
  BY <1>1, <1>2, <1>3, <1>4, <1>5, <1>6, <1>7, <1>8 DEF Next, Step


LEMMA TypeInvTypeOK == TypeInv => TypeOK
BY ElementOfSeq, LenProperties DEF TypeInv, TypeOK, IntRange

\* Every variable keeps its type, and no int leaves its range, whatever is
\* read from whatever chain of clusters.
THEOREM TypeCorrect == Spec => []TypeOK
BY InitType, TypeStep, TypeInvTypeOK, PTL DEF Spec

-----------------------------------------------------------------------------
(* The account of bytes.                                                   *)

\* What was stored and what is still to be read add up to whole members, if
\* these are of less than 2 GB; else nothing is ever stored.
Account ==
  /\ pc = "idle" => k = 0 /\ out = <<>>
  /\ rd.size >= IntHalf => out = <<>>
  /\ rd.size < IntHalf =>
       /\ pc = "member" => Len(out) = k * rd.size
       /\ pc \in {"retrieve", "walk"} => total > 0 /\ Len(out) + total = k * rd.size + rd.size
       /\ pc = "sector" => /\ chunk > 0 /\ chunk + total <= rd.size
                           /\ Len(out) + chunk + total = k * rd.size + rd.size

\* Members of 2 GB and more.
LEMMA BigStep ==
  ASSUME TypeInv, Account, [Next]_vars, rd' = rd, rd.size >= IntHalf
  PROVE  out' = <<>>
<1>1. out = <<>>
  BY DEF Account
<1>2. CASE ReadSector
  <2>1. Copied = <<>> /\ out' = out \o Copied
    BY <1>2, NothingCopied DEF ReadSector, Copied, TypeInv
  <2>2. <<>> \o <<>> = <<>>
    OBVIOUS
  <2>3. QED
    BY <1>1, <2>1, <2>2
<1>3. CASE ~ReadSector
  BY <1>1, <1>3 DEF Next, Step, Read, NextMember, ReadReturns, Retrieve, Walk, StartChunk, Return, vars
<1>4. QED
  BY <1>2, <1>3

LEMMA InitAccount == Init => Account
BY DEF Init, Account

LEMMA AccountStep == TypeInv /\ Account /\ [Next]_vars => Account'
<1> SUFFICES ASSUME TypeInv, Account, [Next]_vars
             PROVE  Account'
  OBVIOUS
<1> USE DEF Account
<1>h. IntHalf \in Nat \ {0} /\ rd.size \in Nat \ {0}
  BY ReadType DEF TypeInv
<1>b. ASSUME rd' = rd, ~(rd.size < IntHalf)
      PROVE  Account' \/ pc' = "idle"
  BY <1>b, <1>h, BigStep
<1>r. /\ rd.size \in Nat \ {0} /\ rd.nmemb \in Nat \ {0} /\ k \in Nat /\ total \in Int
      /\ chunk \in Int
      /\ rd.size < IntHalf => total \in Nat /\ chunk \in Nat
      /\ k * rd.size \in Nat /\ (k + 1) * rd.size = k * rd.size + rd.size
  <2>1. rd.size \in Nat \ {0} /\ rd.nmemb \in Nat \ {0} /\ k \in Nat
    BY ReadType DEF TypeInv
  <2>2. total \in Int /\ chunk \in Int
    BY <1>h DEF TypeInv, IntRange
  <2>3. rd.size < IntHalf => total \in Nat /\ chunk \in Nat
    BY DEF TypeInv
  <2>4. k * rd.size \in Nat /\ (k + 1) * rd.size = k * rd.size + rd.size
    BY <2>1
  <2>5. QED
    BY <2>1, <2>2, <2>3, <2>4
<1>o. out \in Seq(Int) /\ Len(out) \in Nat
  BY DEF TypeInv
<1>1. ASSUME NEW r \in Reads, Read(r)
      PROVE  Account'
  <2>1. 0 * r.size = 0
    <3>1. r \in ReadRequest
      BY FatReadAssumption DEF ReadRequest
    <3>2. QED
      BY <3>1, ReadType
  <2>2. QED
    BY <1>1, <2>1, EmptySeq DEF Read
<1>2. CASE NextMember
  <2>1. rd.size < IntHalf => total' = rd.size
    BY <1>2, SizeSigned DEF NextMember, TypeInv
  <2>2. rd' = rd /\ pc' = "retrieve" /\ k' = k /\ out' = out /\ pc = "member"
    BY <1>2 DEF NextMember
  <2>3. QED
    BY <2>1, <2>2, <1>r, <1>o
<1>3. CASE ReadReturns
  BY <1>3 DEF ReadReturns, Return
<1>4. CASE Retrieve
  BY <1>4 DEF Retrieve
<1>5. ASSUME NEW e \in FatEntries(cl), Walk(e)
      PROVE  Account'
  BY <1>5 DEF Walk, Return
<1>6. CASE StartChunk
  <2>0. SUFFICES ASSUME rd.size < IntHalf PROVE Account'
    BY <1>6, <1>b DEF StartChunk
  <2>1. chunk' = Least(total, ClusterBytes) /\ total' = total - chunk' /\ total > 0
    BY <1>6, <2>0 DEF StartChunk
  <2>2. /\ chunk' \in Nat /\ chunk' > 0 /\ chunk' + total' = total
        /\ total <= rd.size
    BY <2>0, <2>1, <1>r, ClusterBytesType DEF Least, TypeInv
  <2>3. /\ pc' = "sector" /\ out' = out /\ k' = k /\ rd' = rd
        /\ Len(out) + total = k * rd.size + rd.size
    BY <1>6, <2>0 DEF StartChunk
  <2>4. Len(out') + chunk' + total' = k' * rd'.size + rd'.size
    <3> DEFINE len == Len(out)
               all == k * rd.size + rd.size
    <3>1. len \in Nat /\ len + total = all
      BY <1>o, <2>3
    <3>2. Len(out') = len /\ k' * rd'.size + rd'.size = all
      BY <2>3
    <3> HIDE DEF len, all
    <3>3. len + chunk' + total' = all
      BY <2>1, <2>2, <3>1, <1>r
    <3>4. QED
      BY <3>2, <3>3
  <2>5. chunk' + total' <= rd'.size
    BY <2>2, <2>3
  <2>6. QED
    BY <2>0, <2>2, <2>3, <2>4, <2>5
<1>7. CASE ReadSector
  <2>0. SUFFICES ASSUME rd.size < IntHalf PROVE Account'
    BY <1>7, <1>b DEF ReadSector
  <2>1. out' = out \o Copied /\ chunk \in Nat
    BY <1>7, <1>r, <2>0 DEF ReadSector, Copied
  <2>2. Len(out') = Len(out) + Piece(chunk)
    BY <2>1, OutGrows
  <2>3. CASE chunk > SectorSize
    <3>1. /\ Piece(chunk) = SectorSize /\ SectorSize \in Nat
          /\ pc' = "sector" /\ k' = k /\ rd' = rd /\ total' = total
          /\ chunk' = chunk - SectorSize
      BY <1>7, <2>3, PieceType, FatReadAssumption DEF ReadSector
    <3>2. /\ chunk > 0 /\ chunk + total <= rd.size
          /\ Len(out) + chunk + total = k * rd.size + rd.size
      BY <1>7, <2>0 DEF ReadSector
    <3>3. /\ chunk' > 0 /\ chunk' + total' <= rd'.size
          /\ Len(out') + chunk' + total' = k' * rd'.size + rd'.size
      BY <2>0, <2>1, <2>2, <2>3, <3>1, <3>2, <1>r, <1>o
    <3>4. ~(rd'.size >= IntHalf) /\ pc' = "sector"
      BY <2>0, <3>1, <1>h
    <3>5. QED
      BY <3>3, <3>4
  <2>4. CASE ~(chunk > SectorSize)
    <3>1. /\ Piece(chunk) = chunk /\ rd' = rd /\ total' = total
          /\ Len(out') = Len(out) + chunk
      BY <1>7, <2>2, <2>4, PieceType DEF ReadSector
    <3>2. Len(out) + chunk + total = k * rd.size + rd.size
      BY <1>7, <2>0 DEF ReadSector
    <3>3. CASE total > 0
      <4>1. pc' = "retrieve" /\ k' = k
        BY <1>7, <2>4, <3>3 DEF ReadSector
      <4>2. ~(rd'.size >= IntHalf)
        BY <2>0, <3>1, <1>h
      <4>3. total' > 0 /\ Len(out') + total' = k' * rd'.size + rd'.size
        BY <4>1, <3>1, <3>2, <3>3
      <4>4. QED
        BY <4>1, <4>2, <4>3
    <3>4. CASE ~(total > 0)
      <4>1. pc' = "member" /\ k' = k + 1 /\ total = 0
        BY <1>7, <1>r, <2>0, <2>4, <3>4 DEF ReadSector
      <4>2. Len(out') = k' * rd'.size
        BY <4>1, <3>1, <3>2, <1>r, <1>o, <2>1
      <4>3. ~(rd'.size >= IntHalf)
        BY <2>0, <3>1, <1>h
      <4>4. QED
        BY <4>1, <4>2, <4>3
    <3>5. QED
      BY <3>3, <3>4
  <2>5. QED
    BY <2>3, <2>4
<1>8. CASE UNCHANGED vars
  BY <1>8 DEF vars
<1>9. QED
  BY <1>1, <1>2, <1>3, <1>4, <1>5, <1>6, <1>7, <1>8 DEF Next, Step

\* The members in progress and done fit the buffer.
LEMMA MembersFit ==
  ASSUME TypeInv
  PROVE  /\ k * rd.size <= rd.size * rd.nmemb
         /\ k < rd.nmemb => k * rd.size + rd.size <= rd.size * rd.nmemb
<1>1. rd.size \in Nat /\ rd.nmemb \in Nat /\ k \in Nat /\ k <= rd.nmemb
  BY ReadType DEF TypeInv
<1> DEFINE d == rd.nmemb - k
<1>2. d \in Nat /\ rd.nmemb = k + d
  BY <1>1
<1>3. rd.size * rd.nmemb = k * rd.size + d * rd.size /\ d * rd.size \in Nat
  BY <1>1, <1>2
<1>4. d > 0 => d * rd.size >= rd.size
  <2>1. SUFFICES ASSUME d > 0 PROVE d * rd.size >= rd.size
    OBVIOUS
  <2>2. d - 1 \in Nat /\ (d - 1) * rd.size \in Nat
    BY <1>1, <1>2, <2>1
  <2>3. d * rd.size = (d - 1) * rd.size + rd.size
    BY <1>1, <1>2
  <2>4. QED
    BY <2>2, <2>3, <1>1
<1>5. k * rd.size \in Nat
  BY <1>1
<1> HIDE DEF d
<1>6. QED
  BY <1>1, <1>2, <1>3, <1>4, <1>5

LEMMA AccountExact == TypeInv /\ Account => BufferFilledExactly
<1> SUFFICES ASSUME TypeInv, Account PROVE BufferFilledExactly
  OBVIOUS
<1>1. /\ rd.size \in Nat /\ rd.nmemb \in Nat /\ rd.size * rd.nmemb \in Nat
      /\ Len(out) \in Nat /\ k * rd.size \in Nat /\ IntHalf \in Nat
      /\ rd.size < IntHalf => total \in Nat /\ chunk \in Nat
      /\ pc \in {"idle", "member", "retrieve", "walk", "sector"}
      /\ pc \in {"retrieve", "walk", "sector"} => k < rd.nmemb
  BY ReadType DEF TypeInv
<1>2. pc = "idle" => Len(out) = 0
  BY DEF Account
<1>3. CASE rd.size < IntHalf
  BY <1>1, <1>2, <1>3, MembersFit DEF Account, BufferFilledExactly
<1>4. CASE ~(rd.size < IntHalf)
  <2>1. Len(out) = 0
    BY <1>1, <1>4 DEF Account
  <2>2. QED
    BY <1>1, <1>4, <2>1 DEF BufferFilledExactly
<1>5. QED
  BY <1>3, <1>4

\* No read stores behind the buffer of its caller, whatever the offset, the
\* sizes and the chain are.  One that comes to its end has filled it, if its
\* members are of less than 2 GB, and has stored nothing if they are not.
THEOREM BufferExact == Spec => []BufferFilledExactly
<1>1. Init => TypeInv /\ Account
  BY InitType, InitAccount
<1>2. TypeInv /\ Account /\ [Next]_vars => (TypeInv /\ Account)'
  BY TypeStep, AccountStep
<1>3. QED
  BY <1>1, <1>2, AccountExact, PTL DEF Spec

-----------------------------------------------------------------------------
(* The place of the bytes.                                                 *)

\* The byte of the file that comes next, and its cluster's place in the chain.
NextByte == rd.pos + Len(out)
Place == NextByte \div ClusterBytes

\* The walk along the table is on its way to the cluster of the next byte.
Tracks ==
  InFile(rd) =>
    /\ pc \in {"retrieve", "walk"} => offset = NextByte
    /\ pc = "sector" /\ total > 0 => offset = NextByte + chunk
    /\ pc = "walk" => ahead \in 0 .. Place /\ cl = Chain[Place - ahead + 1]

LEMMA MemberInFile ==
  ASSUME TypeInv, InFile(rd), k < rd.nmemb
  PROVE  /\ rd.pos + k * rd.size \in Nat
         /\ rd.pos + k * rd.size + rd.size <= rd.pos + rd.size * rd.nmemb
         /\ rd.pos + rd.size * rd.nmemb \in Nat
         /\ rd.pos + rd.size * rd.nmemb <= Len(Chain) * ClusterBytes
         /\ Len(Chain) * ClusterBytes \in Nat
<1>1. /\ rd.pos \in Nat /\ rd.size \in Nat /\ rd.size * rd.nmemb \in Nat /\ k * rd.size \in Nat
      /\ k * rd.size + rd.size <= rd.size * rd.nmemb
      /\ Len(Chain) * ClusterBytes \in Nat
  BY MembersFit, ChainType, ClusterBytesType DEF TypeInv, ReadRequest
<1>2. QED
  BY <1>1 DEF InFile

\* What is left of the member in progress.
Left == IF pc = "sector" THEN chunk + total ELSE total

\* A read inside a file of less than 2 GB has sizes that an int holds.
LEMMA InFileIsSmall ==
  ASSUME FileFits, TypeInv, InFile(rd)
  PROVE  rd.size < IntHalf /\ Signed(rd.nmemb) = rd.nmemb
<1> DEFINE all == rd.size * rd.nmemb
           file == Len(Chain) * ClusterBytes
<1>1. /\ rd.pos \in Nat /\ rd.size \in Nat \ {0} /\ rd.nmemb \in Nat \ {0}
      /\ IntHalf \in Nat \ {0}
  BY ReadType DEF TypeInv
<1>2. file \in Nat /\ file < IntHalf
  BY ChainType, ClusterBytesType DEF FileFits
<1>3. rd.size <= all /\ rd.nmemb <= all /\ all \in Nat
  <2>1. /\ (rd.size - 1) * rd.nmemb \in Nat /\ all = (rd.size - 1) * rd.nmemb + rd.nmemb
        /\ rd.size * (rd.nmemb - 1) \in Nat /\ all = rd.size * (rd.nmemb - 1) + rd.size
    BY <1>1
  <2> HIDE DEF all
  <2>2. QED
    BY <1>1, <2>1
<1>4. rd.pos + all <= file
  BY DEF InFile
<1> HIDE DEF all, file
<1>5. rd.size < IntHalf /\ rd.nmemb < IntHalf
  BY <1>1, <1>2, <1>3, <1>4
<1>6. rd.nmemb \in IntRange
  BY <1>1, <1>5 DEF IntRange
<1>7. QED
  BY <1>5, <1>6, SignedSame

LEMMA NextByteInFile ==
  ASSUME FileFits, TypeInv, Account, InFile(rd), pc \in {"retrieve", "walk", "sector"}
  PROVE  /\ rd.size < IntHalf /\ total \in Nat /\ chunk \in Nat
         /\ NextByte \in Nat /\ Left \in Nat \ {0} /\ Left <= rd.size
         /\ NextByte + Left <= rd.pos + rd.size * rd.nmemb
         /\ NextByte + Left <= Len(Chain) * ClusterBytes
         /\ Place \in 0 .. Len(Chain) - 1
<1> DEFINE all == rd.pos + rd.size * rd.nmemb
           file == Len(Chain) * ClusterBytes
           mine == k * rd.size
           len == Len(out)
<1>0. rd.size < IntHalf
  BY InFileIsSmall
<1>1. /\ rd.pos \in Nat /\ rd.size \in Nat /\ len \in Nat
      /\ total \in Nat /\ chunk \in Nat /\ k < rd.nmemb
  BY <1>0, ReadType DEF TypeInv
<1>2. mine \in Nat
  BY ReadType DEF TypeInv
<1>3. all \in Nat /\ file \in Nat /\ all <= file /\ rd.pos + mine + rd.size <= all
  BY <1>1, MemberInFile
<1>4. Left \in Nat \ {0} /\ len + Left = mine + rd.size /\ Left <= rd.size
  <2>1. CASE pc = "sector"
    <3>1. chunk > 0 /\ chunk + total <= rd.size /\ len + chunk + total = mine + rd.size
      BY <1>0, <2>1 DEF Account
    <3> HIDE DEF len, mine
    <3>2. QED
      BY <1>1, <1>2, <2>1, <3>1 DEF Left
  <2>2. CASE pc \in {"retrieve", "walk"}
    <3>1. total > 0 /\ len + total = mine + rd.size /\ total <= rd.size
      BY <1>0, <2>2, <1>1 DEF Account, TypeInv
    <3> HIDE DEF len, mine
    <3>2. QED
      BY <1>1, <1>2, <2>2, <3>1 DEF Left
  <2>3. QED
    BY <2>1, <2>2
<1>5. NextByte = rd.pos + len
  BY DEF NextByte
<1> HIDE DEF all, file, mine, len
<1>6. /\ NextByte \in Nat /\ NextByte + Left <= all /\ NextByte + Left <= file /\ NextByte < file
  BY <1>1, <1>2, <1>3, <1>4, <1>5
<1>7. Place \in Nat /\ Place < Len(Chain)
  BY <1>6, ChainType, ClusterBytesType, DivisionFacts, DivisionBound DEF Place, file
<1>8. Place \in 0 .. Len(Chain) - 1
  <2> DEFINE n == Len(Chain)
  <2>1. n \in Nat /\ Place < n
    BY <1>7, ChainType
  <2> HIDE DEF n
  <2>2. Place \in 0 .. n - 1
    BY <1>7, <2>1
  <2>3. QED
    BY <2>2 DEF n
<1>9. QED
  BY <1>0, <1>1, <1>4, <1>6, <1>8 DEF all, file

\* The one entry that the table has for a cluster of the file before its last.
LEMMA ChainEntry ==
  ASSUME FileFits, NEW j \in 1 .. Len(Chain) - 1
  PROVE  FatEntries(Chain[j]) = {Chain[j + 1]} /\ Chain[j + 1] \notin StopEntries
<1>1. Len(Chain) \in Nat /\ DOMAIN Chain = 1 .. Len(Chain)
  BY ChainType
<1>2. j \in DOMAIN Chain /\ j + 1 \in DOMAIN Chain /\ j # Len(Chain)
  <2> DEFINE n == Len(Chain)
  <2>1. n \in Nat /\ j \in 1 .. n - 1
    BY <1>1
  <2> HIDE DEF n
  <2>2. j \in 1 .. n /\ j + 1 \in 1 .. n /\ j # n
    BY <2>1
  <2>3. QED
    BY <1>1, <2>2 DEF n
<1>3. {x \in DOMAIN Chain : Chain[x] = Chain[j]} = {j}
  BY <1>2 DEF FileFits
<1>4. FatEntries(Chain[j]) = {IF x = Len(Chain) THEN EndMark ELSE Chain[x + 1] : x \in {j}}
  BY <1>2, <1>3 DEF FatEntries
<1>5. QED
  BY <1>2, <1>4 DEF FileFits

\* Inside a file the walk meets no end mark.
LEMMA WalkNext ==
  ASSUME FileFits, TypeInv, Account, Tracks, InFile(rd), pc = "walk", ahead > 0,
         NEW e \in FatEntries(cl)
  PROVE  e = Chain[Place - ahead + 2] /\ e \notin StopEntries
<1>1. Place \in 0 .. Len(Chain) - 1 /\ Len(Chain) \in Nat
  BY NextByteInFile, ChainType
<1>2. ahead \in 0 .. Place /\ cl = Chain[Place - ahead + 1]
  BY DEF Tracks
<1> DEFINE j == Place - ahead + 1
<1>3. j \in 1 .. Len(Chain) - 1 /\ j + 1 = Place - ahead + 2
  BY <1>1, <1>2
<1>4. cl = Chain[j]
  BY <1>2
<1> HIDE DEF j
<1>5. FatEntries(cl) = {Chain[j + 1]} /\ Chain[j + 1] \notin StopEntries
  BY <1>3, <1>4, ChainEntry
<1>6. QED
  BY <1>3, <1>5

LEMMA InitTracks == Init => Tracks
BY DEF Init, Tracks

\* What the locals become when a read begins or ends.
LEMMA IdleTracks ==
  ASSUME pc' \in {"idle", "member"}
  PROVE  Tracks'
BY DEF Tracks

\* The positions of a file are ints.
LEMMA InFileIsInt ==
  ASSUME FileFits, NEW a \in Nat, a < Len(Chain) * ClusterBytes
  PROVE  Signed(a) = a
<1>1. a \in IntRange
  <2> DEFINE file == Len(Chain) * ClusterBytes
  <2>1. file \in Nat /\ file < IntHalf /\ a < file
    BY ChainType, ClusterBytesType DEF FileFits
  <2> HIDE DEF file
  <2>2. QED
    BY <2>1, FatReadAssumption DEF IntRange
<1>2. QED
  BY <1>1, SignedSame

LEMMA TracksStep ==
  ASSUME FileFits, TypeInv, Account, Tracks, [Next]_vars
  PROVE  Tracks'
<1>1. ASSUME NEW r \in Reads, Read(r)
      PROVE  Tracks'
  BY <1>1, IdleTracks DEF Read
<1>2. CASE NextMember
  <2>1. SUFFICES ASSUME InFile(rd)
                 PROVE  offset' = NextByte'
    BY <1>2 DEF NextMember, Tracks
  <2>2. Len(out) = k * rd.size /\ out' = out /\ rd' = rd
    BY <1>2, <2>1, InFileIsSmall DEF NextMember, Account
  <2>3. offset' = Signed(NextByte) /\ NextByte' = NextByte
    BY <1>2, <2>2 DEF NextMember, MemberOffset, NextByte
  <2>4. NextByte \in Nat /\ NextByte < Len(Chain) * ClusterBytes
    <3>1. NextByte = rd.pos + k * rd.size
      BY <2>2 DEF NextByte
    <3>2. k < rd.nmemb /\ rd.size \in Nat \ {0}
      BY <1>2 DEF NextMember, TypeInv, ReadRequest
    <3>3. QED
      BY <2>1, <3>1, <3>2, MemberInFile
  <2>5. QED
    BY <2>3, <2>4, InFileIsInt
<1>3. CASE ReadReturns
  BY <1>3, IdleTracks DEF ReadReturns, Return
<1>4. CASE Retrieve
  <2>1. SUFFICES ASSUME InFile(rd)
                 PROVE  /\ offset' = NextByte'
                        /\ ahead' \in 0 .. Place' /\ cl' = Chain[Place' - ahead' + 1]
    BY <1>4 DEF Retrieve, Tracks
  <2>2. /\ offset = NextByte /\ offset' = offset
        /\ NextByte' = NextByte /\ Place' = Place /\ NextByte \in Nat
    BY <1>4, <2>1, NextByteInFile DEF Retrieve, Tracks, NextByte, Place
  <2>3. ahead' = Place /\ Place \in Nat /\ cl' = Chain[1]
    BY <1>4, <2>2, ClusterBytesType, DivisionFacts, QuotientNat DEF Retrieve, Place
  <2>4. Place - ahead' + 1 = 1
    BY <2>3
  <2>5. QED
    BY <2>2, <2>3, <2>4
<1>5. ASSUME NEW e \in FatEntries(cl), Walk(e)
      PROVE  Tracks'
  <2>1. CASE e \in StopEntries
    BY <1>5, <2>1, IdleTracks DEF Walk, Return
  <2>2. CASE e \notin StopEntries
    <3>1. /\ pc = "walk" /\ ahead > 0 /\ pc' = "walk" /\ ahead' = ahead - 1 /\ cl' = e
          /\ rd' = rd /\ out' = out /\ offset' = offset
      BY <1>5, <2>2 DEF Walk
    <3>2. SUFFICES ASSUME InFile(rd)
                   PROVE  /\ offset' = NextByte'
                          /\ ahead' \in 0 .. Place' /\ cl' = Chain[Place' - ahead' + 1]
      BY <3>1 DEF Tracks
    <3>3. NextByte' = NextByte /\ Place' = Place
      BY <3>1 DEF NextByte, Place
    <3>4. /\ offset = NextByte /\ ahead \in 0 .. Place /\ Place \in Nat
          /\ e = Chain[Place - ahead + 2]
      BY <3>1, <3>2, WalkNext, NextByteInFile DEF Tracks
    <3>5. ahead' \in 0 .. Place /\ Place - ahead' + 1 = Place - ahead + 2
      BY <3>1, <3>4
    <3>6. QED
      BY <3>1, <3>3, <3>4, <3>5
  <2>3. QED
    BY <2>1, <2>2
<1>6. CASE StartChunk
  <2>1. /\ pc = "walk" /\ pc' = "sector" /\ rd' = rd /\ out' = out
        /\ chunk' = Least(total, ClusterBytes) /\ total' = total - chunk'
        /\ offset' = Signed(offset + chunk')
    BY <1>6 DEF StartChunk
  <2>2. SUFFICES ASSUME InFile(rd), total' > 0
                 PROVE  offset' = NextByte' + chunk'
    BY <2>1 DEF Tracks
  <2>3. offset = NextByte /\ NextByte' = NextByte
    BY <2>1, <2>2 DEF Tracks, NextByte
  <2>4. NextByte + chunk' \in Nat /\ NextByte + chunk' < Len(Chain) * ClusterBytes
    <3>1. /\ NextByte \in Nat /\ total \in Nat /\ Len(Chain) * ClusterBytes \in Nat
          /\ NextByte + total <= Len(Chain) * ClusterBytes
      BY <2>1, <2>2, NextByteInFile, ChainType, ClusterBytesType DEF Left, TypeInv
    <3>2. chunk' \in Nat /\ chunk' < total
      BY <2>1, <2>2, <3>1, ClusterBytesType DEF Least
    <3> DEFINE file == Len(Chain) * ClusterBytes
    <3>3. file \in Nat /\ NextByte + total <= file
      BY <3>1
    <3> HIDE DEF file
    <3>4. NextByte \in Nat /\ total \in Nat
      BY <3>1
    <3>5. NextByte + chunk' \in Nat /\ NextByte + chunk' < file
      BY <3>2, <3>3, <3>4, LessSum
    <3>6. QED
      BY <3>5 DEF file
  <2>5. QED
    BY <2>1, <2>3, <2>4, InFileIsInt
<1>7. CASE ReadSector
  <2>1. /\ pc = "sector" /\ out' = out \o Copied /\ rd' = rd /\ total' = total /\ offset' = offset
        /\ pc' \in {"sector", "retrieve", "member"}
    BY <1>7 DEF ReadSector, Copied
  <2>2. SUFFICES ASSUME InFile(rd), total > 0
                 PROVE  /\ pc' = "retrieve" => offset' = NextByte'
                        /\ pc' = "sector" => offset' = NextByte' + chunk'
    BY <1>7, <2>1 DEF Tracks, ReadSector
  <2>3. offset = NextByte + chunk /\ NextByte \in Nat /\ chunk \in Nat
    BY <2>1, <2>2, NextByteInFile DEF Tracks
  <2>4. NextByte' = NextByte + Piece(chunk)
    <3>1. Len(out') = Len(out) + Piece(chunk)
      BY <2>1, <2>3, OutGrows
    <3>2. rd.pos \in Nat /\ Len(out) \in Nat /\ Piece(chunk) \in Nat
      BY <2>3, PieceType, ReadType DEF TypeInv
    <3>3. QED
      BY <2>1, <3>1, <3>2 DEF NextByte
  <2>5. CASE chunk > SectorSize
    BY <1>7, <2>1, <2>3, <2>4, <2>5, PieceType, FatReadAssumption DEF ReadSector
  <2>6. CASE ~(chunk > SectorSize)
    BY <1>7, <2>1, <2>3, <2>4, <2>6, PieceType DEF ReadSector
  <2>7. QED
    BY <2>5, <2>6
<1>8. CASE UNCHANGED vars
  BY <1>8 DEF vars, Tracks, NextByte, Place
<1>9. QED
  BY <1>1, <1>2, <1>3, <1>4, <1>5, <1>6, <1>7, <1>8 DEF Next, Step

\* A read inside a file returns its count.
LEMMA StepSucceeds ==
  ASSUME FileFits, TypeInv, Account, Tracks, [Next]_vars, UNCHANGED vars \/ Next,
         pc # "idle", pc' = "idle", InFile(rd)
  PROVE  ret' = rd.nmemb
<1>1. ASSUME NEW r \in Reads, Read(r)
      PROVE  FALSE
  BY <1>1 DEF Read
<1>2. CASE ReadReturns
  BY <1>2, InFileIsSmall DEF ReadReturns, Return
<1>3. ASSUME NEW e \in FatEntries(cl), Walk(e)
      PROVE  FALSE
  <2>1. pc = "walk" /\ ahead > 0
    BY <1>3 DEF Walk
  <2>2. e \notin StopEntries
    BY <2>1, WalkNext
  <2>3. QED
    BY <1>3, <2>2 DEF Walk
<1>4. CASE NextMember \/ Retrieve \/ StartChunk \/ ReadSector \/ UNCHANGED vars
  BY <1>4 DEF NextMember, Retrieve, StartChunk, ReadSector, vars
<1>5. QED
  BY <1>1, <1>2, <1>3, <1>4 DEF Next, Step

\* A read that ends inside a file of less than 2 GB does not fail, from
\* whatever position and however the clusters are scattered.
THEOREM ReadSucceeds == FileFits => (Spec => InFileSucceeds)
<1> SUFFICES ASSUME FileFits PROVE Spec => InFileSucceeds
  OBVIOUS
<1> DEFINE Inv == TypeInv /\ Account /\ Tracks
<1>1. Init => Inv
  BY InitType, InitAccount, InitTracks
<1>2. Inv /\ [Next]_vars => Inv'
  BY TypeStep, AccountStep, TracksStep
<1>3. Inv /\ [Next]_vars =>
        [pc # "idle" /\ pc' = "idle" /\ InFile(rd) => ret' = rd.nmemb]_vars
  BY StepSucceeds
<1> HIDE DEF Inv
<1>4. QED
  BY <1>1, <1>2, <1>3, PTL DEF Spec, InFileSucceeds

-----------------------------------------------------------------------------
(* The bytes.                                                              *)

\* The sector that the next byte is in is being read from where it is, and
\* ends behind what is copied or begins with it.
Sound ==
  Aligned(rd) /\ InFile(rd) /\ InReach(rd) =>
    /\ pc \in {"retrieve", "walk"} => InOnePiece(NextByte, total)
    /\ pc = "sector" =>
         /\ chunk + (NextByte % ClusterBytes) <= ClusterBytes
         /\ spos = FilePosition(NextByte)
         /\ (spos % SectorSize) + chunk <= SectorSize \/ \E s \in Nat : spos = s * SectorSize
         /\ total > 0 => (NextByte + chunk) % ClusterBytes = 0
    /\ \A j \in 1 .. Len(out) : out[j] = FilePosition(rd.pos + j - 1)

\* A file's bytes have positions on the disk, and those of a cluster lie one
\* behind the other.
LEMMA InCluster ==
  ASSUME NEW o \in Nat
  PROVE  /\ o \div ClusterBytes \in Nat
         /\ o % ClusterBytes \in Nat /\ o % ClusterBytes < ClusterBytes
         /\ o = (o \div ClusterBytes) * ClusterBytes + (o % ClusterBytes)
         /\ Quotient(o, ClusterBytes) = o \div ClusterBytes
         /\ Remainder(o, ClusterBytes) = o % ClusterBytes
<1> DEFINE m == ClusterBytes
<1>1. m \in Nat \ {0}
  BY ClusterBytesType
<1> HIDE DEF m
<1>2. /\ o \div m \in Nat /\ o % m \in Nat /\ o % m < m /\ o = (o \div m) * m + (o % m)
      /\ Quotient(o, m) = o \div m /\ Remainder(o, m) = o % m
  BY <1>1, DivisionFacts, QuotientNat
<1>3. QED
  BY <1>2 DEF m

\* A place in the chain has a cluster.
LEMMA ChainPlace ==
  ASSUME NEW q \in Nat, q < Len(Chain)
  PROVE  q + 1 \in 1 .. Len(Chain) /\ Chain[q + 1] \in Nat /\ Chain[q + 1] - 2 \in Nat
<1> DEFINE n == Len(Chain)
<1>1. q < n /\ n \in Nat
  BY ChainType
<1> HIDE DEF n
<1>2. q + 1 \in 1 .. n
  BY <1>1
<1>3. Chain \in Seq(Nat \ {0, 1}) /\ q + 1 \in 1 .. Len(Chain)
  BY <1>2, FatReadAssumption DEF n
<1>4. Chain[q + 1] \in Nat \ {0, 1}
  BY <1>3, ElementOfSeq
<1>5. QED
  BY <1>3, <1>4

LEMMA FilePositionType ==
  ASSUME NEW o \in Nat, o \div ClusterBytes < Len(Chain)
  PROVE  /\ FilePosition(o) \in Nat
         /\ \E s \in Nat : FilePosition(o) = s * SectorSize + (o % ClusterBytes)
<1> DEFINE q == o \div ClusterBytes
           c == Chain[q + 1]
           s == DataSector + (c - 2) * SectorsPerCluster
<1>1. q \in Nat /\ o % ClusterBytes \in Nat /\ q < Len(Chain)
  BY InCluster
<1>3. c \in Nat /\ c - 2 \in Nat
  BY <1>1, ChainPlace
<1> HIDE DEF c, q
<1>4. s \in Nat
  BY <1>3, FatReadAssumption
<1>5. FilePosition(o) = s * SectorSize + (o % ClusterBytes)
  BY DEF FilePosition, c, q
<1> HIDE DEF s
<1>6. s * SectorSize + (o % ClusterBytes) \in Nat
  BY <1>1, <1>4, FatReadAssumption
<1>7. QED
  BY <1>4, <1>5, <1>6

LEMMA FilePositionNext ==
  ASSUME NEW o \in Nat, NEW d \in Nat, (o % ClusterBytes) + d < ClusterBytes,
         o \div ClusterBytes < Len(Chain)
  PROVE  /\ FilePosition(o + d) = FilePosition(o) + d
         /\ (o + d) \div ClusterBytes = o \div ClusterBytes
         /\ (o + d) % ClusterBytes = (o % ClusterBytes) + d
<1> DEFINE m == ClusterBytes
           q == o \div m
           r == o % m
<1>1. m \in Nat \ {0} /\ q \in Nat /\ r \in Nat /\ o = q * m + r /\ r + d < m
  BY InCluster, ClusterBytesType
<1> HIDE DEF m, q, r
<1>2. o + d = q * m + (r + d) /\ r + d \in 0 .. m - 1
  BY <1>1
<1>3. (o + d) \div m = q /\ (o + d) % m = r + d
  <2>1. (q * m + (r + d)) \div m = q /\ (q * m + (r + d)) % m = r + d
    <3> DEFINE s == r + d
    <3>1. q \in Int /\ s \in 0 .. m - 1
      BY <1>1, <1>2
    <3> HIDE DEF s
    <3>2. (q * m + s) \div m = q /\ (q * m + s) % m = s
      BY <1>1, <3>1, DivisionUnique
    <3>3. QED
      BY <3>2 DEF s
  <2>2. QED
    BY <1>2, <2>1
<1>4. (o + d) \div ClusterBytes = q /\ (o + d) % ClusterBytes = r + d
  BY <1>3 DEF m
<1> DEFINE base == (DataSector + (Chain[q + 1] - 2) * SectorsPerCluster) * SectorSize
<1>5. FilePosition(o + d) = base + (r + d)
  BY <1>4 DEF FilePosition
<1>6. FilePosition(o) = base + r
  BY DEF FilePosition, q, r, m
<1>7. base \in Int
  <2>1. q \in Nat /\ q < Len(Chain)
    BY <1>1 DEF q, m
  <2>2. Chain[q + 1] \in Nat
    BY <2>1, ChainPlace
  <2>3. QED
    BY <2>2, FatReadAssumption
<1> HIDE DEF base
<1>8. FilePosition(o + d) = FilePosition(o) + d
  BY <1>1, <1>5, <1>6, <1>7
<1>9. QED
  BY <1>4, <1>8 DEF m, q, r

LEMMA InitSound == Init => Sound
BY DEF Init, Sound

LEMMA IdleSound ==
  ASSUME pc' \in {"idle", "member"}, out' = <<>>
  PROVE  Sound'
BY EmptySeq DEF Sound

\* What a read in reach has still to fetch lies where an int holds it.
LEMMA NextByteInReach ==
  ASSUME FileFits, TypeInv, Account, InFile(rd), InReach(rd), pc \in {"retrieve", "walk", "sector"},
         NEW d \in Nat, d < Left
  PROVE  FilePosition(NextByte + d) < IntHalf
<1> DEFINE bytes == rd.size * rd.nmemb
           len == Len(out)
<1>1. /\ NextByte \in Nat /\ NextByte + Left <= rd.pos + bytes /\ Left \in Nat
      /\ rd.pos \in Nat /\ bytes \in Nat /\ len \in Nat
  <2>1. rd.pos \in Nat /\ rd.size \in Nat /\ rd.nmemb \in Nat /\ len \in Nat
    BY ReadType DEF TypeInv
  <2>2. bytes \in Nat
    BY <2>1
  <2>3. QED
    BY <2>1, <2>2, NextByteInFile
<1>2. NextByte = rd.pos + len
  BY DEF NextByte
<1>3. \A o \in rd.pos .. rd.pos + bytes - 1 : FilePosition(o) < IntHalf
  BY DEF InReach
<1> HIDE DEF bytes, len
<1>4. NextByte + d \in rd.pos .. rd.pos + bytes - 1
  BY <1>1, <1>2
<1>5. QED
  BY <1>3, <1>4

\* A position on the disk that an int holds is what it is.
LEMMA PositionIsInt ==
  ASSUME NEW p \in Nat, p < IntHalf
  PROVE  Signed(p) = p
<1>1. p \in IntRange
  BY FatReadAssumption DEF IntRange
<1>2. QED
  BY <1>1, SignedSame

\* The place in a sector of a byte of the file.
LEMMA SectorPlace ==
  ASSUME NEW o \in Nat, o \div ClusterBytes < Len(Chain)
  PROVE  FilePosition(o) % SectorSize = o % SectorSize
<1> DEFINE q == o \div ClusterBytes
           r == o % ClusterBytes
           p == r \div SectorSize
           t == r % SectorSize
<1>1. PICK s \in Nat : FilePosition(o) = s * SectorSize + r
  BY FilePositionType
<1>2. q \in Nat /\ r \in Nat /\ o = q * ClusterBytes + r
  BY InCluster
<1>3. SectorSize \in Nat \ {0} /\ SectorsPerCluster \in Nat
  BY FatReadAssumption
<1> HIDE DEF q, r
<1>4. p \in Nat /\ t \in 0 .. SectorSize - 1 /\ r = p * SectorSize + t
  BY <1>2, <1>3, DivisionFacts
<1> HIDE DEF p, t
<1>5. FilePosition(o) = (s + p) * SectorSize + t
  BY <1>1, <1>3, <1>4
<1>6. o = (q * SectorsPerCluster + p) * SectorSize + t
  <2>1. ClusterBytes = SectorsPerCluster * SectorSize
    BY DEF ClusterBytes
  <2>2. q * (SectorsPerCluster * SectorSize) = (q * SectorsPerCluster) * SectorSize
    BY <1>2, <1>3
  <2> DEFINE u == q * SectorsPerCluster
  <2>3. u \in Nat /\ o = u * SectorSize + (p * SectorSize + t)
    BY <1>2, <1>3, <1>4, <2>1, <2>2
  <2> HIDE DEF u
  <2>4. o = (u + p) * SectorSize + t
    BY <1>3, <1>4, <2>3
  <2>5. QED
    BY <2>4 DEF u
<1> DEFINE a == s + p
           b == q * SectorsPerCluster + p
<1>7. a \in Int /\ b \in Int /\ FilePosition(o) = a * SectorSize + t /\ o = b * SectorSize + t
  BY <1>2, <1>3, <1>4, <1>5, <1>6
<1> HIDE DEF a, b
<1>8. (a * SectorSize + t) % SectorSize = t /\ (b * SectorSize + t) % SectorSize = t
  BY <1>3, <1>4, <1>7, DivisionUnique
<1>9. QED
  BY <1>7, <1>8

\* What ends in the sector that it begins in ends in the cluster.
LEMMA InSector ==
  ASSUME NEW o \in Nat, NEW n \in Nat, (o % SectorSize) + n <= SectorSize
  PROVE  (o % ClusterBytes) + n <= ClusterBytes
<1> DEFINE q == o \div ClusterBytes
           r == o % ClusterBytes
           p == r \div SectorSize
           t == r % SectorSize
<1>1. q \in Nat /\ r \in Nat /\ r < ClusterBytes /\ o = q * ClusterBytes + r
  BY InCluster
<1>2. SectorSize \in Nat \ {0} /\ SectorsPerCluster \in Nat
      /\ ClusterBytes = SectorsPerCluster * SectorSize
  BY FatReadAssumption DEF ClusterBytes
<1> HIDE DEF q, r
<1>3. p \in Nat /\ t \in 0 .. SectorSize - 1 /\ r = p * SectorSize + t
  BY <1>1, <1>2, DivisionFacts
<1>4. p < SectorsPerCluster
  BY <1>1, <1>2, DivisionBound
<1> HIDE DEF p, t
<1>5. o % SectorSize = t
  <2> DEFINE u == q * SectorsPerCluster
             v == u + p
  <2>1. q * (SectorsPerCluster * SectorSize) = u * SectorSize /\ u \in Nat
    BY <1>1, <1>2
  <2>2. o = u * SectorSize + (p * SectorSize + t)
    BY <1>1, <1>2, <1>3, <2>1
  <2> HIDE DEF u
  <2>3. o = v * SectorSize + t /\ v \in Int
    BY <1>2, <1>3, <2>1, <2>2
  <2> HIDE DEF v
  <2>4. QED
    BY <1>2, <1>3, <2>3, DivisionUnique
<1>6. r + n <= (p + 1) * SectorSize
  BY <1>2, <1>3, <1>5
<1>7. (p + 1) * SectorSize <= SectorsPerCluster * SectorSize
  <2> DEFINE d == SectorsPerCluster - (p + 1)
  <2>1. d \in Nat /\ SectorsPerCluster = (p + 1) + d
    BY <1>2, <1>3, <1>4
  <2> HIDE DEF d
  <2>2. SectorsPerCluster * SectorSize = (p + 1) * SectorSize + d * SectorSize /\ d * SectorSize \in Nat
    BY <1>2, <1>3, <2>1
  <2>3. (p + 1) * SectorSize \in Nat
    BY <1>2, <1>3
  <2>4. QED
    BY <2>2, <2>3
<1>8. r + n <= ClusterBytes
  <2>1. (p + 1) * SectorSize \in Nat
    BY <1>2, <1>3
  <2>2. QED
    BY <1>1, <1>2, <1>6, <1>7, <2>1, ClusterBytesType
<1>9. QED
  BY <1>8 DEF r

\* The start of a chunk.
LEMMA StartChunkSound ==
  ASSUME FileFits, TypeInv, Account, Tracks, Sound, StartChunk
  PROVE  Sound'
<1>1. /\ pc = "walk" /\ pc' = "sector" /\ ahead <= 0 /\ rd' = rd /\ out' = out
      /\ chunk' = Least(total, ClusterBytes) /\ total' = total - chunk'
      /\ spos' = Position(cl, offset)
  BY DEF StartChunk
<1>2. SUFFICES ASSUME Aligned(rd), InFile(rd), InReach(rd)
               PROVE  /\ chunk' + (NextByte % ClusterBytes) <= ClusterBytes
                      /\ spos' = FilePosition(NextByte)
                      /\ \/ (spos' % SectorSize) + chunk' <= SectorSize
                         \/ \E s \in Nat : spos' = s * SectorSize
                      /\ total' > 0 => (NextByte + chunk') % ClusterBytes = 0
                      /\ \A j \in 1 .. Len(out) : out[j] = FilePosition(rd.pos + j - 1)
  <2>1. NextByte' = NextByte
    BY <1>1 DEF NextByte
  <2>2. QED
    BY <1>1, <2>1 DEF Sound
<1>3. /\ NextByte \in Nat /\ Place \in 0 .. Len(Chain) - 1 /\ Left = total
      /\ total \in Nat \ {0}
  BY <1>1, <1>2, NextByteInFile DEF Left
<1>4. offset = NextByte /\ ahead = 0 /\ cl = Chain[Place + 1]
  <2>1. offset = NextByte /\ ahead \in 0 .. Place /\ cl = Chain[Place - ahead + 1] /\ Place \in Nat
    BY <1>1, <1>2, <1>3 DEF Tracks
  <2>2. ahead = 0 /\ Place - 0 + 1 = Place + 1
    BY <1>1, <2>1
  <2>3. QED
    BY <2>1, <2>2
<1>5. /\ InOnePiece(NextByte, total)
      /\ \A j \in 1 .. Len(out) : out[j] = FilePosition(rd.pos + j - 1)
  BY <1>1, <1>2 DEF Sound
<1>6. Place \in Nat /\ Place < Len(Chain) /\ Place = NextByte \div ClusterBytes
  BY <1>3, ChainType DEF Place
<1>7. spos' = FilePosition(NextByte)
  <2>1. Remainder(NextByte, ClusterBytes) = NextByte % ClusterBytes
    BY <1>3, InCluster
  <2>2. ClusterSector(cl) * SectorSize + Remainder(NextByte, ClusterBytes) = FilePosition(NextByte)
    BY <1>4, <1>6, <2>1 DEF ClusterSector, FilePosition
  <2>3. FilePosition(NextByte) \in Nat
    BY <1>3, <1>6, FilePositionType
  <2>4. FilePosition(NextByte) < IntHalf
    <3>1. FilePosition(NextByte + 0) < IntHalf
      <4>1. 0 \in Nat /\ 0 < Left /\ pc \in {"retrieve", "walk", "sector"}
        BY <1>1, <1>3
      <4>2. InFile(rd) /\ InReach(rd)
        BY <1>2
      <4>3. QED
        BY <4>1, <4>2, NextByteInReach, Zenon
    <3>2. NextByte + 0 = NextByte
      BY <1>3
    <3>3. QED
      BY <3>1, <3>2
  <2>5. QED
    BY <1>1, <1>4, <2>2, <2>3, <2>4, PositionIsInt DEF Position
<1>8. /\ chunk' \in Nat \ {0} /\ chunk' <= ClusterBytes /\ chunk' <= total
      /\ chunk' # ClusterBytes => chunk' = total
  BY <1>1, <1>3, ClusterBytesType DEF Least
<1>9. CASE (NextByte % SectorSize) + total <= SectorSize
  <2>1. /\ chunk' = total /\ ~(total' > 0)
        /\ chunk' + (NextByte % ClusterBytes) <= ClusterBytes
    <3>1. /\ (NextByte % ClusterBytes) + total <= ClusterBytes /\ NextByte % ClusterBytes \in Nat
      BY <1>3, <1>9, InSector, InCluster
    <3> DEFINE r == NextByte % ClusterBytes
    <3>2. r + total <= ClusterBytes /\ r \in Nat /\ ClusterBytes \in Nat
      BY <3>1, ClusterBytesType
    <3> HIDE DEF r
    <3>3. total <= ClusterBytes /\ total \in Nat
      BY <1>3, <3>2
    <3>4. chunk' = total
      BY <1>8, <3>2, <3>3
    <3>5. chunk' + r <= ClusterBytes
      BY <3>2, <3>3, <3>4
    <3>6. QED
      BY <1>1, <1>3, <3>4, <3>5 DEF r
  <2>2. spos' % SectorSize = NextByte % SectorSize
    BY <1>3, <1>6, <1>7, SectorPlace
  <2>3. QED
    BY <1>5, <1>7, <1>9, <2>1, <2>2
<1>12. CASE NextByte % SectorSize = 0 /\ (NextByte % ClusterBytes) + total <= ClusterBytes
  <2>1. /\ chunk' = total /\ ~(total' > 0)
        /\ chunk' + (NextByte % ClusterBytes) <= ClusterBytes
    <3> DEFINE r == NextByte % ClusterBytes
    <3>2. r + total <= ClusterBytes /\ r \in Nat /\ ClusterBytes \in Nat
      BY <1>3, <1>12, InCluster, ClusterBytesType
    <3> HIDE DEF r
    <3>3. total <= ClusterBytes /\ total \in Nat
      BY <1>3, <3>2
    <3>4. chunk' = total
      BY <1>8, <3>2, <3>3
    <3>5. chunk' + r <= ClusterBytes
      BY <3>2, <3>3, <3>4
    <3>6. QED
      BY <1>1, <1>3, <3>4, <3>5 DEF r
  <2>2. spos' % SectorSize = 0 /\ spos' \in Nat
    BY <1>3, <1>6, <1>7, <1>12, SectorPlace, FilePositionType
  <2>3. \E s \in Nat : spos' = s * SectorSize
    <3>1. /\ spos' \div SectorSize \in Nat
          /\ spos' = (spos' \div SectorSize) * SectorSize + (spos' % SectorSize)
      BY <2>2, FatReadAssumption, DivisionFacts
    <3> DEFINE s == spos' \div SectorSize
    <3>2. s \in Nat /\ spos' = s * SectorSize + 0
      BY <2>2, <3>1
    <3> HIDE DEF s
    <3>3. spos' = s * SectorSize
      BY <3>2, FatReadAssumption
    <3>4. QED
      BY <3>2, <3>3
  <2>4. QED
    BY <1>5, <1>7, <2>1, <2>3
<1>10. CASE NextByte % ClusterBytes = 0
  <2>1. chunk' + (NextByte % ClusterBytes) <= ClusterBytes
    BY <1>8, <1>10, ClusterBytesType
  <2>2. \E s \in Nat : spos' = s * SectorSize
    <3>1. PICK s \in Nat : FilePosition(NextByte) = s * SectorSize + 0
      BY <1>3, <1>6, <1>10, FilePositionType
    <3>2. FilePosition(NextByte) = s * SectorSize
      BY <3>1, FatReadAssumption
    <3>3. QED
      BY <1>7, <3>2
  <2>3. total' > 0 => (NextByte + chunk') % ClusterBytes = 0
    <3>1. SUFFICES ASSUME total' > 0 PROVE (NextByte + chunk') % ClusterBytes = 0
      OBVIOUS
    <3>2. chunk' = ClusterBytes
      BY <1>1, <1>3, <1>8, <3>1
    <3>3. ClusterBytes % ClusterBytes = 0
      BY ClusterBytesType
    <3>4. (NextByte + 1 * ClusterBytes) % ClusterBytes = 0
      BY <1>3, <1>10, <3>3, MultipleSum, ClusterBytesType
    <3>5. 1 * ClusterBytes = ClusterBytes
      BY ClusterBytesType
    <3>6. QED
      BY <3>2, <3>4, <3>5
  <2>4. QED
    BY <1>5, <1>7, <2>1, <2>2, <2>3
<1>11. QED
  BY <1>5, <1>9, <1>10, <1>12 DEF InOnePiece

\* One call of diskstreamer_read.
LEMMA SectorFacts ==
  ASSUME FileFits, TypeInv, Account, Sound, Aligned(rd), InFile(rd), InReach(rd), pc = "sector"
  PROVE  /\ NextByte \in Nat /\ NextByte \div ClusterBytes < Len(Chain)
         /\ chunk \in Nat \ {0} /\ Left \in Nat /\ chunk <= Left
         /\ chunk + (NextByte % ClusterBytes) <= ClusterBytes
         /\ spos = FilePosition(NextByte) /\ spos \in Nat
         /\ \A d \in Nat : d < chunk => (NextByte % ClusterBytes) + d < ClusterBytes
<1>1. /\ NextByte \in Nat /\ Place \in 0 .. Len(Chain) - 1
      /\ Left = chunk + total /\ total \in Nat /\ chunk \in Nat
      /\ chunk > 0
  BY NextByteInFile DEF Left, Account
<1>2. Place \in Nat /\ Place < Len(Chain) /\ NextByte \div ClusterBytes = Place
  BY <1>1, ChainType DEF Place
<1>3. chunk + (NextByte % ClusterBytes) <= ClusterBytes /\ spos = FilePosition(NextByte)
  BY DEF Sound
<1>4. spos \in Nat
  BY <1>1, <1>2, <1>3, FilePositionType
<1>5. \A d \in Nat : d < chunk => (NextByte % ClusterBytes) + d < ClusterBytes
  <2> DEFINE r == NextByte % ClusterBytes
  <2>1. r \in Nat /\ chunk + r <= ClusterBytes /\ ClusterBytes \in Nat
    BY <1>1, <1>3, InCluster, ClusterBytesType
  <2> HIDE DEF r
  <2>2. \A d \in Nat : d < chunk => r + d < ClusterBytes
    BY <1>1, <2>1
  <2>3. QED
    BY <2>2 DEF r
<1>6. /\ chunk \in Nat \ {0} /\ Left \in Nat /\ chunk <= Left
  BY <1>1
<1>7. QED
  BY <1>1, <1>2, <1>3, <1>4, <1>5, <1>6

LEMMA CopiedBytes ==
  ASSUME FileFits, TypeInv, Account, Sound, Aligned(rd), InFile(rd), InReach(rd), pc = "sector",
         NEW j \in 1 .. Piece(chunk)
  PROVE  Copied[j] = FilePosition(NextByte + (j - 1))
<1> DEFINE d == j - 1
<1>1. /\ d \in Nat /\ d < chunk /\ d < SectorSize /\ SectorSize \in Nat \ {0}
      /\ Piece(chunk) <= chunk /\ Piece(chunk) <= SectorSize
  <2>0. chunk \in Nat \ {0}
    BY SectorFacts
  <2>1. /\ Piece(chunk) \in Nat /\ chunk \in Nat /\ SectorSize \in Nat \ {0}
        /\ Piece(chunk) <= chunk /\ Piece(chunk) <= SectorSize
    BY <2>0, PieceType, FatReadAssumption
  <2>2. QED
    BY <2>1
<1>2. FilePosition(NextByte + d) = spos + d
  BY <1>1, SectorFacts, FilePositionNext
<1>3. Remainder(spos, SectorSize) + d < SectorSize
  <2>0. spos \in Nat /\ chunk \in Nat
    BY SectorFacts
  <2>1. CASE (spos % SectorSize) + chunk <= SectorSize
    <3> DEFINE r == spos % SectorSize
    <3>1. Remainder(spos, SectorSize) = r /\ r \in Nat /\ r + chunk <= SectorSize
      BY <1>1, <2>0, <2>1, DivisionFacts, QuotientNat
    <3> HIDE DEF r, d
    <3>2. r + d < SectorSize
      BY <1>1, <2>0, <3>1
    <3>3. QED
      BY <3>1, <3>2
  <2>2. CASE \E s \in Nat : spos = s * SectorSize
    <3>1. PICK s \in Nat : spos = s * SectorSize
      BY <2>2
    <3>2. 0 \in 0 .. SectorSize - 1 /\ s * SectorSize + 0 = s * SectorSize /\ s * SectorSize \in Nat
      BY <1>1
    <3>3. (s * SectorSize) % SectorSize = 0
      <4>1. SectorSize \in Nat \ {0} /\ s \in Int /\ 0 \in 0 .. SectorSize - 1
        BY <3>2, FatReadAssumption
      <4>2. (s * SectorSize + 0) % SectorSize = 0
        BY <4>1, DivisionUnique
      <4>3. QED
        BY <3>2, <4>2
    <3>4. Remainder(spos, SectorSize) = 0
      BY <1>1, <3>1, <3>2, <3>3, QuotientNat
    <3>5. QED
      BY <1>1, <3>4
  <2>3. QED
    BY <2>1, <2>2 DEF Sound
<1>4. Copied[j] = Buffered(spos, d)
  BY PieceType
<1>5. spos >= 0
  BY SectorFacts
<1> HIDE DEF d
<1>6. Copied[j] = spos + d
  BY <1>3, <1>4, <1>5 DEF Buffered
<1>7. QED
  BY <1>2, <1>6 DEF d

LEMMA ReadSectorSound ==
  ASSUME FileFits, TypeInv, Account, Tracks, Sound, ReadSector
  PROVE  Sound'
<1> DEFINE p == Piece(chunk)
<1>1. /\ pc = "sector" /\ out' = out \o Copied /\ rd' = rd /\ total' = total
      /\ pc' \in {"sector", "retrieve", "member"}
  BY DEF ReadSector, Copied
<1>2. SUFFICES ASSUME Aligned(rd), InFile(rd), InReach(rd)
               PROVE  /\ pc' = "retrieve" => NextByte' % ClusterBytes = 0
                      /\ pc' = "sector" =>
                           /\ chunk' + (NextByte' % ClusterBytes) <= ClusterBytes
                           /\ spos' = FilePosition(NextByte')
                           /\ \E s \in Nat : spos' = s * SectorSize
                           /\ total > 0 => (NextByte' + chunk') % ClusterBytes = 0
                      /\ \A j \in 1 .. Len(out') : out'[j] = FilePosition(rd.pos + j - 1)
  BY <1>1 DEF Sound, InOnePiece
<1>3. /\ p \in Nat /\ p = (IF chunk > SectorSize THEN SectorSize ELSE chunk)
      /\ Len(out) \in Nat /\ rd.pos \in Nat /\ Len(out') = Len(out) + p
      /\ SectorSize \in Nat \ {0} /\ total \in Nat
  <2>1. chunk \in Nat /\ total \in Nat
    BY <1>1, <1>2, NextByteInFile
  <2>2. p \in Nat /\ p = (IF chunk > SectorSize THEN SectorSize ELSE chunk)
    BY <2>1, PieceType
  <2>3. Len(out) \in Nat /\ rd.pos \in Nat /\ SectorSize \in Nat \ {0}
    BY ReadType, FatReadAssumption DEF TypeInv
  <2>4. Len(out') = Len(out) + p
    BY <1>1, <2>1, OutGrows
  <2>5. QED
    BY <2>1, <2>2, <2>3, <2>4
<1>4. NextByte' = NextByte + p
  BY <1>1, <1>3 DEF NextByte
<1>5. /\ NextByte \in Nat /\ chunk \in Nat \ {0} /\ chunk <= Left /\ Left \in Nat
      /\ NextByte \div ClusterBytes < Len(Chain)
      /\ spos = FilePosition(NextByte) /\ spos \in Nat
  BY <1>1, <1>2, SectorFacts
<1>6. ASSUME NEW j \in 1 .. Len(out')
      PROVE  out'[j] = FilePosition(rd.pos + j - 1)
  <2>1. out'[j] = IF j <= Len(out) THEN out[j] ELSE Copied[j - Len(out)]
    BY <1>1, <1>5, OutGrows
  <2>2. CASE j <= Len(out)
    <3>1. j \in 1 .. Len(out)
      BY <1>3, <2>2
    <3>2. QED
      BY <1>2, <2>1, <3>1 DEF Sound
  <2>3. CASE ~(j <= Len(out))
    <3> DEFINE len == Len(out)
               l == j - len
    <3>1. l \in 1 .. p /\ NextByte + (l - 1) = rd.pos + j - 1
      <4>1. /\ len \in Nat /\ p \in Nat /\ rd.pos \in Nat
            /\ j \in 1 .. len + p /\ ~(j <= len) /\ NextByte = rd.pos + len
        BY <1>3, <2>3 DEF NextByte
      <4> HIDE DEF len, p
      <4>2. QED
        BY <4>1
    <3>2. Copied[l] = FilePosition(NextByte + (l - 1))
      BY <1>1, <1>2, <3>1, CopiedBytes
    <3>3. QED
      BY <2>1, <2>3, <3>1, <3>2
  <2>4. QED
    BY <2>2, <2>3
<1>7. CASE chunk > SectorSize
  <2>1. /\ p = SectorSize /\ pc' = "sector" /\ chunk' = chunk - SectorSize
        /\ spos' = Signed(spos + SectorSize) /\ SectorSize < chunk
    BY <1>3, <1>7 DEF ReadSector
  <2>2. (NextByte % ClusterBytes) + SectorSize < ClusterBytes
    BY <1>1, <1>3, <1>2, <2>1, SectorFacts
  <2>3. /\ FilePosition(NextByte') = spos + SectorSize
        /\ NextByte' % ClusterBytes = (NextByte % ClusterBytes) + SectorSize
    BY <1>3, <1>4, <1>5, <2>1, <2>2, FilePositionNext
  <2>4. spos + SectorSize < IntHalf
    <3>1. SectorSize < Left
      BY <1>3, <1>5, <2>1
    <3>2. FilePosition(NextByte + SectorSize) < IntHalf
      BY <1>1, <1>3, <1>2, <3>1, NextByteInReach
    <3>3. QED
      BY <1>4, <2>1, <2>3, <3>2
  <2>5. spos' = FilePosition(NextByte')
    BY <1>3, <1>5, <2>1, <2>3, <2>4, PositionIsInt
  <2>6. chunk' + (NextByte' % ClusterBytes) <= ClusterBytes
    <3> DEFINE r == NextByte % ClusterBytes
    <3>1. r \in Nat /\ chunk + r <= ClusterBytes /\ ClusterBytes \in Nat
      BY <1>1, <1>2, <1>5, SectorFacts, InCluster, ClusterBytesType
    <3>2. NextByte' % ClusterBytes = r + SectorSize
      BY <2>3
    <3> HIDE DEF r
    <3>3. (chunk - SectorSize) + (r + SectorSize) <= ClusterBytes
      BY <1>3, <1>5, <3>1
    <3>4. QED
      BY <2>1, <3>2, <3>3
  <2>7. \E s \in Nat : spos' = s * SectorSize
    <3>1. ~((spos % SectorSize) + chunk <= SectorSize)
      <4> DEFINE r == spos % SectorSize
      <4>1. r \in Nat
        BY <1>3, <1>5, DivisionFacts
      <4> HIDE DEF r
      <4>2. ~(r + chunk <= SectorSize)
        BY <1>3, <1>5, <2>1, <4>1
      <4>3. QED
        BY <4>2 DEF r
    <3>2. PICK s \in Nat : spos = s * SectorSize
      BY <1>1, <1>2, <3>1 DEF Sound
    <3>3. spos' = (s + 1) * SectorSize /\ s + 1 \in Nat
      BY <1>3, <2>3, <2>5, <3>2
    <3>4. QED
      BY <3>3
  <2>8. NextByte' + chunk' = NextByte + chunk
    BY <1>3, <1>4, <1>5, <2>1
  <2>9. total > 0 => (NextByte' + chunk') % ClusterBytes = 0
    BY <1>1, <1>2, <2>8 DEF Sound
  <2>10. QED
    BY <1>6, <2>1, <2>5, <2>6, <2>7, <2>9
<1>8. CASE ~(chunk > SectorSize)
  <2>1. p = chunk /\ pc' # "sector" /\ (pc' = "retrieve" => total > 0)
    BY <1>3, <1>8 DEF ReadSector
  <2>2. pc' = "retrieve" => NextByte' % ClusterBytes = 0
    BY <1>1, <1>4, <1>2, <2>1 DEF Sound
  <2>3. QED
    BY <1>6, <2>1, <2>2
<1>9. QED
  BY <1>7, <1>8

LEMMA SoundStep ==
  ASSUME FileFits, TypeInv, Account, Tracks, Sound, [Next]_vars
  PROVE  Sound'
<1>1. ASSUME NEW r \in Reads, Read(r)
      PROVE  Sound'
  BY <1>1, IdleSound DEF Read
<1>2. CASE NextMember
  <2>1. /\ pc = "member" /\ k < rd.nmemb /\ pc' = "retrieve" /\ rd' = rd /\ out' = out
        /\ NextByte' = NextByte
    BY <1>2 DEF NextMember, NextByte
  <2>2. SUFFICES ASSUME Aligned(rd), InFile(rd)
                 PROVE  InOnePiece(NextByte, total')
    BY <2>1 DEF Sound
  <2>3. /\ NextByte = rd.pos + k * rd.size /\ total' = rd.size
        /\ k \in Nat /\ rd.nmemb \in Nat
    BY <1>2, <2>1, <2>2, InFileIsSmall, SizeSigned, ReadType DEF NextMember, NextByte, Account, TypeInv
  <2>4. k \in 0 .. rd.nmemb - 1
    BY <2>1, <2>3
  <2>5. InOnePiece(rd.pos + k * rd.size, rd.size)
    BY <2>2, <2>4 DEF Aligned
  <2>6. QED
    BY <2>3, <2>5
<1>3. CASE ReadReturns
  BY <1>3, IdleSound DEF ReadReturns, Return
<1>4. CASE Retrieve
  BY <1>4 DEF Retrieve, Sound, NextByte
<1>5. ASSUME NEW e \in FatEntries(cl), Walk(e)
      PROVE  Sound'
  <2>1. CASE e \in StopEntries
    BY <1>5, <2>1, IdleSound DEF Walk, Return
  <2>2. CASE e \notin StopEntries
    BY <1>5, <2>2 DEF Walk, Sound, NextByte
  <2>3. QED
    BY <2>1, <2>2
<1>6. CASE StartChunk
  BY <1>6, StartChunkSound
<1>7. CASE ReadSector
  BY <1>7, ReadSectorSound
<1>8. CASE UNCHANGED vars
  BY <1>8 DEF vars, Sound, NextByte
<1>9. QED
  BY <1>1, <1>2, <1>3, <1>4, <1>5, <1>6, <1>7, <1>8 DEF Next, Step

LEMMA SoundBytes ==
  ASSUME TypeInv, Sound
  PROVE  ReadsFileBytes
<1>1. DOMAIN out = 1 .. Len(out)
  BY LenProperties DEF TypeInv
<1>2. QED
  BY <1>1 DEF Sound, ReadsFileBytes

\* A read whose members are each in one piece gets the bytes of the file, over
\* sector and cluster boundaries, if the file is less than 2 GB long and the
\* clusters that are read lie in reach.
THEOREM BytesAreTheFiles == FileFits => (Spec => []ReadsFileBytes)
<1> SUFFICES ASSUME FileFits PROVE Spec => []ReadsFileBytes
  OBVIOUS
<1> DEFINE Inv == TypeInv /\ Account /\ Tracks /\ Sound
<1>1. Init => Inv
  BY InitType, InitAccount, InitTracks, InitSound
<1>2. Inv /\ [Next]_vars => Inv'
  BY TypeStep, AccountStep, TracksStep, SoundStep
<1>3. Inv => ReadsFileBytes
  BY SoundBytes
<1> HIDE DEF Inv
<1>4. QED
  BY <1>1, <1>2, <1>3, PTL DEF Spec

=============================================================================
