----------------------------- MODULE NameProofs -----------------------------
(***************************************************************************)
(* From a path to an entry of a directory: the properties of PathParser,   *)
(* for paths of every length over every set of characters and for every    *)
(* limit, and those of FatDirectory, for directories, volumes and fields   *)
(* of every size and for all names.                                        *)
(***************************************************************************)
EXTENDS PathParser, FatDirectory, Numbers, FiniteSetTheorems, FunctionTheorems,
        SequenceTheorems

-----------------------------------------------------------------------------
(* The path parser.  Its invariant has two parts.  Bounds says where the   *)
(* cursor is: behind the root, at a part's first character or at the       *)
(* terminator.  Covered says that the parts are the texts of components    *)
(* that follow one another, the last of them right before the cursor, and  *)
(* that there is no component in front of the cursor but those.  While     *)
(* parts are added there is no empty component before the cursor.          *)

End == Len(path) + 1

Bounds ==
  /\ path \in Seq(Chars) /\ parts \in Seq(Seq(Chars \ {"/"}))
  /\ stage \in {"start", "parts", "done"}
  /\ cursor \in 1 .. End /\ far \in 0 .. End
  /\ stage = "start" => drive = NoDrive
  /\ drive = NoDrive => parts = <<>> /\ stage # "parts"
  /\ drive # NoDrive =>
       /\ Accepted /\ drive \in Digits
       /\ cursor >= 4
       /\ path[cursor - 1] = "/" \/ cursor = End
  /\ stage = "parts" => \A j \in 3 .. cursor - 2 : ~DoubleSlash(j)
  /\ \A j \in DOMAIN parts : parts[j] # <<>> /\ Len(parts[j]) + 3 <= PathLimit

\* Where the part before the cursor ends, the slash behind it included.
Before(cs, n) == IF n = 0 THEN 3 ELSE cs[n][2] + 1

CoveredBy(cs) ==
  /\ \A j \in DOMAIN parts :
       /\ cs[j] \in Leading
       /\ parts[j] = Text(cs[j])
       /\ cs[j][1] = Before(cs, j - 1) + 1
       /\ cs[j][1] < cursor
  /\ \A j, k \in DOMAIN parts : j < k => cs[j][1] < cs[k][1]
  /\ stage = "parts" =>
       /\ cursor = (IF Before(cs, Len(parts)) = End THEN End
                                                    ELSE Before(cs, Len(parts)) + 1)
       /\ \A c \in Components : c[1] < cursor => \E j \in DOMAIN parts : c = cs[j]
  /\ stage = "done" =>
       \A c \in Leading : \E j \in DOMAIN parts : c = cs[j]

Covered == drive # NoDrive => \E cs \in [DOMAIN parts -> Leading] : CoveredBy(cs)

ParserInv == Bounds /\ Covered

-----------------------------------------------------------------------------
(* Positions.                                                              *)

LEMMA SlashIsChar ==
  /\ {":", "/"} \subseteq Chars /\ Digits \subseteq Chars
  /\ ":" \notin Digits /\ "/" \notin Digits
  /\ Terminator \notin Chars /\ NoDrive \notin Chars /\ NoDrive \notin Digits
  /\ PathLimit \in Nat
BY PathParserAssumption

\* The greatest of a set of positions.
LEMMA HighestIs ==
  ASSUME NEW n \in Nat, NEW s, s \subseteq 0 .. n, s # {}
  PROVE  Highest(s) \in s /\ \A l \in s : l <= Highest(s)
BY GreatestElement DEF Highest

LEMMA CharAtType ==
  ASSUME path \in Seq(Chars), NEW j \in Int
  PROVE  /\ j \in 1 .. Len(path) => CharAt(j) = path[j] /\ path[j] \in Chars
         /\ j \notin 1 .. Len(path) => CharAt(j) = Terminator
         /\ CharAt(j) = Terminator <=> j \notin 1 .. Len(path)
BY SlashIsChar DEF CharAt

\* A part ends at the first slash or at the terminator.
LEMMA PartEndIs ==
  ASSUME path \in Seq(Chars), cursor \in 1 .. End
  PROVE  /\ PartEnd \in cursor .. End
         /\ CharAt(PartEnd) \in {"/", Terminator}
         /\ \A l \in cursor .. (PartEnd - 1) : CharAt(l) # "/"
<1> DEFINE T == {j \in cursor .. End : CharAt(j) \in {"/", Terminator}}
<1>1. Len(path) \in Nat
  OBVIOUS
<1>2. T \subseteq Nat
  BY <1>1 DEF End
<1>3. End \in T
  BY <1>1, CharAtType DEF End
<1>4. PICK e \in T : \A j \in T : e <= j
  <2> HIDE DEF T
  <2>1. QED
    BY <1>2, <1>3, LeastElement
<1>5. \A l \in cursor .. (e - 1) : CharAt(l) # "/"
  BY <1>1, <1>4 DEF End
<1>6. e \in cursor .. (Len(path) + 1) /\ CharAt(e) \in {"/", Terminator}
  BY DEF End
<1>7. QED
  BY <1>5, <1>6 DEF PartEnd, End

\* What is read of the string by the check of its format.
LEMMA StartReads ==
  ASSUME path \in Seq(Chars)
  PROVE  Highest({Len(path) + 1} \cup FormatReads) \in 0 .. End
<1>1. Len(path) \in Nat /\ PathLimit \in Nat
  BY SlashIsChar
<1>2. {Len(path) + 1} \cup FormatReads \subseteq 0 .. (Len(path) + 1)
  BY <1>1 DEF FormatReads
<1> DEFINE s == {Len(path) + 1} \cup FormatReads
           n == Len(path) + 1
<1>3. s # {} /\ s \subseteq 0 .. n /\ n \in Nat
  BY <1>1, <1>2
<1>4. Highest(s) \in 0 .. n
  <2> HIDE DEF s, n
  <2>1. QED
    BY <1>3, HighestIs
<1>5. QED
  BY <1>4 DEF End

-----------------------------------------------------------------------------
(* Components.                                                             *)

\* Two components that start at the same place are the same.
LEMMA ComponentsApart ==
  ASSUME path \in Seq(Chars), NEW c \in Components, NEW d \in Components, c[1] = d[1]
  PROVE  c = d
<1>1. /\ c \in (4 .. Len(path)) \X (4 .. Len(path)) /\ c[1] <= c[2]
      /\ \A j \in c[1] .. c[2] : path[j] # "/"
      /\ CharAt(c[2] + 1) \in {"/", Terminator}
  BY DEF Components
<1>2. /\ d \in (4 .. Len(path)) \X (4 .. Len(path)) /\ d[1] <= d[2]
      /\ \A j \in d[1] .. d[2] : path[j] # "/"
      /\ CharAt(d[2] + 1) \in {"/", Terminator}
  BY DEF Components
<1>3. ASSUME NEW x \in 4 .. Len(path), NEW y \in 4 .. Len(path), x < y,
             \A j \in c[1] .. y : path[j] # "/", c[1] <= x,
             CharAt(x + 1) \in {"/", Terminator}
      PROVE  FALSE
  <2>1. x + 1 \in c[1] .. y /\ x + 1 \in 1 .. Len(path)
    BY <1>1, <1>3
  <2>2. CharAt(x + 1) = path[x + 1] /\ path[x + 1] \in Chars
    BY <2>1, CharAtType
  <2>3. QED
    BY <1>3, <2>1, <2>2, SlashIsChar
<1>4. ~ (c[2] < d[2]) /\ ~ (d[2] < c[2])
  BY <1>1, <1>2, <1>3
<1>5. c[2] = d[2]
  BY <1>1, <1>2, <1>4
<1>6. QED
  BY <1>1, <1>2, <1>5

\* The part at the cursor is a component, and no empty one comes before it.
LEMMA PartIsComponent ==
  ASSUME path \in Seq(Chars), cursor \in 4 .. End, PartEnd > cursor,
         path[cursor - 1] = "/", \A j \in 3 .. cursor - 2 : ~DoubleSlash(j)
  PROVE  <<cursor, PartEnd - 1>> \in Components /\ <<cursor, PartEnd - 1>> \in Leading
<1>1. Len(path) \in Nat
  OBVIOUS
<1>2. /\ PartEnd \in cursor .. End /\ CharAt(PartEnd) \in {"/", Terminator}
      /\ \A l \in cursor .. (PartEnd - 1) : CharAt(l) # "/"
  BY <1>1, PartEndIs DEF End
<1>3. cursor \in 4 .. Len(path) /\ PartEnd - 1 \in 4 .. Len(path)
      /\ (PartEnd - 1) + 1 = PartEnd /\ cursor <= PartEnd - 1
  BY <1>1, <1>2 DEF End
<1>4. \A j \in cursor .. (PartEnd - 1) : path[j] # "/"
  <2>1. TAKE j \in cursor .. (PartEnd - 1)
  <2>2. j \in 1 .. Len(path)
    BY <1>1, <1>3
  <2>3. QED
    BY <1>2, <2>2, CharAtType
<1>5. <<cursor, PartEnd - 1>> \in Components
  BY <1>2, <1>3, <1>4 DEF Components
<1>6. QED
  BY <1>5 DEF Leading

\* Behind the start of the part at the cursor no component starts before the
\* part has ended.
LEMMA NoneWithinPart ==
  ASSUME path \in Seq(Chars), cursor \in 4 .. End, NEW c \in Components,
         cursor < c[1]
  PROVE  PartEnd < c[1]
<1>1. /\ c[1] \in 4 .. Len(path) /\ path[c[1] - 1] = "/" /\ Len(path) \in Nat
      /\ path[c[1]] # "/"
  BY DEF Components
<1>2. /\ PartEnd \in cursor .. End /\ CharAt(PartEnd) \in {"/", Terminator}
      /\ \A l \in cursor .. (PartEnd - 1) : CharAt(l) # "/"
  BY <1>1, PartEndIs DEF End
<1>3. CharAt(c[1] - 1) = "/"
  BY <1>1, CharAtType
<1>4. ~ (c[1] - 1 < PartEnd)
  BY <1>1, <1>2, <1>3 DEF End
<1>5. QED
  BY <1>1, <1>2, <1>4 DEF End

-----------------------------------------------------------------------------
(* The invariant.                                                          *)

LEMMA SamePath ==
  ASSUME path' = path
  PROVE  /\ Components' = Components /\ Leading' = Leading
         /\ \A j : DoubleSlash(j)' = DoubleSlash(j)
         /\ Accepted' = Accepted /\ End' = End
         /\ \A c : Text(c)' = Text(c)
<1>1. Components' = Components
  BY DEF Components, CharAt
<1>2. /\ Accepted' = Accepted /\ End' = End
      /\ \A j : DoubleSlash(j)' = DoubleSlash(j)
  BY DEF DoubleSlash, Accepted, ValidFormat, CharAt, End
<1>3. \A c : Text(c)' = Text(c)
  BY DEF Text
<1>4. Leading' = Leading
  BY <1>1, <1>2 DEF Leading
<1>5. QED
  BY <1>1, <1>2, <1>3, <1>4

LEMMA ParserInitInv == ParserInit => ParserInv
<1> SUFFICES ASSUME ParserInit PROVE ParserInv
  OBVIOUS
<1>1. path \in Seq(Chars) /\ Len(path) \in Nat
  BY DEF ParserInit
<1>2. /\ stage = "start" /\ cursor = 1 /\ drive = NoDrive /\ parts = <<>> /\ far = 0
  BY DEF ParserInit
<1>3. QED
  BY <1>1, <1>2 DEF ParserInv, Bounds, Covered, End

LEMMA StartInv ==
  ASSUME ParserInv, Start
  PROVE  ParserInv'
<1>1. /\ path \in Seq(Chars) /\ Len(path) \in Nat /\ parts = <<>>
      /\ parts' = parts /\ path' = path /\ stage = "start"
      /\ cursor \in 1 .. End /\ drive = NoDrive
  BY DEF ParserInv, Bounds, Start
<1>2. far' \in 0 .. End
  BY <1>1, StartReads DEF Start
<1>3. CASE ~Accepted
  <2>1. stage' = "done" /\ cursor' = cursor /\ drive' = NoDrive
    BY <1>1, <1>3 DEF Start
  <2>2. QED
    BY <1>1, <1>2, <2>1 DEF ParserInv, Bounds, Covered, End
<1>4. CASE Accepted
  <2>1. stage' = "parts" /\ cursor' = 4 /\ drive' = CharAt(1)
    BY <1>4 DEF Start
  <2>2. Len(path) >= 3 /\ CharAt(1) \in Digits /\ CharAt(3) = "/"
    BY <1>4 DEF Accepted, ValidFormat
  <2>3. drive' \in Digits /\ drive' # NoDrive /\ path[3] = "/"
    BY <1>1, <2>1, <2>2, CharAtType, SlashIsChar
  <2>4. Bounds'
    BY <1>1, <1>2, <1>4, <2>1, <2>2, <2>3, SamePath DEF Bounds, End
  <2>5. \A cs : CoveredBy(cs)'
    <3> SUFFICES ASSUME NEW cs PROVE CoveredBy(cs)'
      OBVIOUS
    <3>1. parts' = <<>> /\ Len(parts') = 0 /\ DOMAIN parts' = {}
      BY <1>1
    <3>2. Before(cs, 0)' = 3
      BY DEF Before
    <3>3. \A c \in Components' : ~ (c[1] < cursor')
      BY <1>1, <2>1 DEF Components
    <3>4. End' = Len(path) + 1
      BY <1>1 DEF End
    <3>5. QED
      BY <1>1, <2>1, <2>2, <3>1, <3>2, <3>3, <3>4 DEF CoveredBy
  <2>6. Covered'
    <3>1. [j \in DOMAIN parts' |-> <<4, 4>>] \in [DOMAIN parts' -> Leading']
      BY <1>1
    <3>2. QED
      BY <2>5, <3>1 DEF Covered
  <2>7. QED
    BY <2>4, <2>6 DEF ParserInv
<1>5. QED
  BY <1>3, <1>4

LEMMA PartAdvances ==
  ASSUME ParserInv, stage = "parts"
  PROVE  /\ path \in Seq(Chars) /\ Len(path) \in Nat /\ cursor \in 4 .. End
         /\ PartEnd \in cursor .. End
         /\ AfterPart(PartEnd) = (IF PartEnd = End THEN End ELSE PartEnd + 1)
         /\ PartEnd # End => path[PartEnd] = "/"
         /\ Highest({far, PartEnd}) \in 0 .. End
         /\ drive # NoDrive
<1>1. /\ path \in Seq(Chars) /\ Len(path) \in Nat /\ cursor \in 1 .. End
      /\ far \in 0 .. End /\ drive # NoDrive /\ cursor >= 4
  BY DEF ParserInv, Bounds
<1>2. PartEnd \in cursor .. End /\ CharAt(PartEnd) \in {"/", Terminator}
  BY <1>1, PartEndIs
<1>3. PartEnd = End => CharAt(PartEnd) # "/"
  BY <1>1, CharAtType, SlashIsChar DEF End
<1>4. PartEnd # End => CharAt(PartEnd) = "/" /\ path[PartEnd] = "/"
  BY <1>1, <1>2, CharAtType DEF End
<1>5. Highest({far, PartEnd}) \in 0 .. End
  <2>1. End \in Nat /\ {far, PartEnd} \subseteq 0 .. End /\ {far, PartEnd} # {}
    BY <1>1, <1>2 DEF End
  <2>2. Highest({far, PartEnd}) \in {far, PartEnd}
    BY <2>1, HighestIs
  <2>3. QED
    BY <2>1, <2>2
<1>6. QED
  BY <1>1, <1>2, <1>3, <1>4, <1>5 DEF AfterPart, End

LEMMA AddPartInv ==
  ASSUME ParserInv, AddPart
  PROVE  ParserInv'
<1> DEFINE n == Len(parts)
           e == PartEnd
           new == SubSeq(path, cursor, e - 1)
<1>1. /\ stage = "parts" /\ e > cursor /\ parts' = Append(parts, new)
      /\ cursor' = AfterPart(e) /\ far' = Highest({far, e})
      /\ path' = path /\ stage' = stage /\ drive' = drive
  BY DEF AddPart
<1>2. /\ path \in Seq(Chars) /\ Len(path) \in Nat /\ cursor \in 4 .. End
      /\ e \in cursor .. End
      /\ AfterPart(e) = (IF e = End THEN End ELSE e + 1)
      /\ e # End => path[e] = "/"
      /\ Highest({far, e}) \in 0 .. End
      /\ drive # NoDrive
  BY <1>1, PartAdvances
<1> HIDE DEF e
<1>3. /\ parts \in Seq(Seq(Chars \ {"/"})) /\ Accepted /\ drive \in Digits
      /\ path[cursor - 1] = "/"
      /\ \A j \in 3 .. cursor - 2 : ~DoubleSlash(j)
      /\ \A j \in DOMAIN parts : parts[j] # <<>> /\ Len(parts[j]) + 3 <= PathLimit
  BY <1>1, <1>2 DEF ParserInv, Bounds, End
<1>4. <<cursor, e - 1>> \in Components /\ <<cursor, e - 1>> \in Leading
  BY <1>1, <1>2, <1>3, PartIsComponent DEF e
<1>5. new \in Seq(Chars \ {"/"}) /\ new # <<>> /\ Len(new) + 3 <= PathLimit
  <2>1. e - 1 \in cursor .. Len(path) /\ cursor \in 1 .. Len(path) /\ cursor >= 4
    BY <1>1, <1>2 DEF End
  <2>2. \A j \in cursor .. e - 1 : path[j] \in Chars \ {"/"}
    <3>1. TAKE j \in cursor .. e - 1
    <3>2. j \in 1 .. Len(path)
      BY <1>2, <2>1
    <3>3. path[j] # "/"
      BY <1>4 DEF Components
    <3>4. QED
      BY <1>2, <3>2, <3>3
  <2>3. /\ new \in Seq(Chars) /\ Len(new) = e - 1 - cursor + 1
        /\ \A k \in 1 .. (e - 1 - cursor + 1) : new[k] = path[cursor + k - 1]
    BY <1>2, <2>1, SubSeqProperties
  <2>4. \A k \in 1 .. Len(new) : new[k] \in Chars \ {"/"}
    BY <1>2, <2>1, <2>2, <2>3
  <2>5. Len(path) <= PathLimit /\ PathLimit \in Nat
    BY <1>3, SlashIsChar DEF Accepted
  <2> HIDE DEF new
  <2>6. new \in Seq(Chars \ {"/"})
    BY <2>3, <2>4
  <2>7. QED
    BY <1>1, <1>2, <2>1, <2>3, <2>5, <2>6
<1> HIDE DEF new
<1>6. /\ n \in Nat /\ Len(parts') = n + 1 /\ DOMAIN parts = 1 .. n /\ DOMAIN parts' = 1 .. n + 1
      /\ \A j \in 1 .. n : parts'[j] = parts[j]
      /\ parts'[n + 1] = new
      /\ parts' \in Seq(Seq(Chars \ {"/"}))
  BY <1>1, <1>3, <1>5
<1>7. Bounds'
  <2>1. cursor' \in 4 .. End /\ (path[cursor' - 1] = "/" \/ cursor' = End)
    BY <1>1, <1>2 DEF End
  <2>2. \A j \in DOMAIN parts' : parts'[j] # <<>> /\ Len(parts'[j]) + 3 <= PathLimit
    <3>1. TAKE j \in DOMAIN parts'
    <3>2. CASE j \in 1 .. n
      BY <1>3, <1>6, <3>2
    <3>3. CASE j = n + 1
      BY <1>5, <1>6, <3>3
    <3>4. QED
      BY <1>6, <3>2, <3>3
  <2>3. \A j \in 3 .. cursor' - 2 : ~DoubleSlash(j)
    <3>1. TAKE j \in 3 .. cursor' - 2
    <3>2. j <= e - 1
      BY <1>1, <1>2 DEF End
    <3>3. CASE j <= cursor - 2
      BY <1>2, <1>3, <3>3
    <3>4. CASE j = cursor - 1
      <4>1. j + 1 = cursor /\ path[cursor] # "/"
        BY <1>1, <1>2, <1>4, <3>4 DEF Components
      <4>2. QED
        BY <4>1 DEF DoubleSlash
    <3>5. CASE j >= cursor
      <4>1. path[j] # "/"
        BY <1>2, <1>4, <3>2, <3>5 DEF Components
      <4>2. QED
        BY <4>1 DEF DoubleSlash
    <3>6. QED
      BY <1>2, <3>3, <3>4, <3>5
  <2>4. QED
    BY <1>1, <1>2, <1>3, <1>6, <2>1, <2>2, <2>3, SamePath DEF Bounds, End
<1>8. PICK cs \in [DOMAIN parts -> Leading] : CoveredBy(cs)
  BY <1>2 DEF ParserInv, Covered
<1>9. PICK ds : ds = [j \in 1 .. n + 1 |-> IF j \in 1 .. n THEN cs[j] ELSE <<cursor, e - 1>>]
  OBVIOUS
<1>10. /\ ds \in [DOMAIN parts' -> Leading']
       /\ \A j \in 1 .. n : ds[j] = cs[j]
       /\ ds[n + 1] = <<cursor, e - 1>>
  BY <1>1, <1>4, <1>6, <1>8, <1>9, SamePath
<1>11. Before(cs, n) # End /\ cursor = Before(cs, n) + 1
  BY <1>1, <1>2, <1>8 DEF CoveredBy, End
<1>12. \A j \in 1 .. n : /\ cs[j] \in Leading /\ cs[j][1] < cursor /\ cs[j][1] \in Nat
                        /\ parts[j] = Text(cs[j])
                         /\ cs[j][1] = Before(cs, j - 1) + 1
  <2>1. \A j \in 1 .. n : cs[j] \in Leading /\ cs[j][1] < cursor /\ parts[j] = Text(cs[j])
                         /\ cs[j][1] = Before(cs, j - 1) + 1
    BY <1>6, <1>8 DEF CoveredBy
  <2>2. \A c \in Leading : c[1] \in Nat
    BY <1>2 DEF Leading, Components
  <2>3. QED
    BY <2>1, <2>2
<1>13. \A k \in 0 .. n : Before(ds, k) = Before(cs, k)
  <2>1. TAKE k \in 0 .. n
  <2>2. k # 0 => ds[k] = cs[k]
    BY <1>6, <1>10
  <2>3. QED
    BY <2>2 DEF Before
<1>14. Before(ds, n + 1) = e
  BY <1>2, <1>6, <1>10 DEF Before, End
<1>15. cursor' > cursor
  BY <1>1, <1>2 DEF End
<1>16. CoveredBy(ds)'
  <2>1. ASSUME NEW j \in 1 .. n + 1
        PROVE  /\ ds[j] \in Leading /\ parts'[j] = Text(ds[j])
               /\ ds[j][1] = Before(ds, j - 1) + 1 /\ ds[j][1] < cursor'
    <3>1. CASE j \in 1 .. n
      <4>1. j - 1 \in 0 .. n
        BY <1>6, <3>1
      <4>2. ds[j][1] = Before(ds, j - 1) + 1
        BY <1>10, <1>12, <1>13, <3>1, <4>1
      <4>3. cs[j][1] < cursor /\ cs[j][1] \in Nat /\ ds[j] = cs[j]
        BY <1>10, <1>12, <3>1
      <4>4. ds[j][1] < cursor'
        BY <1>1, <1>2, <1>15, <4>3 DEF End
      <4>5. QED
        BY <1>6, <1>10, <1>12, <3>1, <4>2, <4>4
    <3>2. CASE j = n + 1
      <4>1. j - 1 = n /\ n \in 0 .. n
        BY <1>6, <3>2
      <4>2. Before(ds, j - 1) = Before(cs, n)
        BY <1>13, <4>1
      <4>3. ds[j][1] = cursor /\ ds[j][2] = e - 1 /\ ds[j] \in Leading
        BY <1>4, <1>10, <3>2
      <4>4. Text(ds[j]) = new
        BY <4>3 DEF Text, new
      <4>5. parts'[j] = new
        BY <1>6, <3>2
      <4>6. ds[j][1] = Before(ds, j - 1) + 1
        BY <1>11, <4>2, <4>3
      <4>7. QED
        BY <1>15, <4>3, <4>4, <4>5, <4>6
    <3>3. QED
      BY <1>6, <3>1, <3>2
  <2>2. \A j, k \in 1 .. n + 1 : j < k => ds[j][1] < ds[k][1]
    <3>1. TAKE j, k \in 1 .. n + 1
    <3>2. HAVE j < k
    <3>3. j \in 1 .. n
      BY <1>6, <3>2
    <3>4. CASE k \in 1 .. n
      BY <1>6, <1>8, <1>10, <3>2, <3>3, <3>4 DEF CoveredBy
    <3>5. CASE k = n + 1
      BY <1>10, <1>12, <3>3, <3>5
    <3>6. QED
      BY <1>6, <3>4, <3>5
  <2>3. cursor' = (IF Before(ds, n + 1) = End THEN End ELSE Before(ds, n + 1) + 1)
    BY <1>1, <1>2, <1>14
  <2>4. ASSUME NEW c \in Components, c[1] < cursor'
        PROVE  \E j \in 1 .. n + 1 : c = ds[j]
    <3>1. c[1] \in 4 .. Len(path)
      BY DEF Components
    <3>2. CASE c[1] < cursor
      <4>1. PICK j \in 1 .. n : c = cs[j]
        BY <1>1, <1>6, <1>8, <3>2 DEF CoveredBy
      <4>2. j \in 1 .. n + 1
        BY <1>6
      <4>3. QED
        BY <1>10, <4>1, <4>2
    <3>3. CASE c[1] = cursor
      <4>1. c = <<cursor, e - 1>>
        BY <1>2, <1>4, <3>3, ComponentsApart
      <4>2. n + 1 \in 1 .. n + 1
        BY <1>6
      <4>3. QED
        BY <1>10, <4>1, <4>2
    <3>4. CASE cursor < c[1]
      <4>1. e < c[1]
        BY <1>2, <3>4, NoneWithinPart DEF e
      <4>2. QED
        BY <1>1, <1>2, <2>4, <3>1, <4>1 DEF End
    <3>5. QED
      BY <1>2, <3>1, <3>2, <3>3, <3>4 DEF End
  <2>5. \A k : Before(ds, k)' = Before(ds, k)
    BY DEF Before
  <2>6. /\ Components' = Components /\ \A c : Text(c)' = Text(c)
        /\ End' = End /\ Leading' = Leading
    BY <1>1, SamePath
  <2>7. stage' = "parts"
    BY <1>1
  <2>8. QED
    BY <1>6, <2>1, <2>2, <2>3, <2>4, <2>5, <2>6, <2>7 DEF CoveredBy
<1>17. QED
  BY <1>7, <1>10, <1>16 DEF ParserInv, Covered

LEMMA LastPartInv ==
  ASSUME ParserInv, LastPart
  PROVE  ParserInv'
<1>1. /\ stage = "parts" /\ PartEnd = cursor /\ stage' = "done"
      /\ cursor' = AfterPart(PartEnd) /\ far' = Highest({far, PartEnd})
      /\ path' = path /\ drive' = drive /\ parts' = parts
  BY DEF LastPart
<1>2. /\ path \in Seq(Chars) /\ Len(path) \in Nat /\ cursor \in 4 .. End
      /\ AfterPart(PartEnd) = (IF cursor = End THEN End ELSE cursor + 1)
      /\ cursor # End => path[cursor] = "/"
      /\ Highest({far, PartEnd}) \in 0 .. End
      /\ drive # NoDrive
  BY <1>1, PartAdvances
<1>3. Bounds'
  <2>1. cursor' \in 4 .. End /\ (path[cursor' - 1] = "/" \/ cursor' = End)
    BY <1>1, <1>2 DEF End
  <2>2. QED
    BY <1>1, <1>2, <2>1, SamePath DEF ParserInv, Bounds, End
<1>4. PICK cs \in [DOMAIN parts -> Leading] : CoveredBy(cs)
  BY <1>2 DEF ParserInv, Covered
<1>5. ASSUME NEW c \in Leading
      PROVE  \E j \in DOMAIN parts : c = cs[j]
  <2>1. /\ c \in Components /\ c[1] \in 4 .. Len(path) /\ path[c[1]] # "/"
        /\ \A j \in 3 .. c[1] - 2 : ~DoubleSlash(j)
    BY <1>2 DEF Leading, Components
  <2>2. c[1] < cursor
    <3> SUFFICES ASSUME ~ (c[1] < cursor) PROVE FALSE
      OBVIOUS
    <3>1. cursor # End
      BY <1>2, <2>1 DEF End
    <3>2. path[cursor - 1] = "/" /\ path[cursor] = "/"
      BY <1>1, <1>2, <3>1 DEF ParserInv, Bounds
    <3>3. c[1] # cursor
      BY <2>1, <3>2
    <3>4. cursor - 1 \in 3 .. c[1] - 2 /\ (cursor - 1) + 1 = cursor
      BY <1>2, <2>1, <3>3 DEF End
    <3>5. DoubleSlash(cursor - 1)
      BY <3>2, <3>4 DEF DoubleSlash
    <3>6. QED
      BY <2>1, <3>4, <3>5
  <2>3. QED
    BY <1>1, <1>4, <2>1, <2>2 DEF CoveredBy
<1>6. \A j \in DOMAIN parts : cs[j][1] < cursor'
  <2>1. TAKE j \in DOMAIN parts
  <2>2. cs[j][1] < cursor /\ cs[j] \in Components
    BY <1>4 DEF CoveredBy, Leading
  <2>3. cs[j][1] \in 4 .. Len(path)
    BY <2>2 DEF Components
  <2>4. QED
    BY <1>1, <1>2, <2>2, <2>3 DEF End
<1>7. CoveredBy(cs)'
  <2>1. \A k : Before(cs, k)' = Before(cs, k)
    BY DEF Before
  <2>2. /\ Components' = Components /\ \A c : Text(c)' = Text(c)
        /\ Leading' = Leading
    BY <1>1, SamePath
  <2>3. stage' # "parts"
    BY <1>1
  <2>4. QED
    BY <1>1, <1>4, <1>5, <1>6, <2>1, <2>2, <2>3 DEF CoveredBy
<1>8. Covered'
  BY <1>1, <1>4, <1>7, SamePath DEF Covered
<1>9. QED
  BY <1>3, <1>8 DEF ParserInv

LEMMA ParserStepInv == ParserInv /\ [ParserNext]_parserVars => ParserInv'
<1> SUFFICES ASSUME ParserInv, [ParserNext]_parserVars PROVE ParserInv'
  OBVIOUS
<1>1. CASE Start
  BY <1>1, StartInv
<1>2. CASE AddPart
  BY <1>2, AddPartInv
<1>3. CASE LastPart
  BY <1>3, LastPartInv
<1>4. CASE UNCHANGED parserVars
  <2>1. /\ path' = path /\ stage' = stage /\ cursor' = cursor /\ drive' = drive
        /\ parts' = parts /\ far' = far
    BY <1>4 DEF parserVars
  <2>2. Bounds'
    BY <2>1, SamePath DEF ParserInv, Bounds
  <2>3. Covered'
    <3>1. \A cs : CoveredBy(cs)' = CoveredBy(cs)
      BY <2>1, SamePath DEF CoveredBy, Before
    <3>2. QED
      BY <2>1, <3>1, SamePath DEF ParserInv, Covered
  <2>4. QED
    BY <2>2, <2>3 DEF ParserInv
<1>5. QED
  BY <1>1, <1>2, <1>3, <1>4 DEF ParserNext, Done

-----------------------------------------------------------------------------
(* The theorems.                                                           *)

\* The parser's variables keep their values: a drive is a digit, and the parts
\* are not empty and have no slash.
THEOREM ParserTypeCorrect == ParserSpec => []ParserTypeOK
<1>1. ParserInv => ParserTypeOK
  BY SlashIsChar DEF ParserInv, Bounds, ParserTypeOK, End
<1>2. QED
  BY <1>1, ParserInitInv, ParserStepInv, PTL DEF ParserSpec

\* The string is not read behind its terminator, whatever it is.
THEOREM StaysWithinString == ParserSpec => []ReadsWithinString
<1>1. ParserInv => ReadsWithinString
  BY DEF ParserInv, Bounds, ReadsWithinString, End
<1>2. QED
  BY <1>1, ParserInitInv, ParserStepInv, PTL DEF ParserSpec

\* The parts fit the limit, and there are none without a root.
THEOREM LimitHolds == ParserSpec => []PartsWithinLimit
<1>1. ParserInv => PartsWithinLimit
  BY DEF ParserInv, Bounds, PartsWithinLimit
<1>2. QED
  BY <1>1, ParserInitInv, ParserStepInv, PTL DEF ParserSpec

\* As many elements as the list of them is long.
LEMMA AllCounted ==
  ASSUME NEW S, NEW n \in Nat, NEW f \in [1 .. n -> S],
         \A s \in S : \E j \in 1 .. n : s = f[j],
         \A j, k \in 1 .. n : f[j] = f[k] => j = k
  PROVE  Cardinality(S) = n
<1>1. f \in Bijection(1 .. n, S)
  BY Fun_IsBij
<1>2. ExistsBijection(1 .. n, S)
  BY <1>1 DEF ExistsBijection
<1>3. QED
  BY <1>2, FS_CountingElements

\* The parts are the components of the path up to the first empty one.
THEOREM PartsCorrect == ParserSpec => []PartsAreComponents
<1>1. ParserInv => PartsAreComponents
  <2> SUFFICES ASSUME ParserInv, stage = "done", drive # NoDrive
               PROVE  \E cs \in [DOMAIN parts -> Leading] :
                        /\ \A j \in DOMAIN parts : parts[j] = Text(cs[j])
                        /\ \A j \in DOMAIN parts : cs[j][1] = (IF j = 1 THEN 4 ELSE cs[j - 1][2] + 2)
                        /\ Len(parts) = Cardinality(Leading)
    BY DEF PartsAreComponents
  <2>1. PICK cs \in [DOMAIN parts -> Leading] : CoveredBy(cs)
    BY DEF ParserInv, Covered
  <2>2. Len(parts) \in Nat /\ DOMAIN parts = 1 .. Len(parts)
    BY DEF ParserInv, Bounds
  <2>3. \A c \in Leading : c[1] \in Nat /\ c[2] \in Nat
    BY DEF ParserInv, Bounds, Leading, Components
  <2>4. \A j \in DOMAIN parts : parts[j] = Text(cs[j])
    BY <2>1 DEF CoveredBy
  <2>5. \A j \in DOMAIN parts : cs[j][1] = (IF j = 1 THEN 4 ELSE cs[j - 1][2] + 2)
    <3>1. TAKE j \in DOMAIN parts
    <3>2. cs[j][1] = Before(cs, j - 1) + 1
      BY <2>1 DEF CoveredBy
    <3>3. CASE j = 1
      BY <3>2, <3>3 DEF Before
    <3>4. CASE j # 1
      <4>1. j - 1 \in DOMAIN parts /\ j - 1 # 0
        BY <2>2, <3>4
      <4>2. cs[j - 1][2] \in Nat
        BY <2>1, <2>3, <4>1
      <4>3. cs[j][1] = (cs[j - 1][2] + 1) + 1
        BY <3>2, <4>1 DEF Before
      <4>4. QED
        BY <3>4, <4>2, <4>3
    <3>5. QED
      BY <3>3, <3>4
  <2>6. Len(parts) = Cardinality(Leading)
    <3>1. \A c \in Leading : \E j \in 1 .. Len(parts) : c = cs[j]
      BY <2>1, <2>2 DEF CoveredBy
    <3>2. \A j, k \in 1 .. Len(parts) : cs[j] = cs[k] => j = k
      <4>1. TAKE j, k \in 1 .. Len(parts)
      <4>2. HAVE cs[j] = cs[k]
      <4>3. cs[j][1] \in Nat /\ cs[j][1] = cs[k][1]
        BY <2>1, <2>2, <2>3, <4>2
      <4>4. ~ (j < k) /\ ~ (k < j)
        BY <2>1, <2>2, <4>3 DEF CoveredBy
      <4>5. QED
        BY <2>2, <4>4
    <3>3. QED
      BY <2>1, <2>2, <3>1, <3>2, AllCounted
  <2>7. QED
    BY <2>1, <2>4, <2>5, <2>6
<1>2. QED
  BY <1>1, ParserInitInv, ParserStepInv, PTL DEF ParserSpec

-----------------------------------------------------------------------------
(* The directory.  Counted is what the count says of the disk: no entry up *)
(* to the count is an END, and an entry that no END and no deleted one     *)
(* comes before is counted.  Read is what the listing says of the disk,    *)
(* and Searched what the item says of the part of the listing that was     *)
(* looked at.                                                              *)

Live(l) == disk[l].kind \notin {"end", "deleted"}

DiskInv ==
  /\ disk \in [1 .. LastSlot -> Slots]
  /\ chain \in Chains \cup {<<>>}
  /\ pc \in {"count", "list", "idle", "lookup", "unreadable"}
  /\ i \in 1 .. LastSlot + 1 /\ total \in 0 .. LastSlot
  /\ item \in Nat /\ overrun \in BOOLEAN
  /\ listing \in Seq(Slots)

\* How far the count has come.
CountedTo == IF pc = "count" THEN i - 1 ELSE LastSlot

Counted ==
  /\ \A l \in 1 .. total : disk[l].kind # "end"
  /\ \A m \in 1 .. CountedTo : (\A l \in 1 .. m : Live(l)) => m <= total
  /\ pc = "count" => /\ total <= i - 1
                     /\ \A l \in 1 .. i - 1 : disk[l].kind # "end"

Read ==
  /\ pc \in {"idle", "lookup"} =>
       /\ Len(listing) = Listed
       /\ \A j \in 1 .. Listed : j \in Own => listing[j] = disk[At(j)]
  /\ pc \notin {"idle", "lookup"} => listing = <<>> /\ item = 0 /\ name = <<>>

\* How far the lookup has come.
SearchedTo == IF pc = "lookup" THEN i - 1 ELSE total

Searched ==
  /\ item # 0 => /\ item \in 1 .. total /\ item <= Len(listing)
                 /\ Matches(listing[item])
  /\ pc \in {"idle", "lookup"} /\ name # <<>> /\ item = 0 =>
       \A l \in 1 .. SearchedTo : l <= Len(listing) => ~ Matches(listing[l])
  /\ pc = "lookup" => i <= total + 1
  /\ Terminated \/ ~root => ~overrun

IInv == DiskInv /\ Counted /\ Read /\ Searched

-----------------------------------------------------------------------------
(* The entries of a directory and their places.                            *)

LEMMA Sizes ==
  /\ RootSlots \in Nat \ {0} /\ ClusterSlots \in Nat \ {0}
  /\ NameWidth \in Nat \ {0} /\ ExtWidth \in Nat \ {0}
  /\ LastSlot \in Nat /\ RootSlots <= LastSlot
BY FatDirectoryAssumption

LEMMA Kinds ==
  ASSUME NEW s \in Slots
  PROVE  /\ s.kind \in {"end", "deleted", "file"}
         /\ s.kind = "end" <=> s = END
         /\ s.kind = "deleted" <=> s = DELETED
         /\ s.kind = "file" =>
              \E nm \in Names, e \in Exts, a \in Attributes : s = File(nm, e, a)
<1>1. s = END \/ s = DELETED
      \/ \E nm \in Names, e \in Exts, a \in Attributes : s = File(nm, e, a)
  BY FatDirectoryAssumption
<1>2. CASE s = END
  BY <1>2 DEF END, DELETED
<1>3. CASE s = DELETED
  BY <1>3 DEF END, DELETED
<1>4. ASSUME NEW nm \in Names, NEW e \in Exts, NEW a \in Attributes, s = File(nm, e, a)
      PROVE  s.kind = "file" /\ s # END /\ s # DELETED
  BY <1>4 DEF File, END, DELETED
<1>5. QED
  BY <1>1, <1>2, <1>3, <1>4

LEMMA AtType ==
  ASSUME chain \in Chains \cup {<<>>}, NEW j \in Own
  PROVE  j \in Nat \ {0} /\ At(j) \in 1 .. LastSlot
<1>1. CASE root
  BY <1>1, Sizes DEF Own, At
<1>2. CASE ~root
  <2> DEFINE n == Len(chain)
             q == (j - 1) \div ClusterSlots
             r == (j - 1) % ClusterSlots
             c == chain[1 + q]
  <2>1. /\ chain \in Seq(Nat \ {0}) /\ n \in Nat /\ n > 0
        /\ \A k \in 1 .. n : chain[k] \in Nat \ {0} /\ chain[k] * ClusterSlots <= LastSlot
    BY <1>2, FatDirectoryAssumption DEF root
  <2>2. j \in 1 .. n * ClusterSlots /\ n * ClusterSlots \in Nat
    BY <1>2, <2>1, Sizes DEF Own
  <2>3. j - 1 \in Nat /\ j - 1 < n * ClusterSlots /\ j \in Nat \ {0}
    BY <2>2
  <2>4. q \in Nat /\ r \in 0 .. ClusterSlots - 1
    BY <2>3, Sizes, DivisionFacts
  <2>5. q < n
    BY <2>1, <2>3, Sizes, DivisionBound
  <2>6. At(j) = (c - 1) * ClusterSlots + 1 + r
    BY <1>2 DEF At
  <2> HIDE DEF n, q, r
  <2>7. 1 + q \in 1 .. n
    BY <2>1, <2>4, <2>5
  <2>8. c \in Nat \ {0} /\ c * ClusterSlots <= LastSlot
    BY <2>1, <2>7
  <2> HIDE DEF c
  <2> DEFINE p == (c - 1) * ClusterSlots
  <2>9. p \in Nat /\ p + ClusterSlots = c * ClusterSlots
    BY <2>8, Sizes
  <2>10. At(j) = p + 1 + r
    BY <2>6
  <2> HIDE DEF p
  <2>11. p + ClusterSlots <= LastSlot
    BY <2>8, <2>9
  <2>12. QED
    BY <2>3, <2>4, <2>9, <2>10, <2>11, Sizes
<1>3. QED
  BY <1>1, <1>2

LEMMA OwnType ==
  ASSUME chain \in Chains \cup {<<>>}
  PROVE  \E n \in Nat : Own = 1 .. n
<1>1. CASE root
  BY <1>1, Sizes DEF Own
<1>2. CASE ~root
  <2>1. Len(chain) \in Nat
    BY <1>2, FatDirectoryAssumption DEF root
  <2>2. Len(chain) * ClusterSlots \in Nat
    BY <2>1, Sizes
  <2>3. QED
    BY <1>2, <2>2 DEF Own
<1>3. QED
  BY <1>1, <1>2

-----------------------------------------------------------------------------
(* A directory in one piece.                                               *)

\* The used entries of such a directory lie where they are counted.
LEMMA UsedInPlace ==
  ASSUME DiskInv, InOnePiece, NEW j \in Used
  PROVE  j \in Own /\ At(j) = j /\ disk[j] # END /\ \A l \in 1 .. j : l \in Used
<1>1. PICK n \in Nat : Own = 1 .. n
  BY OwnType DEF DiskInv
<1>2. j \in 1 .. n /\ \A l \in 1 .. j : disk[At(l)] # END
  BY <1>1 DEF Used
<1>3. \A l \in 1 .. j : l \in Used
  BY <1>1, <1>2 DEF Used
<1>4. At(j) = j
  BY <1>1, <1>2, <1>3 DEF InOnePiece
<1>5. QED
  BY <1>1, <1>2, <1>3, <1>4

\* What was counted of it is used.
LEMMA CountedIsUsed ==
  ASSUME DiskInv, InOnePiece, NEW m \in 0 .. LastSlot,
         \A l \in 1 .. m : disk[l].kind # "end"
  PROVE  \A j \in 1 .. m : j \in Used
<1>1. PICK n \in Nat : Own = 1 .. n
  BY OwnType DEF DiskInv
<1>2. ASSUME NEW k \in Own, k <= m, \A l \in 1 .. k - 1 : l \in Used
      PROVE  k \in Used
  <2>1. At(k) = k
    BY <1>2 DEF InOnePiece
  <2>2. disk[At(k)] # END
    BY <1>1, <1>2, <2>1 DEF END
  <2>3. \A l \in 1 .. k : disk[At(l)] # END
    <3>1. TAKE l \in 1 .. k
    <3>2. CASE l = k
      BY <2>2, <3>2
    <3>3. CASE l # k
      BY <1>1, <1>2, <3>3 DEF Used
    <3>4. QED
      BY <3>2, <3>3
  <2>4. QED
    BY <1>2, <2>3 DEF Used
<1> DEFINE T == {j \in Own : j <= m /\ j \notin Used}
<1>3. T = {}
  <2> SUFFICES ASSUME T # {} PROVE FALSE
    OBVIOUS
  <2>1. T \subseteq Nat
    BY <1>1
  <2>2. PICK k \in T : \A l \in T : k <= l
    <3> HIDE DEF T
    <3>1. QED
      BY <2>1, LeastElement
  <2>3. \A l \in 1 .. k - 1 : l \in Used
    BY <1>1, <2>2
  <2>4. QED
    BY <1>2, <2>2, <2>3
<1>4. PICK t \in Own : disk[At(t)] = END
  BY DEF InOnePiece, Terminated
<1>5. t \notin Used
  BY <1>1, <1>4 DEF Used
<1>6. t > m
  BY <1>1, <1>3, <1>5
<1>7. QED
  BY <1>1, <1>3, <1>6

\* Everything that is used before the first deleted entry is counted.
LEMMA UsedIsCounted ==
  ASSUME DiskInv, Counted, pc # "count", InOnePiece,
         NEW j \in Used, \A l \in 1 .. j : disk[l] # DELETED
  PROVE  j <= total
<1>1. /\ j \in Own /\ At(j) = j /\ \A l \in 1 .. j : l \in Used
  BY UsedInPlace
<1>2. j \in 1 .. LastSlot
  BY <1>1, AtType DEF DiskInv
<1>3. \A l \in 1 .. j : Live(l)
  <2>1. TAKE l \in 1 .. j
  <2>2. disk[l] # END /\ disk[l] # DELETED
    BY <1>1, UsedInPlace
  <2>3. disk[l] \in Slots
    BY <1>2, Sizes DEF DiskInv
  <2>4. QED
    BY <2>2, <2>3, Kinds DEF Live
<1>4. QED
  BY <1>2, <1>3 DEF Counted, CountedTo

-----------------------------------------------------------------------------
(* Names.                                                                  *)

\* The conversion of a field that a blank follows gives the field's text.
LEMMA ProperStringIs ==
  ASSUME NEW C, NEW bytes \in Seq(C), NEW b \in Nat \ {0}, NEW s \in Seq(NameChars),
         b + Len(s) <= Len(bytes),
         \A k \in 1 .. Len(s) : bytes[b + k - 1] = s[k],
         bytes[b + Len(s)] = SPC
  PROVE  ProperString(bytes, b) = s
<1> DEFINE n == Len(s)
           e == b + n
           Stops(x) == /\ x = Len(bytes) + 1 \/ bytes[x] = SPC
                       /\ \A j \in b .. (x - 1) : bytes[j] # SPC
<1>1. n \in Nat /\ Len(bytes) \in Nat /\ \A k \in 1 .. n : s[k] \in NameChars
  OBVIOUS
<1>2. \A j \in b .. (e - 1) : bytes[j] # SPC
  <2>1. TAKE j \in b .. (e - 1)
  <2>2. j - b + 1 \in 1 .. n /\ b + (j - b + 1) - 1 = j
    BY <1>1
  <2>3. bytes[j] = s[j - b + 1]
    BY <2>2
  <2>4. QED
    BY <1>1, <2>2, <2>3, FatDirectoryAssumption
<1>3. e \in b .. (Len(bytes) + 1) /\ Stops(e)
  BY <1>1, <1>2
<1>4. ASSUME NEW x \in b .. (Len(bytes) + 1), Stops(x) PROVE x = e
  <2>1. ~ (e < x)
    BY <1>1, <1>4
  <2>2. ~ (x < e)
    BY <1>1, <1>2, <1>4
  <2>3. QED
    BY <1>1, <2>1, <2>2
<1>5. (CHOOSE x \in b .. (Len(bytes) + 1) : Stops(x)) = e
  <2> HIDE DEF Stops, e
  <2>1. QED
    BY <1>3, <1>4
<1>6. ProperString(bytes, b) = SubSeq(bytes, b, e - 1)
  BY <1>5 DEF ProperString
<1>7. SubSeq(bytes, b, e - 1) = s
  <2>1. b \in 1 .. Len(bytes) /\ e - 1 \in 0 .. Len(bytes)
    BY <1>1
  <2>2. /\ Len(SubSeq(bytes, b, e - 1)) = n
        /\ \A k \in 1 .. n : SubSeq(bytes, b, e - 1)[k] = bytes[b + k - 1]
        /\ SubSeq(bytes, b, e - 1) \in Seq(C)
    BY <1>1, <2>1, SubSeqProperties
  <2>3. QED
    BY <1>1, <2>2
<1>8. QED
  BY <1>6, <1>7

LEMMA NameType ==
  ASSUME NEW nm \in Names, NEW e \in Exts, NEW a \in Attributes
  PROVE  /\ File(nm, e, a).kind = "file" /\ File(nm, e, a).name = nm
         /\ File(nm, e, a).ext = e /\ File(nm, e, a).attr = a
         /\ nm \in Seq(NameChars) /\ Len(nm) \in 1 .. NameWidth
         /\ e \in Seq(NameChars) /\ Len(e) \in 0 .. ExtWidth
<1>1. nm \in Seq(NameChars) /\ Len(nm) \in 1 .. NameWidth
      /\ e \in Seq(NameChars) /\ Len(e) \in 0 .. ExtWidth
  BY FatDirectoryAssumption
<1>2. QED
  BY <1>1 DEF File

LEMMA PadIs ==
  ASSUME NEW s \in Seq(NameChars), NEW width \in Nat
  PROVE  /\ Pad(s, width) \in Seq(NameChars \cup {SPC})
         /\ Len(Pad(s, width)) = width
         /\ \A k \in 1 .. width : Pad(s, width)[k] = (IF k <= Len(s) THEN s[k] ELSE SPC)
<1>1. \A k \in 1 .. width : (IF k <= Len(s) THEN s[k] ELSE SPC) \in NameChars \cup {SPC}
  OBVIOUS
<1>2. QED
  BY <1>1 DEF Pad

LEMMA BytesIs ==
  ASSUME NEW nm \in Names, NEW e \in Exts, NEW a \in Attributes
  PROVE  LET bytes == Bytes(File(nm, e, a))
         IN  /\ bytes \in Seq(NameChars \cup {SPC} \cup Attributes)
             /\ Len(bytes) = NameWidth + ExtWidth + 1
             /\ \A k \in 1 .. NameWidth : bytes[k] = (IF k <= Len(nm) THEN nm[k] ELSE SPC)
             /\ \A k \in 1 .. ExtWidth :
                  bytes[NameWidth + k] = (IF k <= Len(e) THEN e[k] ELSE SPC)
             /\ bytes[NameWidth + ExtWidth + 1] = a
<1> DEFINE C == NameChars \cup {SPC} \cup Attributes
           p == Pad(nm, NameWidth)
           q == Pad(e, ExtWidth)
<1>1. /\ p \in Seq(C) /\ Len(p) = NameWidth
      /\ q \in Seq(C) /\ Len(q) = ExtWidth
      /\ \A k \in 1 .. NameWidth : p[k] = (IF k <= Len(nm) THEN nm[k] ELSE SPC)
      /\ \A k \in 1 .. ExtWidth : q[k] = (IF k <= Len(e) THEN e[k] ELSE SPC)
  <2>1. Seq(NameChars \cup {SPC}) \subseteq Seq(C)
    OBVIOUS
  <2>2. NameWidth \in Nat /\ ExtWidth \in Nat /\ nm \in Seq(NameChars) /\ e \in Seq(NameChars)
    BY Sizes, NameType
  <2>3. p \in Seq(NameChars \cup {SPC}) /\ q \in Seq(NameChars \cup {SPC})
    BY <2>2, PadIs
  <2>4. QED
    BY <2>1, <2>2, <2>3, PadIs
<1>2. Bytes(File(nm, e, a)) = p \o q \o <<a>>
  <2>1. File(nm, e, a).name = nm /\ File(nm, e, a).ext = e /\ File(nm, e, a).attr = a
    BY NameType
  <2>2. QED
    BY <2>1, Zenon DEF Bytes
<1>3. <<a>> \in Seq(C) /\ Len(<<a>>) = 1 /\ <<a>>[1] = a
  OBVIOUS
<1> HIDE DEF p, q, C
<1>4. /\ p \o q \in Seq(C) /\ Len(p \o q) = NameWidth + ExtWidth
      /\ \A k \in 1 .. NameWidth : (p \o q)[k] = p[k]
      /\ \A k \in 1 .. ExtWidth : (p \o q)[NameWidth + k] = q[k]
  <2>1. p \in Seq(C) /\ Len(p) = NameWidth /\ q \in Seq(C) /\ Len(q) = ExtWidth
    BY <1>1
  <2>2. NameWidth \in Nat /\ ExtWidth \in Nat
    BY Sizes
  <2>3. /\ p \o q \in Seq(C) /\ Len(p \o q) = NameWidth + ExtWidth
        /\ \A k \in 1 .. NameWidth + ExtWidth :
             (p \o q)[k] = IF k <= NameWidth THEN p[k] ELSE q[k - NameWidth]
    BY <2>1, ConcatProperties
  <2>4. QED
    BY <2>2, <2>3
<1> DEFINE pq == p \o q
<1> HIDE DEF pq
<1>5. /\ pq \o <<a>> \in Seq(C) /\ Len(pq \o <<a>>) = NameWidth + ExtWidth + 1
      /\ \A k \in 1 .. NameWidth + ExtWidth : (pq \o <<a>>)[k] = pq[k]
      /\ (pq \o <<a>>)[NameWidth + ExtWidth + 1] = a
  <2> DEFINE w == NameWidth + ExtWidth
  <2>1. pq \in Seq(C) /\ Len(pq) = w /\ w \in Nat
    BY <1>4, Sizes DEF pq
  <2> HIDE DEF w
  <2>2. /\ pq \o <<a>> \in Seq(C) /\ Len(pq \o <<a>>) = w + 1
        /\ \A k \in 1 .. w : (pq \o <<a>>)[k] = pq[k]
        /\ (pq \o <<a>>)[w + 1] = a
    BY <1>3, <2>1
  <2>3. QED
    BY <2>2 DEF w
<1>6. /\ \A k \in 1 .. NameWidth : k \in 1 .. NameWidth + ExtWidth
      /\ \A k \in 1 .. ExtWidth : NameWidth + k \in 1 .. NameWidth + ExtWidth
  BY Sizes
<1>7. /\ \A k \in 1 .. NameWidth : (pq \o <<a>>)[k] = p[k]
      /\ \A k \in 1 .. ExtWidth : (pq \o <<a>>)[NameWidth + k] = q[k]
  BY <1>4, <1>5, <1>6 DEF pq
<1>8. Bytes(File(nm, e, a)) = pq \o <<a>>
  BY <1>2 DEF pq
<1> DEFINE bytes == pq \o <<a>>
<1> HIDE DEF bytes
<1>9. bytes \in Seq(C) /\ Len(bytes) = NameWidth + ExtWidth + 1
      /\ bytes[NameWidth + ExtWidth + 1] = a
  BY <1>5 DEF bytes
<1>10. \A k \in 1 .. NameWidth : bytes[k] = (IF k <= Len(nm) THEN nm[k] ELSE SPC)
  BY <1>1, <1>7, Zenon DEF bytes
<1>11. \A k \in 1 .. ExtWidth : bytes[NameWidth + k] = (IF k <= Len(e) THEN e[k] ELSE SPC)
  BY <1>1, <1>7, Zenon DEF bytes
<1>12. Bytes(File(nm, e, a)) = bytes
  BY <1>8 DEF bytes
<1>13. QED
  BY <1>9, <1>10, <1>11, <1>12, Zenon DEF C

\* An entry whose fields keep apart is converted to the file's own name.
LEMMA FullFilenameIs ==
  ASSUME NEW f \in Slots, f.kind = "file", FieldsApart(f)
  PROVE  FullFilename(f) = ShortName(f)
<1>1. PICK nm \in Names, e \in Exts, a \in Attributes : f = File(nm, e, a)
  BY Kinds
<1> DEFINE bytes == Bytes(f)
           C == NameChars \cup {SPC} \cup Attributes
<1>2. /\ f.name = nm /\ f.ext = e /\ f.attr = a
      /\ nm \in Seq(NameChars) /\ Len(nm) \in 1 .. NameWidth
      /\ e \in Seq(NameChars) /\ Len(e) \in 0 .. ExtWidth
  BY <1>1, NameType
<1>3. /\ bytes \in Seq(C) /\ Len(bytes) = NameWidth + ExtWidth + 1
      /\ \A k \in 1 .. NameWidth : bytes[k] = (IF k <= Len(nm) THEN nm[k] ELSE SPC)
      /\ \A k \in 1 .. ExtWidth :
           bytes[NameWidth + k] = (IF k <= Len(e) THEN e[k] ELSE SPC)
      /\ bytes[NameWidth + ExtWidth + 1] = a
  BY <1>1, BytesIs
<1> HIDE DEF bytes, C
<1>4. /\ Len(nm) < NameWidth \/ e = <<>>
      /\ Len(e) < ExtWidth \/ a = SPC
  BY <1>2 DEF FieldsApart
<1>5. ProperString(bytes, 1) = nm
  <2> DEFINE n == Len(nm)
  <2>1. n \in 1 .. NameWidth
    BY <1>2
  <2>2. \A k \in 1 .. n : bytes[1 + k - 1] = nm[k]
    <3>1. TAKE k \in 1 .. n
    <3>2. k \in 1 .. NameWidth /\ 1 + k - 1 = k
      BY <2>1, Sizes
    <3>3. QED
      BY <1>3, <3>2
  <2>3. bytes[1 + n] = SPC
    <3>1. CASE n < NameWidth
      <4>1. 1 + n \in 1 .. NameWidth /\ ~ (1 + n <= n)
        BY <2>1, <3>1, Sizes
      <4>2. QED
        BY <1>3, <4>1
    <3>2. CASE n = NameWidth
      <4>1. e = <<>> /\ Len(e) = 0
        BY <1>4, <2>1, <3>2, Sizes
      <4>2. 1 \in 1 .. ExtWidth /\ ~ (1 <= Len(e)) /\ NameWidth + 1 = 1 + n
        BY <3>2, <4>1, Sizes
      <4>3. QED
        BY <1>3, <4>2
    <3>3. QED
      BY <2>1, <3>1, <3>2, Sizes
  <2>4. 1 + n <= Len(bytes)
    BY <1>3, <2>1, Sizes
  <2>5. QED
    BY <1>2, <1>3, <2>2, <2>3, <2>4, ProperStringIs
<1>6. ProperString(bytes, NameWidth + 1) = e
  <2> DEFINE n == Len(e)
             b == NameWidth + 1
  <2>1. n \in 0 .. ExtWidth /\ b \in Nat \ {0}
    BY <1>2, Sizes
  <2>2. \A k \in 1 .. n : bytes[b + k - 1] = e[k]
    <3>1. TAKE k \in 1 .. n
    <3>2. k \in 1 .. ExtWidth /\ b + k - 1 = NameWidth + k
      BY <2>1, Sizes
    <3>3. QED
      BY <1>3, <3>2
  <2>3. bytes[b + n] = SPC
    <3>1. CASE n < ExtWidth
      <4>1. n + 1 \in 1 .. ExtWidth /\ ~ (n + 1 <= n) /\ NameWidth + (n + 1) = b + n
        BY <2>1, <3>1, Sizes
      <4>2. QED
        BY <1>3, <4>1
    <3>2. CASE n = ExtWidth
      <4>1. a = SPC /\ NameWidth + ExtWidth + 1 = b + n
        BY <1>4, <2>1, <3>2, Sizes
      <4>2. QED
        BY <1>3, <4>1
    <3>3. QED
      BY <2>1, <3>1, <3>2, Sizes
  <2>4. b + n <= Len(bytes)
    BY <1>3, <2>1, Sizes
  <2> HIDE DEF b
  <2>5. QED
    BY <1>2, <1>3, <2>1, <2>2, <2>3, <2>4, ProperStringIs DEF b
<1>7. QED
  BY <1>2, <1>5, <1>6 DEF FullFilename, ShortName, bytes

-----------------------------------------------------------------------------
(* The invariant.                                                          *)

LEMMA SameDirectory ==
  ASSUME disk' = disk, chain' = chain
  PROVE  /\ root' = root /\ Own' = Own /\ Terminated' = Terminated
         /\ \A j : At(j)' = At(j) /\ Live(j)' = Live(j)
<1>1. root' = root /\ \A j : At(j)' = At(j) /\ Live(j)' = Live(j)
  BY DEF root, At, Live
<1>2. Own' = Own
  BY <1>1 DEF Own
<1>3. QED
  BY <1>1, <1>2 DEF Terminated

LEMMA InitInv == Init => IInv
<1> SUFFICES ASSUME Init PROVE IInv
  OBVIOUS
<1>1. /\ disk \in [1 .. LastSlot -> Slots] /\ chain \in Chains \cup {<<>>}
      /\ pc = "count" /\ i = 1 /\ total = 0
      /\ listing = <<>> /\ name = <<>> /\ item = 0 /\ overrun = FALSE
  BY FatDirectoryAssumption DEF Init
<1>2. DiskInv
  <2>1. i \in 1 .. LastSlot + 1 /\ total \in 0 .. LastSlot /\ item \in Nat
    BY <1>1, Sizes
  <2>2. listing \in Seq(Slots)
    BY <1>1
  <2>3. overrun \in BOOLEAN
    BY <1>1
  <2>4. QED
    BY <1>1, <2>1, <2>2, <2>3 DEF DiskInv
<1>3. Counted
  BY <1>1 DEF Counted, CountedTo
<1>4. Read /\ Searched
  BY <1>1 DEF Read, Searched
<1>5. QED
  BY <1>2, <1>3, <1>4 DEF IInv

LEMMA CountSlotInv ==
  ASSUME IInv, CountSlot
  PROVE  IInv'
<1>1. /\ pc = "count" /\ i <= LastSlot /\ disk[i].kind # "end"
      /\ total' = (IF disk[i].kind = "deleted" THEN total ELSE total + 1)
      /\ i' = i + 1
      /\ disk' = disk /\ chain' = chain /\ pc' = pc /\ listing' = listing
      /\ name' = name /\ item' = item /\ overrun' = overrun
  BY DEF CountSlot, InUse
<1>2. /\ i \in 1 .. LastSlot + 1 /\ total \in 0 .. LastSlot /\ total <= i - 1
      /\ LastSlot \in Nat
  BY <1>1, Sizes DEF IInv, DiskInv, Counted
<1>3. DiskInv'
  BY <1>1, <1>2 DEF IInv, DiskInv
<1>4. Counted'
  <2>1. \A l \in 1 .. i' - 1 : disk[l].kind # "end"
    BY <1>1, <1>2 DEF IInv, Counted
  <2>2. total' <= i' - 1 /\ total' \in Nat
    BY <1>1, <1>2
  <2>3. ASSUME NEW m \in 1 .. i' - 1, \A l \in 1 .. m : Live(l) PROVE m <= total'
    <3>1. CASE m <= i - 1
      <4>1. m <= total
        BY <1>1, <1>2, <2>3, <3>1 DEF IInv, Counted, CountedTo
      <4>2. QED
        BY <1>1, <1>2, <4>1
    <3>2. CASE m = i
      <4>1. Live(i) /\ total' = total + 1
        BY <1>1, <1>2, <2>3, <3>2 DEF Live
      <4>2. CASE i = 1
        BY <1>2, <3>2, <4>1, <4>2
      <4>3. CASE i # 1
        <5>1. i - 1 \in 1 .. i - 1 /\ \A l \in 1 .. i - 1 : Live(l)
          BY <1>2, <2>3, <3>2, <4>3
        <5>2. i - 1 <= total
          BY <1>1, <5>1 DEF IInv, Counted, CountedTo
        <5>3. QED
          BY <1>2, <3>2, <4>1, <5>2
      <4>4. QED
        BY <4>2, <4>3
    <3>3. QED
      BY <1>1, <1>2, <3>1, <3>2
  <2>4. \A l \in 1 .. total' : disk[l].kind # "end"
    BY <1>1, <1>2, <2>1, <2>2
  <2>5. CountedTo' = i' - 1
    BY <1>1 DEF CountedTo
  <2>6. QED
    BY <1>1, <2>1, <2>2, <2>3, <2>4, <2>5, SameDirectory DEF Counted
<1>5. Read'
  BY <1>1 DEF IInv, Read
<1>6. Searched'
  BY <1>1, SameDirectory DEF IInv, Searched, Read
<1>7. QED
  BY <1>3, <1>4, <1>5, <1>6 DEF IInv

LEMMA CountEndsInv ==
  ASSUME IInv, CountEnds
  PROVE  IInv'
<1>1. /\ pc = "count" /\ pc' = "list" /\ (i > LastSlot \/ disk[i].kind = "end")
      /\ disk' = disk /\ chain' = chain /\ listing' = listing /\ i' = i /\ total' = total
      /\ name' = name /\ item' = item /\ overrun' = overrun
  BY Sizes DEF CountEnds, InUse, IInv, DiskInv
<1>2. i \in 1 .. LastSlot + 1 /\ LastSlot \in Nat
  BY Sizes DEF IInv, DiskInv
<1>3. DiskInv'
  BY <1>1 DEF IInv, DiskInv
<1>4. Counted'
  <2>1. ASSUME NEW m \in 1 .. LastSlot, \A l \in 1 .. m : Live(l) PROVE m <= total
    <3>1. ~ (i <= m)
      <4> SUFFICES ASSUME i <= m PROVE FALSE
        OBVIOUS
      <4>1. i \in 1 .. m
        BY <1>2
      <4>2. disk[i].kind # "end"
        BY <2>1, <4>1 DEF Live
      <4>3. QED
        BY <1>1, <1>2, <4>2
    <3>2. m \in 1 .. i - 1
      BY <1>2, <3>1
    <3>3. QED
      BY <1>1, <2>1, <3>2 DEF IInv, Counted, CountedTo
  <2>2. CountedTo' = LastSlot
    BY <1>1 DEF CountedTo
  <2>3. QED
    BY <1>1, <2>1, <2>2, SameDirectory DEF IInv, Counted
<1>5. Read'
  BY <1>1 DEF IInv, Read
<1>6. Searched'
  BY <1>1, SameDirectory DEF IInv, Searched, Read
<1>7. QED
  BY <1>3, <1>4, <1>5, <1>6 DEF IInv

LEMMA ReadListingInv ==
  ASSUME IInv, ReadListing
  PROVE  IInv'
<1>1. /\ pc = "list" /\ i' = 1 /\ pc' \in {"idle", "unreadable"}
      /\ disk' = disk /\ chain' = chain /\ total' = total
      /\ name' = name /\ item' = item /\ overrun' = overrun
  BY DEF ReadListing
<1>2. /\ LastSlot \in Nat /\ total \in Nat /\ listing = <<>> /\ item = 0 /\ name = <<>>
  BY <1>1, Sizes DEF IInv, DiskInv, Read
<1>3. Listed \in Nat
  BY <1>2, Sizes DEF Listed
<1>4. /\ listing' \in Seq(Slots)
      /\ pc' = "idle" => /\ Len(listing') = Listed
                         /\ \A j \in 1 .. Listed : j \in Own => listing'[j] = disk[At(j)]
      /\ pc' # "idle" => listing' = <<>>
  <2>1. CASE pc' = "idle"
    <3>1. PICK f \in Slots :
            listing' = [j \in 1 .. Listed |-> IF j \in Own THEN disk[At(j)] ELSE f]
      BY <2>1 DEF ReadListing
    <3>2. \A j \in 1 .. Listed : (IF j \in Own THEN disk[At(j)] ELSE f) \in Slots
      BY AtType DEF IInv, DiskInv
    <3>3. listing' \in [1 .. Listed -> Slots]
      BY <3>1, <3>2
    <3>4. QED
      BY <1>3, <2>1, <3>1, <3>3
  <2>2. CASE pc' # "idle"
    <3>1. listing' = listing
      BY <2>2 DEF ReadListing
    <3>2. listing' = <<>>
      BY <1>2, <3>1
    <3>3. QED
      BY <2>2, <3>2
  <2>3. QED
    BY <2>1, <2>2
<1>5. DiskInv'
  BY <1>1, <1>2, <1>4 DEF IInv, DiskInv
<1>6. Counted'
  BY <1>1, SameDirectory DEF IInv, Counted, CountedTo
<1>7. Read'
  <2>1. Listed' = Listed /\ Own' = Own /\ \A j : At(j)' = At(j)
    BY <1>1, SameDirectory DEF Listed
  <2>2. QED
    BY <1>1, <1>2, <1>4, <2>1 DEF Read
<1>8. Searched'
  BY <1>1, <1>2, SameDirectory DEF IInv, Searched
<1>9. QED
  BY <1>5, <1>6, <1>7, <1>8 DEF IInv

LEMMA SameListing ==
  ASSUME Read, Counted, disk' = disk, chain' = chain, listing' = listing, total' = total,
         pc \in {"idle", "lookup"}, pc' \in {"idle", "lookup"}
  PROVE  Read' /\ Counted'
<1>1. Listed' = Listed /\ Own' = Own /\ \A j : At(j)' = At(j) /\ Live(j)' = Live(j)
  BY SameDirectory DEF Listed
<1>2. Read'
  BY <1>1 DEF Read
<1>3. Counted'
  BY <1>1 DEF Counted, CountedTo
<1>4. QED
  BY <1>2, <1>3

LEMMA LookupInv ==
  ASSUME IInv, NEW f \in Slots, Lookup(f)
  PROVE  IInv'
<1>1. /\ pc = "idle" /\ pc' = "lookup" /\ i' = 1 /\ item' = 0
      /\ disk' = disk /\ chain' = chain /\ total' = total /\ listing' = listing
      /\ overrun' = overrun
  BY DEF Lookup
<1>2. LastSlot \in Nat /\ total \in Nat
  BY Sizes DEF IInv, DiskInv
<1>3. DiskInv'
  BY <1>1, <1>2 DEF IInv, DiskInv
<1>4. Read' /\ Counted'
  BY <1>1, SameListing DEF IInv
<1>5. Searched'
  <2>1. SearchedTo' = 0
    BY <1>1 DEF SearchedTo
  <2>2. QED
    BY <1>1, <1>2, <2>1, SameDirectory DEF IInv, Searched
<1>6. QED
  BY <1>3, <1>4, <1>5 DEF IInv

\* The lookup is behind the listing only in a root directory without an END.
LEMMA Overruns ==
  ASSUME IInv, pc = "lookup", i <= total, Len(listing) < i
  PROVE  ~ Terminated /\ root
<1>1. /\ Len(listing) = Listed /\ i \in Nat /\ total \in Nat
      /\ \A l \in 1 .. total : disk[l].kind # "end"
  BY Sizes DEF IInv, Read, DiskInv, Counted
<1>2. root
  BY <1>1, Sizes DEF Listed
<1>3. ASSUME NEW t \in Own, disk[At(t)] = END PROVE FALSE
  <2>1. At(t) = t /\ t \in 1 .. RootSlots /\ Len(listing) = RootSlots
    BY <1>1, <1>2 DEF At, Own, Listed
  <2>2. t \in 1 .. total
    BY <1>1, <2>1, Sizes
  <2>3. disk[t].kind = "end"
    BY <1>3, <2>1 DEF END
  <2>4. QED
    BY <1>1, <2>2, <2>3
<1>4. QED
  BY <1>2, <1>3 DEF Terminated

LEMMA LookupItemInv ==
  ASSUME IInv, LookupItem
  PROVE  IInv'
<1>1. /\ pc = "lookup" /\ i <= total /\ i' = i + 1 /\ pc' = pc
      /\ disk' = disk /\ chain' = chain /\ total' = total /\ listing' = listing
      /\ name' = name
  BY DEF LookupItem
<1>2. /\ LastSlot \in Nat /\ total \in 0 .. LastSlot /\ i \in 1 .. LastSlot + 1
      /\ item \in Nat /\ overrun \in BOOLEAN /\ Len(listing) \in Nat
  BY Sizes DEF IInv, DiskInv
<1>3. /\ i <= Len(listing) => /\ item' = (IF Matches(listing[i]) THEN i ELSE item)
                              /\ overrun' = overrun
      /\ ~ (i <= Len(listing)) => item' = item /\ overrun' = TRUE
  BY DEF LookupItem
<1>4. item' \in Nat /\ overrun' \in BOOLEAN
  <2>1. item' \in Nat
    BY <1>2, <1>3
  <2>2. overrun' \in BOOLEAN
    BY <1>2, <1>3, Zenon
  <2>3. QED
    BY <2>1, <2>2
<1>5. DiskInv'
  BY <1>1, <1>2, <1>4 DEF IInv, DiskInv
<1>6. Read' /\ Counted'
  BY <1>1, SameListing DEF IInv
<1>7. \A x : Matches(x)' = Matches(x)
  BY <1>1 DEF Matches
<1>8. item' # 0 => /\ item' \in 1 .. total /\ item' <= Len(listing)
                   /\ Matches(listing[item'])
  BY <1>1, <1>2, <1>3 DEF IInv, Searched
<1>9. ASSUME name # <<>>, item' = 0, NEW l \in 1 .. i, l <= Len(listing)
      PROVE  ~ Matches(listing[l])
  <2>1. item = 0 /\ (i <= Len(listing) => ~ Matches(listing[i]))
    BY <1>2, <1>3, <1>9
  <2>2. CASE l = i
    BY <1>9, <2>1, <2>2
  <2>3. CASE l # i
    <3>1. l \in 1 .. i - 1
      BY <1>2, <2>3
    <3>2. QED
      BY <1>1, <1>9, <2>1, <3>1 DEF IInv, Searched, SearchedTo
  <2>4. QED
    BY <2>2, <2>3
<1>10. (Terminated \/ ~root) => ~ overrun'
  <2>1. CASE i <= Len(listing)
    BY <1>3, <2>1 DEF IInv, Searched
  <2>2. CASE ~ (i <= Len(listing))
    BY <1>1, <1>2, <2>2, Overruns
  <2>3. QED
    BY <2>1, <2>2
<1>11. SearchedTo' = i
  BY <1>1, <1>2 DEF SearchedTo
<1>12. i' <= total' + 1
  BY <1>1, <1>2
<1>13. Searched'
  BY <1>1, <1>7, <1>8, <1>9, <1>10, <1>11, <1>12, SameDirectory DEF Searched
<1>14. QED
  BY <1>5, <1>6, <1>13 DEF IInv

LEMMA LookupReturnsInv ==
  ASSUME IInv, LookupReturns
  PROVE  IInv'
<1>1. /\ pc = "lookup" /\ i > total /\ i' = 1 /\ pc' = "idle"
      /\ disk' = disk /\ chain' = chain /\ total' = total /\ listing' = listing
      /\ name' = name /\ item' = item /\ overrun' = overrun
  BY DEF LookupReturns
<1>2. LastSlot \in Nat /\ total \in Nat /\ i \in Nat
  BY Sizes DEF IInv, DiskInv
<1>3. DiskInv'
  BY <1>1, <1>2 DEF IInv, DiskInv
<1>4. Read' /\ Counted'
  BY <1>1, SameListing DEF IInv
<1>5. \A x : Matches(x)' = Matches(x)
  BY <1>1 DEF Matches
<1>6. SearchedTo = total /\ SearchedTo' = total
  BY <1>1, <1>2 DEF IInv, Searched, SearchedTo
<1>7. Searched'
  BY <1>1, <1>5, <1>6, SameDirectory DEF IInv, Searched
<1>8. QED
  BY <1>3, <1>4, <1>7 DEF IInv

LEMMA StepInv == IInv /\ [Next]_vars => IInv'
<1> SUFFICES ASSUME IInv, [Next]_vars PROVE IInv'
  OBVIOUS
<1>1. CASE CountSlot
  BY <1>1, CountSlotInv
<1>2. CASE CountEnds
  BY <1>2, CountEndsInv
<1>3. CASE ReadListing
  BY <1>3, ReadListingInv
<1>4. CASE \E f \in Slots : Lookup(f)
  BY <1>4, LookupInv
<1>5. CASE LookupItem
  BY <1>5, LookupItemInv
<1>6. CASE LookupReturns
  BY <1>6, LookupReturnsInv
<1>7. CASE UNCHANGED vars
  <2>1. /\ disk' = disk /\ chain' = chain /\ total' = total /\ listing' = listing
        /\ name' = name /\ item' = item /\ overrun' = overrun /\ pc' = pc /\ i' = i
    BY <1>7 DEF vars
  <2>2. DiskInv'
    BY <2>1 DEF IInv, DiskInv
  <2>3. Counted'
    BY <2>1, SameDirectory DEF IInv, Counted, CountedTo
  <2>4. Listed' = Listed /\ Own' = Own /\ \A j : At(j)' = At(j)
    BY <2>1, SameDirectory DEF Listed
  <2>5. Read'
    BY <2>1, <2>4 DEF IInv, Read
  <2>6. \A x : Matches(x)' = Matches(x)
    BY <2>1 DEF Matches
  <2>7. SearchedTo' = SearchedTo
    BY <2>1 DEF SearchedTo
  <2>8. Searched'
    BY <2>1, <2>6, <2>7, SameDirectory DEF IInv, Searched
  <2>9. QED
    BY <2>2, <2>3, <2>5, <2>8 DEF IInv
<1>8. QED
  BY <1>1, <1>2, <1>3, <1>4, <1>5, <1>6, <1>7 DEF Next

-----------------------------------------------------------------------------
(* The theorems.                                                           *)

\* The count stays on the disk, the item in the listing.
THEOREM TypeCorrect == Spec => []TypeOK
<1>1. IInv => TypeOK
  <2> SUFFICES ASSUME IInv PROVE TypeOK
    OBVIOUS
  <2>1. item \in 0 .. Len(listing)
    BY DEF IInv, DiskInv, Searched
  <2>2. QED
    BY <2>1 DEF IInv, DiskInv, TypeOK
<1>2. QED
  BY <1>1, InitInv, StepInv, PTL DEF Spec

\* The lookup reads items of the listing only, for directories with an END and
\* for all subdirectories.
THEOREM LookupStaysInListing == Spec => []ItemsWithinListing
<1>1. IInv => ItemsWithinListing
  BY DEF IInv, Searched, ItemsWithinListing
<1>2. QED
  BY <1>1, InitInv, StepInv, PTL DEF Spec

LEMMA InvFoundIsLive ==
  ASSUME IInv, InOnePiece, item # 0
  PROVE  item \in Used /\ disk[item].kind = "file" /\ Matches(disk[item])
<1>1. /\ item \in 1 .. total /\ item <= Len(listing) /\ Matches(listing[item])
      /\ total \in 0 .. LastSlot /\ \A l \in 1 .. total : disk[l].kind # "end"
  BY DEF IInv, Searched, DiskInv, Counted
<1>2. item \in Used
  BY <1>1, CountedIsUsed DEF IInv
<1>3. item \in Own /\ At(item) = item
  BY <1>2, UsedInPlace DEF IInv
<1>4. pc \in {"idle", "lookup"} /\ Len(listing) = Listed
  BY DEF IInv, Read
<1>5. listing[item] = disk[item]
  BY <1>1, <1>3, <1>4 DEF IInv, Read
<1>6. QED
  BY <1>1, <1>2, <1>5 DEF Matches

\* What a lookup finds in a directory in one piece is a file of the directory
\* that was not deleted.
THEOREM FoundCorrect == Spec => []FoundIsLive
<1>1. IInv => FoundIsLive
  BY InvFoundIsLive DEF FoundIsLive
<1>2. QED
  BY <1>1, InitInv, StepInv, PTL DEF Spec

\* In a directory in one piece and without holes every file is found by its
\* name, if the fields of the entries keep apart.
THEOREM FilesFound == Spec => []FilesAreFound
<1>1. IInv => FilesAreFound
  <2> SUFFICES ASSUME IInv, pc = "idle", name # <<>>, InOnePiece, NoHoles,
                      \A j \in Used : disk[j].kind = "file" => FieldsApart(disk[j])
               PROVE  IF \E j \in Used : disk[j].kind = "file" /\ ShortName(disk[j]) = name
                      THEN item \in Used /\ ShortName(disk[item]) = name
                      ELSE item = 0
    BY DEF FilesAreFound
  <2>1. \A j \in Used : /\ j \in Own /\ At(j) = j /\ j \in 1 .. LastSlot
                        /\ disk[j] \in Slots
    BY UsedInPlace, AtType DEF IInv, DiskInv
  <2>2. \A j \in Used : disk[j].kind = "file" => FullFilename(disk[j]) = ShortName(disk[j])
    BY <2>1, FullFilenameIs
  <2>3. item # 0 => /\ item \in Used /\ disk[item].kind = "file"
                    /\ ShortName(disk[item]) = name
    BY <2>2, InvFoundIsLive DEF Matches
  <2>4. ASSUME NEW j \in Used, disk[j].kind = "file", ShortName(disk[j]) = name
        PROVE  item # 0
    <3>1. \A l \in 1 .. j : disk[l] # DELETED
      <4>1. TAKE l \in 1 .. j
      <4>2. l \in Used /\ At(l) = l /\ At(j) = j
        BY <2>1, UsedInPlace DEF IInv
      <4>3. disk[j] # DELETED
        BY <2>4 DEF DELETED
      <4>4. CASE l = j
        BY <4>3, <4>4
      <4>5. CASE l # j
        <5>1. j > l
          BY <2>1, <4>5
        <5>2. QED
          BY <4>2, <4>3, <5>1 DEF NoHoles
      <4>6. QED
        BY <4>4, <4>5
    <3>2. j <= total
      BY <3>1, UsedIsCounted DEF IInv
    <3>3. Len(listing) = Listed /\ total \in Nat
      BY DEF IInv, Read, DiskInv
    <3>4. j \in 1 .. Listed
      BY <2>1, <3>2, <3>3, Sizes DEF Listed, Own
    <3>5. listing[j] = disk[j]
      BY <2>1, <3>4 DEF IInv, Read
    <3>6. Matches(listing[j])
      BY <2>2, <2>4, <3>5 DEF Matches
    <3>7. j \in 1 .. total /\ j <= Len(listing)
      BY <2>1, <3>2, <3>3, <3>4
    <3>8. QED
      BY <3>6, <3>7 DEF IInv, Searched, SearchedTo
  <2>5. QED
    BY <2>3, <2>4
<1>2. QED
  BY <1>1, InitInv, StepInv, PTL DEF Spec

=============================================================================
