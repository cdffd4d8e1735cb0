----------------------------- MODULE PathParser -----------------------------
(***************************************************************************)
(* pathparser_parse (fs/pparser.c): the string that fopen is called with   *)
(* becomes a drive number and a list of parts.  FileTable starts from the  *)
(* outcome; here it is computed, one part per step, with enough memory.    *)
(* A path is the sequence of its characters without the terminator.        *)
(***************************************************************************)
EXTENDS Integers, Sequences, FiniteSets

CONSTANTS
  Chars,      \* the characters that paths are made of
  Digits,     \* those isdigit accepts
  MaxLength,  \* bound: the length of the paths that are tried
  PathLimit   \* CHUCHUOS_MAX_PATH_LENGTH

NoDrive == "none"
Terminator == "nul"

ASSUME PathParserAssumption ==
  /\ Digits \subseteq Chars /\ {":", "/"} \subseteq Chars \ Digits
  /\ {NoDrive, Terminator} \cap Chars = {}
  /\ MaxLength \in Nat /\ PathLimit \in Nat

VARIABLES
  path,    \* the argument
  stage,   \* "start", "parts" or "done"
  cursor,  \* tmp_path, as a position in path
  drive,   \* drive_no of the root, or NoDrive: no root was made
  parts,   \* the list from first_part on
  far      \* the highest position that was read

parserVars == <<path, stage, cursor, drive, parts, far>>

CharAt(j) == IF j \in DOMAIN path THEN path[j] ELSE Terminator

Highest(s) == CHOOSE j \in s : \A l \in s : l <= j

ParserInit ==
  /\ path \in UNION {[1 .. len -> Chars] : len \in 0 .. MaxLength}
  /\ stage = "start" /\ cursor = 1 /\ drive = NoDrive /\ parts = <<>> /\ far = 0

-----------------------------------------------------------------------------
\* Variant for the checks: the length is not looked at.
FormatReadsUnguarded == {1} \cup (IF CharAt(1) \in Digits THEN {2, 3} ELSE {})

\* The positions that pathparser_path_valid_format_check reads: strnlen up to
\* the terminator, then the conditions from left to right.
FormatReads ==
  1 .. (IF Len(path) < PathLimit THEN Len(path) + 1 ELSE PathLimit)
  \cup (IF Len(path) >= 3 THEN {1} \cup (IF CharAt(1) \in Digits THEN {2, 3} ELSE {})
                          ELSE {})

ValidFormat ==
  /\ Len(path) >= 3
  /\ CharAt(1) \in Digits
  /\ CharAt(2) = ":" /\ CharAt(3) = "/"

\* Variant for the checks: a path that is too long is parsed all the same.
AcceptedUnlimited == ValidFormat

Accepted == Len(path) <= PathLimit /\ ValidFormat

\* The length and the format are checked, and the root is made.
Start ==
  /\ stage = "start"
  /\ far' = Highest({Len(path) + 1} \cup FormatReads)
  /\ IF Accepted
     THEN stage' = "parts" /\ cursor' = 4 /\ drive' = CharAt(1)
     ELSE stage' = "done" /\ UNCHANGED <<cursor, drive>>
  /\ UNCHANGED <<path, parts>>

\* Where the part that starts at the cursor ends: the first slash or the end.
PartEnd ==
  CHOOSE j \in cursor .. (Len(path) + 1) :
    /\ CharAt(j) \in {"/", Terminator}
    /\ \A l \in cursor .. (j - 1) : CharAt(l) # "/"

\* Variant for the checks: the slash is left for the next part.
AfterPartNever(e) == e

\* The slash that ended a part is skipped, the terminator is not.
AfterPart(e) == IF CharAt(e) = "/" THEN e + 1 ELSE e

\* pathparser_addpath_inlist: a part that is not empty is appended ...
AddPart ==
  /\ stage = "parts" /\ PartEnd > cursor
  /\ parts' = Append(parts, SubSeq(path, cursor, PartEnd - 1))
  /\ cursor' = AfterPart(PartEnd)
  /\ far' = Highest({far, PartEnd})
  /\ UNCHANGED <<path, stage, drive>>

\* ... and an empty one ends the list.
LastPart ==
  /\ stage = "parts" /\ PartEnd = cursor
  /\ stage' = "done"
  /\ cursor' = AfterPart(PartEnd)
  /\ far' = Highest({far, PartEnd})
  /\ UNCHANGED <<path, drive, parts>>

\* The list is handed to fopen.
Done == stage = "done" /\ UNCHANGED parserVars

ParserNext == Start \/ AddPart \/ LastPart \/ Done

ParserSpec == ParserInit /\ [][ParserNext]_parserVars

-----------------------------------------------------------------------------
(* Correctness.                                                            *)

\* A drive number is a digit, and characters of the path make up the parts.
ParserTypeOK ==
  /\ stage \in {"start", "parts", "done"}
  /\ drive \in Digits \cup {NoDrive}
  /\ \A j \in DOMAIN parts : parts[j] \in Seq(Chars \ {"/"}) /\ parts[j] # <<>>
  /\ cursor \in Nat /\ far \in Nat

\* The maximal runs of characters other than a slash behind the drive: the
\* parts that the path consists of, as pairs of positions.
Components ==
  {c \in (4 .. Len(path)) \X (4 .. Len(path)) :
     /\ c[1] <= c[2]
     /\ \A j \in c[1] .. c[2] : path[j] # "/"
     /\ path[c[1] - 1] = "/"
     /\ CharAt(c[2] + 1) \in {"/", Terminator}}

DoubleSlash(j) == path[j] = "/" /\ path[j + 1] = "/"

\* Those that no empty component comes before.
Leading == {c \in Components : \A j \in 3 .. c[1] - 2 : ~DoubleSlash(j)}

Text(c) == SubSeq(path, c[1], c[2])

\* The parts are the components up to the first empty one, each of them once and
\* in order, and with nothing but a slash between two.
\* (pathparser_get_current_partof_path, pathparser_addpath_inlist)
PartsAreComponents ==
  stage = "done" /\ drive # NoDrive =>
    \E cs \in [DOMAIN parts -> Leading] :
      /\ \A j \in DOMAIN parts : parts[j] = Text(cs[j])
      /\ \A j \in DOMAIN parts : cs[j][1] = (IF j = 1 THEN 4 ELSE cs[j - 1][2] + 2)
      /\ Len(parts) = Cardinality(Leading)

\* The parser never reads behind the terminator of the string.
\* (the order of the conditions in pathparser_path_valid_format_check, and the
\* slash that is skipped in pathparser_get_current_partof_path)
ReadsWithinString == far <= Len(path) + 1 /\ cursor <= Len(path) + 1

\* No part is longer than the limit, which the name buffers rely on; and a
\* path without a root has no parts.  (pathparser_parse)
PartsWithinLimit ==
  /\ \A j \in DOMAIN parts : Len(parts[j]) + 3 <= PathLimit
  /\ drive = NoDrive => parts = <<>>

=============================================================================
