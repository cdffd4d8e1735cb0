---------------------------- MODULE FatDirectory ----------------------------
(***************************************************************************)
(* Finding a file in a directory of the volume (fs/fat/fat16.c): the items *)
(* are counted, the listing is read, and each of the items is compared     *)
(* with the name that is looked up.  FileTable's Links is what the lookups *)
(* here find.                                                              *)
(*                                                                         *)
(* A slot of the directory is END (first byte 0x00), DELETED (0xE5) or the *)
(* bytes of an entry: name field, extension field and attribute, with SPC  *)
(* for the blanks that fill a field up.  Letters are folded to one case,   *)
(* as istrncmp does.                                                       *)
(***************************************************************************)
EXTENDS Integers, Sequences

CONSTANTS
  RootSlots,  \* root_dir_entries
  ClusterSlots, \* the entries that a cluster holds
  LastSlot,   \* bound: the slots' worth of disk that there is
  NameWidth, ExtWidth,  \* 8 and 3: the widths of the fields
  NameChars,            \* the bytes of names
  Names, Exts,          \* the names and extensions that files have
  Attributes, \* attribute bytes: SPC (0x20, archived) or others
  Slots,      \* bound: the entries that are tried ...
  Disks,      \* ... and the sequences of them
  Chains      \* the chains of subdirectories, from cluster 1 on

SPC == "spc"
DOT == "dot"
END == [kind |-> "end"]
DELETED == [kind |-> "deleted"]
File(nm, e, a) == [kind |-> "file", name |-> nm, ext |-> e, attr |-> a]

ASSUME FatDirectoryAssumption ==
  /\ {RootSlots, ClusterSlots, NameWidth, ExtWidth} \subseteq Nat \ {0}
  /\ LastSlot \in Nat /\ LastSlot >= RootSlots
  /\ SPC \notin NameChars /\ Names \cup Exts \subseteq Seq(NameChars)
  /\ \A s \in Names : Len(s) \in 1 .. NameWidth
  /\ \A s \in Exts : Len(s) \in 0 .. ExtWidth
  /\ Slots \subseteq {END, DELETED} \cup {File(s, e, a) : s \in Names, e \in Exts, a \in Attributes}
  /\ Disks \subseteq [1 .. LastSlot -> Slots]
  /\ \A c \in Chains : /\ c \in Seq(Nat \ {0}) /\ Len(c) > 0 /\ c[1] = 1
                       /\ \A k \in DOMAIN c : c[k] * ClusterSlots <= LastSlot
                       /\ \A k, l \in DOMAIN c : c[k] = c[l] => k = l

VARIABLES
  disk,     \* the slots of the disk from the start of the directory on
  chain,    \* the clusters of a subdirectory, <<>> for the root directory
  pc,       \* "count", "list", "idle", "lookup" or "unreadable"
  i,        \* the slot that the loop in progress is at
  total,    \* counter, then directory->total
  listing,  \* directory->item: the slots that were read
  name,     \* the name looked up
  item,     \* the item that fat_item was made from, or 0
  overrun   \* an item behind the listing was read

vars == <<disk, chain, pc, i, total, listing, name, item, overrun>>

root == chain = <<>>

-----------------------------------------------------------------------------
(* Names.                                                                  *)

Pad(s, width) == [j \in 1 .. width |-> IF j <= Len(s) THEN s[j] ELSE SPC]

\* The bytes of an entry from the name field on, up to a zero byte.
Bytes(f) == Pad(f.name, NameWidth) \o Pad(f.ext, ExtWidth) \o <<f.attr>>

\* fat16_to_proper_string: the bytes from b on, up to a blank.  The width of
\* the field is not looked at.
ProperString(bytes, b) ==
  LET stop == CHOOSE e \in b .. (Len(bytes) + 1) :
                /\ e = Len(bytes) + 1 \/ bytes[e] = SPC
                /\ \A j \in b .. (e - 1) : bytes[j] # SPC
  IN SubSeq(bytes, b, stop - 1)

\* Variant for the checks: the dot is there without an extension, too.
FullFilenameDotted(f) ==
  ProperString(Bytes(f), 1) \o <<DOT>> \o
  (IF f.ext # <<>> THEN ProperString(Bytes(f), NameWidth + 1) ELSE <<>>)

\* fat16_get_full_filename_from_dir.
FullFilename(f) ==
  ProperString(Bytes(f), 1) \o
  (IF f.ext # <<>> THEN <<DOT>> \o ProperString(Bytes(f), NameWidth + 1) ELSE <<>>)

\* The name that the file has for everybody else.
ShortName(f) == f.name \o (IF f.ext # <<>> THEN <<DOT>> \o f.ext ELSE <<>>)

-----------------------------------------------------------------------------
Init ==
  /\ disk \in Disks
  /\ chain \in Chains \cup {<<>>}
  /\ pc = "count" /\ i = 1 /\ total = 0
  /\ listing = <<>> /\ name = <<>> /\ item = 0 /\ overrun = FALSE

\* Variant for the checks: nothing ends the count but the end of what is tried.
InUseThroughEnd == i <= LastSlot

\* The counting goes on: only a first byte of 0x00 ends it, wherever it lies.
InUse == i <= LastSlot /\ disk[i].kind # "end"

\* fat16_get_total_items_of_directory_from_disk, one slot.
CountSlot ==
  /\ pc = "count" /\ InUse
  /\ total' = IF disk[i].kind = "deleted" THEN total ELSE total + 1
  /\ i' = i + 1
  /\ UNCHANGED <<disk, chain, pc, listing, name, item, overrun>>

CountEnds ==
  /\ pc = "count" /\ ~InUse
  /\ pc' = "list"
  /\ UNCHANGED <<disk, chain, i, total, listing, name, item, overrun>>

\* Where entry j of the directory lies: the count reads on from sector to
\* sector, the listing of a subdirectory follows the chain.
At(j) ==
  IF root THEN j
  ELSE (chain[1 + ((j - 1) \div ClusterSlots)] - 1) * ClusterSlots
         + 1 + ((j - 1) % ClusterSlots)

\* The entries that the directory has.
Own == 1 .. (IF root THEN RootSlots ELSE Len(chain) * ClusterSlots)

\* Variant for the checks: the last item of a subdirectory is not read.
ListedOneLess == IF root THEN RootSlots ELSE total - 1

\* The entries that are read: the whole root directory, and as many entries of
\* a subdirectory as there are items.
Listed == IF root THEN RootSlots ELSE total

\* fat16_get_root_directory, fat16_load_fat_directory.  The chain may be too
\* short for the count: that is an error, or the end mark is taken for a
\* cluster and some other place of the disk is read (FatRead has the marks).
ReadListing ==
  /\ pc = "list"
  /\ i' = 1
  /\ \/ /\ pc' = "idle"
        /\ \E f \in Slots :
             listing' = [j \in 1 .. Listed |-> IF j \in Own THEN disk[At(j)] ELSE f]
     \/ /\ ~(1 .. Listed \subseteq Own)
        /\ pc' = "unreadable" /\ UNCHANGED listing
  /\ UNCHANGED <<disk, chain, total, name, item, overrun>>

\* fat16_get_path_item_from_directory, called with a file's own name.
Lookup(f) ==
  /\ pc = "idle" /\ f.kind = "file"
  /\ pc' = "lookup"
  /\ name' = ShortName(f)
  /\ i' = 1 /\ item' = 0
  /\ UNCHANGED <<disk, chain, total, listing, overrun>>

\* A deleted entry's name starts with the byte 0xE5, which no name has.
Matches(f) == f.kind = "file" /\ FullFilename(f) = name

\* The loop goes on after a match: the last one is the result.
LookupItem ==
  /\ pc = "lookup" /\ i <= total
  /\ IF i <= Len(listing)
     THEN item' = (IF Matches(listing[i]) THEN i ELSE item) /\ overrun' = overrun
     ELSE item' = item /\ overrun' = TRUE
  /\ i' = i + 1
  /\ UNCHANGED <<disk, chain, pc, total, listing, name>>

LookupReturns ==
  /\ pc = "lookup" /\ i > total
  /\ pc' = "idle"
  /\ i' = 1
  /\ UNCHANGED <<disk, chain, total, listing, name, item, overrun>>

Next ==
  \/ CountSlot \/ CountEnds \/ ReadListing
  \/ \E f \in Slots : Lookup(f)
  \/ LookupItem \/ LookupReturns

Spec == Init /\ [][Next]_vars

-----------------------------------------------------------------------------
(* Correctness.                                                            *)

TypeOK ==
  /\ pc \in {"count", "list", "idle", "lookup", "unreadable"}
  /\ i \in 1 .. LastSlot + 1 /\ total \in 0 .. LastSlot
  /\ listing \in Seq(Slots)
  /\ item \in 0 .. Len(listing)
  /\ overrun \in BOOLEAN

\* The entries before the first END.
Used == {j \in Own : \A l \in 1 .. j : disk[At(l)] # END}

Terminated == \E j \in Own : disk[At(j)] = END

\* The used entries and the END follow one another on the disk.  A root
\* directory lies in one piece, and so does a directory of one cluster.
InOnePiece == Terminated /\ \A j \in Own : (\A l \in 1 .. j - 1 : l \in Used) => At(j) = j

\* No file was deleted out of the middle of the directory.
NoHoles == \A j \in Used : disk[At(j)] = DELETED =>
             \A l \in Used : l > j => disk[At(l)] = DELETED

\* The fields of the entry keep apart: behind the name there is a blank, and
\* behind the extension, too.
FieldsApart(f) ==
  /\ Len(f.name) < NameWidth \/ f.ext = <<>>
  /\ Len(f.ext) < ExtWidth \/ f.attr = SPC

\* In a directory in one piece and without holes a lookup finds a file of that
\* name, if there is one, and nothing else; names that fill their fields aside.
\* The chain may go elsewhere behind the END.
\* (the count reads contiguously, the listing along the chain)
FilesAreFound ==
  pc = "idle" /\ name # <<>> /\ InOnePiece /\ NoHoles
  /\ (\A j \in Used : disk[j].kind = "file" => FieldsApart(disk[j])) =>
    IF \E j \in Used : disk[j].kind = "file" /\ ShortName(disk[j]) = name
    THEN item \in Used /\ ShortName(disk[item]) = name
    ELSE item = 0

\* A lookup in a directory in one piece never yields an entry behind its end,
\* one of a neighbour, or one that was deleted, with holes or without.
FoundIsLive == item # 0 /\ InOnePiece => item \in Used /\ disk[item].kind = "file"

\* The lookup reads items only of the listing that was read, if the root
\* directory has an END, and for any subdirectory.
\* (total comes from one pass over the disk, the listing from another)
ItemsWithinListing == Terminated \/ ~root => ~overrun

-----------------------------------------------------------------------------
(* What the comments say.                                                  *)

\* fat16.c:249: dir is the "variable to get all the items of the root
\* directory": a file of the root directory is among the items looked at.
AllItemsOfRoot ==
  pc = "idle" /\ root /\ Terminated =>
    \A j \in Used : disk[j].kind = "file" => j <= total

=============================================================================
