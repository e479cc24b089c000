----------------------------- MODULE ImageArchive -----------------------------
(***************************************************************************)
(* What the passes of image/image.h make of an archive.  An archive is     *)
(*   opens    archive_read_open_filename takes it                          *)
(*   entries  the entries whose headers can be read, in order              *)
(*   cut      "no" if there is nothing after them, "header" if what comes  *)
(*            next cannot be read, "data" if the last entry's data cannot  *)
(*   text     what the data of a manifest is: a JSON value or NotJson (a   *)
(*            symbolic link's, in a tar, is empty: NotJson)                *)
(*   meant    whether it is meant to be valid; the grammar is compared     *)
(*            with it, FlagsAreRight, and no step looks at it              *)
(* and an entry is                                                         *)
(*   kind     "manifest", "root" (rootfs itself), "inside" (rootfs/name),  *)
(*            "sibling" (rootfsname: the prefix and no slash), "outside",  *)
(*            or "short" (outside, in less than rootfs's six characters)   *)
(*   name     the name in inside and sibling                               *)
(*   dot      whether the path is written with a leading ./                *)
(*   type     the file type                                                *)
(***************************************************************************)
EXTENDS Integers, Sequences

\* File types as mode_t has them, in units of 010000.
FIFO == 1
CHR == 2
DIR == 4
BLK == 6
REG == 8
LNK == 10
SOCK == 12

\* `mode & type` is a test of one bit: block devices and sockets have
\* the directory's, symbolic links and sockets the regular file's.
HasBit(type, bit) == (type \div bit) % 2 = 1

FileTypes == {FIFO, CHR, DIR, BLK, REG, LNK, SOCK}

Entries ==
  [dot : BOOLEAN, kind : {"manifest", "root", "inside", "sibling", "outside", "short"},
   name : STRING, type : FileTypes]
IsArchive(archive) ==
  /\ DOMAIN archive = {"opens", "entries", "cut", "text", "meant"}
  /\ archive.entries \in Seq(Entries) /\ archive.cut \in {"no", "header", "data"}

IsManifest(e) == e.kind = "manifest"
Under(e) == e.kind \in {"inside", "sibling"}   \* longer than rootfs and beginning with it

StructureOf(e) ==
  CASE IsManifest(e) -> HasBit(e.type, REG)
    [] e.kind = "root" -> HasBit(e.type, DIR)
    [] OTHER -> Under(e)

\* A header that cannot be read ends the loop as the archive's end does.
ValidateStructure(archive) ==
  /\ archive.opens
  /\ \A i \in DOMAIN archive.entries : StructureOf(archive.entries[i])
  /\ \A i, j \in DOMAIN archive.entries :
       IsManifest(archive.entries[i]) /\ IsManifest(archive.entries[j]) => i = j

\* Whether the data of entry i can be read.
Readable(archive, i) == archive.cut = "data" => i < Len(archive.entries)

\* The first manifest's text, <<>> if there is none to be had.
Manifest(archive) ==
  LET found == {i \in DOMAIN archive.entries : IsManifest(archive.entries[i])}
  IN  IF archive.opens /\ found # {}
      THEN LET i == CHOOSE j \in found : \A k \in found : j <= k
           IN  IF HasBit(archive.entries[i].type, REG) /\ Readable(archive, i)
               THEN <<archive.text>> ELSE <<>>
      ELSE <<>>

\* The files below rootfs, as the rest of the path once its "rootfs" is off.
Rest(e) == IF e.kind = "inside" THEN <<"/", e.name>> ELSE <<e.name>>
FileList(archive) == {Rest(archive.entries[i]) : i \in {j \in DOMAIN archive.entries : Under(archive.entries[j])}}

\* Where extraction puts an entry below its base: the path from its seventh
\* character on, whatever the first six are.
WritePath(e) ==
  CASE ~e.dot /\ e.kind = "root" -> <<>>
    [] ~e.dot /\ Under(e) -> <<e.name>>
    [] e.dot /\ e.kind = "manifest" -> <<"fest">>
    [] e.dot /\ e.kind = "root" -> <<"fs">>
    [] e.dot /\ e.kind = "inside" -> <<"fs", e.name>>
    [] e.dot /\ e.kind = "sibling" -> <<"fs+", e.name>>
    [] OTHER -> <<"out">>

\* Only the exact "manifest" is passed over, and std::string::substr throws
\* when the path is too short.
Skipped(e) == IsManifest(e) /\ ~e.dot
TooShort(e) == e.kind = "short"
HasData(e) == e.type = REG
=============================================================================
