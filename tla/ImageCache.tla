------------------------------ MODULE ImageCache ------------------------------
(***************************************************************************)
(* One image in the local cache (config.images_path) and the nscn          *)
(* processes that want it.  Each looks for the file with stat, downloads   *)
(* it to its final name when it is not there, reads it twice to validate   *)
(* it and, for `nscn run`, a third time to extract it.  Nothing marks a    *)
(* file that is still being written, and nothing removes one whose         *)
(* download failed.                                                        *)
(*                                                                         *)
(* The file is a sequence of Blocks archive entries, `have` the ones whose *)
(* bytes are in place: a writer that was overtaken by the truncation of    *)
(* another leaves a hole.  Reading stops without an error at the first     *)
(* entry that is not in place.                                             *)
(***************************************************************************)
EXTENDS Naturals

CONSTANTS
  Fetchers,    \* the nscn run and nscn fetch processes
  Blocks,      \* how many entries the archive has
  ManifestAt,  \* which of them is the manifest
  Faults       \* "net": a transfer may fail; "crash": a process may be killed;
               \* "disk": data that fclose should write may be lost

ASSUME BlocksAssumption == Blocks \in Nat /\ ManifestAt \in 1 .. Blocks

VARIABLES
  exists,   \* is there a file of the image's name?
  have,     \* the entries whose bytes are in it
  pc,       \* pc[f]: where fetcher f is
  next,     \* next[f]: the entry f writes or reads next
  got,      \* got[f]: the entries f has extracted
  raced,    \* raced[f]: has somebody else been writing since f began?
  damaged   \* has a fault hit a file being written?

\* raced and damaged only record what has happened.
vars == <<exists, have, pc, next, got, raced, damaged>>

All == 1 .. Blocks
Stopped == {"idle", "failed", "fetched", "started"}
Writing == {"write"}

TypeOK ==
  /\ exists \in BOOLEAN
  /\ have \subseteq All
  /\ pc \in [Fetchers -> Stopped \cup Writing \cup
                         {"download", "structure", "manifest", "extract"}]
  /\ next \in [Fetchers -> 1 .. Blocks + 1]
  /\ got \in [Fetchers -> SUBSET All]
  /\ raced \in [Fetchers -> BOOLEAN]
  /\ damaged \in BOOLEAN

Init ==
  /\ exists = FALSE
  /\ have = {}
  /\ pc = [f \in Fetchers |-> "idle"]
  /\ next = [f \in Fetchers |-> 1]
  /\ got = [f \in Fetchers |-> {}]
  /\ raced = [f \in Fetchers |-> FALSE]
  /\ damaged = FALSE

Goes(f, from, to) ==
  /\ pc[f] \in from
  /\ pc' = [pc EXCEPT ![f] = to]

OthersWriting(f) == \E g \in Fetchers \ {f} : pc[g] \in Writing

\* Mutant: the local strategy is not asked.
BeginAnew(f) ==
  /\ Goes(f, Stopped, "download")
  /\ next' = [next EXCEPT ![f] = 1]
  /\ got' = [got EXCEPT ![f] = {}]
  /\ raced' = [raced EXCEPT ![f] = OthersWriting(f)]
  /\ UNCHANGED <<exists, have, damaged>>

\* A process is started.  The name may not resolve; else the local strategy
\* comes first, and is content with a file that exists.
Begin(f) ==
  /\ \/ exists /\ Goes(f, Stopped, "structure")
     \/ ~exists /\ Goes(f, Stopped, "download")
     \/ Goes(f, Stopped, "failed")
  /\ next' = [next EXCEPT ![f] = 1]
  /\ got' = [got EXCEPT ![f] = {}]
  /\ raced' = [raced EXCEPT ![f] = OthersWriting(f)]
  /\ UNCHANGED <<exists, have, damaged>>

\* The first bytes arrive and writer opens, and so truncates, the file.
OpenFile(f) ==
  /\ Goes(f, {"download"}, "write")
  /\ exists' = TRUE
  /\ have' = {}
  /\ raced' = [g \in Fetchers |-> raced[g] \/ g # f]
  /\ UNCHANGED <<next, got, damaged>>

\* Mutant: what fwrite could not write is counted as written.
WriteBlockShort(f) ==
  /\ Goes(f, {"write"}, "write")
  /\ next[f] \in All
  /\ \E kept \in {{}, {next[f]}} : have' = have \cup kept
  /\ next' = [next EXCEPT ![f] = @ + 1]
  /\ UNCHANGED <<exists, got, raced, damaged>>

WriteBlock(f) ==
  /\ Goes(f, {"write"}, "write")
  /\ next[f] \in All
  /\ have' = have \cup {next[f]}
  /\ next' = [next EXCEPT ![f] = @ + 1]
  /\ UNCHANGED <<exists, got, raced, damaged>>

\* Mutant: a transfer that ends early counts as complete.
CloseFileEarly(f) ==
  /\ Goes(f, {"write"}, "structure")
  /\ next' = [next EXCEPT ![f] = 1]
  /\ UNCHANGED <<exists, have, got, raced, damaged>>

\* curl and fclose are done; fclose's result is not looked at.
CloseFile(f) ==
  /\ Goes(f, {"write"}, "structure")
  /\ next[f] = Blocks + 1
  /\ next' = [next EXCEPT ![f] = 1]
  /\ \/ UNCHANGED <<have, damaged>>
     \/ /\ "disk" \in Faults
        /\ \E lost \in SUBSET have : have' = have \ lost
        /\ damaged' = TRUE
  /\ UNCHANGED <<exists, got, raced>>

\* curl reports an error, before the first bytes or after some, be it one of
\* the connection or of fopen or fwrite: the command fails and what there is
\* of the file stays.
TransferFails(f) ==
  /\ "net" \in Faults
  /\ Goes(f, {"download", "write"}, "failed")
  /\ damaged' = (damaged \/ pc[f] = "write")
  /\ UNCHANGED <<exists, have, next, got, raced>>

\* validate_structure takes any failure to read a header for the end of the
\* archive: what it has seen of this image is well formed, so it is Valid.
ValidateStructure(f) ==
  /\ Goes(f, {"structure"}, "manifest")
  /\ UNCHANGED <<exists, have, next, got, raced, damaged>>

\* The manifest is found, or reading ends before it.  nscn fetch is done
\* then, nscn run goes on to create_rootfs.
ValidateManifest(f) ==
  /\ IF (1 .. ManifestAt) \subseteq have
       THEN \E to \in {"fetched", "extract"} : Goes(f, {"manifest"}, to)
       ELSE Goes(f, {"manifest"}, "failed")
  /\ UNCHANGED <<exists, have, next, got, raced, damaged>>

ExtractBlock(f) ==
  /\ Goes(f, {"extract"}, "extract")
  /\ next[f] \in have
  /\ got' = [got EXCEPT ![f] = @ \cup {next[f]}]
  /\ next' = [next EXCEPT ![f] = @ + 1]
  /\ UNCHANGED <<exists, have, raced, damaged>>

\* Mutant: extraction stops wherever it likes.
ExtractEndsAnywhere(f) ==
  /\ Goes(f, {"extract"}, "started")
  /\ UNCHANGED <<exists, have, next, got, raced, damaged>>

\* extract_rootfs_to ends at the first header it cannot read, reports Success
\* and the container is started.
ExtractEnds(f) ==
  /\ Goes(f, {"extract"}, "started")
  /\ next[f] \notin have
  /\ UNCHANGED <<exists, have, next, got, raced, damaged>>

Kill(f) ==
  /\ "crash" \in Faults
  /\ Goes(f, {"download", "write", "structure", "manifest", "extract"}, "failed")
  /\ damaged' = (damaged \/ pc[f] = "write")
  /\ UNCHANGED <<exists, have, next, got, raced>>

Next ==
  \E f \in Fetchers :
    \/ Begin(f) \/ OpenFile(f) \/ WriteBlock(f) \/ CloseFile(f) \/ TransferFails(f)
    \/ ValidateStructure(f) \/ ValidateManifest(f) \/ ExtractBlock(f) \/ ExtractEnds(f)
    \/ Kill(f)

Spec == Init /\ [][Next]_vars

-----------------------------------------------------------------------------
\* When nobody is writing, the cache holds the whole image or no file at all,
\* although processes truncate and overwrite each other's downloads: nothing
\* but a fault during a write can spoil it (https.h:45-90, local.h:82).
QuietCacheWhole ==
  exists /\ ~damaged /\ (\A f \in Fetchers : pc[f] \notin Writing) => have = All

\* Why: a byte that is not in place is still to be written by somebody.
MissingIsComing ==
  exists /\ ~damaged =>
    \A b \in All \ have : \E f \in Fetchers : pc[f] \in Writing /\ next[f] <= b

\* A container starts with every file of its image unless a fault has hit a
\* download or some other process was writing the file since its own nscn
\* began (image.h:203-236, run.cpp:141).
WholeUnlessRaced ==
  \A f \in Fetchers : pc[f] = "started" /\ ~raced[f] => damaged \/ got[f] = All

\* Why: f reads a file that exists, entry by entry, and is raced by whoever
\* else is writing.
ReadInv ==
  \A f \in Fetchers :
    /\ pc[f] \in {"write", "structure", "manifest", "extract"} => exists
    /\ pc[f] \in {"structure", "manifest", "extract"} => got[f] = 1 .. (next[f] - 1)
    /\ pc[f] \in {"structure", "manifest", "download"} => next[f] = 1
    /\ pc[f] \in {"download", "write"} => got[f] = {}
    /\ ~raced[f] => ~OthersWriting(f)

\* The strengthening that every step preserves.
CacheInv == TypeOK /\ MissingIsComing /\ ReadInv

\* Once the file is there and nobody is about to write it, it never changes
\* again: what is in the cache then is what every later nscn gets, be it the
\* whole image or the remains of a failed download (local.h:82).
Settled == exists /\ \A f \in Fetchers : pc[f] \notin {"download"} \cup Writing
SettledStays == [][Settled => Settled' /\ have' = have]_vars
=============================================================================
