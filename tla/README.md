# A formal model of Nose Cone

TLA+ modules, TLC configurations and TLAPS proofs for `nscn`, a C++
implementation of the App Container specification. Everything is translated
from the sources: source paths below are relative to `src/src/` (for example
`nosecone/command/gc.cpp`, shortened to `gc.cpp` where no other file has the
name). `PROJECT.json` lists the runs, which lines each definition models, the
disagreements between code and documentation that the runs exhibit, the hazards
and the theorems.

    tlc -workers 2 -config StoreSafety.cfg MCContainerStore    # a run
    tlapm ContainerStore_proofs.tla                            # the proofs of a module

## 1. The system

`nscn` is a command line program. Every command is a process of its own; there
is no daemon and no lock. The processes meet in two directories,
`config.containers_path` and `config.images_path`, and in the kernel's process
table.

| Component | State it keeps | Operations |
|---|---|---|
| container store (`run.cpp`, `gc.cpp`, `list.cpp`, `status.cpp`, `executor/status.cpp`) | `<id>/`, `<id>/rootfs`, `<id>/info` with the pid of the container's init | `run` makes them in this order, with `clone` before `info`; `list`, `status`, `enter` and `gc` read `info` and look for `/proc/<pid>/cmdline`; `gc` removes the tree of a container that is not running, entry by entry |
| container start (`executor/container/linux.cpp`, `run.cpp`) | the pty, the namespaces and mounts of init, the pids of the forked stages | `create_pty`, `start` on both sides of `clone`, the preparation of the root, pre-start, app and post-stop one after another, `await`, `dump_container_stdout` |
| enter (`command/enter.cpp`) | the namespaces joined so far | read `info`, open and join the namespaces of the pid one by one, fork a shell and wait for it |
| image cache (`fetch.cpp`, `discovery/https.h`, `discovery/strategy/{local,simple}.h`, `image/image.h`) | one file per image, under its final name from the first byte | the local strategy looks with `stat`; the simple one downloads; the file is read three times: to validate its structure, for its manifest, to extract it |
| dependency fetching (`executor/fetch.cpp`, `executor/validate.cpp`) | the list of images each call of the recursion has collected | `fetch_and_validate`: fetch, validate, append, recur for every dependency with a copy of the list, append what comes back |
| image archive (`image/image.h`) | none | what the four passes over an archive (structure, manifest, list, extraction) make of its entries, each opening the file anew |
| manifest schema (`appc/schema/*.h`) | none | `from_json` and `validate` of every type, `to_json` of the container's manifest |
| discovery names and strategies (`discovery/*.h`, `strategy/*.h`) | none | the name of an image's file from its labels, where it lies, the local strategy and then the simple one; `meta` is a comment |
| directories (`os/mkdir.h`) | the file system | `mkdir` with parents: stat and mkdir, entry by entry |
| uuids (`executor/uuid.h`, `os/process.h`) | none | the output of `uuidgen` |
| validate (`command/validate.cpp`, `executor/validate.cpp`) | none | structure, then manifest, then its validity |
| command line (`main.cpp`, `command.cpp`, `config.h`) | the configuration | flags, dispatch, help, and the image and labels `fetch` and `run` are asked for |
| result types (`util/*.h`) | none | `Status`, `Try`, `Option` |

How they interact: `run` calls the dependency fetching, which calls the cache;
it then makes the container's directory and starts the container; from there on
`run`, init and the app share the pty, and the store's other commands find the
container by its `info` and its pid only.

What is hard: every pair of commands interleaves at every system call; every
process can be killed anywhere; most statuses are dropped (`create_rootfs`,
`create_pty`, `fork`, `fclose`, `recursive_remove_dir`); pids come back; the pty
blocks in both directions and hangs up; a file is visible under its final name
while it is being written; the recursion over dependencies has no bound. What
makes each part correct:

* store: nobody takes anything from a container that lives or is being made; what
  a command says of a container is true; what is spent is collected.
* start: nothing of the image is executed outside its confinement; the stages do
  not overlap; `-wait` and `-stdout` wait, print what was written and end.
* enter: the shell is in the container it was asked for and not longer than it.
* cache: what is in the cache is a whole image; what a container starts from is
  whole.
* dependencies: the list is what is wanted, validated, in a usable order; the
  recursion ends.
* archive and schema: the verdict on an image is the one its messages promise, or
  deviates from it in known places only; extraction puts
  everything in its place or says that it did not; what is executed is what the
  manifest declares; what a client writes reads back.
* discovery and command line: arguments mean what they say; what one strategy
  stores the other finds; of commands that meet in the directories not all fail,
  and one that is issued again comes to its end unless something lasts that
  keeps it from it.

## 2. The modules

| Module | Models | Extends, composes |
|---|---|---|
| `ContainerStore` | the containers directory, one `run` per container, the inits, any number of gc, list and status processes | |
| `ContainerLedger` | the abstract life of a container: prepared, running, spent, cleared, and what may be said of it | implemented by `ContainerStore` |
| `ContainerStart` | one `run` from `create_pty` to its exit, init, its forked stages and the pty | |
| `Enter` | visitors beside everything of the store | extends `ContainerStore`, whose `Next` is one of its actions |
| `ImageCache` | processes that fetch, validate and extract one image | |
| `FetchDeps` | the recursion over a catalog of manifests | |
| `ImageArchive` | an archive as a row of entries, and the four passes over it as operators | |
| `Schema` | JSON values, and `from_json`, `validate` and `to_json` of the manifests as operators | |
| `ImageFormat` | the images that the code's messages ask for, as a grammar on JSON values and a condition on entries, and what the verdict of `ImageUse` deviates from it in | extends `ImageArchive` and `Schema` |
| `ImageUse` | `nscn validate` and the part of `nscn run` that reads, extracts and executes one image; a client of the container manifest | extends `ImageFormat` |
| `CommandLine` | arguments, flags, commands, labels as operators | |
| `Discovery` | processes that begin `fetch` or `run`, make their directories, and look for and fetch images | extends `CommandLine` |
| `MC*` | constants and symmetry for TLC | the module after the prefix |
| `*_proofs` | theorems and lemmas | the module before the suffix and `TLAPS`; `Enter_proofs` and `StoreQuiet_proofs` extend `ContainerStore_proofs` |

Definitions marked "Mutant" are what a plausible mistake in the code would make
of the definition after them; `PROJECT.json` names the property each one breaks.

### ContainerStore

One action is one system call, or a run of calls that no other process can tell
from one. `runPc[c]` is where the `nscn run` that makes container `c` is:
`RunPrepare` (all that precedes the directory), `RunMkdirRoot` and
`RunMkdirRootfs`, `RunExtract`, `RunClone` or `RunCloneFails`, `RunOpenInfo`
(`std::ofstream` truncates on opening), `RunWriteInfo`, `RunAfterReport` and then
`-wait` (`RunEndAwait`) or `-stdout` (`RunEndDump`). The `Status` of
`create_rootfs` is dropped in `run.cpp:141`: a failed mkdir leads to `start` all
the same. init is a zombie after `InitExit`, because it was cloned without
`SIGCHLD`, until `run` or, after `run`'s end, the host's init waits for it; only
then is its pid free (`owner`).

A client visits the directories its `readdir` returned (`todo`). `SkipUnreadable`
is an `info` that is not there, `AbortOnParse` one that is there and empty, which
throws. `ReadInfo` and `StatProc` are two steps: the pid may change hands in
between. `Rm*` is `recursive_remove_dir`, depth first, in any order of `readdir`;
`RmStuck` says when its next call fails, and `RmFails` that the first failure
ends it and `gc` says "expunged" all the same. Entries below `rootfs` are a set of
names, some of them `Special` (fifo, socket, device).

Faults are a constant: `"io"` lets any call fail, `"crash"` kills any process,
`"reuse"` lets the kernel hand out a pid again.

### ContainerLedger

`life[c]` and `told[c]`. `LifeOf` in `ContainerStore` is the refinement mapping:
the life follows from init and the directory. `Tell` may always say RUNNING: the
code does not promise that RUNNING is true, since the pid may be somebody else's.

### ContainerStart

`parent` is nscn, `childPc` is init after `clone`, `worker[s]` a process forked
for a stage. The sixteen steps between opening the terminal and the first fork
whose failure makes `start` return are `SetupSteps`; which one fails does not
matter to what follows, how many were taken does (`applied`). The pty is
external: a master's read fails when the last slave is closed, but blocks as long
as no slave was ever opened; the slave cannot be opened after the last master is
gone; writing blocks when the pty is full and fails after a hang-up. `create_pty`
reports success when `posix_openpt` fails; the name of the slave then is what its
buffer holds, uninitialised, so that opening it may even work (`OpenGarbage`).
`fork`'s -1 is taken for a pid (`PassStage`).

The app and both handlers have the terminal that init opened: each may write to
it (`Writes`), block in it, and ends when it has written what it wants to
(`left[s]`). What they write is a row of units, text or a NUL byte. `DumpRead`
takes any part of what the pty holds and prints it as `run.cpp:69` does, as a C
string: what follows the first NUL byte of one read is gone (`Shown`). How much
is gone depends on how the reads fall, so that no property can say it exactly.

### Enter

`EnterStatus` reads the pid, `EnterJoin` and `EnterJoinFails` look it up once for
each of the four namespaces (`NextStep` is the order of the array in
`enter.cpp:66`), `EnterFork` and `EnterForkFails` start the shell. `StoreStep` is
any step of `ContainerStore`, with what the kernel adds: when init ends, so do the
processes of its pid namespace.

### ImageCache

The archive is a row of `Blocks` entries, `have` those that are in place. `Begin`
is the local strategy's `stat`; `OpenFile` truncates; `WriteBlock` goes on at the
writer's own offset, so that two writers leave holes for each other. Reading ends
without an error at the first entry that is not in place, as libarchive's callers
here treat every failure to read a header as the end.
`raced` and `damaged` record history and guard nothing.

### FetchDeps

`calls` is the stack of `fetch_and_validate`, the innermost call last, each with
its arguments, its list, the step it is at and the dependency it is at. `Require`
pushes a call with a copy of the list, `Return` pops it and appends what it
returned, which begins with that copy: the caller then has its list twice.
`Overflow` is the end of the process's stack at `MaxDepth`; `Exhausts` is the
end of its memory, when the lists of all calls and the next copy are more than
`MaxHeld` images; `Stalls` is a transfer that never ends, as `https.h` sets no
timeout. `requires` (the manifests), `kind` (what is found under a name) and
`cached` are chosen in `Init`, so that one run covers every catalog of the
instance.

### ImageArchive, Schema, ImageFormat, ImageUse

An entry of an archive has a path's kind (the manifest, `rootfs`, something
below it, something that only begins like it, something else), a leading `./` or
none, a type, and a mark whether its header and its data can be read. The
operators are the passes: `StructureOf` tests the type by a bit of it, as
`image.h:134` does, `Under` and `FileList` are the list, `WritePath` is what is
left from offset 6 on. libarchive is external.

`Schema` has one operator `...FromJson` and one `...Valid` for each type.
Strings are abstracted to the classes the patterns of `validate` tell apart
(the sets `AcNames`, `AbsPaths`, ...), so that a pattern is external and its use
is not. `Collect`, `TryFrom` and `TryOption` are `util/try_option.h` and
`schema/try_json.h`: a field that is `null` is not one that is missing.

`ImageFormat` models no code but its messages. It says with one predicate on JSON
values for each production, without parsing and without `Option` or `Try`, which
manifests are to be accepted, and which entries an archive is to have: a port
"between 1 and 65535" (`ports.h:47`), a manifest that is a regular file, a
`rootfs` that is a directory and only entries in it besides
(`image.h:134-141`), and an archive that can be read to its end. Where the code's
verdict deviates from that, the deviation has a name: `Taken` says what the code
takes an archive for, `AtBound` which ports it refuses. A field whose message
names no bound (the kind of a manifest, the name of a handler) is in the grammar
as the code has it.

In `ImageUse`, `CheckStructure` and `GetValidatedImage` are the two passes of
validation, `OpenArchive` and one `ExtractEntry`, `SkipEntry` or failure for each
entry are the third. `Replace` writes the file anew in between, once. `Become`,
`SetEnvironment`, `PreStart`, `RunApp` and `PostStop` are what init does with the
manifest, in the order of `linux.cpp:335-442`; the confinement around them and
failures of `fork` are `ContainerStart`'s. `ReadRuntime`, `WriteRuntime` and
`RereadRuntime` are a client that reads a container's manifest, writes it with
`to_json` and reads that; no command of nscn does so, the header offers it.

### CommandLine, Discovery

`SeparateFlags` takes flags up to the first argument that is none or up to `--`;
`Main` is the dispatch, applied to what is left once more for the command's own
flags; `RequestOf` is the image and its labels, each replacing a default or an
earlier one.

In `Discovery` a process goes through `main`, `fetch`, the directories
(`StatDir`, `MkDir`, `MkDirFails`, one system call each), `local`, `simple`, `get`,
`validate` and, for `run`, `uuid`. A path is the row of its entries, with `""`,
`.` and `..` among them, and an entry the row of the words between dashes; `Walk`
is the kernel's walk along a path, so that two texts may lead to one place. The
two strategies put their paths together each in its own way (`LocalPath`,
`FullPath`): `ns::join` keeps the slashes a text begins with, `pathname::join`
drops them. Directories and files have an owner: `mkdir` and `fopen` fail for a
user below another's directory, and for anybody where a file is on the way;
`"disk"` lets `mkdir` fail for whatever else `errno` may say. A download is one
step here, which `ImageCache` takes apart: it brings an image with or without an
app or something that is no image (`Served`), or fails and may leave a part of a
file (`GetFails`), or never ends (`GetStalls`). Whatever lies at the path is
validated (`Validate`, `ValidateFails`, `DependencyFails`), so that a part of a
file fails every later command. `Repeat` is whoever issued a failed command
issuing it again.

## 3. The runs

| Run | Question | Instance, distinct states |
|---|---|---|
| `store_safety` | does gc ever touch a container that is alive or being made, whatever fails; is EXITED ever false; is the store a ledger? | 2 containers that exchange the one pid, 2 clients that gc and ask for the status; io, crash, reuse; 1.7 million with symmetry |
| `store_progress` | without faults, is every spent container collected, and is what is said true? | 2 containers, a gc, a list or status, 1 file; 0.9 million |
| `start_safety` | confinement, order, waiting, output, end | all modes and handlers, output 4 in any shares, capacity 2, every fault; 0.13 million |
| `enter_safety` | is the shell where it should be? | 2 containers, a gc, a visitor, a special file; io, crash; 1.5 million |
| `cache_safety` | is the cache whole, and what is extracted? | 3 processes, 3 entries, the manifest second; net, crash, disk; 30 thousand |
| `fetch_deps` | what is in the list, in which order, and how does it end? | 3 images, 0 to 2 dependencies for the first, depth 4, memory for 30; net, stall, mkdir; 1.0 million |
| `image_use` | is the verdict the one promised, the extraction complete, the right thing executed, and does a manifest survive being rewritten? | every archive and manifest described below, replaced at most once between two passes; 0.5 million |
| `discovery` | do arguments mean what they say, is what is stored found, do commands that meet come through? | root and a user, 13 command lines, two states of the directories; net, stall, disk, deps, uuid; 0.2 million |
| `store_abort` | violates `NoAbort` | 1 container, 1 client |
| `start_detached` | violates `AppRuns` | detached, no faults |
| `start_interrupted` | violates `InterruptHarmless` | nscn is terminated while it waits |
| `start_stdout` | violates `StdoutImpliesWait` | `-stdout`, `posix_openpt` may fail |

What the passing runs show:

* `GcSparesLive`: although gc removes a tree several calls after it has looked for
  the process, no container it removes has an init, because a pid that is free
  once `info` names it was waited for, and because `info` is written after
  `clone`. Pid reuse cannot break this: it can only keep a spent container.
  `LiveTreeKept` says the same of each step: no directory and no written `info`
  of a container whose init is not gone disappears. `StoreInv` is why.
* `ExitedIsGone`, `KeepsLedger`: a container called EXITED is over; lives only go
  forward.
* `NoOrphan` and `SpentCollected` hold without faults, pid reuse and special
  files and with one gc at a time; each of these conditions is needed
  (section 6). `RunningIsAlive` only needs that pids do not come back.
* `Confined`: no program of the image runs before every step that shuts it in was
  taken, wherever the preparation fails. `OneAtATime` holds under every fault.
* `WaitImplied`: `-wait`, and `-stdout` when it has a pty, return after the
  container's end and not before. What `run.h:36` says of `-stdout` has no such
  condition; `StdoutImpliesWait` says that, and `start_stdout` refutes it.
* `OutputComplete`: when `-stdout` returns and has a pty, every unit that was
  written is printed, or there was a NUL byte before it. Without NUL bytes that is
  everything, for every way in which reads, writes and the end may fall.
* `LostUnattended`: a write of the app or a handler fails only when nscn was told
  not to stay or was terminated. `run.h:37` promises that terminating it is
  harmless; `start_interrupted` refutes `InterruptHarmless`.
* `RunEnds` names the only two ways in which `run` does not come to an end:
  `-wait` with an app or a handler that fills the pty, and `-stdout` when init
  ended before it opened the slave.
* `EntersOneContainer`, `ShellKeepsTree`: without pid reuse, a shell is in all
  four namespaces of its container, and gc never removes the root under it.
* `QuietCacheWhole`: racing downloads leave a whole file when all are done, as
  they write the same bytes; `WholeUnlessRaced`: a container starts from a part
  of its image only after a fault or beside another process's download;
  `SettledStays`: once a file is there and nobody is about to write it, it never
  changes, be it whole or not.
* `FetchedIsWanted`: what the recursion returns is the image and all it needs.
  `FetchedIsSound`: success means that every image was valid, every dependency
  named and nothing circular. `DependencyOnTop`: although images are in the list
  many times, every place of an image is followed by one of each of its
  dependencies, so that a dependency's file is consistently left over the file of
  the image that needs it. `CrashedInCycle`: the stack overflows only for a circle.
  `ExhaustedByDoubling`: memory needs no circle to run out, as a chain doubles what
  is held; but with every call it is doubled at most, so that memory for 2^k images
  lasts for k - 1 calls. `FetchEnds`: the recursion ends in one of these ways unless
  a transfer stalls.
* `ExtractsRootfs`: success of the extraction means that every path `file_list`
  names is in its place with the last entry of that name, however entries are
  ordered, repeated or unreadable, and whichever file has been put there since the
  validation. `VerdictAsMeant`: `nscn validate` accepts an image
  exactly when what it takes the archive for is what the messages ask for and no
  port is at a bound, for every pair of deviations from a valid manifest: what
  section 6 lists is all that its verdict has against the format. What the format
  asks for was written by hand beside each deviation, and is said once more by the
  grammar of `ImageFormat`; `FlagsAreRight`, which TLC evaluates, is that the two
  agree. `ExecutesDeclared`: the app, both
  handlers and nothing else, in the environment asked for. `RewriteKeeps` says
  exactly which valid container manifests survive `to_json` and `from_json`, and
  which make `to_json` crash.
* `ArgsAsRead` states, without going through the code's two separations, what the
  image and the labels of a command are. `StoredWhereLooked`: what one command has
  stored or found, another that asks for the same name, version, os and arch finds,
  in one and the same place, although the two strategies join the path each in its
  own way and texts have slashes, dots and empty entries in them.
  `SomeoneGetsThrough`: however many race for the directories, one is not failed
  by the others. `FetchSettles`: issued again and again, a command ends with its
  image; the exceptions are what lasts and fails it each time (`Settled`: it is not
  for this user, another's directory or a file is on the way, a part of a file lies
  in the image's place, a transfer stalls) and a disk, network, dependency or id
  that fails it over and over.

### Bounds, and why they are enough

* Two containers and two clients: the code of one container's run never looks at
  another container, and a client keeps nothing from one container to the next
  but its directory stream. Two containers can exchange a pid, two gcs can meet
  in one tree, and a third adds no new pair. One entry below `rootfs`, in
  `store_progress` and `enter_safety`, is enough for "some are left".
* One pid in `store_safety`: it is either container's in turn, or a stranger's, so
  that every pid a client holds is one that may have changed hands. Two elsewhere,
  where both containers live at once.
* Output 4 with capacity 2: the pty is empty, partly full, full, and drained
  and filled again, by three programs that share it in every way, and a read of
  two may have a NUL byte first, last or not. All sixteen setup steps are there.
* Three processes and three entries in the cache: a writer overtaken by a second
  while a third reads, with the manifest before, at and after the hole.
* Three images: chains, diamonds, a dependency named twice, and circles of length
  one, two and three. `MaxDepth` 4 is more than the longest path without a circle,
  as `CrashedInCycle` needs; the code's stack is deeper by far. `MaxHeld` 30 is
  exhausted by some catalogs without a circle and not by others, and is no hindrance
  to the circles before the stack ends.
* Archives: all rows of one or two entries, all of a manifest and two more, and a
  manifest and `rootfs` with three entries below it, each with what can go wrong
  when it is read. Passes look at one entry at a time; two can have the same path,
  and a third can come between them or after both.
* Manifests: a valid one with any two of its fields changed, to each value that
  some test of the code tells from the others. A validation returns at its first
  failure, so that two deviations show whether one hides the other.
* Two processes in `discovery`, root's and a user's: a race for a directory has two
  sides, and the theorem has any number. The command lines are those that separate
  flags, arguments and labels in each way there is, and those whose images share a
  directory, a place under two texts, or the place of one's file with a directory of
  the other's; `/tmp` is empty, or has what an earlier command of root's has made.

`MaxOutput`, `Capacity`, `Blocks`, `MaxDepth` and `MaxHeld` are the only bounds on
numbers.
The theorems hold for every value of them. Deadlock is checked in every run:
`ContainerStore` can always launch a command again, the others have an explicit
`Over` step or can begin again.

Symmetry is used where only safety is checked; `store_progress`, `start_safety`,
`fetch_deps` and `discovery`, which check liveness, have none.

### Fairness

* `GcFairness`: each client's launching, its visit and its removal are weakly fair,
  and so is the one write of `info`. A process that can make its next call makes
  it, and somebody issues gc again and again; the code has no timer of its own,
  and without that nothing is ever collected. Nothing is assumed of the app, init
  or a `run` that waits.
* `ContainerStart`: nscn, init and the workers together are each weakly fair, as
  processes the kernel schedules. Faults and kills are not fair. The app and the
  handlers end when they have written what they want to; an app that runs for ever
  keeps `-wait` for ever, as it should.
* `FetchDeps`: the one process runs. A transfer ends, fails, or is one that stalls.
* `Discovery`: each process is weakly fair, which includes that somebody issues a
  failed command again. Nothing is assumed of the network, the disk or `uuidgen`:
  that they fail for ever is the second alternative of `FetchSettles`, and that a
  transfer never ends is among the states called `Settled`.

`ImageCache`, `ImageUse` and `Enter` state no liveness: a transfer may take for
ever, the passes over an archive are loops over its entries.

## 4. What is proved

All theorems hold for every value of the constants that satisfies the named
assumptions: any number of containers, pids, clients, processes and blocks, any
catalog, any set of faults.

| Module | Theorems | By |
|---|---|---|
| `ContainerStore_proofs` | `TypeCorrect`, `StoreInvAlways`, `GcSafe`, `ExitedTrue`, `TreeSafe`, `LedgerImplemented`; `RunningTrue` unless pids come back | `StoreInv`, `OwnerInv` |
| `StoreQuiet_proofs` | `NothingOrphaned`, without faults, special files and a second gc (`Quiet`) | `QuietInv` |
| `ContainerStart_proofs` | `ConfinedAlways`, `OneAtATimeAlways`, `StartInvAlways`, `WaitReallyWaits`, `OutputAlwaysComplete`, `NoWriteLostAttended` | `StageInv`, `PtyInv`, `TerminalInv` |
| `Enter_proofs` | `EnterInvAlways`, `EntersOne`, `ShellKeeps`, unless pids come back | `EnterInv`, `OwnerInv`, `StoreInv` |
| `ImageCache_proofs` | `TypeCorrect`, `CacheInvAlways`, `QuietCacheIsWhole`, `UnracedStartsWhole`, `SettledForGood` | `CacheInv` |
| `FetchDeps_proofs` | `ListsSound`, `FetchedIsValid`, `WantedFetched`, `SoundFetched`, `DependencyAlwaysOnTop`; `CrashIsCircle` if the stack has room for a call for each image | `ListInv` |
| `ImageUse_proofs` | `UseInvAlways`, `ExtractsRootfsAlways`, `ExecutesDeclaredAlways`, `VerdictAsMeantAlways`, `RewriteKeepsAlways`; of the operators: `ImageForm`, `Accepted`, `RoundTrip` | `UseInv` |
| `Discovery_proofs` | `SomeoneAlways`, `DiscoveryInvAlways`, `StoredWhereLookedAlways`, `ArgsAsReadAlways`; of the operators: `SeparateFlagsIs`, `RequestOfIs` | `DiscoveryInv`, and induction on the arguments |

The assumptions only say of what kind a constant is: that the model's words
("free", "other", "absent", ...) are no pids or containers, that `Special` are
files, that numbers are numbers and not zero where that would be absurd, that a
catalog maps images to sequences of dependencies, that archives are archives
(`ArchivesAreArchives`) and carry the flag the format gives them
(`FlagsAreRight`), that command lines are sequences of strings
(`ArgvsAssumption`), that the default environment is the code's `PATH` and
`TERM` at most (`DefaultsAreFew`), that the two directories have a path
(`PathsAssumption`), that `""`, `.`, `..` and `.aci` are words
(`WordsAssumption`), and that names and the values of labels are texts of at
least one entry (`NamesAssumption`), an empty text being one empty entry: nothing
is assumed of which entries. Where a theorem needs an environment better than the
code can count on, the condition is in its ASSUME.

*GcSafe.* That nothing live is removed is not inductive. gc's decision is taken
when `/proc/<pid>` is gone, so one needs that the pid gc holds is the pid of the
container it visits (`VisitInv`), that it is so because `info` never names another
pid (`PidInv`), that as long as init has not been waited for nobody else has its
pid (`PidInv` again), and that before `clone` there is neither `info` nor init
(`PrepInv`). Then a free pid means an init that is gone, which stays gone.
`TreeSafe` and `LedgerImplemented` use the same invariant: a removal's step is a
step of a container in state spent.

*RunningTrue, Enter.* As long as no pid is handed out twice, the owner of a pid
that is in use is the container that got it (`OwnerInv`, with what its init is
still). What `enter` reads, and what it looks up once for each namespace, is then
one container's; a shell in its mount namespace keeps the init's pid from having
gone, so that gc has not begun (`StoreInv` is used as a lemma).

*StoreQuiet.* `RmKnows` says exactly what is left of a tree at each step of its
removal, which needs that nobody else removes anything (`CmdInv`); what is not
being removed is whole and recorded, or gone (`TreeInv`).

*ContainerStart.* `StageInv` ties init's position to the steps it has taken and
to the one worker it waits for: confinement and order follow. `TerminalInv` follows
the two ends of the pty: nscn holds the master to its end, the slave is held from
its opening to the container's end, so a read error means that the container is
over and everything was read. `PtyInv` says of each unit that was read that it is
printed or had a NUL byte before it: a read only hides what follows a NUL byte of
the same read.

*ImageCache.* The heart is `MissingIsComing`: a block that is not in place is
still ahead of some writer. `ReadInv` ties what a reader has extracted to its
position.

*FetchDeps.* `ListInv`: every list under way starts with the image asked for and
holds nothing that is not cached and valid, and only the outermost call ever has
an empty one. What a caller appends on return therefore cannot bring in anything
new, for circular catalogs as well. What a finished recursion has computed needs
no induction on the catalog: `Closure` is the least closed set, and
`SettledInv` says that an image in a list has its whole closure in the list
unless its call is still under way, which at the end it is not. An image whose
dependencies are all settled is in no circle, since one of them would be too; so
that a settled image is one for which all went well. `FollowsInv` says up to which
dependency of an image the list is in order, from what the calls under way are
at: a caller appends a list that begins with its own, so that its order is the
returned one's. `ChainInv` puts a call's image into the closure of a dependency of
each call around it; more calls than images are then a circle (pigeonhole).

*ImageUse.* `ExtractInv` says of the tree after every entry that it has the last
of those read so far in each place and misses none; at success all were read.
`ManifestInv` carries the validity of the manifest past the last validation, and
`StageInv` that of what was executed.

*VerdictAsMeant.* `VerdictInv` says that the verdict is that of the two passes on
the file, unless it was replaced between them. The rest is about the operators.
The code decides in two phases: `from_json` builds a value out of options, and
`validate` then goes through that value. The grammar decides in one, on the JSON.
For each type a lemma `...Form` shows that the two phases together are the
production: `from_json` succeeds and its value is valid exactly when the JSON has
the form. `ListIs` and `OptionIs` carry that over to lists and to fields that may
be missing. Where the code and its message disagree, the lemmas from
`PortNumberForm` to `AppForm` have the production less its ports at the bounds
(`PortNumberTaken`, ..., `AppTaken`), and `ImageForm`, the last of them, has
`AtBound` for the difference. `Accepted` adds the structure pass: `TypeBits` lists
the types that pass the test of one bit, and `TakenIs` shows that the four
liberties of `Taken` are what that pass and the search for the manifest take. Nothing
is assumed of a manifest's text: both theorems are about every value, of which the
run has those with two deviations.

*RewriteKeeps.* `RewriteInv` says that what was read, written and read again are
`from_json` and `to_json` of the same value. `RoundTrip` is about these
two: a container manifest that was read from some JSON comes back from its own
`to_json` exactly when `Lossless` says so. For each type a lemma `...Back` says
what `from_json` makes of its `to_json`, and a lemma `...Read` what a value that
came out of `from_json` is like; `StructLost` shows that one field that does not
come back loses the whole.

*Discovery.* A process that has just made a directory has to look for the next one
first, so that the last to make one is not on its way to fail: "some process is
not failed, and what it is about to make is not there" is inductive.
`DiscoveryInv` says that a process has dealt with the part of its path behind it,
that it asks for what its arguments say, and that what it ends with is there and
at one of the two paths that its request leads to. That these lead to one place is
`PathsAgree`: the two texts differ in empty entries only, and by `SkipsNothing`,
an induction along the path, the kernel's walk is at the same place after each
entry that the shorter one has. It needs no stored file to have a name of its own:
two requests that share one are found sharing it.

*ArgsAsRead.* The separation of flags and the reading of labels go from argument
to argument. The library's induction theorems cannot be used, since their
parameter is an operator; `Induction` is the same for a set of numbers, proved
from the least number of a nonempty set (`LeastOf`). By it,
`SeparateFlagsIs` gives the closed form of the recursion, in which the first
argument that is no flag is the least position of its kind (`PlainFromIs`), and
`RequestOfIs` that of the labels, in which the last to name a label gives its
value (`GreatestOf`). `SeparatesFrom` and `RequestReads` put together what the
two separations of a command line, main's and the command's, leave of it.

## 5. Only model-checked

* Liveness: `SpentCollected`, `RunEnds`, `FetchEnds`, `FetchSettles`. The proof
  system used has no rules for fairness.
* `ExhaustedByDoubling`, which is about a sum over the stack and a power of two; the
  prover's arithmetic has neither.

Every other invariant and every action property that a passing run checks is stated
by a theorem. What TLC adds to them, apart from having found them false in time, is
that their assumptions can be met and that every action they are about can be
taken: the proofs say nothing of either.

## 6. What the code does against its words

The four violated runs, each listed in `PROJECT.json` with the quoted line:

* `store_abort`: an `info` that is created and not yet written makes gc, list,
  status and enter end with an uncaught exception (`status.cpp:39`).
* `start_detached`: a detached nscn may exit, and close the pty's last master,
  before init opens the slave; the app then never runs (`run.cpp:170`).

* `start_interrupted`: nscn holds the pty's master while it waits; after Ctrl-C the
  app's writes to its terminal fail, although "terminating nscn when waiting ...
  does not affect the container" (`run.h:37`). `LostUnattended` shows that this and
  being detached are the only ways to lose a write.
* `start_stdout`: `-stdout` "implies -wait" (`run.h:36`), but when
  `posix_openpt` has failed, which `create_pty` does not report (`linux.cpp:179`),
  the first read fails and nscn returns while the container goes on. `WaitImplied`
  shows that this is the only way.

Others that the models have in their actions, and that the runs work around by
the faults they leave out or by the way the property is put:

* a fifo, socket or device in a root makes gc give up, possibly after it removed
  `info` (`gc.cpp:76`): `store_progress` has no `Special` file;
* two gcs on one tree: each ends at the first entry that the other has removed
  before it (`gc.cpp:63`). If `readdir` gives the same directory in two different
  orders to them, both may end that way, one after `info` was removed and neither
  after the rest was, which no later gc looks at again: `store_progress` has one gc
  at a time;
* gc prints "expunged" also when removal failed (`gc.cpp:103`): `RmFails`;
* after pid reuse a spent container is called RUNNING and not collected
  (`status.cpp:65`), and `enter` may join namespaces of the host or of two
  containers (`enter.cpp:78`): `store_progress` and `enter_safety` have no reuse;
* `enter` succeeds without a shell when `fork` fails (`enter.cpp:120`):
  `EnterForkFails`;
* `-wait` with an app or a handler that writes more than the pty holds, and
  `-stdout` when the slave was never opened, do not end: the two exceptions in
  `RunEnds`;
* `-stdout` prints what it has read as a C string: after a NUL byte the rest of the
  buffer is lost (`run.cpp:69`): the exception in `OutputComplete`;
* a process that finds a file another one is still downloading starts a container
  from a part of it: the exception in `WholeUnlessRaced`;
* a transfer that fails half way leaves a part under the final name; the local
  strategy is content with it, so that every later command for this image fails
  when it validates it (`https.h:87`, `fetch.cpp:79`): `QuietCacheWhole`'s
  exception, why `SettledStays` speaks of "whole or not", and "unusable" in
  `Settled`;
* a server that keeps the connection and sends nothing keeps the command for ever,
  as no timeout is set (`https.h:70-83`): "stalled" in `FetchEnds` and `Settled`;
* what the calls of the recursion hold may double with every call, so that some 30
  images exhaust the memory without any circle (`fetch.cpp:103-111`):
  `ExhaustedByDoubling`. Circular dependencies end only with the stack, and
  labels given in part leave the dependency without a name (`fetch.cpp:97`);
* an entry written with a leading `./`, which validation accepts, is extracted to
  elsewhere, as the path is taken from offset 6 on (`image.h:215`); so is one that
  only begins like `rootfs`: the conditions `Plain` in `ExtractsRootfs`;
* a link or a socket passes for the manifest's file and a block device or a socket
  for `rootfs`, since one bit of the type is tested, though the messages say
  "regular file" and "directory"; `rootfsname` passes for an entry of `rootfs`; and
  a header that cannot be read ends the validation as the archive's end does
  (`image.h:127-141`): the liberties of `Taken` in `VerdictAsMeant`. It ends the
  extraction as a success as well (`image.h:202`): `ExtractEnds`;
* ports 1 and 65535 are refused by a check whose message says "between 1 and 65535"
  (`ports.h:44`, `ports.h:47`): `AtBound` in `VerdictAsMeant`;
* either kind of manifest passes for an image's, and handlers of events no container
  has are accepted, which no message denies: `KindJson` and `HandlerJson`;
* a container manifest with an empty list, or with an image's name and no isolators
  or annotations, does not survive `to_json` (`app_refs.h:71`, `common.h:200`):
  the conditions `Lossless` and "aborted" in `RewriteKeeps`;
* a user like `7up` becomes user 7 (`linux.cpp:94`), and a group that is no number
  ends init with an exception (`linux.cpp:337`): `NumberOf`, `Become`;
* the name, home and shell of a user are read from a buffer of the function that
  looked them up and has returned (`linux.cpp:91`, `linux.cpp:358`): "garbage" in
  `IdentityEnv`, which is why `EnvAsAsked` asks for nothing of these variables;
* names and labels are joined with dashes and slashes that they may have themselves,
  and nothing normalises them (`aci_name.h:35`): `app-1` of version 2 and `app` of
  version `1-2`, or `x/app` and `x//app`, share one file, and whichever came first
  is found under both; labels other than version, os and arch are ignored
  (`aci_name.h:30`). `StoredWhereLooked` says that what is asked for again is found
  again, not that it is the right image;
* of two commands that make a directory at once one fails (`mkdir.h:44`), as does one
  of a user for whom root made the parent: `MkDirFails`.

## 7. Not modelled, and the plan

Left out for good:

* the text of messages, reasons and help;
* `meta` discovery, whose header is a comment;
* uuids, which are assumed fresh, and what is in a buffer `uuidgen` did not fill:
  `Discovery` only has that an id is made or not;
* the patterns of the schema's strings, external to `Schema` as the sets of the
  strings that match;
* owners, times and modes of extracted files, which libarchive sets, and that a
  tar has no data for a link: the model's manifest has a text whatever its type is;
* a transfer that succeeds without a byte, for which no file is opened, and symbolic
  links on the way to the two directories;
* the vendored JSON and path libraries: an empty file throws, a Json nobody pushed
  to is null, a path is the row of its entries;
* `Status` and `Errno`, which carry a text: success and failure are alternatives
  of an action. `Option`, `Try` and `all_results` are operators of `Schema`.

What could be added: several images in one `ImageUse`, extracted over each other
in the order `FetchDeps` returns, which `DependencyOnTop` covers only by the
order; `Discovery` with a download in steps, in place of the abstraction its
`Get` makes of `ImageCache`; a proof that `FetchDeps` ends for catalogs without
a circle, once liveness is within the prover's reach.
