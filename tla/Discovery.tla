------------------------------ MODULE Discovery ------------------------------
(***************************************************************************)
(* Processes that run `nscn fetch` or `nscn run` up to the image that is   *)
(* validated: their arguments, the directories they make with their        *)
(* parents, and the two strategies by which the image is looked for, first *)
(* among the stored ones and then at its distributor.  They share the file *)
(* system, and a command that has failed may be issued again.              *)
(*                                                                         *)
(* A path is the sequence of its entries, "", . and .. among them, below   *)
(* the root directory; an entry is the sequence of its words between       *)
(* dashes.  The place it leads to is a path without those three.  How      *)
(* processes meet in the file of one download is ImageCache's matter: here *)
(* a download is a step.                                                   *)
(***************************************************************************)
EXTENDS CommandLine

CONSTANTS
  Procs,            \* the processes
  Argvs,            \* the arguments that a process may have
  Roots,            \* those that root runs, the others are one user's
  Words,            \* what there is between the dashes of an entry
  TextOf,           \* of each image name: its entries
  ContainersPath, ImagesPath,
  InitialDirs,      \* the directories there may be in the beginning, with whose they are
  Faults            \* among "net", "stall", "disk", "deps" and "uuid"

Paths == Seq(Seq(Words))

ASSUME ProcsAssumption == Procs # {}
ASSUME ArgvsAssumption == Argvs \subseteq Seq(STRING)
ASSUME WordsAssumption == {"", ".", "..", ".aci"} \subseteq Words
ASSUME PathsAssumption == ContainersPath \in Paths \ {<<>>} /\ ImagesPath \in Paths \ {<<>>}
ASSUME NamesAssumption ==
  \A args \in Argvs :
    LET asked == RequestOf(Main(args).ordered)
    IN  asked # <<>> =>
          /\ TextOf[asked[1].name] \in Paths \ {<<>>}
          /\ \A n \in DOMAIN asked[1].labels : asked[1].labels[n] \in Paths \ {<<>>}

VARIABLES
  dirs,      \* dirs[d]: whose the directory at the place d is: "root", "user" or "all"
  files,     \* files[f]: whose the file at the place f is, and what it holds
  argv,      \* argv[p]
  reading,   \* reading[p]: what main makes of them
  pc,        \* pc[p]: the next step
  request,   \* request[p]: <<>>, or the image asked for, <<[name, labels]>>
  aci,       \* aci[p]: the text that the request is rendered to, <<>> for lack of a label
  goal,      \* goal[p]: the path of the directory that is being made
  depth,     \* depth[p]: how many of its entries have been dealt with
  after,     \* after[p]: the step after that
  stored     \* stored[p]: <<>>, or the path that was found or fetched

perProc == <<request, aci, goal, depth, after, stored>>
vars == <<dirs, files, argv, reading, pc, perProc>>

\* A command fails because a directory appeared before it could be made, because it is
\* not for this user or asks for .. in a path, because the file system denies it a
\* directory or file, because what is there is no image it can use, or otherwise.
Failures == {"raced", "refused", "denied", "unusable", "failure"}

\* A transfer that is "stalled" neither ends nor is given up.
Ends == {"success", "stalled", "elsewhere"} \cup Failures

(* The kernel's walk along a path, without symbolic links. *)
Nothing == <<"">>
Here == <<".">>
Up == <<"..">>

Enter(place, entry) ==
  IF entry \in {Nothing, Here} THEN place
  ELSE IF entry = Up THEN SubSeq(place, 1, Len(place) - 1)
  ELSE Append(place, entry)

\* The places after each number of entries.
Walk(path) ==
  LET at[n \in 0 .. Len(path)] == IF n = 0 THEN <<>> ELSE Enter(at[n - 1], path[n])
  IN  at
Place(path) == Walk(path)[Len(path)]

\* Whether the walk gets to the nth entry, and whether stat finds it.
Reaches(path, n) == \A i \in 0 .. n - 1 : Walk(path)[i] \in DOMAIN dirs
Stat(path, n) == Reaches(path, n) /\ Walk(path)[n] \in DOMAIN dirs \cup DOMAIN files

User(p) == IF p \in Roots THEN "root" ELSE "user"
MayWrite(p, d) == p \in Roots \/ dirs[d] \in {"user", "all"}

Init ==
  /\ dirs \in InitialDirs /\ files = <<>>
  /\ argv \in [Procs -> Argvs]
  /\ reading = [p \in Procs |-> Main(argv[p])]
  /\ pc = [p \in Procs |-> "main"]
  /\ request = [p \in Procs |-> <<>>]
  /\ aci = [p \in Procs |-> <<>>]
  /\ goal = [p \in Procs |-> <<>>] /\ depth = [p \in Procs |-> 0]
  /\ after = [p \in Procs |-> "main"]
  /\ stored = [p \in Procs |-> <<>>]

At(p, step) == pc[p] = step
GoTo(p, step) == pc' = [pc EXCEPT ![p] = step]
MakeDir(p, path, then) ==
  /\ goal' = [goal EXCEPT ![p] = path]
  /\ depth' = [depth EXCEPT ![p] = 0]
  /\ after' = [after EXCEPT ![p] = then]
  /\ GoTo(p, "stat")

\* main, and the beginning of perform_fetch and perform_run.  The other commands
\* are not this module's.
Begin(p) ==
  LET does == reading[p].does
      asked == RequestOf(reading[p].ordered)
  IN  /\ At(p, "main")
      /\ IF does \notin {"fetch", "run"}
         THEN /\ GoTo(p, IF does \in Commands THEN "elsewhere" ELSE does)
              /\ UNCHANGED perProc
         ELSE /\ request' = [request EXCEPT ![p] = asked]
              /\ IF asked = <<>> THEN GoTo(p, "failure") /\ UNCHANGED <<goal, depth, after>>
                 ELSE IF does = "run" /\ p \notin Roots
                 THEN GoTo(p, "refused") /\ UNCHANGED <<goal, depth, after>>
                 ELSE IF does = "run" THEN MakeDir(p, ContainersPath, "fetch")
                 ELSE GoTo(p, "fetch") /\ UNCHANGED <<goal, depth, after>>
              /\ UNCHANGED <<aci, stored>>
      /\ UNCHANGED <<dirs, files, argv, reading>>

\* Two texts with a dash between them.
Dash(a, b) ==
  SubSeq(a, 1, Len(a) - 1) \o <<a[Len(a)] \o b[1]>> \o SubSeq(b, 2, Len(b))
AciExt(text) == [text EXCEPT ![Len(text)] = Append(@, ".aci")]

\* The text <name>-<version>-<os>-<arch>.aci, or none for lack of a label.
RenderAciName(name, labels) ==
  IF {"version", "os", "arch"} \subseteq DOMAIN labels
  THEN AciExt(Dash(Dash(Dash(TextOf[name], labels["version"]), labels["os"]), labels["arch"]))
  ELSE <<>>

\* Both strategies will render the request to the same text.
Fetch(p) ==
  /\ At(p, "fetch")
  /\ aci' = [aci EXCEPT ![p] = RenderAciName(request[p][1].name, request[p][1].labels)]
  /\ MakeDir(p, ImagesPath, "local")
  /\ UNCHANGED <<dirs, files, argv, reading, request, stored>>

(* mkdir with its parents: stat, and mkdir where there is nothing. *)
Current(p) == depth[p] + 1

\* Mutant: an entry that is there counts as a failure.
StatDirStrict(p) ==
  /\ At(p, "stat")
  /\ \/ depth[p] = Len(goal[p]) /\ GoTo(p, after[p]) /\ UNCHANGED depth
     \/ depth[p] < Len(goal[p]) /\ Stat(goal[p], Current(p)) /\ GoTo(p, "raced") /\ UNCHANGED depth
     \/ depth[p] < Len(goal[p]) /\ ~Stat(goal[p], Current(p)) /\ GoTo(p, "mkdir") /\ UNCHANGED depth
  /\ UNCHANGED <<dirs, files, argv, reading, request, aci, goal, after, stored>>

\* Mutant: the last entry is left out.
StatDirShort(p) ==
  /\ At(p, "stat")
  /\ \/ depth[p] = Len(goal[p]) - 1 /\ GoTo(p, after[p]) /\ UNCHANGED depth
     \/ /\ depth[p] < Len(goal[p]) - 1 /\ Stat(goal[p], Current(p))
        /\ depth' = [depth EXCEPT ![p] = @ + 1] /\ UNCHANGED pc
     \/ depth[p] < Len(goal[p]) - 1 /\ ~Stat(goal[p], Current(p)) /\ GoTo(p, "mkdir") /\ UNCHANGED depth
  /\ UNCHANGED <<dirs, files, argv, reading, request, aci, goal, after, stored>>

StatDir(p) ==
  /\ At(p, "stat")
  /\ \/ depth[p] = Len(goal[p]) /\ GoTo(p, after[p]) /\ UNCHANGED depth
     \/ /\ depth[p] < Len(goal[p]) /\ Stat(goal[p], Current(p))
        /\ depth' = [depth EXCEPT ![p] = @ + 1] /\ UNCHANGED pc
     \/ depth[p] < Len(goal[p]) /\ ~Stat(goal[p], Current(p)) /\ GoTo(p, "mkdir") /\ UNCHANGED depth
  /\ UNCHANGED <<dirs, files, argv, reading, request, aci, goal, after, stored>>

\* The place of the directory it has to make, and of the one to make it in.
Wanted(p) == Walk(goal[p])[Current(p)]
Parent(p) == Walk(goal[p])[depth[p]]
MayMkDir(p) ==
  ~Stat(goal[p], Current(p)) /\ Reaches(goal[p], Current(p)) /\ MayWrite(p, Parent(p))

MkDir(p) ==
  /\ At(p, "mkdir") /\ MayMkDir(p)
  /\ dirs' = [d \in DOMAIN dirs \cup {Wanted(p)} |-> IF d = Wanted(p) THEN User(p) ELSE dirs[d]]
  /\ depth' = [depth EXCEPT ![p] = @ + 1]
  /\ GoTo(p, "stat")
  /\ UNCHANGED <<files, argv, reading, request, aci, goal, after, stored>>

\* Any errno fails the command: EEXIST, when somebody has made it since; ENOTDIR or
\* EACCES, for a file on the way or a parent of another user's; ENOSPC and the like.
MkDirFails(p) ==
  /\ At(p, "mkdir")
  /\ \/ Stat(goal[p], Current(p)) /\ GoTo(p, "raced")
     \/ ~Stat(goal[p], Current(p)) /\ ~MayMkDir(p) /\ GoTo(p, "denied")
     \/ MayMkDir(p) /\ "disk" \in Faults /\ GoTo(p, "failure")
  /\ UNCHANGED <<dirs, files, argv, reading, perProc>>

\* pathname::join drops the slashes that the text begins with; ns::join does not.
TrimLeadingSlash(text) ==
  LET begins == {n \in 1 .. Len(text) : text[n] # Nothing}
  IN  IF begins = {} THEN <<>>
      ELSE SubSeq(text, CHOOSE n \in begins : \A m \in begins : n <= m, Len(text))

\* Mutant: the file is written below the images' directory itself.
FullPathFlat(p) == Append(ImagesPath, aci[p][Len(aci[p])])

\* Where the local strategy looks, and where the simple one writes, in what directory.
LocalPath(p) == ImagesPath \o aci[p]
FullPath(p) == ImagesPath \o TrimLeadingSlash(aci[p])
StorageDir(p) == SubSeq(FullPath(p), 1, Len(FullPath(p)) - 1)

\* Whatever stat finds is what was looked for.
LocalStrategy(p) ==
  /\ At(p, "local")
  /\ IF aci[p] # <<>> /\ Stat(LocalPath(p), Len(LocalPath(p)))
     THEN GoTo(p, "validate") /\ stored' = [stored EXCEPT ![p] = LocalPath(p)]
     ELSE GoTo(p, "simple") /\ UNCHANGED stored
  /\ UNCHANGED <<dirs, files, argv, reading, request, aci, goal, depth, after>>

\* No directory with .. in it is made.  The stat before, and the mkdir at the beginning
\* of get, change nothing about the outcome, as directories only appear.
SimpleStrategy(p) ==
  /\ At(p, "simple")
  /\ IF aci[p] = <<>> \/ \E n \in 1 .. Len(StorageDir(p)) : StorageDir(p)[n] = Up
     THEN GoTo(p, "refused") /\ UNCHANGED <<goal, depth, after>>
     ELSE MakeDir(p, StorageDir(p), "get")
  /\ UNCHANGED <<dirs, files, argv, reading, request, aci, stored>>

(* The download. *)
MayOpen(p) ==
  LET path == FullPath(p)
  IN  /\ Reaches(path, Len(path))
      /\ IF Stat(path, Len(path))
         THEN Place(path) \in DOMAIN files /\ (p \in Roots \/ files[Place(path)].of = "user")
         ELSE MayWrite(p, Walk(path)[Len(path) - 1])
Opened(p, content) ==
  LET f == Place(FullPath(p))
  IN  [g \in DOMAIN files \cup {f} |->
         IF g # f THEN files[g]
         ELSE [of |-> IF f \in DOMAIN files THEN files[f].of ELSE User(p), holds |-> content]]

\* What a distributor may have: an image with an app, one without, or no valid image.
Served == {"app", "no app", "invalid"}

Get(p) ==
  /\ At(p, "get") /\ MayOpen(p)
  /\ \E content \in Served : files' = Opened(p, content)
  /\ stored' = [stored EXCEPT ![p] = FullPath(p)]
  /\ GoTo(p, "validate")
  /\ UNCHANGED <<dirs, argv, reading, request, aci, goal, depth, after>>

\* Something came, and there is no writing to the file.
GetDenied(p) ==
  /\ At(p, "get") /\ ~MayOpen(p)
  /\ GoTo(p, "denied")
  /\ UNCHANGED <<dirs, files, argv, reading, perProc>>

\* Nothing came, or a part of it that stays.
GetFails(p) ==
  /\ "net" \in Faults
  /\ At(p, "get")
  /\ UNCHANGED files \/ (MayOpen(p) /\ files' = Opened(p, "invalid"))
  /\ GoTo(p, "failure")
  /\ UNCHANGED <<dirs, argv, reading, perProc>>

\* The distributor sends no more and keeps the connection, which has no time limit.
GetStalls(p) ==
  /\ "stall" \in Faults
  /\ At(p, "get")
  /\ UNCHANGED files \/ (MayOpen(p) /\ files' = Opened(p, "invalid"))
  /\ GoTo(p, "stalled")
  /\ UNCHANGED <<dirs, argv, reading, perProc>>

\* What is at the path it has is good for the command: a valid image, for run one
\* with an app.
GoodAt(p, f) ==
  /\ f \in DOMAIN files
  /\ files[f].holds \in IF reading[p].does = "run" THEN {"app"} ELSE {"app", "no app"}

\* The image is validated, with its dependencies; run needs an app.
Validate(p) ==
  /\ At(p, "validate") /\ GoodAt(p, Place(stored[p]))
  /\ GoTo(p, IF reading[p].does = "run" THEN "uuid" ELSE "success")
  /\ UNCHANGED <<dirs, files, argv, reading, perProc>>

\* It is not valid, or there is nothing to run in it.
ValidateFails(p) ==
  /\ At(p, "validate") /\ ~GoodAt(p, Place(stored[p]))
  /\ GoTo(p, "unusable")
  /\ UNCHANGED <<dirs, files, argv, reading, perProc>>

\* It is valid, and an image that it depends on is not to be had.
DependencyFails(p) ==
  /\ "deps" \in Faults /\ ~(reading[p].does = "fetch" /\ "nodeps" \in reading[p].flags)
  /\ At(p, "validate")
  /\ Place(stored[p]) \in DOMAIN files /\ files[Place(stored[p])].holds # "invalid"
  /\ GoTo(p, "failure")
  /\ UNCHANGED <<dirs, files, argv, reading, perProc>>

NewUuid(p) ==
  /\ At(p, "uuid")
  /\ GoTo(p, "success")
  /\ UNCHANGED <<dirs, files, argv, reading, perProc>>

\* uuidgen gave nothing and the buffer holds less than an id.
UuidFails(p) ==
  /\ "uuid" \in Faults
  /\ At(p, "uuid")
  /\ GoTo(p, "failure")
  /\ UNCHANGED <<dirs, files, argv, reading, perProc>>

\* The command is issued again.
Repeat(p) ==
  /\ pc[p] \in Failures /\ request[p] # <<>>
  /\ GoTo(p, "main")
  /\ request' = [request EXCEPT ![p] = <<>>] /\ aci' = [aci EXCEPT ![p] = <<>>]
  /\ stored' = [stored EXCEPT ![p] = <<>>]
  /\ UNCHANGED <<dirs, files, argv, reading, goal, depth, after>>

Over == (\A p \in Procs : pc[p] \in Ends) /\ UNCHANGED vars

Step(p) ==
  \/ Begin(p) \/ Fetch(p) \/ StatDir(p) \/ MkDir(p) \/ MkDirFails(p)
  \/ LocalStrategy(p) \/ SimpleStrategy(p) \/ Get(p) \/ GetDenied(p) \/ GetFails(p) \/ GetStalls(p)
  \/ Validate(p) \/ ValidateFails(p) \/ DependencyFails(p) \/ NewUuid(p) \/ UuidFails(p) \/ Repeat(p)
Next == (\E p \in Procs : Step(p)) \/ Over

\* The kernel schedules the processes, and somebody issues a failed command again.
Fairness == \A p \in Procs : WF_vars(Step(p))
Spec == Init /\ [][Next]_vars /\ Fairness

-----------------------------------------------------------------------------
(* Properties. *)

Steps == {"main", "fetch", "stat", "mkdir", "local", "simple", "get", "validate", "uuid"} \cup Ends

TypeOK ==
  /\ argv \in [Procs -> Argvs]
  /\ DOMAIN reading = Procs
  /\ pc \in [Procs -> Steps]
  /\ DOMAIN request = Procs /\ DOMAIN stored = Procs
  /\ aci \in [Procs -> Paths]
  /\ goal \in [Procs -> Paths]
  /\ depth \in [Procs -> Nat]
  /\ after \in [Procs -> {"main", "fetch", "local", "get"}]

\* A process asks for what its arguments say from its beginning to its end, by the
\* text that its request is rendered to.
AsksAsTold(p) ==
  /\ reading[p] = Main(argv[p])
  /\ request[p] = IF pc[p] # "main" /\ reading[p].does \in {"fetch", "run"}
                  THEN RequestOf(reading[p].ordered) ELSE <<>>
  /\ pc[p] \in {"fetch", "stat", "mkdir", "local", "simple", "get", "validate", "uuid"} => request[p] # <<>>
  /\ aci[p] # <<>> =>
       request[p] # <<>> /\ aci[p] = RenderAciName(request[p][1].name, request[p][1].labels)
RequestInv == \A p \in Procs : AsksAsTold(p)

\* A process has dealt with the part of its goal that it has been through: when it
\* asks for a directory or opens the image's file, stat has found the parent.  What
\* it has then, it has where either of the strategies leads.
Dealt(p) == \A n \in 1 .. depth[p] : Stat(goal[p], n)
OnItsWay(p) ==
  /\ pc[p] \in {"stat", "mkdir"} =>
       /\ Dealt(p) /\ depth[p] <= Len(goal[p]) /\ goal[p] # <<>>
       /\ after[p] # "main"
       /\ after[p] = "get" => aci[p] # <<>> /\ goal[p] = StorageDir(p)
  /\ pc[p] = "mkdir" => depth[p] < Len(goal[p])
  /\ pc[p] = "get" => aci[p] # <<>> /\ Stat(StorageDir(p), Len(StorageDir(p)))
  /\ pc[p] \in {"validate", "uuid"} \/ (pc[p] = "success" /\ request[p] # <<>>) =>
       /\ aci[p] # <<>>
       /\ stored[p] \in {LocalPath(p), FullPath(p)} /\ Stat(stored[p], Len(stored[p]))
GoalInv == \A p \in Procs : OnItsWay(p)

\* The three together, preserved by every step: what a command does is what its
\* arguments say, no directory is asked for and no image written before its parent
\* is there, and no command ends well without a file at the path it has.
DiscoveryInv == TypeOK /\ RequestInv /\ GoalInv

\* The position from i on of the first argument that is no flag.
PlainFrom(args, i) ==
  LET plain == {k \in i .. Len(args) : args[k] = "--" \/ args[k] \notin DOMAIN DashText}
      first == CHOOSE k \in plain : \A j \in plain : k <= j
  IN  IF plain = {} THEN Len(args) + 1 ELSE IF args[first] = "--" THEN first + 1 ELSE first

\* fetch and run ask for the first argument after the command that is no flag,
\* with labels from all that follow it, the last of a name before the others and
\* these before the defaults; one argument that is no label, a flag that comes
\* late included, refuses the command.
ArgsAsRead ==
  \A p \in Procs :
    LET args == argv[p]
        command == PlainFrom(args, 1)
        image == PlainFrom(args, command + 1)
        labelled(n) == {k \in image + 1 .. Len(args) : LabelOf[args[k]].name = n}
        last(n) == CHOOSE k \in labelled(n) : \A j \in labelled(n) : j <= k
        asks == /\ image <= Len(args) /\ args[command] \in {"fetch", "run"}
                /\ \A k \in 1 .. command - 1 :
                     args[k] \in DOMAIN DashText => args[k] = "--" \/ DashText[args[k]] # "help"
                /\ \A k \in image + 1 .. Len(args) : args[k] \in DOMAIN LabelOf
    IN  pc[p] # "main" =>
          /\ request[p] # <<>> <=> asks
          /\ asks => /\ request[p][1].name = args[image]
                     /\ \A n \in DOMAIN request[p][1].labels :
                          request[p][1].labels[n] =
                            IF labelled(n) # {} THEN LabelOf[args[last(n)]].value ELSE DefaultLabels[n]

\* Of the commands that make the same directories at once, not all fail for
\* having found one that another has made in between.
SomeoneGetsThrough == \E p \in Procs : pc[p] # "raced"

\* What a command has stored or found, every later one finds that asks for the same
\* name, version, os and arch: the paths that the two strategies put together by
\* themselves, the one with the slashes that the text begins with and the other
\* without, lead to one place, whatever . and // and labels with / there are in them.
SameImage(p, q) ==
  /\ request[p][1].name = request[q][1].name
  /\ \A n \in {"version", "os", "arch"} : request[p][1].labels[n] = request[q][1].labels[n]
StoredWhereLooked ==
  \A p, q \in Procs :
    pc[p] = "success" /\ request[p] # <<>> /\ aci[q] # <<>> /\ SameImage(p, q) =>
      Stat(LocalPath(q), Len(LocalPath(q))) /\ Place(LocalPath(q)) = Place(stored[p])

\* Issued again whenever it fails, a command that asks for an image comes to its
\* end with it, whatever races it has met, unless a full disk, the network, an image
\* it depends on or the id fails it over and over, a transfer never ends, or there is
\* what fails it each time: it is not for this user or has .. in its path, a file or
\* another user's directory is on the way, or at the image's place there is a part of
\* one or another thing that it has no use for.
Settled(p) ==
  \/ pc[p] = "success" /\ stored[p] # <<>>
  \/ pc[p] \in {"stalled", "refused", "denied", "unusable"}
FetchSettles ==
  \A p \in Procs : (request[p] # <<>> ~> Settled(p)) \/ []<>(pc[p] = "failure")
=============================================================================
