---------------------------- MODULE ContainerStore ----------------------------
(***************************************************************************)
(* The directory config.containers_path and everything that touches it:    *)
(* one `nscn run` per container, which creates <id>/, <id>/rootfs and,     *)
(* once the container is cloned, <id>/info; the container's init process;  *)
(* and any number of `nscn gc`, `nscn list` and `nscn status` processes,   *)
(* which read info, look for /proc/<pid>/cmdline and, in gc's case, remove *)
(* the tree entry by entry.  No lock is taken anywhere: every step below   *)
(* is one system call (or a run of calls nobody else can tell apart), and  *)
(* the steps of all processes interleave.                                  *)
(*                                                                         *)
(* A container's tree is reduced to the two directories, a set of entries  *)
(* below rootfs and the info file; an info file to its "pid" field, the    *)
(* only one a decision depends on.                                         *)
(***************************************************************************)
CONSTANTS
  Containers,   \* container ids (fresh uuids, one run each)
  Clients,      \* the processes that run gc, list or status
  Pids,         \* process ids of the host
  Files,        \* names of the entries below rootfs
  Special,      \* the Files that are neither regular file, symlink nor directory
  Commands,     \* Commands[g]: the commands that client g is used for
  Faults        \* "io": a call may fail; "crash": a process may be killed;
                \* "reuse": the kernel may hand out a pid a second time

ASSUME ContainersAssumption == Containers \cap {"none", "free", "other"} = {}
ASSUME PidsAssumption == Pids \cap {"none", "absent", "empty"} = {}
ASSUME SpecialAssumption == Special \subseteq Files
ASSUME CommandsAssumption == Commands \in [Clients -> SUBSET {"gc", "list", "status"}]
ASSUME FaultsAssumption == Faults \subseteq {"io", "crash", "reuse"}

VARIABLES
  runPc,      \* runPc[c]: where the `nscn run` that makes c is
  pidOf,      \* pidOf[c]: the pid clone returned for c's init
  dirs,       \* dirs[c]: which of <id> ("root") and <id>/rootfs exist
  files,      \* files[c]: the entries below <id>/rootfs
  info,       \* info[c]: "absent", "empty" or the pid it records
  owner,      \* owner[p]: what the host's process p is
  init,       \* init[c]: "none", "live", "zombie" or "gone"
  clientPc,   \* clientPc[g]: where client g is
  cmd,        \* cmd[g]: its command
  todo,       \* todo[g]: the directory entries it has still to visit
  cur,        \* cur[g]: the container it is visiting
  seen,       \* seen[g]: the pid it read from cur[g]'s info
  left,       \* left[g]: entries of <id> that its readdir has still to return
  leftFiles,  \* leftFiles[g]: the same for <id>/rootfs
  printed     \* printed[c]: what a command last printed about c

runVars    == <<runPc, pidOf>>
treeVars   == <<dirs, files, info>>
procVars   == <<owner, init>>
clientVars == <<clientPc, cmd, todo, cur, seen, left, leftFiles>>
vars       == <<runVars, treeVars, procVars, clientVars, printed>>

Ended == {"done", "failed", "killed"}
RunPcs == {"idle", "mkroot", "mkrootfs", "extract", "start", "cloned",
           "write", "report", "await", "dump"} \cup Ended
Removing == {"open", "inroot", "inrootfs"}
ClientPcs == {"idle", "scan", "stat", "aborted"} \cup Removing

TypeOK ==
  /\ runPc \in [Containers -> RunPcs]
  /\ pidOf \in [Containers -> Pids \cup {"none"}]
  /\ dirs \in [Containers -> SUBSET {"root", "rootfs"}]
  /\ files \in [Containers -> SUBSET Files]
  /\ info \in [Containers -> Pids \cup {"absent", "empty"}]
  /\ owner \in [Pids -> Containers \cup {"free", "other"}]
  /\ init \in [Containers -> {"none", "live", "zombie", "gone"}]
  /\ clientPc \in [Clients -> ClientPcs]
  /\ cmd \in [Clients -> {"gc", "list", "status", "none"}]
  /\ todo \in [Clients -> SUBSET Containers]
  /\ cur \in [Clients -> Containers \cup {"none"}]
  /\ seen \in [Clients -> Pids \cup {"none"}]
  /\ left \in [Clients -> SUBSET {"info", "rootfs"}]
  /\ leftFiles \in [Clients -> SUBSET Files]
  /\ printed \in [Containers -> {"none", "RUNNING", "EXITED", "expunged"}]

Init ==
  /\ runPc = [c \in Containers |-> "idle"]
  /\ pidOf = [c \in Containers |-> "none"]
  /\ dirs = [c \in Containers |-> {}]
  /\ files = [c \in Containers |-> {}]
  /\ info = [c \in Containers |-> "absent"]
  /\ owner = [p \in Pids |-> "free"]
  /\ init = [c \in Containers |-> "none"]
  /\ clientPc = [g \in Clients |-> "idle"]
  /\ cmd = [g \in Clients |-> "none"]
  /\ todo = [g \in Clients |-> {}]
  /\ cur = [g \in Clients |-> "none"]
  /\ seen = [g \in Clients |-> "none"]
  /\ left = [g \in Clients |-> {}]
  /\ leftFiles = [g \in Clients |-> {}]
  /\ printed = [c \in Containers |-> "none"]

-----------------------------------------------------------------------------
(***************************************************************************)
(* nscn run: perform_run, Container::Impl::create_rootfs and the parent's  *)
(* side of Container::Impl::start.                                         *)
(***************************************************************************)

RunGoesTo(c, from, to) ==
  /\ runPc[c] = from
  /\ runPc' = [runPc EXCEPT ![c] = to]

\* Arguments, privileges, the containers directory, fetching, the uuid: any
\* of them may end the command before a container directory exists.
RunPrepare(c) ==
  /\ \E to \in {"mkroot", "failed"} : RunGoesTo(c, "idle", to)
  /\ UNCHANGED <<pidOf, treeVars, procVars, clientVars, printed>>

\* create_rootfs makes <id> and then <id>/rootfs, one mkdir each.  Its Status
\* is not looked at: after a failure the container is started all the same.
RunMkdir(c, from, dir, next) ==
  /\ \/ /\ RunGoesTo(c, from, next)
        /\ dirs' = [dirs EXCEPT ![c] = @ \cup {dir}]
     \/ /\ "io" \in Faults
        /\ RunGoesTo(c, from, "start")
        /\ UNCHANGED dirs
  /\ UNCHANGED <<pidOf, files, info, procVars, clientVars, printed>>

RunMkdirRoot(c) == RunMkdir(c, "mkroot", "root", "mkrootfs")
RunMkdirRootfs(c) == RunMkdir(c, "mkrootfs", "rootfs", "extract")

\* The images' rootfs entries; a failed extraction stops anywhere, and its
\* Status is not looked at either.
RunExtract(c) ==
  /\ RunGoesTo(c, "extract", "start")
  /\ \E fs \in SUBSET Files : files' = [files EXCEPT ![c] = fs]
  /\ UNCHANGED <<pidOf, dirs, info, procVars, clientVars, printed>>

Unused(p) == \A c \in Containers : pidOf[c] # p

RunClone(c) ==
  /\ RunGoesTo(c, "start", "cloned")
  /\ \E p \in Pids :
       /\ owner[p] = "free"
       /\ Unused(p) \/ "reuse" \in Faults
       /\ pidOf' = [pidOf EXCEPT ![c] = p]
       /\ owner' = [owner EXCEPT ![p] = c]
  /\ init' = [init EXCEPT ![c] = "live"]
  /\ UNCHANGED <<treeVars, clientVars, printed>>

RunCloneFails(c) ==
  /\ "io" \in Faults
  /\ RunGoesTo(c, "start", "failed")
  /\ UNCHANGED <<pidOf, treeVars, procVars, clientVars, printed>>

\* std::ofstream truncates the file on opening it; when it cannot be opened
\* the container runs without one.
RunOpenInfo(c) ==
  /\ \/ /\ "root" \in dirs[c]
        /\ RunGoesTo(c, "cloned", "write")
        /\ info' = [info EXCEPT ![c] = "empty"]
     \/ /\ "root" \notin dirs[c] \/ "io" \in Faults
        /\ RunGoesTo(c, "cloned", "report")
        /\ UNCHANGED info
  /\ UNCHANGED <<pidOf, dirs, files, procVars, clientVars, printed>>

\* The JSON is smaller than the stream's buffer: one write at std::endl.
RunWriteInfo(c) ==
  /\ RunGoesTo(c, "write", "report")
  /\ \/ info' = [info EXCEPT ![c] = pidOf[c]]
     \/ "io" \in Faults /\ UNCHANGED info
  /\ UNCHANGED <<pidOf, dirs, files, procVars, clientVars, printed>>

\* -stdout, -wait or neither
RunAfterReport(c) ==
  /\ \E to \in {"dump", "await", "done"} : RunGoesTo(c, "report", to)
  /\ UNCHANGED <<pidOf, treeVars, procVars, clientVars, printed>>

\* waitpid(pid, NULL, __WALL) returns and with it the pid is released.
RunEndAwait(c) ==
  /\ init[c] = "zombie"
  /\ RunGoesTo(c, "await", "done")
  /\ init' = [init EXCEPT ![c] = "gone"]
  /\ owner' = [owner EXCEPT ![pidOf[c]] = "free"]
  /\ UNCHANGED <<pidOf, treeVars, clientVars, printed>>

\* read on the pty master fails once the container holds no slave any more.
RunEndDump(c) ==
  /\ init[c] # "live"
  /\ RunGoesTo(c, "dump", "done")
  /\ UNCHANGED <<pidOf, treeVars, procVars, clientVars, printed>>

RunKill(c) ==
  /\ "crash" \in Faults
  /\ runPc[c] \notin Ended \cup {"idle"}
  /\ runPc' = [runPc EXCEPT ![c] = "killed"]
  /\ UNCHANGED <<pidOf, treeVars, procVars, clientVars, printed>>

-----------------------------------------------------------------------------
(***************************************************************************)
(* The container's init and the other processes of the host.               *)
(***************************************************************************)

\* Mutant: the kernel reaps init, as it does when SIGCHLD is ignored, before
\* nscn has waited for it.
InitExitReaped(c) ==
  /\ init[c] = "live"
  /\ init' = [init EXCEPT ![c] = "zombie"]
  /\ owner' = [owner EXCEPT ![pidOf[c]] = "free"]
  /\ UNCHANGED <<runVars, treeVars, clientVars, printed>>

\* init is cloned without SIGCHLD and stays a zombie until somebody waits.
InitExit(c) ==
  /\ init[c] = "live"
  /\ init' = [init EXCEPT ![c] = "zombie"]
  /\ UNCHANGED <<runVars, treeVars, owner, clientVars, printed>>

\* The app changes its own root file system.
ContainerWrites(c) ==
  /\ init[c] = "live"
  /\ "rootfs" \in dirs[c]
  /\ \E fs \in SUBSET Files : files' = [files EXCEPT ![c] = fs]
  /\ UNCHANGED <<runVars, dirs, info, procVars, clientVars, printed>>

\* The host's init waits for the orphans that `nscn run` leaves behind.
Reap(c) ==
  /\ init[c] = "zombie"
  /\ runPc[c] \in Ended
  /\ init' = [init EXCEPT ![c] = "gone"]
  /\ owner' = [owner EXCEPT ![pidOf[c]] = "free"]
  /\ UNCHANGED <<runVars, treeVars, clientVars, printed>>

OtherSpawn(p) ==
  /\ "reuse" \in Faults
  /\ owner[p] = "free"
  /\ owner' = [owner EXCEPT ![p] = "other"]
  /\ UNCHANGED <<runVars, treeVars, init, clientVars, printed>>

OtherExit(p) ==
  /\ owner[p] = "other"
  /\ owner' = [owner EXCEPT ![p] = "free"]
  /\ UNCHANGED <<runVars, treeVars, init, clientVars, printed>>

-----------------------------------------------------------------------------
(***************************************************************************)
(* gc, list and status up to container_status.                             *)
(***************************************************************************)

\* opendir and the one getdents that returns the entries of a small
\* directory, or the id given to status.
Launch(g) ==
  /\ clientPc[g] \in {"idle", "aborted"}
  /\ clientPc' = [clientPc EXCEPT ![g] = "scan"]
  /\ \E x \in Commands[g] :
       /\ cmd' = [cmd EXCEPT ![g] = x]
       /\ IF x = "status"
            THEN \E c \in Containers : todo' = [todo EXCEPT ![g] = {c}]
            ELSE todo' = [todo EXCEPT ![g] = {c \in Containers : "root" \in dirs[c]}]
  /\ UNCHANGED <<runVars, treeVars, procVars, cur, seen, left, leftFiles, printed>>

\* Mutant: gc takes a directory without an info file for a spent container.
SkipUnreadableExpunges(g) ==
  /\ clientPc[g] = "scan"
  /\ \E c \in todo[g] :
       /\ info[c] = "absent"
       /\ todo' = [todo EXCEPT ![g] = @ \ {c}]
       /\ cur' = [cur EXCEPT ![g] = c]
  /\ clientPc' = [clientPc EXCEPT ![g] = "open"]
  /\ UNCHANGED <<runVars, treeVars, procVars, cmd, seen, left, leftFiles, printed>>

\* container_info finds no file: "does not appear to be an app container".
SkipUnreadable(g) ==
  /\ clientPc[g] = "scan"
  /\ \E c \in todo[g] :
       /\ info[c] = "absent"
       /\ todo' = [todo EXCEPT ![g] = @ \ {c}]
  /\ UNCHANGED <<runVars, treeVars, procVars, clientPc, cmd, cur, seen, left,
                 leftFiles, printed>>

\* info >> json throws std::invalid_argument on a file with no JSON in it;
\* nothing between there and main catches it.
AbortOnParse(g) ==
  /\ clientPc[g] = "scan"
  /\ \E c \in todo[g] : info[c] = "empty"
  /\ clientPc' = [clientPc EXCEPT ![g] = "aborted"]
  /\ todo' = [todo EXCEPT ![g] = {}]
  /\ UNCHANGED <<runVars, treeVars, procVars, cmd, cur, seen, left, leftFiles, printed>>

\* Mutant: an info with nothing in it is taken for a record.
ReadInfoUnparsed(g) ==
  /\ clientPc[g] = "scan"
  /\ \E c \in todo[g] :
       /\ info[c] # "absent"
       /\ seen' = [seen EXCEPT ![g] = info[c]]
       /\ cur' = [cur EXCEPT ![g] = c]
       /\ todo' = [todo EXCEPT ![g] = @ \ {c}]
  /\ clientPc' = [clientPc EXCEPT ![g] = "stat"]
  /\ UNCHANGED <<runVars, treeVars, procVars, cmd, left, leftFiles, printed>>

ReadInfo(g) ==
  /\ clientPc[g] = "scan"
  /\ \E c \in todo[g] :
       /\ info[c] \in Pids
       /\ seen' = [seen EXCEPT ![g] = info[c]]
       /\ cur' = [cur EXCEPT ![g] = c]
       /\ todo' = [todo EXCEPT ![g] = @ \ {c}]
  /\ clientPc' = [clientPc EXCEPT ![g] = "stat"]
  /\ UNCHANGED <<runVars, treeVars, procVars, cmd, left, leftFiles, printed>>

\* Mutant: a process that has a command line, which a zombie has not.
RunningByCmdline(p) ==
  owner[p] # "free" /\ (owner[p] \in Containers => init[owner[p]] = "live")
\* Mutant: the record alone counts.
RunningByRecord(p) == p \in Pids

\* stat(/proc/<pid>/cmdline) == 0
Running(p) == owner[p] # "free"

\* What list and status print.
Word(p) == IF Running(p) THEN "RUNNING" ELSE "EXITED"

VisitNext(g) ==
  /\ clientPc' = [clientPc EXCEPT ![g] = "scan"]
  /\ cur' = [cur EXCEPT ![g] = "none"]
  /\ seen' = [seen EXCEPT ![g] = "none"]

\* Mutant: gc removes what it finds without asking whether it is running.
StatProcUnasked(g) ==
  /\ clientPc[g] = "stat"
  /\ clientPc' = [clientPc EXCEPT ![g] = "open"]
  /\ UNCHANGED <<runVars, treeVars, procVars, cmd, todo, cur, seen, left, leftFiles, printed>>

\* Mutant: gc announces the removal before it asks.
StatProcAnnounces(g) ==
  /\ clientPc[g] = "stat"
  /\ printed' = [printed EXCEPT ![cur[g]] = "expunged"]
  /\ VisitNext(g)
  /\ UNCHANGED <<runVars, treeVars, procVars, cmd, todo, left, leftFiles>>

StatProc(g) ==
  /\ clientPc[g] = "stat"
  /\ IF cmd[g] = "gc"
       THEN /\ IF Running(seen[g])
                 THEN VisitNext(g)
                 ELSE /\ clientPc' = [clientPc EXCEPT ![g] = "open"]
                      /\ UNCHANGED <<cur, seen>>
            /\ UNCHANGED printed
       ELSE /\ printed' = [printed EXCEPT ![cur[g]] = Word(seen[g])]
            /\ VisitNext(g)
  /\ UNCHANGED <<runVars, treeVars, procVars, cmd, todo, left, leftFiles>>

ClientDone(g) ==
  /\ clientPc[g] = "scan"
  /\ todo[g] = {}
  /\ clientPc' = [clientPc EXCEPT ![g] = "idle"]
  /\ cmd' = [cmd EXCEPT ![g] = "none"]
  /\ UNCHANGED <<runVars, treeVars, procVars, todo, cur, seen, left, leftFiles, printed>>

ClientKill(g) ==
  /\ "crash" \in Faults
  /\ clientPc[g] \notin {"idle", "aborted"}
  /\ clientPc' = [clientPc EXCEPT ![g] = "idle"]
  /\ cmd' = [cmd EXCEPT ![g] = "none"]
  /\ todo' = [todo EXCEPT ![g] = {}]
  /\ cur' = [cur EXCEPT ![g] = "none"]
  /\ seen' = [seen EXCEPT ![g] = "none"]
  /\ left' = [left EXCEPT ![g] = {}]
  /\ leftFiles' = [leftFiles EXCEPT ![g] = {}]
  /\ UNCHANGED <<runVars, treeVars, procVars, printed>>

-----------------------------------------------------------------------------
(***************************************************************************)
(* recursive_remove_dir, depth first in readdir's order.  The first error  *)
(* ends it; gc prints "expunged" and goes on whether or not it succeeded.  *)
(***************************************************************************)

EntriesOf(c) ==
  {e \in {"info", "rootfs"} : IF e = "info" THEN info[c] # "absent" ELSE e \in dirs[c]}

\* Removal of cur[g] is over, one way or the other.
RmEnds(g) ==
  /\ printed' = [printed EXCEPT ![cur[g]] = "expunged"]
  /\ left' = [left EXCEPT ![g] = {}]
  /\ leftFiles' = [leftFiles EXCEPT ![g] = {}]
  /\ VisitNext(g)
  /\ UNCHANGED <<runVars, procVars, cmd, todo>>

RmOpenRoot(g) ==
  /\ clientPc[g] = "open"
  /\ "root" \in dirs[cur[g]]
  /\ left' = [left EXCEPT ![g] = EntriesOf(cur[g])]
  /\ clientPc' = [clientPc EXCEPT ![g] = "inroot"]
  /\ UNCHANGED <<runVars, treeVars, procVars, cmd, todo, cur, seen, leftFiles, printed>>

RmInfo(g) ==
  /\ clientPc[g] = "inroot"
  /\ "info" \in left[g]
  /\ info[cur[g]] # "absent"
  /\ info' = [info EXCEPT ![cur[g]] = "absent"]
  /\ left' = [left EXCEPT ![g] = @ \ {"info"}]
  /\ UNCHANGED <<runVars, dirs, files, procVars, clientPc, cmd, todo, cur, seen,
                 leftFiles, printed>>

RmOpenRootfs(g) ==
  /\ clientPc[g] = "inroot"
  /\ "rootfs" \in left[g]
  /\ "rootfs" \in dirs[cur[g]]
  /\ left' = [left EXCEPT ![g] = @ \ {"rootfs"}]
  /\ leftFiles' = [leftFiles EXCEPT ![g] = files[cur[g]]]
  /\ clientPc' = [clientPc EXCEPT ![g] = "inrootfs"]
  /\ UNCHANGED <<runVars, treeVars, procVars, cmd, todo, cur, seen, printed>>

\* Mutant: an entry is passed over where it should be unlinked.
RmFileSkips(g) ==
  /\ clientPc[g] = "inrootfs"
  /\ \E f \in leftFiles[g] :
       /\ f \in files[cur[g]]
       /\ leftFiles' = [leftFiles EXCEPT ![g] = @ \ {f}]
  /\ UNCHANGED <<runVars, treeVars, procVars, clientPc, cmd, todo, cur, seen, left, printed>>

RmFile(g) ==
  /\ clientPc[g] = "inrootfs"
  /\ \E f \in leftFiles[g] :
       /\ f \in files[cur[g]] \ Special
       /\ files' = [files EXCEPT ![cur[g]] = @ \ {f}]
       /\ leftFiles' = [leftFiles EXCEPT ![g] = @ \ {f}]
  /\ UNCHANGED <<runVars, dirs, info, procVars, clientPc, cmd, todo, cur, seen,
                 left, printed>>

RmRootfs(g) ==
  /\ clientPc[g] = "inrootfs"
  /\ leftFiles[g] = {}
  /\ "rootfs" \in dirs[cur[g]]
  /\ files[cur[g]] = {}
  /\ dirs' = [dirs EXCEPT ![cur[g]] = @ \ {"rootfs"}]
  /\ clientPc' = [clientPc EXCEPT ![g] = "inroot"]
  /\ UNCHANGED <<runVars, files, info, procVars, cmd, todo, cur, seen, left,
                 leftFiles, printed>>

RmRoot(g) ==
  /\ clientPc[g] = "inroot"
  /\ left[g] = {}
  /\ dirs[cur[g]] = {"root"}
  /\ info[cur[g]] = "absent"
  /\ dirs' = [dirs EXCEPT ![cur[g]] = {}]
  /\ RmEnds(g)
  /\ UNCHANGED <<files, info>>

\* Is there a next call of the removal that fails?  A missing entry fails
\* lstat, a special file is refused, a directory that is not empty is not
\* removed, and any call may fail for a reason of its own.
RmStuck(g) ==
  LET c == cur[g] IN
  \/ "io" \in Faults
  \/ clientPc[g] = "open" /\ "root" \notin dirs[c]
  \/ clientPc[g] = "inroot" /\ ~(left[g] \subseteq EntriesOf(c))
  \/ clientPc[g] = "inroot" /\ left[g] = {} /\ (dirs[c] # {"root"} \/ info[c] # "absent")
  \/ clientPc[g] = "inrootfs" /\ ~(leftFiles[g] \subseteq files[c] \ Special)
  \/ clientPc[g] = "inrootfs" /\ leftFiles[g] = {} /\ (files[c] # {} \/ "rootfs" \notin dirs[c])

RmFails(g) ==
  /\ clientPc[g] \in Removing
  /\ RmStuck(g)
  /\ RmEnds(g)
  /\ UNCHANGED treeVars

-----------------------------------------------------------------------------
RunStep(c) ==
  \/ RunPrepare(c) \/ RunMkdirRoot(c) \/ RunMkdirRootfs(c) \/ RunExtract(c)
  \/ RunClone(c) \/ RunCloneFails(c) \/ RunOpenInfo(c) \/ RunWriteInfo(c)
  \/ RunAfterReport(c) \/ RunEndAwait(c) \/ RunEndDump(c)

VisitStep(g) ==
  \/ SkipUnreadable(g) \/ AbortOnParse(g) \/ ReadInfo(g) \/ StatProc(g) \/ ClientDone(g)

RmStep(g) ==
  \/ RmOpenRoot(g) \/ RmInfo(g) \/ RmOpenRootfs(g) \/ RmFile(g) \/ RmRootfs(g)
  \/ RmRoot(g) \/ RmFails(g)

Next ==
  \/ \E c \in Containers :
       RunStep(c) \/ RunKill(c) \/ InitExit(c) \/ ContainerWrites(c) \/ Reap(c)
  \/ \E p \in Pids : OtherSpawn(p) \/ OtherExit(p)
  \/ \E g \in Clients : Launch(g) \/ VisitStep(g) \/ RmStep(g) \/ ClientKill(g)

Spec == Init /\ [][Next]_vars

-----------------------------------------------------------------------------
(***************************************************************************)
(* Properties.                                                             *)
(***************************************************************************)

\* gc checks that a container is not running and only then, several system
\* calls later, starts to remove it.  Whatever has happened in between, to
\* the container, to its pid or by the hand of another gc, a container that
\* gc is removing has no init any more (gc.cpp:92-99).
GcSparesLive ==
  \A g \in Clients : clientPc[g] \in Removing => init[cur[g]] = "gone"

\* Until its init is gone nobody takes anything from a container's tree: not
\* the directories `nscn run` is still filling, and not the record by which
\* gc, list, status and enter find its init.
LiveTreeKept ==
  [][\A c \in Containers :
       init[c] # "gone" =>
         /\ dirs[c] \subseteq dirs'[c]
         /\ info[c] \in Pids => info'[c] = info[c]]_vars

\* What list and status call EXITED has no init left, now and for good
\* (status.cpp:62-65 asks /proc about a pid it read earlier).
ExitedIsGone ==
  \A c \in Containers : printed[c] = "EXITED" => init[c] = "gone"

\* Why GcSparesLive and ExitedIsGone hold: the strengthening that every step
\* preserves.  Before clone there is no pid and no init (run.cpp:144) and the
\* record is written only after it (run.cpp:157-160).
PrepInv ==
  \A c \in Containers :
    /\ init[c] = "none" <=> pidOf[c] = "none"
    /\ runPc[c] \in {"idle", "mkroot", "mkrootfs", "extract", "start"} => init[c] = "none"
    /\ runPc[c] \in {"cloned", "write"} => init[c] # "none" /\ info[c] \notin Pids

\* A pid is c's as long as c's init has not been waited for: no other process
\* has it (linux.cpp:163), and the record of c names no other pid.
PidInv ==
  \A c \in Containers :
    /\ init[c] \in {"live", "zombie"} => owner[pidOf[c]] = c
    /\ info[c] \in Pids => info[c] = pidOf[c]

\* A client about to ask /proc asks about the pid of the container it visits.
VisitInv ==
  \A g \in Clients :
    /\ clientPc[g] = "stat" => cur[g] \in Containers /\ seen[g] \in Pids /\ seen[g] = pidOf[cur[g]]
    /\ clientPc[g] \in Removing => cur[g] \in Containers

StoreInv == PrepInv /\ PidInv /\ VisitInv /\ GcSparesLive /\ ExitedIsGone

\* As long as no pid is given away a second time a pid is one container's for
\* good, and it is somebody's only until its init is waited for
\* (linux.cpp:209-219).
OwnerInv ==
  /\ \A p \in Pids : owner[p] # "other"
  /\ \A p \in Pids : owner[p] \in Containers =>
       pidOf[owner[p]] = p /\ init[owner[p]] \in {"live", "zombie"}
  /\ \A c, d \in Containers : pidOf[c] = pidOf[d] /\ pidOf[c] # "none" => c = d

\* What list and status newly call RUNNING still has its init
\* (status.cpp:62-65, status.h "Display the status of an app container.").
RunningIsAlive ==
  [][\A c \in Containers :
       printed[c] # "RUNNING" /\ printed'[c] = "RUNNING" => init[c] # "gone"]_vars

\* A directory that stays behind stays collectable: once `nscn run` is past
\* writing info, a tree that no gc is busy removing has an info that names a
\* pid, for without it no later gc looks at the tree again (gc.cpp:92-96).
NoOrphan ==
  \A c \in Containers :
    /\ dirs[c] # {}
    /\ runPc[c] \in Ended \cup {"report", "await", "dump"}
    /\ \A g \in Clients : cur[g] # c
    => info[c] \in Pids

\* No gc, list or status is terminated by an exception half way through the
\* containers, whatever state a concurrent run is in (status.cpp:34-42).
NoAbort == \A g \in Clients : clientPc[g] # "aborted"

\* A spent container that gc is asked to expunge again and again is expunged
\* in the end (gc.h "Expunge spent app containers.").
SpentCollected ==
  \A c \in Containers : (init[c] = "gone" /\ info[c] \in Pids) ~> (dirs[c] = {})

\* gc is issued again whenever it has ended, by a timer or an operator, and
\* a process that can make its next call makes it.  Nothing is assumed of
\* the containers or of a run that waits for one.
GcFairness ==
  /\ \A g \in Clients : WF_vars(Launch(g)) /\ WF_vars(VisitStep(g)) /\ WF_vars(RmStep(g))
  /\ \A c \in Containers : WF_vars(RunWriteInfo(c))

FairSpec == Spec /\ GcFairness

-----------------------------------------------------------------------------
\* The life of c as ContainerLedger sees it.
LifeOf(c) ==
  CASE init[c] \in {"live", "zombie"}             -> "running"
    [] init[c] = "gone" /\ "root" \in dirs[c]     -> "spent"
    [] init[c] = "gone" /\ "root" \notin dirs[c]  -> "cleared"
    [] init[c] = "none" /\ "root" \in dirs[c]     -> "prepared"
    [] init[c] = "none" /\ "root" \notin dirs[c]  -> "absent"

Ledger == INSTANCE ContainerLedger
            WITH life <- [c \in Containers |-> LifeOf(c)], told <- printed

\* Runs, gcs and status commands together keep the promises of
\* ContainerLedger: a container's life only goes forward, and "EXITED" and
\* "expunged" are only said of one that is over.
KeepsLedger == Ledger!LedgerSpec
=============================================================================
