--------------------------------- MODULE Enter ---------------------------------
(***************************************************************************)
(* `nscn enter` beside the runs, inits and gcs of ContainerStore: it reads *)
(* a pid from the container's info and then opens that pid's namespaces    *)
(* below /proc one after the other, joining each, before it forks a shell. *)
(* Every open looks the pid up again.                                      *)
(***************************************************************************)
EXTENDS ContainerStore

CONSTANT Visitors   \* the processes that run `nscn enter`

VARIABLES
  enterPc,   \* enterPc[e]: where visitor e is
  target,    \* target[e]: the container it was given
  enterPid,  \* enterPid[e]: the pid it read
  joined,    \* joined[e][n]: whose namespace n it is in: "host" or a container
  shell      \* shell[e]: "none", "alive" or "dead"

enterVars == <<enterPc, target, enterPid, joined, shell>>

\* The user namespace is tried first, but no container has one of its own.
Namespaces == {"ipc", "uts", "pid", "mnt"}
\* Mutant: the pid namespace is left out.
NextStepWithoutPid == [ipc |-> "uts", uts |-> "mnt", pid |-> "mnt", mnt |-> "fork"]

NextStep == [ipc |-> "uts", uts |-> "pid", pid |-> "mnt", mnt |-> "fork"]

EnterTypeOK ==
  /\ enterPc \in [Visitors -> {"idle", "fork", "waitpid", "success", "failure", "aborted"}
                              \cup Namespaces]
  /\ target \in [Visitors -> Containers \cup {"none"}]
  /\ enterPid \in [Visitors -> Pids \cup {"none"}]
  /\ joined \in [Visitors -> [Namespaces -> Containers \cup {"host"}]]
  /\ shell \in [Visitors -> {"none", "alive", "dead"}]

EnterInit ==
  /\ Init
  /\ enterPc = [e \in Visitors |-> "idle"]
  /\ target = [e \in Visitors |-> "none"]
  /\ enterPid = [e \in Visitors |-> "none"]
  /\ joined = [e \in Visitors |-> [n \in Namespaces |-> "host"]]
  /\ shell = [e \in Visitors |-> "none"]

EnterGoesTo(e, from, to) ==
  /\ enterPc[e] = from
  /\ enterPc' = [enterPc EXCEPT ![e] = to]

\* Mutant: an info with nothing in it is taken for a record.
EnterStatusUnparsed(e) ==
  /\ \E c \in Containers :
       /\ target' = [target EXCEPT ![e] = c]
       /\ info[c] # "absent"
       /\ EnterGoesTo(e, "idle", "ipc")
       /\ enterPid' = [enterPid EXCEPT ![e] = info[c]]
  /\ UNCHANGED <<joined, shell, vars>>

\* container_status: no info, or one that does not parse, ends the command;
\* that the container is running is read but not asked.
EnterStatus(e) ==
  /\ \E c \in Containers :
       /\ target' = [target EXCEPT ![e] = c]
       /\ \/ /\ info[c] \in Pids
             /\ EnterGoesTo(e, "idle", "ipc")
             /\ enterPid' = [enterPid EXCEPT ![e] = info[c]]
          \/ /\ info[c] = "absent"
             /\ EnterGoesTo(e, "idle", "failure")
             /\ UNCHANGED enterPid
          \/ /\ info[c] = "empty"
             /\ EnterGoesTo(e, "idle", "aborted")
             /\ UNCHANGED enterPid
  /\ UNCHANGED <<joined, shell, vars>>

\* Does /proc/<pid>/ns/<n> open?  A process that has exited has only its pid
\* namespace left until it is waited for.
HasNamespace(p, n) ==
  \/ owner[p] = "other"
  \/ owner[p] \in Containers /\ (init[owner[p]] = "live" \/ n = "pid")

HomeOf(p) == IF owner[p] = "other" THEN "host" ELSE owner[p]

EnterJoin(e, n) ==
  /\ EnterGoesTo(e, n, NextStep[n])
  /\ HasNamespace(enterPid[e], n)
  /\ joined' = [joined EXCEPT ![e][n] = HomeOf(enterPid[e])]
  /\ UNCHANGED <<target, enterPid, shell, vars>>

\* Mutant: a namespace that cannot be joined is passed over, as the user
\* namespace is.
EnterJoinFailsOn(e, n) ==
  /\ EnterGoesTo(e, n, NextStep[n])
  /\ ~HasNamespace(enterPid[e], n) \/ "io" \in Faults
  /\ UNCHANGED <<target, enterPid, joined, shell, vars>>

EnterJoinFails(e, n) ==
  /\ EnterGoesTo(e, n, "failure")
  /\ ~HasNamespace(enterPid[e], n) \/ "io" \in Faults
  /\ UNCHANGED <<target, enterPid, joined, shell, vars>>

\* fork puts the child into the pid namespace joined, if its init still is.
PidNamespaceLive(e) ==
  joined[e]["pid"] \in Containers => init[joined[e]["pid"]] = "live"

EnterFork(e) ==
  /\ EnterGoesTo(e, "fork", "waitpid")
  /\ PidNamespaceLive(e)
  /\ shell' = [shell EXCEPT ![e] = "alive"]
  /\ UNCHANGED <<target, enterPid, joined, vars>>

\* fork's -1 is taken for the pid of a shell: waitpid(-1) returns at once and
\* the command succeeds.
EnterForkFails(e) ==
  /\ EnterGoesTo(e, "fork", "success")
  /\ ~PidNamespaceLive(e) \/ "io" \in Faults
  /\ UNCHANGED <<target, enterPid, joined, shell, vars>>

ShellExits(e) ==
  /\ shell[e] = "alive"
  /\ shell' = [shell EXCEPT ![e] = "dead"]
  /\ UNCHANGED <<enterPc, target, enterPid, joined, vars>>

EnterEnds(e) ==
  /\ shell[e] = "dead"
  /\ EnterGoesTo(e, "waitpid", "success")
  /\ UNCHANGED <<target, enterPid, joined, shell, vars>>

\* A step of the store.  With a container's init the kernel ends every other
\* process of its pid namespace.
StoreStep ==
  /\ Next
  /\ shell' = [e \in Visitors |->
                 IF shell[e] = "alive" /\ joined[e]["pid"] \in Containers
                    /\ init'[joined[e]["pid"]] # "live"
                 THEN "dead" ELSE shell[e]]
  /\ UNCHANGED <<enterPc, target, enterPid, joined>>

EnterStep(e) ==
  \/ EnterStatus(e)
  \/ \E n \in Namespaces : EnterJoin(e, n) \/ EnterJoinFails(e, n)
  \/ EnterFork(e) \/ EnterForkFails(e) \/ ShellExits(e) \/ EnterEnds(e)

EnterNext == StoreStep \/ \E e \in Visitors : EnterStep(e)

EnterSpec == EnterInit /\ [][EnterNext]_<<vars, enterVars>>

-----------------------------------------------------------------------------
\* A shell that enter has started is in all four namespaces of the container
\* that enter was given, never of two containers or of the host
\* (enter.cpp:78-110, enter.h "Enter a running app container.").
EntersOneContainer ==
  \A e \in Visitors :
    shell[e] # "none" => joined[e] = [n \in Namespaces |-> target[e]]

\* A shell never outlives the container whose files it is looking at: gc does
\* not remove the root file system under a shell (enter.cpp:98-110,
\* gc.cpp:92-99).
ShellKeepsTree ==
  \A e \in Visitors :
    LET c == joined[e]["mnt"] IN
    shell[e] = "alive" /\ c \in Containers =>
      init[c] = "live" /\ \A g \in Clients : clientPc[g] \in Removing => cur[g] # c

\* The namespaces joined by the time of this step.
JoinedAt(step) ==
  {n \in Namespaces :
     \/ step \in {"fork", "waitpid", "success"}
     \/ step = "mnt" /\ n # "mnt"
     \/ step = "pid" /\ n \in {"ipc", "uts"}
     \/ step = "uts" /\ n = "ipc"}

\* The pid read is still the target's, what was joined so far is the target's,
\* and a living shell has a living init (enter.cpp:58-128).
JoinInv ==
  \A e \in Visitors :
    /\ enterPc[e] \notin {"idle", "failure", "aborted"} =>
         target[e] \in Containers /\ enterPid[e] \in Pids /\ pidOf[target[e]] = enterPid[e]
    /\ \A n \in JoinedAt(enterPc[e]) : joined[e][n] = target[e]
    /\ shell[e] # "none" => enterPc[e] \in {"waitpid", "success"}
    /\ shell[e] = "alive" => init[target[e]] = "live"

\* Why the two hold: preserved by every step, unless a pid comes back.
EnterInv == EnterTypeOK /\ OwnerInv /\ JoinInv
=============================================================================
