--------------------------- MODULE StoreQuiet_proofs ---------------------------
(***************************************************************************)
(* What gc leaves behind, proved of ContainerStore for the conditions in   *)
(* which it is true: nothing fails, no process is killed, no pid comes     *)
(* back, no root file system has special files, and no two gcs run at the  *)
(* same time.  Any number of containers, list and status processes.        *)
(***************************************************************************)
EXTENDS ContainerStore_proofs

USE ContainersAssumption, PidsAssumption, SpecialAssumption,
    CommandsAssumption, FaultsAssumption

OneGcOnly ==
  \A g, h \in Clients : "gc" \in Commands[g] /\ "gc" \in Commands[h] => g = h
Quiet == Faults = {} /\ Special = {} /\ OneGcOnly

Whole(c) == dirs[c] = {"root", "rootfs"}

\* Only a client that is used for gc removes anything.
CmdInv ==
  \A g \in Clients :
    /\ clientPc[g] \in {"scan", "stat"} \cup Removing => cmd[g] \in Commands[g]
    /\ clientPc[g] \in Removing => cmd[g] = "gc"

\* What a run has made by the time of each of its steps.  Nobody waits for an
\* init before the run that has started it is at its end.
MadeInv ==
  \A c \in Containers :
    /\ runPc[c] # "killed"
    /\ runPc[c] \in {"idle", "mkroot", "failed"} => dirs[c] = {} /\ info[c] = "absent"
    /\ runPc[c] = "mkrootfs" => dirs[c] = {"root"} /\ info[c] = "absent"
    /\ runPc[c] \in {"extract", "start", "cloned"} => Whole(c) /\ info[c] = "absent"
    /\ runPc[c] = "write" => Whole(c) /\ info[c] = "empty"
    /\ init[c] = "gone" => runPc[c] \in Ended

\* After that a tree is whole and recorded, gone, or being removed.
Removed(c) == \E g \in Clients : clientPc[g] \in Removing /\ cur[g] = c
TreeInv ==
  \A c \in Containers :
    \/ runPc[c] \notin {"report", "await", "dump", "done"}
    \/ Removed(c)
    \/ Whole(c) /\ info[c] \in Pids
    \/ dirs[c] = {} /\ info[c] = "absent"

\* A gc knows exactly what is left of the tree it removes.
RmKnows(g) ==
  LET c == cur[g] IN
  /\ clientPc[g] = "stat" /\ cmd[g] = "gc" => info[c] \in Pids
  /\ clientPc[g] = "open" => Whole(c) /\ info[c] \in Pids
  /\ clientPc[g] = "inroot" => dirs[c] = {"root"} \cup (left[g] \cap {"rootfs"})
  /\ clientPc[g] = "inrootfs" => Whole(c) /\ "rootfs" \notin left[g] /\ leftFiles[g] = files[c]
  /\ clientPc[g] \in {"inroot", "inrootfs"} =>
       ("info" \in left[g] <=> info[c] # "absent")
RmInv == \A g \in Clients : RmKnows(g)

GoneInv == \A c \in Containers : printed[c] = "expunged" => init[c] = "gone" /\ dirs[c] = {}

QuietInv == CmdInv /\ MadeInv /\ TreeInv /\ RmInv /\ GoneInv

-----------------------------------------------------------------------------
\* Nothing fails and nobody is killed: every removal has a next step.
LEMMA NothingFails ==
  ASSUME Quiet, TypeOK, StoreInv, RmInv
  PROVE  /\ \A c \in Containers : ~RunKill(c) /\ ~RunCloneFails(c)
         /\ \A g \in Clients : ~ClientKill(g) /\ ~RmFails(g)
<1>1. \A c \in Containers : ~RunKill(c) /\ ~RunCloneFails(c)
  BY DEF Quiet, RunKill, RunCloneFails
<1>2. ASSUME NEW g \in Clients PROVE ~ClientKill(g)
  BY DEF Quiet, ClientKill
<1>3. ASSUME NEW g \in Clients, RmFails(g) PROVE FALSE
  <2>1. clientPc[g] \in Removing /\ RmStuck(g) /\ "io" \notin Faults /\ Special = {}
    BY <1>3 DEF RmFails, Quiet
  <2>2. left[g] \subseteq {"info", "rootfs"}
    BY DEF TypeOK
  <2>3. clientPc[g] # "open"
    BY <2>1 DEF RmStuck, RmInv, RmKnows, Whole, Removing
  <2>4. clientPc[g] # "inroot"
    BY <2>1, <2>2 DEF RmStuck, RmInv, RmKnows, EntriesOf, Removing
  <2>5. clientPc[g] # "inrootfs"
    BY <2>1 DEF RmStuck, RmInv, RmKnows, Whole, Removing
  <2> QED
    BY <2>1, <2>3, <2>4, <2>5 DEF Removing
<1> QED
  BY <1>1, <1>2, <1>3

\* One gc at a time: who removes is the only one that does.
LEMMA OneRemover ==
  ASSUME Quiet, CmdInv, NEW g \in Clients, NEW h \in Clients,
         clientPc[g] \in {"scan", "stat"} \cup Removing, cmd[g] = "gc",
         clientPc[h] \in {"scan", "stat"} \cup Removing, cmd[h] = "gc"
  PROVE  g = h
  BY DEF Quiet, OneGcOnly, CmdInv

LEMMA CmdStep ==
  ASSUME TypeOK, CmdInv, [Next]_vars
  PROVE  CmdInv'
<1> USE DEF TypeOK, CmdInv, Removing
<1>1. CASE UNCHANGED <<clientPc, cmd>>
  BY <1>1
<1>2. ASSUME NEW g \in Clients, Launch(g) PROVE CmdInv'
  BY <1>2 DEF Launch
<1>3. ASSUME NEW g \in Clients, VisitStep(g) \/ ClientKill(g) PROVE CmdInv'
  BY <1>3 DEF VisitStep, SkipUnreadable, AbortOnParse, ReadInfo, StatProc, ClientDone,
              ClientKill, VisitNext
<1>4. ASSUME NEW g \in Clients, RmStep(g) PROVE CmdInv'
  BY <1>4 DEF RmStep, RmOpenRoot, RmInfo, RmOpenRootfs, RmFile, RmRootfs, RmRoot, RmFails,
              RmEnds, VisitNext
<1> QED
  BY <1>1, <1>2, <1>3, <1>4
  DEF Next, vars, clientVars, RunStep, RunPrepare, RunMkdirRoot, RunMkdirRootfs, RunMkdir,
      RunExtract, RunClone, RunCloneFails, RunOpenInfo, RunWriteInfo, RunAfterReport,
      RunEndAwait, RunEndDump, RunKill, InitExit, ContainerWrites, Reap,
      OtherSpawn, OtherExit

\* A container that is being removed is over, and so is the run that made it.
LEMMA RemovedIsOver ==
  ASSUME TypeOK, StoreInv, MadeInv, NEW g \in Clients, clientPc[g] \in Removing
  PROVE  cur[g] \in Containers /\ init[cur[g]] = "gone" /\ runPc[cur[g]] \in Ended
  BY DEF StoreInv, VisitInv, GcSparesLive, MadeInv

\* What a step of a client may do to a tree: nothing, unless it removes it.
LEMMA ClientTree ==
  ASSUME TypeOK, StoreInv, NEW g \in Clients, Launch(g) \/ VisitStep(g) \/ RmStep(g)
  PROVE  /\ UNCHANGED <<runVars, procVars>>
         /\ UNCHANGED treeVars \/ RmInfo(g) \/ RmFile(g) \/ RmRootfs(g) \/ RmRoot(g)
         /\ \A c \in Containers :
              ~(clientPc[g] \in Removing /\ cur[g] = c) =>
                dirs'[c] = dirs[c] /\ files'[c] = files[c] /\ info'[c] = info[c]
<1> USE DEF TypeOK, Removing, treeVars
<1>1. UNCHANGED <<runVars, procVars>>
  BY ClientFrame
<1>2. UNCHANGED treeVars \/ RmInfo(g) \/ RmFile(g) \/ RmRootfs(g) \/ RmRoot(g)
  BY DEF VisitStep, RmStep, Launch, SkipUnreadable, AbortOnParse, ReadInfo, StatProc,
         ClientDone, RmOpenRoot, RmOpenRootfs, RmFails
<1>3. CASE RmInfo(g) \/ RmFile(g) \/ RmRootfs(g) \/ RmRoot(g)
  BY <1>1, <1>2, <1>3 DEF RmInfo, RmFile, RmRootfs, RmRoot, StoreInv, VisitInv
<1> QED
  BY <1>1, <1>2, <1>3

LEMMA MadeStep ==
  ASSUME Quiet, TypeOK, StoreInv, QuietInv, [Next]_vars
  PROVE  MadeInv'
<1> USE DEF TypeOK, QuietInv, MadeInv, Ended
<1>1. ASSUME NEW d \in Containers, RunStep(d) PROVE MadeInv'
  <2> USE DEF runVars, treeVars, procVars, Whole
  <2>1. CASE RunPrepare(d) \/ RunAfterReport(d) \/ RunEndDump(d)
    BY <2>1 DEF RunPrepare, RunAfterReport, RunEndDump, RunGoesTo
  <2>2. CASE RunMkdirRoot(d)
    BY <2>2 DEF RunMkdirRoot, RunMkdir, RunGoesTo, Quiet
  <2>3. CASE RunMkdirRootfs(d)
    BY <2>3 DEF RunMkdirRootfs, RunMkdir, RunGoesTo, Quiet
  <2>4. CASE RunExtract(d)
    BY <2>4 DEF RunExtract, RunGoesTo
  <2>5. CASE RunClone(d)
    BY <2>5 DEF RunClone, RunGoesTo
  <2>6. CASE RunOpenInfo(d)
    BY <2>6 DEF RunOpenInfo, RunGoesTo, Quiet
  <2>7. CASE RunWriteInfo(d)
    BY <2>7 DEF RunWriteInfo, RunGoesTo
  <2>8. CASE RunEndAwait(d)
    BY <2>8 DEF RunEndAwait, RunGoesTo
  <2> QED
    BY <1>1, <2>1, <2>2, <2>3, <2>4, <2>5, <2>6, <2>7, <2>8, NothingFails DEF RunStep
<1>2. ASSUME NEW d \in Containers, InitExit(d) \/ ContainerWrites(d) \/ Reap(d) PROVE MadeInv'
  <2>1. UNCHANGED <<runPc, dirs, info>>
    BY <1>2 DEF InitExit, ContainerWrites, Reap, runVars, treeVars
  <2>2. ASSUME NEW c \in Containers, init'[c] = "gone" PROVE runPc[c] \in Ended
    BY <1>2, <2>2 DEF InitExit, ContainerWrites, Reap, procVars
  <2> QED
    BY <2>1, <2>2 DEF Whole
<1>3. ASSUME NEW p \in Pids, OtherSpawn(p) \/ OtherExit(p) PROVE MadeInv'
  BY <1>3 DEF OtherSpawn, OtherExit, runVars, treeVars, Whole
<1>4. ASSUME NEW g \in Clients, Launch(g) \/ VisitStep(g) \/ RmStep(g) PROVE MadeInv'
  <2>1. UNCHANGED <<runPc, init>>
    BY <1>4, ClientTree DEF runVars, procVars
  <2>2. ASSUME NEW c \in Containers, runPc[c] \notin {"done", "killed"}
        PROVE  dirs'[c] = dirs[c] /\ info'[c] = info[c]
    <3>1. CASE runPc[c] \notin Ended
      BY <3>1, <1>4, ClientTree, RemovedIsOver
    <3>2. CASE runPc[c] = "failed"
      <4>1. ASSUME clientPc[g] \in Removing, cur[g] = c PROVE FALSE
        BY <3>2, <4>1 DEF RmInv, RmKnows, Whole, Removing
      <4> QED
        BY <1>4, <4>1, ClientTree
    <3> QED
      BY <2>2, <3>1, <3>2
  <2> QED
    BY <2>1, <2>2 DEF Whole
<1>5. CASE UNCHANGED vars
  BY <1>5 DEF vars, runVars, treeVars, procVars, Whole
<1> QED
  BY <1>1, <1>2, <1>3, <1>4, <1>5, NothingFails DEF Next

\* Whoever does not remove keeps what is known of the trees.
LEMMA RmStepOfOthers ==
  ASSUME Quiet, TypeOK, StoreInv, QuietInv,
         UNCHANGED <<clientPc, cmd, cur, left, leftFiles>>,
         \A c \in Containers :
           /\ info[c] \in Pids => info'[c] = info[c]
           /\ init[c] = "gone" => dirs'[c] = dirs[c] /\ files'[c] = files[c] /\ info'[c] = info[c]
  PROVE  RmInv'
<1> SUFFICES ASSUME NEW g \in Clients PROVE RmKnows(g)'
  BY DEF RmInv
<1>1. RmKnows(g)
  BY DEF QuietInv, RmInv
<1>2. clientPc[g] \in Removing => cur[g] \in Containers /\ init[cur[g]] = "gone"
  BY RemovedIsOver DEF QuietInv
<1>3. clientPc[g] = "stat" => cur[g] \in Containers
  BY DEF StoreInv, VisitInv
<1>4. clientPc[g] \in Removing => RmKnows(g)'
  BY <1>1, <1>2 DEF RmKnows, Whole, Removing
<1>5. clientPc[g] \notin Removing => RmKnows(g)'
  BY <1>1, <1>3 DEF RmKnows, Removing
<1> QED
  BY <1>4, <1>5

\* A record is there only as long as the tree is, or is being removed.
LEMMA RecordedWhole ==
  ASSUME TypeOK, QuietInv, NEW c \in Containers, info[c] \in Pids, ~Removed(c)
  PROVE  Whole(c)
<1>1. runPc[c] \in {"report", "await", "dump", "done"}
  BY DEF TypeOK, RunPcs, Ended, QuietInv, MadeInv
<1> QED
  BY <1>1 DEF QuietInv, TreeInv

LEMMA RmInvStep ==
  ASSUME Quiet, TypeOK, StoreInv, QuietInv, [Next]_vars
  PROVE  RmInv'
<1> USE DEF TypeOK
<1>1. ASSUME NEW d \in Containers,
             RunStep(d) \/ InitExit(d) \/ ContainerWrites(d) \/ Reap(d)
      PROVE  RmInv'
  <2>1. UNCHANGED <<clientPc, cmd, cur, left, leftFiles>>
    BY <1>1, NothingFails
    DEF QuietInv, clientVars, RunStep, RunPrepare, RunMkdirRoot, RunMkdirRootfs, RunMkdir,
        RunExtract, RunClone, RunOpenInfo, RunWriteInfo, RunAfterReport, RunEndAwait,
        RunEndDump, InitExit, ContainerWrites, Reap
  <2>2. ASSUME NEW c \in Containers
        PROVE  /\ info[c] \in Pids => info'[c] = info[c]
               /\ init[c] = "gone" =>
                    dirs'[c] = dirs[c] /\ files'[c] = files[c] /\ info'[c] = info[c]
    BY <1>1, NothingFails
    DEF QuietInv, MadeInv, Ended, StoreInv, PrepInv, treeVars, RunStep, RunPrepare, RunMkdirRoot,
        RunMkdirRootfs, RunMkdir, RunExtract, RunClone, RunOpenInfo, RunWriteInfo,
        RunAfterReport, RunEndAwait, RunEndDump, RunGoesTo, InitExit, ContainerWrites, Reap
  <2> QED
    BY <2>1, <2>2, RmStepOfOthers
<1>2. ASSUME NEW p \in Pids, OtherSpawn(p) \/ OtherExit(p) PROVE RmInv'
  BY <1>2, RmStepOfOthers DEF OtherSpawn, OtherExit, clientVars, treeVars
<1>3. CASE UNCHANGED vars
  BY <1>3, RmStepOfOthers DEF vars, clientVars, treeVars
<1>4. ASSUME NEW g \in Clients, Launch(g) \/ VisitStep(g) \/ RmStep(g),
             NEW h \in Clients, h # g
      PROVE  RmKnows(h)'
  <2>1. UNCHANGED <<clientPc[h], cmd[h], cur[h], left[h], leftFiles[h]>>
    BY <1>4, NothingFails
    DEF QuietInv, Launch, VisitStep, SkipUnreadable, AbortOnParse, ReadInfo, StatProc, ClientDone,
        VisitNext, RmStep, RmOpenRoot, RmInfo, RmOpenRootfs, RmFile, RmRootfs, RmRoot, RmEnds
  <2>2. CASE clientPc[h] \in Removing \/ (clientPc[h] = "stat" /\ cmd[h] = "gc")
    <3>1. clientPc[g] \notin Removing
      BY <1>4, <2>2, OneRemover DEF QuietInv, CmdInv
    <3>2. UNCHANGED treeVars
      BY <1>4, <3>1, ClientTree DEF RmInfo, RmFile, RmRootfs, RmRoot, Removing
    <3> QED
      BY <2>1, <3>2 DEF treeVars, QuietInv, RmInv, RmKnows, Whole
  <2>3. CASE ~(clientPc[h] \in Removing \/ (clientPc[h] = "stat" /\ cmd[h] = "gc"))
    BY <2>1, <2>3 DEF Removing, RmKnows
  <2> QED
    BY <2>2, <2>3
<1>5. ASSUME NEW g \in Clients, Launch(g) \/ VisitStep(g) \/ RmStep(g)
      PROVE  RmKnows(g)'
  <2> USE DEF QuietInv, RmInv, RmKnows
  <2>1. CASE Launch(g) \/ SkipUnreadable(g) \/ AbortOnParse(g) \/ ClientDone(g) \/ RmRoot(g)
    BY <2>1 DEF Launch, SkipUnreadable, AbortOnParse, ClientDone, RmRoot, RmEnds, VisitNext
  <2>2. CASE ReadInfo(g)
    BY <2>2 DEF ReadInfo, treeVars
  <2>0. clientPc[g] \in {"stat"} \cup Removing => cur[g] \in Containers
    BY DEF StoreInv, VisitInv
  <2>3. CASE StatProc(g)
    <3>1. CASE cmd[g] = "gc" /\ ~Running(seen[g])
      <4>1. info[cur[g]] \in Pids /\ cur[g] \in Containers
        BY <2>0, <2>3, <3>1 DEF StatProc
      <4>2. ~Removed(cur[g])
        BY <2>3, <3>1, OneRemover DEF Removed, CmdInv, StatProc, Removing
      <4>3. Whole(cur[g])
        BY <4>1, <4>2, RecordedWhole
      <4> QED
        BY <2>3, <3>1, <4>1, <4>3 DEF StatProc, treeVars, Whole
    <3>2. CASE ~(cmd[g] = "gc" /\ ~Running(seen[g]))
      BY <2>3, <3>2 DEF StatProc, VisitNext
    <3> QED
      BY <3>1, <3>2
  <2>4. CASE RmOpenRoot(g)
    BY <2>4 DEF RmOpenRoot, EntriesOf, treeVars, Whole
  <2>5. CASE RmInfo(g)
    BY <2>0, <2>5 DEF RmInfo, Removing
  <2>6. CASE RmOpenRootfs(g)
    BY <2>6 DEF RmOpenRootfs, treeVars, Whole
  <2>7. CASE RmFile(g)
    BY <2>0, <2>7 DEF RmFile, Whole, Removing
  <2>8. CASE RmRootfs(g)
    BY <2>0, <2>8 DEF RmRootfs, Whole, Removing
  <2> QED
    BY <1>5, <2>1, <2>2, <2>3, <2>4, <2>5, <2>6, <2>7, <2>8, NothingFails DEF VisitStep, RmStep
<1>6. ASSUME NEW g \in Clients, Launch(g) \/ VisitStep(g) \/ RmStep(g) PROVE RmInv'
  BY <1>4, <1>5, <1>6 DEF RmInv
<1> QED
  BY <1>1, <1>2, <1>3, <1>6, NothingFails DEF Next, QuietInv

LEMMA TreeStep ==
  ASSUME Quiet, TypeOK, StoreInv, QuietInv, [Next]_vars
  PROVE  TreeInv'
<1> USE DEF TypeOK
<1> DEFINE Settled(c) == Whole(c) /\ info[c] \in Pids
           Cleared(c) == dirs[c] = {} /\ info[c] = "absent"
           Past(c) == runPc[c] \in {"report", "await", "dump", "done"}
<1>1. ASSUME NEW d \in Containers, RunStep(d) PROVE TreeInv'
  <2>1. UNCHANGED <<clientPc, cur>>
    BY <1>1, NothingFails
    DEF QuietInv, clientVars, RunStep, RunPrepare, RunMkdirRoot, RunMkdirRootfs, RunMkdir,
        RunExtract, RunClone, RunOpenInfo, RunWriteInfo, RunAfterReport, RunEndAwait, RunEndDump
  <2>2. ASSUME NEW c \in Containers, Past(c)
        PROVE  dirs'[c] = dirs[c] /\ info'[c] = info[c]
    BY <1>1, <2>2, NothingFails
    DEF QuietInv, treeVars, RunStep, RunPrepare, RunMkdirRoot, RunMkdirRootfs, RunMkdir,
        RunExtract, RunClone, RunOpenInfo, RunWriteInfo, RunAfterReport, RunEndAwait,
        RunEndDump, RunGoesTo
  <2>3. ASSUME NEW c \in Containers, ~Past(c), Past(c)' PROVE Settled(c)'
    <3>1. c = d /\ RunWriteInfo(d)
      <4>1. ~(RunOpenInfo(d) /\ runPc'[d] = "report")
        BY DEF RunOpenInfo, RunGoesTo, Quiet, QuietInv, MadeInv, Whole
      <4>2. CASE RunOpenInfo(d)
        BY <4>1, <4>2, <2>3 DEF RunOpenInfo, RunGoesTo
      <4>3. CASE RunPrepare(d) \/ RunMkdirRoot(d) \/ RunMkdirRootfs(d) \/ RunExtract(d) \/ RunClone(d)
        BY <4>3, <2>3
        DEF RunPrepare, RunMkdirRoot, RunMkdirRootfs, RunMkdir, RunExtract, RunClone, RunGoesTo
      <4>4. CASE RunAfterReport(d) \/ RunEndAwait(d) \/ RunEndDump(d)
        BY <4>4, <2>3 DEF RunAfterReport, RunEndAwait, RunEndDump, RunGoesTo
      <4>5. CASE RunWriteInfo(d)
        BY <4>5, <2>3 DEF RunWriteInfo, RunGoesTo
      <4> QED
        BY <1>1, <4>2, <4>3, <4>4, <4>5, NothingFails DEF QuietInv, RunStep
    <3> QED
      BY <3>1 DEF RunWriteInfo, RunGoesTo, Quiet, QuietInv, MadeInv, Whole, StoreInv, PrepInv
  <2>4. ASSUME NEW c \in Containers, Removed(c) PROVE Removed(c)'
    BY <2>1, <2>4 DEF Removed
  <2> QED
    BY <2>2, <2>3, <2>4 DEF TreeInv, QuietInv, Whole
<1>2. CASE UNCHANGED <<runPc, dirs, info, clientPc, cur>>
  BY <1>2 DEF QuietInv, TreeInv, Removed, Whole
<1>3. ASSUME NEW g \in Clients, Launch(g) \/ VisitStep(g) \/ RmStep(g) PROVE TreeInv'
  <2> SUFFICES ASSUME NEW c \in Containers, Past(c)
               PROVE  Removed(c)' \/ Settled(c)' \/ Cleared(c)'
    BY <1>3, ClientTree DEF TreeInv, runVars
  <2>1. CASE clientPc[g] \in Removing /\ cur[g] = c
    <3>1. CASE RmRoot(g)
      BY <2>1, <3>1 DEF RmRoot
    <3>2. CASE ~RmRoot(g)
      <4>1. clientPc'[g] \in Removing /\ cur'[g] = c
        BY <1>3, <2>1, <3>2, NothingFails
        DEF QuietInv, Removing, Launch, VisitStep, SkipUnreadable, AbortOnParse, ReadInfo,
            StatProc, ClientDone, RmStep, RmOpenRoot, RmInfo, RmOpenRootfs, RmFile, RmRootfs
      <4> QED
        BY <4>1 DEF Removed
    <3> QED
      BY <3>1, <3>2
  <2>2. CASE ~(clientPc[g] \in Removing /\ cur[g] = c)
    <3>1. dirs'[c] = dirs[c] /\ info'[c] = info[c]
      BY <1>3, <2>2, ClientTree
    <3>2. ASSUME Removed(c) PROVE Removed(c)'
      <4>1. PICK h \in Clients : clientPc[h] \in Removing /\ cur[h] = c
        BY <3>2 DEF Removed
      <4>2. clientPc'[h] = clientPc[h] /\ cur'[h] = cur[h]
        BY <1>3, <2>2, <4>1, NothingFails
        DEF QuietInv, Launch, VisitStep, SkipUnreadable, AbortOnParse, ReadInfo, StatProc,
            ClientDone, VisitNext, RmStep, RmOpenRoot, RmInfo, RmOpenRootfs, RmFile, RmRootfs,
            RmRoot, RmEnds
      <4> QED
        BY <4>1, <4>2 DEF Removed
    <3> QED
      BY <3>1, <3>2 DEF QuietInv, TreeInv, Whole
  <2> QED
    BY <2>1, <2>2
<1> QED
  BY <1>1, <1>2, <1>3, NothingFails
  DEF Next, QuietInv, vars, runVars, treeVars, clientVars, InitExit, ContainerWrites, Reap,
      OtherSpawn, OtherExit

\* "expunged" is said when the directory is gone, and a container that is over
\* is not made again.
LEMMA GoneStep ==
  ASSUME Quiet, TypeOK, StoreInv, QuietInv, [Next]_vars
  PROVE  GoneInv'
<1> SUFFICES ASSUME NEW c \in Containers, printed'[c] = "expunged"
             PROVE  init'[c] = "gone" /\ dirs'[c] = {}
  BY DEF GoneInv
<1> USE DEF TypeOK
<1>1. CASE printed[c] = "expunged"
  <2>1. init[c] = "gone" /\ dirs[c] = {} /\ runPc[c] \in Ended /\ init'[c] = "gone"
    BY <1>1, GoneStays DEF QuietInv, GoneInv, MadeInv, StoreInv
  <2>2. dirs'[c] \subseteq dirs[c]
    BY <2>1, NothingFails
    DEF Next, QuietInv, Ended, vars, treeVars, RunStep, RunPrepare, RunMkdirRoot, RunMkdirRootfs,
        RunMkdir, RunExtract, RunClone, RunOpenInfo, RunWriteInfo, RunAfterReport,
        RunEndAwait, RunEndDump, RunGoesTo, InitExit, ContainerWrites, Reap, OtherSpawn, OtherExit,
        Launch, VisitStep, SkipUnreadable, AbortOnParse, ReadInfo, StatProc, ClientDone,
        RmStep, RmOpenRoot, RmInfo, RmOpenRootfs, RmFile, RmRootfs, RmRoot
  <2> QED
    BY <2>1, <2>2
<1>2. CASE printed[c] # "expunged"
  <2>1. PICK g \in Clients : RmRoot(g) /\ cur[g] = c
    BY <1>2, NothingFails
    DEF Next, QuietInv, vars, RunStep, RunPrepare, RunMkdirRoot, RunMkdirRootfs,
        RunMkdir, RunExtract, RunClone, RunOpenInfo, RunWriteInfo, RunAfterReport,
        RunEndAwait, RunEndDump, InitExit, ContainerWrites, Reap, OtherSpawn, OtherExit,
        Launch, VisitStep, SkipUnreadable, AbortOnParse, ReadInfo, StatProc, Word, ClientDone,
        RmStep, RmOpenRoot, RmInfo, RmOpenRootfs, RmFile, RmRootfs, RmRoot, RmEnds
  <2> QED
    BY <2>1, GoneStays DEF RmRoot, StoreInv, GcSparesLive, Removing
<1> QED
  BY <1>1, <1>2

LEMMA QuietInductive == Quiet /\ Spec => [](TypeOK /\ StoreInv /\ QuietInv)
<1> SUFFICES ASSUME Quiet PROVE Spec => [](TypeOK /\ StoreInv /\ QuietInv)
  OBVIOUS
<1>1. Init => QuietInv
  BY DEF Init, QuietInv, CmdInv, MadeInv, TreeInv, RmInv, RmKnows, GoneInv, Removing
<1>2. TypeOK /\ StoreInv /\ QuietInv /\ [Next]_vars => QuietInv'
  BY CmdStep, MadeStep, TreeStep, RmInvStep, GoneStep DEF QuietInv
<1> QED
  BY <1>1, <1>2, StoreInductive, PTL DEF Spec

-----------------------------------------------------------------------------
(* The theorems. *)

\* While nothing fails and one gc runs at a time, every directory that is not
\* being made or removed has the record by which a later gc finds it
\* (gc.cpp:92-99).
THEOREM NothingOrphaned == ASSUME Quiet PROVE Spec => []NoOrphan
<1>1. TypeOK /\ QuietInv => NoOrphan
  <2> SUFFICES ASSUME TypeOK, QuietInv, NEW c \in Containers, dirs[c] # {},
                      runPc[c] \in Ended \cup {"report", "await", "dump"},
                      \A g \in Clients : cur[g] # c
               PROVE  info[c] \in Pids
    BY DEF NoOrphan
  <2> QED
    BY DEF QuietInv, MadeInv, TreeInv, Removed, Ended
<1> QED
  BY <1>1, QuietInductive, PTL
=============================================================================
