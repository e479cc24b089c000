------------------------- MODULE ContainerStore_proofs -------------------------
(***************************************************************************)
(* Proofs about ContainerStore, for every set of containers, clients, pids *)
(* and files and every combination of faults.                              *)
(***************************************************************************)
EXTENDS ContainerStore, TLAPS

USE ContainersAssumption, PidsAssumption, SpecialAssumption,
    CommandsAssumption, FaultsAssumption

\* Every step keeps every variable in its type (RunWriteInfo needs to know
\* that there is a pid to write, RmOpenRootfs that it has a container open).
LEMMA TypeStep == TypeOK /\ PrepInv /\ VisitInv /\ [Next]_vars => TypeOK'
<1> SUFFICES ASSUME TypeOK, PrepInv, VisitInv, [Next]_vars PROVE TypeOK'
  OBVIOUS
<1> USE DEF TypeOK, RunPcs, Ended, ClientPcs, Removing, runVars, treeVars,
        procVars, clientVars, vars
<1>1. ASSUME NEW c \in Containers, RunPrepare(c) PROVE TypeOK'
  BY <1>1 DEF RunPrepare, RunGoesTo
<1>2. ASSUME NEW c \in Containers, RunMkdirRoot(c) PROVE TypeOK'
  BY <1>2 DEF RunMkdirRoot, RunMkdir, RunGoesTo
<1>3. ASSUME NEW c \in Containers, RunMkdirRootfs(c) PROVE TypeOK'
  BY <1>3 DEF RunMkdirRootfs, RunMkdir, RunGoesTo
<1>4. ASSUME NEW c \in Containers, RunExtract(c) PROVE TypeOK'
  BY <1>4 DEF RunExtract, RunGoesTo
<1>5. ASSUME NEW c \in Containers, RunClone(c) PROVE TypeOK'
  BY <1>5 DEF RunClone, RunGoesTo
<1>6. ASSUME NEW c \in Containers, RunCloneFails(c) PROVE TypeOK'
  BY <1>6 DEF RunCloneFails, RunGoesTo
<1>7. ASSUME NEW c \in Containers, RunOpenInfo(c) PROVE TypeOK'
  BY <1>7 DEF RunOpenInfo, RunGoesTo
<1>8. ASSUME NEW c \in Containers, RunWriteInfo(c) PROVE TypeOK'
  BY <1>8 DEF RunWriteInfo, RunGoesTo, PrepInv
<1>9. ASSUME NEW c \in Containers, RunAfterReport(c) PROVE TypeOK'
  BY <1>9 DEF RunAfterReport, RunGoesTo
<1>10. ASSUME NEW c \in Containers, RunEndAwait(c) PROVE TypeOK'
  BY <1>10 DEF RunEndAwait, RunGoesTo
<1>11. ASSUME NEW c \in Containers, RunEndDump(c) PROVE TypeOK'
  BY <1>11 DEF RunEndDump, RunGoesTo
<1>12. ASSUME NEW c \in Containers, RunKill(c) PROVE TypeOK'
  BY <1>12 DEF RunKill
<1>13. ASSUME NEW c \in Containers, InitExit(c) PROVE TypeOK'
  BY <1>13 DEF InitExit
<1>14. ASSUME NEW c \in Containers, ContainerWrites(c) PROVE TypeOK'
  BY <1>14 DEF ContainerWrites
<1>15. ASSUME NEW c \in Containers, Reap(c) PROVE TypeOK'
  BY <1>15 DEF Reap
<1>16. ASSUME NEW p \in Pids, OtherSpawn(p) PROVE TypeOK'
  BY <1>16 DEF OtherSpawn
<1>17. ASSUME NEW p \in Pids, OtherExit(p) PROVE TypeOK'
  BY <1>17 DEF OtherExit
<1>18. ASSUME NEW g \in Clients, Launch(g) PROVE TypeOK'
  BY <1>18 DEF Launch
<1>19. ASSUME NEW g \in Clients, SkipUnreadable(g) PROVE TypeOK'
  BY <1>19 DEF SkipUnreadable
<1>20. ASSUME NEW g \in Clients, AbortOnParse(g) PROVE TypeOK'
  BY <1>20 DEF AbortOnParse
<1>21. ASSUME NEW g \in Clients, ReadInfo(g) PROVE TypeOK'
  BY <1>21 DEF ReadInfo
<1>22. ASSUME NEW g \in Clients, StatProc(g) PROVE TypeOK'
  BY <1>22 DEF StatProc, Word, VisitNext
<1>23. ASSUME NEW g \in Clients, ClientDone(g) PROVE TypeOK'
  BY <1>23 DEF ClientDone
<1>24. ASSUME NEW g \in Clients, RmOpenRoot(g) PROVE TypeOK'
  BY <1>24 DEF RmOpenRoot, EntriesOf
<1>25. ASSUME NEW g \in Clients, RmInfo(g) PROVE TypeOK'
  BY <1>25 DEF RmInfo
<1>26. ASSUME NEW g \in Clients, RmOpenRootfs(g) PROVE TypeOK'
  BY <1>26 DEF RmOpenRootfs, VisitInv
<1>27. ASSUME NEW g \in Clients, RmFile(g) PROVE TypeOK'
  BY <1>27 DEF RmFile, VisitInv
<1>28. ASSUME NEW g \in Clients, RmRootfs(g) PROVE TypeOK'
  BY <1>28 DEF RmRootfs
<1>29. ASSUME NEW g \in Clients, RmRoot(g) PROVE TypeOK'
  BY <1>29 DEF RmRoot, RmEnds, VisitNext
<1>30. ASSUME NEW g \in Clients, RmFails(g) PROVE TypeOK'
  BY <1>30 DEF RmFails, RmEnds, VisitNext
<1>31. ASSUME NEW g \in Clients, ClientKill(g) PROVE TypeOK'
  BY <1>31 DEF ClientKill
<1>32. CASE UNCHANGED vars
  BY <1>32
<1> QED
  BY <1>1, <1>2, <1>3, <1>4, <1>5, <1>6, <1>7, <1>8, <1>9, <1>10, <1>11,
     <1>12, <1>13, <1>14, <1>15, <1>16, <1>17, <1>18, <1>19, <1>20, <1>21,
     <1>22, <1>23, <1>24, <1>25, <1>26, <1>27, <1>28, <1>29, <1>30, <1>31,
     <1>32 DEF Next, RunStep, VisitStep, RmStep

\* A client changes nothing of a run, an init or a pid, and takes an info
\* away only in RmInfo.
LEMMA ClientFrame ==
  ASSUME TypeOK, NEW g \in Clients,
         Launch(g) \/ VisitStep(g) \/ RmStep(g) \/ ClientKill(g)
  PROVE  /\ UNCHANGED <<runVars, procVars>>
         /\ UNCHANGED info \/ RmInfo(g)
  BY DEF VisitStep, RmStep, Launch, SkipUnreadable, AbortOnParse, ReadInfo, StatProc,
         ClientDone, RmOpenRoot, RmOpenRootfs, RmFile, RmRootfs, RmRoot,
         RmFails, RmEnds, RmInfo, ClientKill, runVars, procVars, treeVars

\* Once gone an init stays gone, and a container that was cloned keeps its pid.
LEMMA GoneStays ==
  ASSUME TypeOK, PrepInv, [Next]_vars, NEW c \in Containers, init[c] # "none"
  PROVE  /\ pidOf'[c] = pidOf[c]
         /\ init'[c] # "none"
         /\ init[c] = "gone" => init'[c] = "gone"
<1> USE DEF TypeOK, PrepInv, runVars, procVars
<1>1. CASE \E d \in Containers : RunStep(d) \/ RunKill(d)
  BY <1>1 DEF RunStep, RunPrepare, RunMkdirRoot, RunMkdirRootfs, RunMkdir, RunExtract,
     RunClone, RunCloneFails, RunOpenInfo, RunWriteInfo, RunAfterReport,
     RunEndAwait, RunEndDump, RunKill, RunGoesTo
<1>2. CASE \E d \in Containers : InitExit(d) \/ ContainerWrites(d) \/ Reap(d)
  BY <1>2 DEF InitExit, ContainerWrites, Reap
<1>3. CASE \E p \in Pids : OtherSpawn(p) \/ OtherExit(p)
  BY <1>3 DEF OtherSpawn, OtherExit
<1>4. CASE \E g \in Clients : Launch(g) \/ VisitStep(g) \/ RmStep(g) \/ ClientKill(g)
  BY <1>4, ClientFrame
<1>5. CASE UNCHANGED vars
  BY <1>5 DEF vars
<1> QED
  BY <1>1, <1>2, <1>3, <1>4, <1>5 DEF Next

\* No init before clone, no record before there is a pid to record.
LEMMA PrepStep == TypeOK /\ PrepInv /\ PidInv /\ [Next]_vars => PrepInv'
<1> SUFFICES ASSUME TypeOK, PrepInv, PidInv, [Next]_vars PROVE PrepInv'
  OBVIOUS
<1> USE DEF TypeOK, PrepInv, Ended, runVars, procVars, treeVars
<1>1. ASSUME NEW c \in Containers, RunStep(c) PROVE PrepInv'
  <2>1. CASE RunPrepare(c)
    BY <2>1 DEF RunPrepare, RunGoesTo
  <2>2. CASE RunMkdirRoot(c) \/ RunMkdirRootfs(c)
    BY <2>2 DEF RunMkdirRoot, RunMkdirRootfs, RunMkdir, RunGoesTo
  <2>3. CASE RunExtract(c)
    BY <2>3 DEF RunExtract, RunGoesTo
  <2>4. CASE RunClone(c)
    BY <2>4 DEF RunClone, RunGoesTo, PidInv
  <2>5. CASE RunCloneFails(c)
    BY <2>5 DEF RunCloneFails, RunGoesTo
  <2>6. CASE RunOpenInfo(c)
    BY <2>6 DEF RunOpenInfo, RunGoesTo
  <2>7. CASE RunWriteInfo(c)
    BY <2>7 DEF RunWriteInfo, RunGoesTo
  <2>8. CASE RunAfterReport(c)
    BY <2>8 DEF RunAfterReport, RunGoesTo
  <2>9. CASE RunEndAwait(c)
    BY <2>9 DEF RunEndAwait, RunGoesTo
  <2>10. CASE RunEndDump(c)
    BY <2>10 DEF RunEndDump, RunGoesTo
  <2> QED
    BY <1>1, <2>1, <2>2, <2>3, <2>4, <2>5, <2>6, <2>7, <2>8, <2>9, <2>10 DEF RunStep
<1>2. ASSUME NEW c \in Containers, RunKill(c) PROVE PrepInv'
  BY <1>2 DEF RunKill
<1>3. ASSUME NEW c \in Containers, InitExit(c) \/ ContainerWrites(c) \/ Reap(c) PROVE PrepInv'
  BY <1>3 DEF InitExit, ContainerWrites, Reap
<1>4. ASSUME NEW p \in Pids, OtherSpawn(p) \/ OtherExit(p) PROVE PrepInv'
  BY <1>4 DEF OtherSpawn, OtherExit
<1>5. ASSUME NEW g \in Clients, Launch(g) \/ VisitStep(g) \/ RmStep(g) \/ ClientKill(g)
      PROVE  PrepInv'
  BY <1>5, ClientFrame DEF RmInfo
<1>6. CASE UNCHANGED vars
  BY <1>6 DEF vars
<1> QED
  BY <1>1, <1>2, <1>3, <1>4, <1>5, <1>6 DEF Next

\* A pid belongs to its init until somebody has waited for the init: clone
\* and OtherSpawn only take free pids, and waiting frees only the init's own.
LEMMA PidStep == TypeOK /\ PrepInv /\ PidInv /\ [Next]_vars => PidInv'
<1> SUFFICES ASSUME TypeOK, PrepInv, PidInv, [Next]_vars PROVE PidInv'
  OBVIOUS
<1> USE DEF TypeOK, PrepInv, PidInv, runVars, procVars, treeVars
<1>1. ASSUME NEW c \in Containers, RunStep(c) PROVE PidInv'
  <2>1. CASE RunClone(c)
    BY <2>1 DEF RunClone, RunGoesTo
  <2>2. CASE RunEndAwait(c)
    BY <2>2 DEF RunEndAwait, RunGoesTo
  <2>3. CASE RunOpenInfo(c)
    BY <2>3 DEF RunOpenInfo, RunGoesTo
  <2>4. CASE RunWriteInfo(c)
    BY <2>4 DEF RunWriteInfo, RunGoesTo
  <2>5. CASE UNCHANGED <<pidOf, info, procVars>>
    BY <2>5
  <2> QED
    BY <1>1, <2>1, <2>2, <2>3, <2>4, <2>5
    DEF RunStep, RunPrepare, RunMkdirRoot, RunMkdirRootfs, RunMkdir, RunExtract,
        RunCloneFails, RunAfterReport, RunEndDump
<1>2. ASSUME NEW c \in Containers, RunKill(c) PROVE PidInv'
  BY <1>2 DEF RunKill
<1>3. ASSUME NEW c \in Containers, InitExit(c) \/ ContainerWrites(c) PROVE PidInv'
  BY <1>3 DEF InitExit, ContainerWrites
<1>4. ASSUME NEW c \in Containers, Reap(c) PROVE PidInv'
  BY <1>4 DEF Reap
<1>5. ASSUME NEW p \in Pids, OtherSpawn(p) \/ OtherExit(p) PROVE PidInv'
  BY <1>5 DEF OtherSpawn, OtherExit
<1>6. ASSUME NEW g \in Clients, Launch(g) \/ VisitStep(g) \/ RmStep(g) \/ ClientKill(g)
      PROVE  PidInv'
  BY <1>6, ClientFrame DEF RmInfo
<1>7. CASE UNCHANGED vars
  BY <1>7 DEF vars
<1> QED
  BY <1>1, <1>2, <1>3, <1>4, <1>5, <1>6, <1>7 DEF Next

\* A client about to ask /proc asks about its container's own pid, which is
\* that container's for good.
LEMMA VisitStepLemma ==
  TypeOK /\ PrepInv /\ PidInv /\ VisitInv /\ [Next]_vars => VisitInv'
<1> SUFFICES ASSUME TypeOK, PrepInv, PidInv, VisitInv, [Next]_vars PROVE VisitInv'
  OBVIOUS
<1>1. CASE UNCHANGED <<clientPc, cur, seen>>
  <2>1. ASSUME NEW g \in Clients, clientPc[g] = "stat"
        PROVE  pidOf'[cur[g]] = pidOf[cur[g]]
    BY <2>1, GoneStays DEF VisitInv, PrepInv
  <2> QED
    BY <1>1, <2>1 DEF VisitInv
<1>2. ASSUME NEW g \in Clients, Launch(g) \/ VisitStep(g) \/ RmStep(g) \/ ClientKill(g)
      PROVE  VisitInv'
  <2>1. UNCHANGED pidOf
    BY <1>2, ClientFrame DEF runVars
  <2> USE DEF TypeOK, VisitInv, Removing
  <2>2. CASE Launch(g)
    BY <2>1, <2>2 DEF Launch
  <2>3. CASE ReadInfo(g)
    BY <2>1, <2>3 DEF ReadInfo, PidInv
  <2>4. CASE StatProc(g)
    BY <2>1, <2>4 DEF StatProc, VisitNext
  <2>5. CASE SkipUnreadable(g) \/ AbortOnParse(g) \/ ClientDone(g)
    BY <2>1, <2>5 DEF SkipUnreadable, AbortOnParse, ClientDone
  <2>6. CASE RmOpenRoot(g) \/ RmInfo(g) \/ RmOpenRootfs(g) \/ RmFile(g) \/ RmRootfs(g)
    BY <2>1, <2>6 DEF RmOpenRoot, RmInfo, RmOpenRootfs, RmFile, RmRootfs
  <2>7. CASE RmRoot(g) \/ RmFails(g)
    BY <2>1, <2>7 DEF RmRoot, RmFails, RmEnds, VisitNext
  <2>8. CASE ClientKill(g)
    BY <2>1, <2>8 DEF ClientKill
  <2> QED
    BY <1>2, <2>2, <2>3, <2>4, <2>5, <2>6, <2>7, <2>8 DEF VisitStep, RmStep
<1> QED
  BY <1>1, <1>2
  DEF Next, vars, clientVars, RunStep, RunPrepare, RunMkdirRoot, RunMkdirRootfs, RunMkdir,
      RunExtract, RunClone, RunCloneFails, RunOpenInfo, RunWriteInfo, RunAfterReport,
      RunEndAwait, RunEndDump, RunKill, InitExit, ContainerWrites, Reap,
      OtherSpawn, OtherExit

\* The step that matters: /proc has nothing under the pid, so the pid is free,
\* so the init it was recorded for has been waited for.
LEMMA NotRunningIsGone ==
  ASSUME TypeOK, PrepInv, PidInv, VisitInv,
         NEW g \in Clients, clientPc[g] = "stat", ~Running(seen[g])
  PROVE  init[cur[g]] = "gone"
<1>1. cur[g] \in Containers /\ seen[g] \in Pids /\ seen[g] = pidOf[cur[g]]
  BY DEF VisitInv
<1>2. owner[pidOf[cur[g]]] = "free"
  BY <1>1 DEF Running
<1>3. init[cur[g]] \notin {"live", "zombie"}
  BY <1>1, <1>2 DEF PidInv
<1>4. init[cur[g]] # "none"
  BY <1>1 DEF PrepInv
<1> QED
  BY <1>1, <1>3, <1>4 DEF TypeOK

\* gc starts to remove only what is gone, and what is gone stays gone.
LEMMA SparesStep ==
  TypeOK /\ StoreInv /\ [Next]_vars => GcSparesLive'
<1> SUFFICES ASSUME TypeOK, StoreInv, [Next]_vars, NEW g \in Clients,
                    clientPc'[g] \in Removing
             PROVE  init'[cur'[g]] = "gone"
  BY DEF GcSparesLive
<1> USE DEF TypeOK, StoreInv, Removing
<1>1. CASE clientPc[g] \in Removing /\ cur'[g] = cur[g]
  BY <1>1, GoneStays DEF GcSparesLive, VisitInv
<1>2. CASE StatProc(g) /\ ~Running(seen[g]) /\ cur' = cur
  <2>1. init[cur[g]] = "gone" /\ cur[g] \in Containers
    BY <1>2, NotRunningIsGone DEF StatProc, VisitInv
  <2> QED
    BY <1>2, <2>1, GoneStays
<1>3. ASSUME NEW h \in Clients, Launch(h) \/ VisitStep(h) \/ RmStep(h) \/ ClientKill(h)
      PROVE  \/ clientPc[g] \in Removing /\ cur'[g] = cur[g]
             \/ StatProc(g) /\ ~Running(seen[g]) /\ cur' = cur
  BY <1>3
  DEF VisitStep, RmStep, Launch, SkipUnreadable, AbortOnParse, ReadInfo, StatProc,
      ClientDone, RmOpenRoot, RmOpenRootfs, RmFile, RmRootfs, RmRoot,
      RmFails, RmEnds, RmInfo, ClientKill, VisitNext
<1>4. CASE UNCHANGED <<clientPc, cur>>
  BY <1>1, <1>4
<1> QED
  BY <1>1, <1>2, <1>3, <1>4
  DEF Next, vars, clientVars, RunStep, RunPrepare, RunMkdirRoot, RunMkdirRootfs, RunMkdir,
      RunExtract, RunClone, RunCloneFails, RunOpenInfo, RunWriteInfo, RunAfterReport,
      RunEndAwait, RunEndDump, RunKill, InitExit, ContainerWrites, Reap,
      OtherSpawn, OtherExit

\* "EXITED" is printed of what is gone, and what is gone stays gone.
LEMMA ExitedStep ==
  TypeOK /\ StoreInv /\ [Next]_vars => ExitedIsGone'
<1> SUFFICES ASSUME TypeOK, StoreInv, [Next]_vars, NEW c \in Containers,
                    printed'[c] = "EXITED"
             PROVE  init'[c] = "gone"
  BY DEF ExitedIsGone
<1> USE DEF TypeOK, StoreInv
<1>1. CASE printed[c] = "EXITED"
  BY <1>1, GoneStays DEF ExitedIsGone
<1>2. ASSUME NEW h \in Clients, StatProc(h), ~Running(seen[h]), cur[h] = c
      PROVE  init'[c] = "gone"
  BY <1>2, NotRunningIsGone, GoneStays DEF StatProc
<1>3. ASSUME NEW h \in Clients, Launch(h) \/ VisitStep(h) \/ RmStep(h) \/ ClientKill(h)
      PROVE  \/ printed[c] = "EXITED"
             \/ StatProc(h) /\ ~Running(seen[h]) /\ cur[h] = c
  BY <1>3
  DEF VisitStep, RmStep, Launch, SkipUnreadable, AbortOnParse, ReadInfo, StatProc, Word,
      ClientDone, RmOpenRoot, RmOpenRootfs, RmFile, RmRootfs, RmRoot,
      RmFails, RmEnds, RmInfo, ClientKill
<1>4. CASE UNCHANGED printed
  BY <1>1, <1>4
<1> QED
  BY <1>1, <1>2, <1>3, <1>4
  DEF Next, vars, RunStep, RunPrepare, RunMkdirRoot, RunMkdirRootfs, RunMkdir,
      RunExtract, RunClone, RunCloneFails, RunOpenInfo, RunWriteInfo, RunAfterReport,
      RunEndAwait, RunEndDump, RunKill, InitExit, ContainerWrites, Reap,
      OtherSpawn, OtherExit

\* The whole invariant, initially and from step to step.
LEMMA StoreInvInit == Init => TypeOK /\ StoreInv
  BY DEF Init, TypeOK, StoreInv, PrepInv, PidInv, VisitInv, GcSparesLive, ExitedIsGone,
         RunPcs, Ended, ClientPcs, Removing

LEMMA StoreInvStep == TypeOK /\ StoreInv /\ [Next]_vars => (TypeOK /\ StoreInv)'
  BY TypeStep, PrepStep, PidStep, VisitStepLemma, SparesStep, ExitedStep DEF StoreInv

LEMMA StoreInductive == Spec => [](TypeOK /\ StoreInv)
  BY StoreInvInit, StoreInvStep, PTL DEF Spec

\* Each pid is one container's for good: only clone gives one away, and never
\* one that was somebody's.
LEMMA OwnerStep ==
  ASSUME "reuse" \notin Faults, TypeOK, StoreInv, OwnerInv, [Next]_vars
  PROVE  OwnerInv'
<1> USE DEF TypeOK, StoreInv, PrepInv, PidInv, OwnerInv, runVars, procVars
<1>1. ASSUME NEW c \in Containers, RunClone(c) PROVE OwnerInv'
  BY <1>1 DEF RunClone, RunGoesTo, Unused
<1>2. ASSUME NEW c \in Containers, RunEndAwait(c) \/ Reap(c) PROVE OwnerInv'
  BY <1>2 DEF RunEndAwait, Reap
<1>3. ASSUME NEW p \in Pids PROVE ~OtherSpawn(p) /\ ~OtherExit(p)
  BY DEF OtherSpawn, OtherExit
<1>4. CASE UNCHANGED <<owner, pidOf, init>>
  BY <1>4
<1>5. ASSUME NEW g \in Clients, Launch(g) \/ VisitStep(g) \/ RmStep(g) \/ ClientKill(g)
      PROVE  UNCHANGED <<owner, pidOf, init>>
  BY <1>5, ClientFrame
<1>6. ASSUME NEW c \in Containers,
             \/ RunStep(c) /\ ~RunClone(c) /\ ~RunEndAwait(c)
             \/ RunKill(c) \/ ContainerWrites(c)
      PROVE  UNCHANGED <<owner, pidOf, init>>
  BY <1>6
  DEF RunStep, RunPrepare, RunMkdirRoot, RunMkdirRootfs, RunMkdir, RunExtract,
      RunCloneFails, RunOpenInfo, RunWriteInfo, RunAfterReport, RunEndDump, RunKill,
      ContainerWrites
<1>7. ASSUME NEW c \in Containers, InitExit(c) PROVE OwnerInv'
  BY <1>7 DEF InitExit
<1> QED
  BY <1>1, <1>2, <1>3, <1>4, <1>5, <1>6, <1>7 DEF Next, vars

LEMMA OwnerInductive == "reuse" \notin Faults /\ Spec => []OwnerInv
<1> SUFFICES ASSUME "reuse" \notin Faults PROVE Spec => []OwnerInv
  OBVIOUS
<1>1. Init => OwnerInv
  BY DEF Init, OwnerInv
<1>2. TypeOK /\ StoreInv /\ OwnerInv /\ [Next]_vars => OwnerInv'
  BY OwnerStep
<1> QED
  BY <1>1, <1>2, StoreInductive, PTL DEF Spec

-----------------------------------------------------------------------------
(***************************************************************************)
(* The theorems.                                                           *)
(***************************************************************************)

\* Every variable keeps its type whatever the runs, clients, inits and other
\* processes of the host do (run.cpp:75-171, gc.cpp:80-107).
THEOREM TypeCorrect == Spec => []TypeOK
  BY StoreInductive, PTL

\* What a run has made so far, whose pid is whose, and where each client is in
\* its loop agree at all times: the invariant that the others follow from.
THEOREM StoreInvAlways == Spec => []StoreInv
  BY StoreInductive, PTL

\* gc never removes a container whose init is not gone, with any number of
\* runs, gcs, kills, failing calls and reused pids (gc.cpp:92-99).
THEOREM GcSafe == Spec => []GcSparesLive
<1>1. StoreInv => GcSparesLive
  BY DEF StoreInv
<1> QED
  BY <1>1, StoreInductive, PTL

\* "EXITED", once printed by list or status, is true for good
\* (status.cpp:62-65).
THEOREM ExitedTrue == Spec => []ExitedIsGone
<1>1. StoreInv => ExitedIsGone
  BY DEF StoreInv
<1> QED
  BY <1>1, StoreInductive, PTL

\* RUNNING is said of a container that has its init, unless the kernel hands
\* out a pid a second time (status.cpp:62-65).
THEOREM RunningTrue == ASSUME "reuse" \notin Faults PROVE Spec => RunningIsAlive
<1>1. ASSUME TypeOK, StoreInv, OwnerInv, [Next]_vars, NEW c \in Containers,
             printed[c] # "RUNNING", printed'[c] = "RUNNING"
      PROVE  init[c] # "gone"
  <2> USE DEF TypeOK
  <2>1. ASSUME NEW g \in Clients, StatProc(g), Running(seen[g]), cur[g] = c
        PROVE  init[c] # "gone"
    <3>1. seen[g] \in Pids /\ pidOf[c] = seen[g]
      BY <1>1, <2>1 DEF StatProc, StoreInv, VisitInv
    <3>2. owner[seen[g]] \in Containers
      BY <1>1, <2>1, <3>1 DEF Running, OwnerInv
    <3>3. owner[seen[g]] = c
      BY <1>1, <3>1, <3>2 DEF OwnerInv
    <3> QED
      BY <1>1, <3>1, <3>2, <3>3 DEF OwnerInv
  <2>2. ASSUME NEW g \in Clients, Launch(g) \/ VisitStep(g) \/ RmStep(g) \/ ClientKill(g)
        PROVE  StatProc(g) /\ Running(seen[g]) /\ cur[g] = c
    BY <1>1, <2>2
    DEF VisitStep, RmStep, Launch, SkipUnreadable, AbortOnParse, ReadInfo, StatProc, Word,
        ClientDone, RmOpenRoot, RmOpenRootfs, RmFile, RmRootfs, RmRoot,
        RmFails, RmEnds, RmInfo, ClientKill
  <2> QED
    BY <1>1, <2>1, <2>2
    DEF Next, vars, RunStep, RunPrepare, RunMkdirRoot, RunMkdirRootfs, RunMkdir,
        RunExtract, RunClone, RunCloneFails, RunOpenInfo, RunWriteInfo, RunAfterReport,
        RunEndAwait, RunEndDump, RunKill, InitExit, ContainerWrites, Reap,
        OtherSpawn, OtherExit
<1>2. TypeOK /\ StoreInv /\ OwnerInv /\ [Next]_vars =>
        [\A c \in Containers :
           printed[c] # "RUNNING" /\ printed'[c] = "RUNNING" => init[c] # "gone"]_vars
  BY <1>1
<1> QED
  BY <1>2, StoreInductive, OwnerInductive, PTL DEF Spec, RunningIsAlive

\* No step takes a directory or a complete record from a container whose
\* init is not gone (run.cpp:141-161, gc.cpp:42-77).
THEOREM TreeSafe == Spec => LiveTreeKept
<1>1. ASSUME TypeOK, StoreInv, [Next]_vars, NEW c \in Containers, init[c] # "gone"
      PROVE  /\ dirs[c] \subseteq dirs'[c]
             /\ info[c] \in Pids => info'[c] = info[c]
  <2> USE DEF TypeOK, StoreInv, PrepInv, PidInv
  <2>1. ASSUME NEW d \in Containers, RunStep(d) \/ RunKill(d)
        PROVE  /\ dirs[c] \subseteq dirs'[c]
               /\ info[c] \in Pids => info'[c] = info[c]
    BY <2>1, <1>1
    DEF treeVars, RunStep, RunPrepare, RunMkdirRoot, RunMkdirRootfs, RunMkdir, RunExtract,
        RunClone, RunCloneFails, RunOpenInfo, RunWriteInfo, RunAfterReport,
        RunEndAwait, RunEndDump, RunKill, RunGoesTo
  <2>2. ASSUME NEW g \in Clients, RmStep(g)
        PROVE  dirs'[c] = dirs[c] /\ info'[c] = info[c]
    <3>1. CASE RmInfo(g) \/ RmRootfs(g) \/ RmRoot(g)
      <4>1. cur[g] # c
        BY <3>1, <1>1 DEF RmInfo, RmRootfs, RmRoot, GcSparesLive, Removing
      <4>2. CASE RmInfo(g)
        BY <4>1, <4>2 DEF RmInfo
      <4>3. CASE RmRootfs(g)
        BY <4>1, <4>3 DEF RmRootfs
      <4>4. CASE RmRoot(g)
        BY <4>1, <4>4 DEF RmRoot
      <4> QED
        BY <3>1, <4>2, <4>3, <4>4
    <3>2. CASE UNCHANGED <<dirs, info>>
      BY <3>2
    <3> QED
      BY <2>2, <3>1, <3>2 DEF RmStep, RmOpenRoot, RmOpenRootfs, RmFile, RmFails, treeVars
  <2>3. CASE UNCHANGED <<dirs, info>>
    BY <2>3
  <2> QED
    BY <1>1, <2>1, <2>2, <2>3
    DEF Next, vars, treeVars, InitExit, ContainerWrites, Reap, OtherSpawn, OtherExit,
        Launch, ClientKill, VisitStep, SkipUnreadable, AbortOnParse, ReadInfo, StatProc,
        ClientDone
<1>2. TypeOK /\ StoreInv /\ [Next]_vars =>
        [\A c \in Containers :
           init[c] # "gone" =>
             /\ dirs[c] \subseteq dirs'[c]
             /\ info[c] \in Pids => info'[c] = info[c]]_vars
  BY <1>1
<1> QED
  BY <1>2, StoreInductive, PTL DEF Spec, LiveTreeKept

-----------------------------------------------------------------------------
(***************************************************************************)
(* ContainerStore implements ContainerLedger.                              *)
(***************************************************************************)

\* One container moves on and all others stay: the function life moves on.
LEMMA LifeMoves ==
  ASSUME NEW c \in Containers, NEW from, LifeOf(c) \in from,
         \A d \in Containers \ {c} : LifeOf(d)' = LifeOf(d),
         UNCHANGED printed
  PROVE  Ledger!Moves(c, from, LifeOf(c)')
  BY DEF Ledger!Moves

\* Nothing the ledger sees of any container has changed.
LEMMA LifeStays ==
  ASSUME \A d \in Containers : LifeOf(d)' = LifeOf(d)
  PROVE  UNCHANGED [c \in Containers |-> LifeOf(c)]
  OBVIOUS

\* What may be said of a container, given its life.
LEMMA MayTell ==
  ASSUME NEW c \in Containers, NEW word \in {"RUNNING", "EXITED", "expunged"},
         LifeOf(c) \in {"running", "spent", "cleared"},
         word = "RUNNING" \/ LifeOf(c) # "running",
         \A d \in Containers : LifeOf(d)' = LifeOf(d),
         printed' = [printed EXCEPT ![c] = word]
  PROVE  Ledger!Tell(c)
<1>1. UNCHANGED [d \in Containers |-> LifeOf(d)]
  BY LifeStays
<1>2. word \in {"RUNNING"} \cup
                (IF LifeOf(c) = "running" THEN {} ELSE {"EXITED", "expunged"})
  OBVIOUS
<1> QED
  BY <1>1, <1>2 DEF Ledger!Tell

\* The steps of a run: mkdir of <id> prepares, clone begins, waitpid ends.
LEMMA RunRefines ==
  ASSUME TypeOK, StoreInv, NEW c \in Containers, RunStep(c) \/ RunKill(c)
  PROVE  [Ledger!LedgerNext]_(Ledger!ledgerVars)
<1> USE DEF TypeOK, StoreInv, PrepInv, PidInv, Ledger!ledgerVars, runVars, treeVars,
        procVars, clientVars
<1>1. CASE RunMkdirRoot(c) /\ dirs' # dirs
  <2>1. dirs' = [dirs EXCEPT ![c] = @ \cup {"root"}] /\ UNCHANGED <<init, printed>>
    BY <1>1 DEF RunMkdirRoot, RunMkdir, procVars
  <2>2. init[c] = "none"
    BY <1>1 DEF RunMkdirRoot, RunMkdir, RunGoesTo
  <2>3. \A d \in Containers \ {c} : LifeOf(d)' = LifeOf(d)
    BY <2>1 DEF LifeOf
  <2>4. "root" \notin dirs[c]
    BY <1>1, <2>1
  <2>5. LifeOf(c) \in {"absent"} /\ LifeOf(c)' = "prepared"
    BY <2>1, <2>2, <2>4 DEF LifeOf
  <2>6. Ledger!Moves(c, {"absent"}, LifeOf(c)')
    BY <2>1, <2>3, <2>5, LifeMoves
  <2> QED
    BY <2>5, <2>6 DEF Ledger!LedgerNext, Ledger!Prepare
<1>2. CASE RunClone(c)
  <2>1. init' = [init EXCEPT ![c] = "live"] /\ UNCHANGED <<dirs, printed>>
    BY <1>2 DEF RunClone, treeVars
  <2>2. init[c] = "none"
    BY <1>2 DEF RunClone, RunGoesTo
  <2>3. \A d \in Containers \ {c} : LifeOf(d)' = LifeOf(d)
    BY <2>1 DEF LifeOf
  <2>4. LifeOf(c) \in {"absent", "prepared"} /\ LifeOf(c)' = "running"
    BY <2>1, <2>2 DEF LifeOf
  <2>5. Ledger!Moves(c, {"absent", "prepared"}, LifeOf(c)')
    BY <2>1, <2>3, <2>4, LifeMoves
  <2> QED
    BY <2>4, <2>5 DEF Ledger!LedgerNext, Ledger!Begin
<1>3. CASE RunEndAwait(c)
  <2>1. init' = [init EXCEPT ![c] = "gone"] /\ UNCHANGED <<dirs, printed>>
    BY <1>3 DEF RunEndAwait, treeVars
  <2>2. init[c] = "zombie"
    BY <1>3 DEF RunEndAwait
  <2>3. \A d \in Containers \ {c} : LifeOf(d)' = LifeOf(d)
    BY <2>1 DEF LifeOf
  <2>4. LifeOf(c) \in {"running"} /\ LifeOf(c)' \in {"spent", "cleared"}
    BY <2>1, <2>2 DEF LifeOf
  <2>5. Ledger!Moves(c, {"running"}, LifeOf(c)')
    BY <2>1, <2>3, <2>4, LifeMoves
  <2> QED
    BY <2>4, <2>5 DEF Ledger!LedgerNext, Ledger!End, Ledger!EndBare
<1>4. CASE /\ UNCHANGED <<init, printed>>
           /\ \A d \in Containers : "root" \in dirs'[d] <=> "root" \in dirs[d]
  <2>1. \A d \in Containers : LifeOf(d)' = LifeOf(d)
    BY <1>4 DEF LifeOf
  <2> QED
    BY <1>4, <2>1, LifeStays
<1> QED
  BY <1>1, <1>2, <1>3, <1>4
  DEF RunStep, RunKill, RunPrepare, RunMkdirRoot, RunMkdirRootfs, RunMkdir, RunExtract,
      RunCloneFails, RunOpenInfo, RunWriteInfo, RunAfterReport, RunEndDump

\* The steps of an init and of other processes: only Reap ends a container.
LEMMA HostRefines ==
  ASSUME TypeOK, StoreInv,
         \/ \E c \in Containers : InitExit(c) \/ ContainerWrites(c) \/ Reap(c)
         \/ \E p \in Pids : OtherSpawn(p) \/ OtherExit(p)
  PROVE  [Ledger!LedgerNext]_(Ledger!ledgerVars)
<1> USE DEF TypeOK, Ledger!ledgerVars, runVars, treeVars, procVars
<1>1. ASSUME NEW c \in Containers, Reap(c)
      PROVE  Ledger!LedgerNext
  <2>1. init' = [init EXCEPT ![c] = "gone"] /\ UNCHANGED <<dirs, printed>>
    BY <1>1 DEF Reap
  <2>2. init[c] = "zombie"
    BY <1>1 DEF Reap
  <2>3. \A d \in Containers \ {c} : LifeOf(d)' = LifeOf(d)
    BY <2>1 DEF LifeOf
  <2>4. LifeOf(c) \in {"running"} /\ LifeOf(c)' \in {"spent", "cleared"}
    BY <2>1, <2>2 DEF LifeOf
  <2>5. Ledger!Moves(c, {"running"}, LifeOf(c)')
    BY <2>1, <2>3, <2>4, LifeMoves
  <2> QED
    BY <2>4, <2>5 DEF Ledger!LedgerNext, Ledger!End, Ledger!EndBare
<1>2. ASSUME NEW c \in Containers, InitExit(c)
      PROVE  UNCHANGED Ledger!ledgerVars
  <2>1. \A d \in Containers : LifeOf(d)' = LifeOf(d)
    BY <1>2 DEF InitExit, LifeOf
  <2> QED
    BY <1>2, <2>1, LifeStays DEF InitExit
<1>3. CASE UNCHANGED <<init, dirs, printed>>
  <2>1. \A d \in Containers : LifeOf(d)' = LifeOf(d)
    BY <1>3 DEF LifeOf
  <2> QED
    BY <1>3, <2>1, LifeStays
<1> QED
  BY <1>1, <1>2, <1>3 DEF ContainerWrites, OtherSpawn, OtherExit

\* The steps of a client: what it prints of a container is a Tell, and the
\* last rmdir of a removal clears.
LEMMA ClientRefines ==
  ASSUME TypeOK, StoreInv, NEW g \in Clients,
         Launch(g) \/ VisitStep(g) \/ RmStep(g) \/ ClientKill(g)
  PROVE  [Ledger!LedgerNext]_(Ledger!ledgerVars)
<1> USE DEF TypeOK, StoreInv, Ledger!ledgerVars, runVars, treeVars, procVars
<1>1. CASE StatProc(g)
  <2> DEFINE word == Word(seen[g])
  <2>1. cur[g] \in Containers
    BY <1>1 DEF StatProc, VisitInv
  <2>2. \A d \in Containers : LifeOf(d)' = LifeOf(d)
    BY <1>1 DEF StatProc, LifeOf
  <2>3. CASE UNCHANGED printed
    BY <2>2, <2>3, LifeStays
  <2>4. CASE printed' # printed
    <3>1. printed' = [printed EXCEPT ![cur[g]] = word]
      BY <1>1, <2>1, <2>4 DEF StatProc
    <3>2. LifeOf(cur[g]) \in {"running", "spent", "cleared"}
      BY <1>1, <2>1 DEF StatProc, VisitInv, PrepInv, LifeOf
    <3>3. ~Running(seen[g]) => LifeOf(cur[g]) # "running"
      BY <1>1, <2>1, NotRunningIsGone DEF StatProc, LifeOf
    <3>4. Ledger!Tell(cur[g])
      BY <2>1, <2>2, <3>1, <3>2, <3>3, MayTell DEF Word
    <3> QED
      BY <2>1, <3>4 DEF Ledger!LedgerNext
  <2> QED
    BY <2>3, <2>4
<1>2. CASE RmFails(g)
  <2>1. cur[g] \in Containers /\ init[cur[g]] = "gone"
    BY <1>2 DEF RmFails, VisitInv, GcSparesLive
  <2>2. \A d \in Containers : LifeOf(d)' = LifeOf(d)
    BY <1>2 DEF RmFails, RmEnds, LifeOf
  <2>3. LifeOf(cur[g]) \in {"spent", "cleared"}
    BY <2>1 DEF LifeOf
  <2>4. printed' = [printed EXCEPT ![cur[g]] = "expunged"]
    BY <1>2 DEF RmFails, RmEnds
  <2>5. Ledger!Tell(cur[g])
    BY <2>1, <2>2, <2>3, <2>4, MayTell
  <2> QED
    BY <2>1, <2>5 DEF Ledger!LedgerNext
<1>3. CASE RmRoot(g)
  <2>1. PICK c \in Containers : c = cur[g] /\ init[c] = "gone"
    BY <1>3 DEF RmRoot, VisitInv, GcSparesLive, Removing
  <2>2. /\ dirs[c] = {"root"}
        /\ dirs' = [dirs EXCEPT ![c] = {}]
        /\ printed' = [printed EXCEPT ![c] = "expunged"]
        /\ UNCHANGED init
    BY <1>3, <2>1 DEF RmRoot, RmEnds
  <2>3. \A d \in Containers \ {c} : LifeOf(d)' = LifeOf(d)
    BY <2>2 DEF LifeOf
  <2>4. LifeOf(c) = "spent" /\ LifeOf(c)' = "cleared"
    BY <2>1, <2>2 DEF LifeOf
  <2> DEFINE lives == [d \in Containers |-> LifeOf(d)]
  <2>5. lives' = [lives EXCEPT ![c] = "cleared"]
    BY <2>3, <2>4
  <2>6. lives[c] = "spent"
    BY <2>4
  <2>7. Ledger!Clear(c)
    BY <2>2, <2>5, <2>6 DEF Ledger!Clear
  <2> QED
    BY <2>7 DEF Ledger!LedgerNext
<1>4. CASE /\ UNCHANGED <<init, printed>>
           /\ \A d \in Containers : "root" \in dirs'[d] <=> "root" \in dirs[d]
  <2>1. \A d \in Containers : LifeOf(d)' = LifeOf(d)
    BY <1>4 DEF LifeOf
  <2> QED
    BY <1>4, <2>1, LifeStays
<1> QED
  BY <1>1, <1>2, <1>3, <1>4
  DEF VisitStep, RmStep, Launch, SkipUnreadable, AbortOnParse, ReadInfo, ClientDone,
      RmOpenRoot, RmOpenRootfs, RmFile, RmRootfs, RmInfo, ClientKill

\* Runs, inits, gcs and status commands together behave as the ledger says:
\* lives only go forward, and nobody is told that a container is over that
\* may still run (run.cpp, gc.cpp, list.cpp, status.cpp).
THEOREM LedgerImplemented == Spec => KeepsLedger
<1>1. Init => Ledger!LedgerInit
  BY DEF Init, Ledger!LedgerInit, LifeOf
<1>2. TypeOK /\ StoreInv /\ [Next]_vars => [Ledger!LedgerNext]_(Ledger!ledgerVars)
  <2> SUFFICES ASSUME TypeOK, StoreInv, [Next]_vars
               PROVE  [Ledger!LedgerNext]_(Ledger!ledgerVars)
    OBVIOUS
  <2>1. CASE UNCHANGED vars
    <3>1. \A d \in Containers : LifeOf(d)' = LifeOf(d)
      BY <2>1 DEF vars, treeVars, procVars, LifeOf
    <3> QED
      BY <2>1, <3>1, LifeStays DEF vars, Ledger!ledgerVars
  <2> QED
    BY <2>1, RunRefines, HostRefines, ClientRefines DEF Next
<1> QED
  BY <1>1, <1>2, StoreInductive, PTL DEF Spec, KeepsLedger, Ledger!LedgerSpec
=============================================================================
