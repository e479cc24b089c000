------------------------------ MODULE Enter_proofs ------------------------------
(***************************************************************************)
(* Proofs about Enter, for every set of containers, clients, visitors and  *)
(* pids.  They assume that no pid is handed out twice: with reuse the two  *)
(* theorems are false, for enter looks its pid up anew for each namespace. *)
(***************************************************************************)
EXTENDS Enter, ContainerStore_proofs

USE ContainersAssumption, PidsAssumption

\* A step of the whole is one of the store or leaves the store alone.
LEMMA StoreFrame == [EnterNext]_<<vars, enterVars>> => [Next]_vars
  BY DEF EnterNext, StoreStep, EnterStep, EnterStatus, EnterJoin, EnterJoinFails,
         EnterFork, EnterForkFails, ShellExits, EnterEnds

\* The namespaces opened through a pid are those of the container that has it.
LEMMA HomeIsTarget ==
  ASSUME TypeOK, OwnerInv, NEW c \in Containers, NEW p \in Pids, NEW n \in Namespaces,
         pidOf[c] = p, HasNamespace(p, n)
  PROVE  HomeOf(p) = c
  BY DEF TypeOK, OwnerInv, HasNamespace, HomeOf

LEMMA EnterTypeStep ==
  ASSUME TypeOK, EnterTypeOK, OwnerInv, JoinInv, [EnterNext]_<<vars, enterVars>>
  PROVE  EnterTypeOK'
<1> USE DEF TypeOK, EnterTypeOK, Namespaces
<1>1. CASE StoreStep
  BY <1>1 DEF StoreStep
<1>2. ASSUME NEW e \in Visitors, EnterStatus(e) PROVE EnterTypeOK'
  <2> PICK c \in Containers :
        /\ target' = [target EXCEPT ![e] = c]
        /\ \/ info[c] \in Pids /\ EnterGoesTo(e, "idle", "ipc")
              /\ enterPid' = [enterPid EXCEPT ![e] = info[c]]
           \/ EnterGoesTo(e, "idle", "failure") /\ UNCHANGED enterPid
           \/ EnterGoesTo(e, "idle", "aborted") /\ UNCHANGED enterPid
    BY <1>2 DEF EnterStatus
  <2>1. UNCHANGED <<joined, shell>>
    BY <1>2 DEF EnterStatus
  <2>2. \E step \in {"ipc", "failure", "aborted"} : enterPc' = [enterPc EXCEPT ![e] = step]
    BY DEF EnterGoesTo
  <2>3. enterPid' \in [Visitors -> Pids \cup {"none"}]
    OBVIOUS
  <2>4. target' \in [Visitors -> Containers \cup {"none"}]
    OBVIOUS
  <2> QED
    BY <2>1, <2>2, <2>3, <2>4
<1>3. ASSUME NEW e \in Visitors, NEW n \in Namespaces, EnterJoin(e, n) PROVE EnterTypeOK'
  <2>1. /\ target[e] \in Containers /\ enterPid[e] \in Pids
        /\ pidOf[target[e]] = enterPid[e] /\ HasNamespace(enterPid[e], n)
    <3>1. enterPc[e] = n /\ HasNamespace(enterPid[e], n)
      BY <1>3 DEF EnterJoin, EnterGoesTo
    <3> QED
      BY <3>1 DEF JoinInv
  <2>2. HomeOf(enterPid[e]) \in Containers
    BY <2>1, HomeIsTarget
  <2> QED
    BY <1>3, <2>2 DEF EnterJoin, EnterGoesTo, NextStep
<1>4. ASSUME NEW e \in Visitors, NEW n \in Namespaces, EnterJoinFails(e, n) PROVE EnterTypeOK'
  BY <1>4 DEF EnterJoinFails, EnterGoesTo
<1>5. ASSUME NEW e \in Visitors,
             EnterFork(e) \/ EnterForkFails(e) \/ ShellExits(e) \/ EnterEnds(e)
      PROVE  EnterTypeOK'
  <2>1. CASE EnterFork(e)
    BY <2>1 DEF EnterFork, EnterGoesTo
  <2>2. CASE EnterForkFails(e)
    BY <2>2 DEF EnterForkFails, EnterGoesTo
  <2>3. CASE ShellExits(e)
    BY <2>3 DEF ShellExits
  <2>4. CASE EnterEnds(e)
    BY <2>4 DEF EnterEnds, EnterGoesTo
  <2> QED
    BY <1>5, <2>1, <2>2, <2>3, <2>4
<1>6. CASE UNCHANGED <<vars, enterVars>>
  BY <1>6 DEF enterVars
<1> QED
  BY <1>1, <1>2, <1>3, <1>4, <1>5, <1>6 DEF EnterNext, EnterStep

\* A visitor's own step: the namespace it joins is the target's.
LEMMA JoinOwnStep ==
  ASSUME TypeOK, StoreInv, EnterTypeOK, OwnerInv, JoinInv, NEW e \in Visitors, EnterStep(e)
  PROVE  JoinInv'
<1> USE DEF TypeOK, EnterTypeOK, JoinInv, JoinedAt, Namespaces
<1>0. UNCHANGED <<pidOf, init, info, owner>>
  BY DEF EnterStep, EnterStatus, EnterJoin, EnterJoinFails, EnterFork, EnterForkFails,
         ShellExits, EnterEnds, vars, runVars, procVars, treeVars
<1>1. CASE EnterStatus(e)
  BY <1>0, <1>1 DEF EnterStatus, EnterGoesTo, StoreInv, PidInv
<1>2. ASSUME NEW n \in Namespaces, EnterJoin(e, n) PROVE JoinInv'
  <2>1. /\ target[e] \in Containers /\ enterPid[e] \in Pids
        /\ pidOf[target[e]] = enterPid[e] /\ HasNamespace(enterPid[e], n)
    BY <1>2 DEF EnterJoin, EnterGoesTo
  <2>2. HomeOf(enterPid[e]) = target[e]
    BY <2>1, HomeIsTarget
  <2> QED
    BY <1>0, <1>2, <2>1, <2>2 DEF EnterJoin, EnterGoesTo, NextStep
<1>3. ASSUME NEW n \in Namespaces, EnterJoinFails(e, n) PROVE JoinInv'
  BY <1>0, <1>3 DEF EnterJoinFails, EnterGoesTo
<1>4. CASE EnterFork(e)
  BY <1>0, <1>4 DEF EnterFork, EnterGoesTo, PidNamespaceLive
<1>5. CASE EnterForkFails(e) \/ ShellExits(e) \/ EnterEnds(e)
  BY <1>0, <1>5 DEF EnterForkFails, ShellExits, EnterEnds, EnterGoesTo
<1> QED
  BY <1>1, <1>2, <1>3, <1>4, <1>5 DEF EnterStep

\* A step of the store: with an init the shells in its pid namespace end.
LEMMA JoinStoreStep ==
  ASSUME TypeOK, StoreInv, EnterTypeOK, JoinInv, StoreStep
  PROVE  JoinInv'
<1> USE DEF TypeOK, EnterTypeOK, JoinInv, JoinedAt, Namespaces
<1>1. [Next]_vars /\ UNCHANGED <<enterPc, target, enterPid, joined>>
  BY DEF StoreStep
<1>2. \A c \in Containers : pidOf[c] \in Pids => pidOf'[c] = pidOf[c]
  BY <1>1, GoneStays DEF StoreInv, PrepInv
<1>3. ASSUME NEW e \in Visitors, shell'[e] # "none"
      PROVE  enterPc[e] \in {"waitpid", "success"} /\ target[e] \in Containers
  BY <1>3 DEF StoreStep
<1>4. ASSUME NEW e \in Visitors, shell'[e] = "alive" PROVE init'[target[e]] = "live"
  <2>1. shell[e] = "alive" /\ joined[e]["pid"] = target[e] /\ target[e] \in Containers
    BY <1>3, <1>4 DEF StoreStep
  <2> QED
    BY <1>4, <2>1 DEF StoreStep
<1> QED
  BY <1>1, <1>2, <1>3, <1>4

LEMMA EnterInductive ==
  ASSUME "reuse" \notin Faults
  PROVE  EnterSpec => [](TypeOK /\ StoreInv /\ EnterInv)
<1>1. EnterInit => TypeOK /\ StoreInv /\ EnterInv
  <2> SUFFICES ASSUME EnterInit PROVE TypeOK /\ StoreInv /\ EnterInv
    OBVIOUS
  <2>1. TypeOK /\ StoreInv
    BY StoreInvInit DEF EnterInit
  <2>2. EnterTypeOK
    BY DEF EnterInit, EnterTypeOK, Namespaces
  <2>3. OwnerInv
    BY DEF EnterInit, Init, OwnerInv
  <2>4. JoinInv
    BY DEF EnterInit, JoinInv, JoinedAt
  <2> QED
    BY <2>1, <2>2, <2>3, <2>4 DEF EnterInv
<1>2. TypeOK /\ StoreInv /\ EnterInv /\ [EnterNext]_<<vars, enterVars>>
      => (TypeOK /\ StoreInv /\ EnterInv)'
  <2> SUFFICES ASSUME TypeOK, StoreInv, EnterInv, [EnterNext]_<<vars, enterVars>>
               PROVE  (TypeOK /\ StoreInv /\ EnterInv)'
    OBVIOUS
  <2> USE DEF EnterInv
  <2>1. [Next]_vars
    BY StoreFrame
  <2>2. (TypeOK /\ StoreInv)'
    BY <2>1, StoreInvStep
  <2>3. OwnerInv'
    BY <2>1, OwnerStep
  <2>4. EnterTypeOK'
    BY EnterTypeStep
  <2>5. JoinInv'
    <3>1. CASE UNCHANGED <<vars, enterVars>>
      BY <3>1 DEF JoinInv, enterVars, vars, runVars, procVars
    <3> QED
      BY <3>1, JoinStoreStep, JoinOwnStep DEF EnterNext
  <2> QED
    BY <2>2, <2>3, <2>4, <2>5
<1> QED
  BY <1>1, <1>2, PTL DEF EnterSpec

-----------------------------------------------------------------------------
(***************************************************************************)
(* The theorems.                                                           *)
(***************************************************************************)

\* Without reuse, what a visitor has read and joined is its target's.
THEOREM EnterInvAlways ==
  ASSUME "reuse" \notin Faults
  PROVE  EnterSpec => []EnterInv
  BY EnterInductive, PTL

\* Without reuse, a shell that enter starts is in one container with all its
\* namespaces, whatever fails, dies or ends between two setns (enter.cpp:78-128).
THEOREM EntersOne ==
  ASSUME "reuse" \notin Faults
  PROVE  EnterSpec => []EntersOneContainer
<1>1. EnterInv => EntersOneContainer
  <2> SUFFICES ASSUME EnterInv, NEW e \in Visitors, shell[e] # "none"
               PROVE  joined[e] = [n \in Namespaces |-> target[e]]
    BY DEF EntersOneContainer
  <2>1. joined[e] \in [Namespaces -> Containers \cup {"host"}]
    BY DEF EnterInv, EnterTypeOK
  <2>2. \A n \in Namespaces : joined[e][n] = target[e]
    BY DEF EnterInv, JoinInv, JoinedAt
  <2> QED
    BY <2>1, <2>2
<1> QED
  BY <1>1, EnterInductive, PTL

\* Without reuse, gc does not remove a root file system under a shell
\* (enter.cpp:98-110, gc.cpp:92-99).
THEOREM ShellKeeps ==
  ASSUME "reuse" \notin Faults
  PROVE  EnterSpec => []ShellKeepsTree
<1>1. TypeOK /\ StoreInv /\ EnterInv => ShellKeepsTree
  <2> SUFFICES ASSUME StoreInv, EnterInv, NEW e \in Visitors, shell[e] = "alive"
               PROVE  /\ init[joined[e]["mnt"]] = "live"
                      /\ \A g \in Clients :
                           clientPc[g] \in Removing => cur[g] # joined[e]["mnt"]
    BY DEF ShellKeepsTree
  <2>1. joined[e]["mnt"] = target[e] /\ init[target[e]] = "live"
    BY DEF EnterInv, JoinInv, JoinedAt, Namespaces
  <2> QED
    BY <2>1 DEF StoreInv, GcSparesLive
<1> QED
  BY <1>1, EnterInductive, PTL
=============================================================================
