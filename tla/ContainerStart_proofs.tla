------------------------- MODULE ContainerStart_proofs -------------------------
(***************************************************************************)
(* Proofs about ContainerStart, for every set of modes, handlers and       *)
(* faults, every amount of output and every capacity of the pty.           *)
(***************************************************************************)
EXTENDS ContainerStart, TLAPS

USE ModesAssumption, HandlersAssumption, OutputAssumption

LEMMA StageCount == Len(Stages) = 3
  BY DEF Stages

LEMMA StageIsName == ASSUME NEW i \in 1 .. Len(Stages) PROVE Stages[i] \in StageNames
  BY StageCount DEF Stages, StageNames

LEMMA SetupCount == Len(SetupSteps) = 16
  BY DEF SetupSteps

\* What the invariants need of the types, and what the actions bound.
Typing == TypeOK /\ StageInv /\ PtyInv

LEMMA TypingInit == Init => Typing
<1> SUFFICES ASSUME Init PROVE Typing
  OBVIOUS
<1>1. TypeOK
  <2>1. ptyOk \in BOOLEAN /\ slaveOpened \in BOOLEAN /\ slaveHeld \in BOOLEAN
    BY Zenon DEF Init
  <2>2. /\ parent \in {"create"} /\ mode \in Modes
        /\ childPc \in {"none"} /\ masterHeld = {}
        /\ worker \in [StageNames -> {"none"}]
    BY DEF Init
  <2>3. /\ written \in Seq(Units) /\ taken \in 0 .. Len(written) /\ printed \subseteq 1 .. taken
        /\ left \in [StageNames -> 0 .. MaxOutput] /\ lost \in 0 .. MaxOutput
    BY DEF Init
  <2>4. applied \in 0 .. Len(SetupSteps) /\ stage \in 1 .. Len(Stages) + 1
    BY SetupCount, StageCount DEF Init
  <2> QED
    BY <2>1, <2>2, <2>3, <2>4 DEF TypeOK
<1>2. StageInv
  BY DEF Init, StageInv
<1>3. PtyInv
  BY DEF Init, PtyInv, ToWrite, Unread, StageNames
<1> QED
  BY <1>1, <1>2, <1>3 DEF Typing

\* A step that leaves the pty and the programs' wishes alone.
LEMMA PtyKept ==
  PtyInv /\ UNCHANGED <<written, taken, printed, left, lost>> => PtyInv'
  BY DEF PtyInv, ToWrite, Unread

\* One read: everything up to a NUL byte is printed.
LEMMA ReadStep == Typing /\ DumpRead => Typing'
<1> SUFFICES ASSUME Typing, DumpRead PROVE Typing'
  OBVIOUS
<1> USE DEF Typing, TypeOK, PtyInv
<1>1. PICK n \in 1 .. Unread : taken' = taken + n /\ printed' = printed \cup Shown(n)
  BY DEF DumpRead
<1>2. /\ written \in Seq(Units) /\ Len(written) \in Nat
      /\ taken \in Nat /\ n \in Nat /\ taken + n \in 0 .. Len(written)
  BY <1>1 DEF Unread
<1>3. UNCHANGED <<parentVars, ptyOk, masterHeld, slaveOpened, slaveHeld, written, childVars,
                  appVars>>
  BY DEF DumpRead
<1>4. printed' \subseteq 1 .. taken'
  <2> SUFFICES ASSUME NEW i \in printed' PROVE i \in 1 .. taken'
    OBVIOUS
  <2>1. i \in printed \/ i \in taken + 1 .. taken + n
    BY <1>1 DEF Shown, Chunk
  <2>2. printed \subseteq 1 .. taken
    OBVIOUS
  <2> QED
    BY <1>1, <1>2, <2>1, <2>2
<1>5. ASSUME NEW i \in 1 .. taken', i \notin printed',
             \A j \in 1 .. i : written[j] # "nul"
      PROVE  FALSE
  <2>1. CASE i <= taken
    <3>1. i \in 1 .. taken /\ i \notin printed
      BY <1>1, <1>2, <1>5, <2>1
    <3> QED
      BY <1>5, <3>1
  <2>2. CASE ~(i <= taken)
    <3>1. i \in Chunk(n) /\ \A j \in Chunk(n) : j <= i => j \in 1 .. i
      BY <1>1, <1>2, <1>5, <2>2 DEF Chunk
    <3>2. i \in Shown(n)
      BY <1>5, <3>1 DEF Shown
    <3> QED
      BY <1>1, <1>5, <3>2
  <2> QED
    BY <2>1, <2>2
<1>6. PtyInv'
  <2>1. Unread' <= Capacity
    BY <1>1, <1>2, <1>3 DEF Unread
  <2>2. (Len(written) + lost + ToWrite <= MaxOutput)'
    BY <1>3 DEF ToWrite, appVars
  <2>3. \A i \in 1 .. taken' : i \in printed' \/ \E j \in 1 .. i : written'[j] = "nul"
    BY <1>3, <1>5
  <2> QED
    BY <2>1, <2>2, <2>3
<1>7. TypeOK'
  BY <1>1, <1>2, <1>3, <1>4 DEF parentVars, childVars, appVars
<1>8. StageInv'
  BY <1>3 DEF StageInv, parentVars, childVars, appVars
<1> QED
  BY <1>6, <1>7, <1>8

LEMMA LeftIsNat ==
  ASSUME left \in [StageNames -> 0 .. MaxOutput]
  PROVE  /\ left["pre-start"] \in Nat /\ left["app"] \in Nat /\ left["post-stop"] \in Nat
         /\ left["pre-start"] <= MaxOutput /\ left["app"] <= MaxOutput
         /\ left["post-stop"] <= MaxOutput
  BY DEF StageNames

\* What is left to write becomes one less.
LEMMA OneLess ==
  ASSUME left \in [StageNames -> 0 .. MaxOutput], NEW s \in StageNames, left[s] > 0,
         left' = [left EXCEPT ![s] = @ - 1]
  PROVE  ToWrite' = ToWrite - 1 /\ ToWrite' \in Nat /\ ToWrite \in Nat
<1>1. CASE s = "pre-start"
  <2>1. /\ left'["pre-start"] = left["pre-start"] - 1
        /\ left'["app"] = left["app"] /\ left'["post-stop"] = left["post-stop"]
    BY <1>1 DEF StageNames
  <2> QED
    BY <1>1, <2>1, LeftIsNat DEF ToWrite
<1>2. CASE s = "app"
  <2>1. /\ left'["app"] = left["app"] - 1
        /\ left'["pre-start"] = left["pre-start"] /\ left'["post-stop"] = left["post-stop"]
    BY <1>2 DEF StageNames
  <2> QED
    BY <1>2, <2>1, LeftIsNat DEF ToWrite
<1>3. CASE s = "post-stop"
  <2>1. /\ left'["post-stop"] = left["post-stop"] - 1
        /\ left'["app"] = left["app"] /\ left'["pre-start"] = left["pre-start"]
    BY <1>3 DEF StageNames
  <2> QED
    BY <1>3, <2>1, LeftIsNat DEF ToWrite
<1> QED
  BY <1>1, <1>2, <1>3 DEF StageNames

\* One write of any of the programs.
LEMMA WriteStep == ASSUME NEW s \in StageNames PROVE Typing /\ Writes(s) => Typing'
<1> SUFFICES ASSUME Typing, Writes(s) PROVE Typing'
  OBVIOUS
<1> USE DEF Typing, TypeOK, PtyInv
<1>1. /\ left' = [left EXCEPT ![s] = @ - 1] /\ left[s] > 0
      /\ UNCHANGED <<parentVars, ptyOk, masterHeld, slaveOpened, slaveHeld, taken, printed,
                     childVars, worker>>
      /\ \/ (\E u \in Units : written' = Append(written, u)) /\ lost' = lost /\ Unread < Capacity
         \/ lost' = lost + 1 /\ written' = written
         \/ lost' = lost /\ written' = written
  BY DEF Writes
<1>2. /\ left' \in [StageNames -> 0 .. MaxOutput] /\ ToWrite' = ToWrite - 1
      /\ ToWrite \in Nat /\ ToWrite' \in Nat
  <2>1. left' \in [StageNames -> 0 .. MaxOutput]
    BY <1>1
  <2> QED
    BY <1>1, <2>1, OneLess
<1>3. /\ written' \in Seq(Units) /\ Len(written) \in Nat
      /\ Len(written') + lost' <= Len(written) + lost + 1 /\ Len(written') >= Len(written)
      /\ Len(written') \in Nat /\ lost' \in Nat
      /\ \A j \in 1 .. Len(written) : written'[j] = written[j]
  <2>1. written \in Seq(Units) /\ Len(written) \in Nat /\ lost \in Nat
    OBVIOUS
  <2>2. CASE written' = written
    BY <1>1, <2>1, <2>2
  <2>3. CASE lost' = lost /\ \E u \in Units : written' = Append(written, u)
    <3>1. PICK u \in Units : written' = Append(written, u)
      BY <2>3
    <3> QED
      BY <2>1, <2>3, <3>1
  <2> QED
    BY <1>1, <2>2, <2>3
<1>4. (Len(written) + lost + ToWrite <= MaxOutput)'
  BY <1>2, <1>3
<1>5. Unread' <= Capacity
  BY <1>1, <1>3 DEF Unread
<1>6. \A i \in 1 .. taken' : i \in printed' \/ \E j \in 1 .. i : written'[j] = "nul"
  <2> TAKE i \in 1 .. taken'
  <2>1. i \in 1 .. taken /\ \A j \in 1 .. i : written'[j] = written[j]
    BY <1>1, <1>3
  <2> QED
    BY <1>1, <2>1
<1>7. TypeOK'
  <2>1. lost' \in 0 .. MaxOutput
    BY <1>2, <1>3, <1>4
  <2>2. taken' \in 0 .. Len(written') /\ printed' \subseteq 1 .. taken'
    BY <1>1, <1>3
  <2> QED
    BY <1>1, <1>2, <1>3, <2>1, <2>2 DEF parentVars, childVars
<1>8. StageInv'
  BY <1>1 DEF StageInv, parentVars, childVars
<1> QED
  BY <1>4, <1>5, <1>6, <1>7, <1>8

LEMMA TypingStep == Typing /\ [Next]_vars => Typing'
<1> SUFFICES ASSUME Typing, [Next]_vars PROVE Typing'
  OBVIOUS
<1> USE SetupCount, StageCount
    DEF Typing, TypeOK, StageInv, ParentEnded, parentVars, ptyVars, childVars,
        appVars, vars
<1>1. CASE CreatePty
  BY <1>1, PtyKept DEF CreatePty
<1>12. CASE Clone
  <2>1. masterHeld' \subseteq {"parent", "child"}
    BY <1>12, Zenon DEF Clone
  <2>2. /\ parent' = "record" /\ childPc' = "closemaster" /\ childPc = "none"
        /\ UNCHANGED <<mode, ptyOk, slaveOpened, slaveHeld, written, taken, printed, applied,
                       stage, appVars>>
    BY <1>12 DEF Clone
  <2> QED
    BY <2>1, <2>2, PtyKept
<1>13. CASE Record
  BY <1>13, PtyKept DEF Record, ParentExits
<1>14. CASE CloneFails \/ Await \/ DumpEnds \/ Interrupt
  BY <1>14, PtyKept DEF CloneFails, Await, DumpEnds, Interrupt, ParentExits
<1>2. CASE DumpRead
  BY <1>2, ReadStep
<1>3. CASE ContainerEnds /\ childPc # "none"
  BY <1>3, PtyKept DEF ContainerEnds
<1>4. CASE CloseMaster \/ OpenSlave \/ OpenGarbage
  BY <1>4, PtyKept DEF CloseMaster, OpenSlave, OpenGarbage
<1>5. CASE Setup
  BY <1>5, PtyKept DEF Setup
<1>6. CASE ForkStage
  BY <1>6, StageIsName, PtyKept DEF ForkStage
<1>7. CASE PassStage
  BY <1>7, PtyKept DEF PassStage
<1>8. CASE WaitStage
  BY <1>8, PtyKept DEF WaitStage
<1>9. ASSUME NEW s \in StageNames, Exec(s) \/ Exit(s) PROVE Typing'
  BY <1>9, PtyKept DEF Exec, Exit
<1>10. ASSUME NEW s \in StageNames, Writes(s) PROVE Typing'
  BY <1>10, WriteStep
<1>11. CASE UNCHANGED vars
  BY <1>11, PtyKept
<1> QED
  BY <1>1, <1>2, <1>3, <1>4, <1>5, <1>6, <1>7, <1>8, <1>9, <1>10, <1>11, <1>12, <1>13, <1>14
  DEF Next, ParentStep, ChildStep, WorkerStep, OpenSlaveFails, SetupFails, InitExits,
      InitKilled, Over

LEMMA TypingAlways == Spec => []Typing
  BY TypingInit, TypingStep, PTL DEF Spec

\* What the terminal does, and what it says of nscn's end.
LEMMA TerminalInit == Init => TerminalInv
  BY DEF Init, TerminalInv

LEMMA TerminalStep == Typing /\ TerminalInv /\ [Next]_vars => TerminalInv'
<1> SUFFICES ASSUME Typing, TerminalInv, [Next]_vars PROVE TerminalInv'
  OBVIOUS
<1> USE DEF Typing, TypeOK, StageInv, TerminalInv, ParentEnded, parentVars, ptyVars, childVars,
        appVars, vars
<1>1. CASE CreatePty
  <2>1. /\ parent = "create" /\ parent' = "clone" /\ childPc = "none"
    BY <1>1 DEF CreatePty
  <2>2. UNCHANGED <<mode, slaveOpened, slaveHeld, childPc>>
    BY <1>1 DEF CreatePty
  <2>4. CASE UNCHANGED <<ptyOk, masterHeld>>
    BY <2>1, <2>2, <2>4
  <2>5. CASE ptyOk' /\ "parent" \in masterHeld'
    BY <2>1, <2>2, <2>5
  <2> QED
    BY <1>1, <2>4, <2>5 DEF CreatePty
<1>2. CASE Clone
  BY <1>2 DEF Clone
<1>3. CASE CloneFails \/ Await \/ Interrupt
  BY <1>3 DEF CloneFails, Await, Interrupt, ParentExits
<1>12. CASE Record
  BY <1>12 DEF Record, ParentExits
<1>4. CASE DumpRead
  BY <1>4 DEF DumpRead, Unread
<1>5. CASE DumpEnds
  BY <1>5 DEF DumpEnds, ParentExits, Unread
<1>6. CASE ContainerEnds /\ childPc # "none"
  BY <1>6 DEF ContainerEnds, Unread
<1>7. CASE CloseMaster \/ OpenSlave \/ OpenGarbage
  BY <1>7 DEF CloseMaster, OpenSlave, OpenGarbage
<1>8. CASE Setup \/ ForkStage \/ PassStage \/ WaitStage
  BY <1>8 DEF Setup, ForkStage, PassStage, WaitStage
<1>9. ASSUME NEW s \in StageNames, Exec(s) \/ Exit(s) PROVE TerminalInv'
  BY <1>9 DEF Exec, Exit
<1>10. ASSUME NEW s \in StageNames, Writes(s) PROVE TerminalInv'
  <2>1. childPc = "waitpid"
    BY <1>10 DEF Writes
  <2>2. UNCHANGED <<parent, mode, ptyOk, masterHeld, childPc, slaveOpened, slaveHeld>>
    BY <1>10 DEF Writes
  <2>3. ~(parent = "done" /\ mode = "dump" /\ ptyOk)
    BY <2>1
  <2> QED
    BY <2>1, <2>2, <2>3
<1>11. CASE UNCHANGED vars
  BY <1>11 DEF Unread
<1> QED
  BY <1>1, <1>2, <1>3, <1>4, <1>5, <1>6, <1>7, <1>8, <1>9, <1>10, <1>11, <1>12
  DEF Next, ParentStep, ChildStep, WorkerStep, OpenSlaveFails, SetupFails, InitExits,
      InitKilled, Over

\* The app can only lose a write when nobody holds the master, and then nscn
\* has been done or killed; done it was not asked to stay.
LEMMA UnattendedStep ==
  Typing /\ TerminalInv /\ LostUnattended /\ [Next]_vars => LostUnattended'
<1> SUFFICES ASSUME Typing, TerminalInv, LostUnattended, [Next]_vars PROVE LostUnattended'
  OBVIOUS
<1> USE DEF Typing, TypeOK, StageInv, TerminalInv, LostUnattended, ParentEnded, parentVars,
        ptyVars, childVars, appVars, vars
<1>1. ASSUME NEW s \in StageNames, Writes(s) PROVE LostUnattended'
  <2>1. CASE lost' = lost
    BY <1>1, <2>1 DEF Writes
  <2>2. CASE slaveHeld /\ masterHeld = {}
    <3>1. childPc = "waitpid" /\ ptyOk
      BY <1>1, <2>2 DEF Writes
    <3>2. parent \in {"done", "killed"}
      BY <2>2, <3>1
    <3>3. mode \in {"detached", "wait", "dump"}
      BY ModesAssumption
    <3>4. mode = "detached" \/ parent = "killed"
      BY <3>1, <3>2, <3>3
    <3> QED
      BY <1>1, <3>4 DEF Writes
  <2> QED
    BY <1>1, <2>1, <2>2 DEF Writes
<1>2. CASE UNCHANGED <<lost, parent, mode>>
  BY <1>2
<1>3. CASE UNCHANGED <<lost, mode>> /\ parent # "killed"
  BY <1>3
<1>4. CASE ParentStep \/ Interrupt
  <2>1. UNCHANGED <<lost, mode>> /\ parent # "killed"
    BY <1>4
    DEF ParentStep, CreatePty, Clone, CloneFails, Record, Await, DumpRead, DumpEnds,
        Interrupt, ParentExits
  <2> QED
    BY <1>3, <2>1
<1>5. CASE ChildStep \/ InitKilled
  <2>1. UNCHANGED <<lost, parent, mode>>
    BY <1>5
    DEF ChildStep, CloseMaster, OpenSlave, OpenGarbage, OpenSlaveFails, Setup, SetupFails,
        ForkStage, PassStage, WaitStage, InitExits, InitKilled, ContainerEnds
  <2> QED
    BY <1>2, <2>1
<1>6. ASSUME NEW s \in StageNames, Exec(s) \/ Exit(s) PROVE LostUnattended'
  BY <1>6 DEF Exec, Exit
<1>7. CASE Over \/ UNCHANGED vars
  BY <1>7 DEF Over
<1> QED
  BY <1>1, <1>4, <1>5, <1>6, <1>7 DEF Next, WorkerStep

LEMMA UnattendedInit == Init => LostUnattended
  BY DEF Init, LostUnattended

-----------------------------------------------------------------------------
(***************************************************************************)
(* The theorems.                                                           *)
(***************************************************************************)

\* No program of the image runs before init has taken every step of the
\* preparation, whatever fails (linux.cpp:221-355).
THEOREM ConfinedAlways == Spec => []Confined
<1>1. Typing => Confined
  BY DEF Typing, StageInv, Confined
<1> QED
  BY <1>1, TypingAlways, PTL

\* pre-start, the app and post-stop never overlap, whatever fails
\* (linux.cpp:398-441).
THEOREM OneAtATimeAlways == Spec => []OneAtATime
<1>1. Typing => OneAtATime
  BY DEF Typing, StageInv, OneAtATime
<1> QED
  BY <1>1, TypingAlways, PTL

\* What the pty holds, what was printed of what was read, and who holds its two
\* ends, whatever fails: no unit is read that is neither printed nor behind a
\* NUL byte (run.cpp:61-72, linux.cpp:221-238).
THEOREM StartInvAlways == Spec => []StartInv
<1>1. Typing /\ TerminalInv => StartInv
  BY DEF Typing, StartInv
<1> QED
  BY <1>1, TerminalInit, TerminalStep, TypingAlways, PTL DEF Spec

\* -wait returns after the end of the container, and so does -stdout with a
\* pty to read; without one -stdout does not wait (run.cpp:162-167).
THEOREM WaitReallyWaits == Spec => []WaitImplied
<1>1. StartInv => WaitImplied
  BY DEF StartInv, TerminalInv, WaitImplied
<1> QED
  BY <1>1, StartInvAlways, PTL

\* With a pty, -stdout has printed all that the container's programs wrote when
\* it returns, but for what a NUL byte hides (run.cpp:61-72).
THEOREM OutputAlwaysComplete == Spec => []OutputComplete
<1>1. Typing /\ TerminalInv => OutputComplete
  <2> SUFFICES ASSUME Typing, TerminalInv, parent = "done" /\ mode = "dump" /\ ptyOk
               PROVE  \A i \in 1 .. Len(written) :
                        i \in printed \/ \E j \in 1 .. i : written[j] = "nul"
    BY DEF OutputComplete
  <2>1. taken = Len(written)
    BY DEF Typing, TypeOK, TerminalInv, Unread
  <2> QED
    BY <2>1 DEF Typing, PtyInv
<1> QED
  BY <1>1, TerminalInit, TerminalStep, TypingAlways, PTL DEF Spec

\* As long as nscn stays, by -wait or -stdout, no program of the container loses
\* a write (run.cpp:162-167).
THEOREM NoWriteLostAttended == Spec => []LostUnattended
  BY UnattendedInit, UnattendedStep, TerminalInit, TerminalStep, TypingAlways, PTL DEF Spec
=============================================================================
