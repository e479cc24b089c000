---------------------------- MODULE ContainerStart ----------------------------
(***************************************************************************)
(* One `nscn run` from create_pty to its exit, next to the container's     *)
(* init, which clone made from it and which goes on in the same function   *)
(* (Container::Impl::start), the processes init forks, and the             *)
(* pseudo-terminal between them.                                           *)
(*                                                                         *)
(* The pty is external: its master answers a read with an error once every *)
(* slave that was opened is closed, but blocks as long as none ever was;   *)
(* its slave cannot be opened after the last master is closed; a write to  *)
(* it blocks while Capacity units are unread and fails after a hang-up.    *)
(***************************************************************************)
EXTENDS Naturals, Sequences

CONSTANTS
  Modes,      \* how run may be called: "detached", "wait" (-wait), "dump" (-stdout)
  Handlers,   \* the event handlers in the manifest: "pre-start", "post-stop"
  MaxOutput,  \* bound on what the container's programs write to their terminal
  Capacity,   \* what the pty holds unread
  Faults      \* "pty" (posix_openpt), "clone", "setup", "fork", "exec": that may fail;
              \* "kill": init may be killed; "interrupt": nscn may be

ASSUME ModesAssumption == Modes \subseteq {"detached", "wait", "dump"}
ASSUME HandlersAssumption == Handlers \subseteq {"pre-start", "post-stop"}
ASSUME OutputAssumption == MaxOutput \in Nat /\ Capacity \in Nat \ {0}

VARIABLES
  parent,       \* where nscn is
  mode,         \* how it was called
  ptyOk,        \* did posix_openpt work?
  masterHeld,   \* who of "parent" and "child" has the master open
  slaveOpened,  \* has the container opened its slave?
  slaveHeld,    \* does a process of the container still have it open?
  written,      \* the units that went into the pty, in order: text or a NUL byte
  taken,        \* how many of them nscn has read; the pty holds the others
  printed,      \* the positions in written of those that reached nscn's stdout
  childPc,      \* where the container's init is
  applied,      \* how many of SetupSteps init has taken
  stage,        \* which of Stages it is at
  worker,       \* worker[s]: the process forked for stage s
  left,         \* left[s]: how much the program of stage s is still going to write
  lost          \* how many writes of the programs failed

parentVars == <<parent, mode>>
ptyVars    == <<ptyOk, masterHeld, slaveOpened, slaveHeld, written, taken, printed>>
childVars  == <<childPc, applied, stage>>
appVars    == <<worker, left, lost>>
vars       == <<parentVars, ptyVars, childVars, appVars>>

\* What start does between opening the terminal and the first fork, each
\* step returning from start when it fails.  (TIOCSCTTY, the mkdirs and the
\* symlinks are not looked at.)
SetupSteps == <<"setsid", "slave mounts", "bind rootfs", "proc", "proc/sys",
                "proc/sys read-only", "sys", "dev", "dev/pts", "chdir rootfs",
                "move mount", "chroot", "chdir /", "hostname", "setgid", "setuid">>

Stages == <<"pre-start", "app", "post-stop">>
StageNames == {"pre-start", "app", "post-stop"}

\* A unit of output: what is printed as text, or a byte that ends a C string.
Units == {"text", "nul"}
Unread == Len(written) - taken
ToWrite == left["pre-start"] + left["app"] + left["post-stop"]

ParentEnded == {"done", "failed", "killed"}

TypeOK ==
  /\ parent \in {"create", "clone", "record", "wait", "dump"} \cup ParentEnded
  /\ mode \in Modes
  /\ ptyOk \in BOOLEAN
  /\ masterHeld \subseteq {"parent", "child"}
  /\ slaveOpened \in BOOLEAN /\ slaveHeld \in BOOLEAN
  /\ written \in Seq(Units)
  /\ taken \in 0 .. Len(written)
  /\ printed \subseteq 1 .. taken
  /\ childPc \in {"none", "closemaster", "openslave", "setup", "fork", "waitpid", "exited"}
  /\ applied \in 0 .. Len(SetupSteps)
  /\ stage \in 1 .. Len(Stages) + 1
  /\ worker \in [StageNames -> {"none", "forked", "running", "ended"}]
  /\ left \in [StageNames -> 0 .. MaxOutput]
  /\ lost \in 0 .. MaxOutput

Init ==
  /\ parent = "create"
  /\ mode \in Modes
  /\ ptyOk = FALSE
  /\ masterHeld = {}
  /\ slaveOpened = FALSE /\ slaveHeld = FALSE
  /\ written = <<>> /\ taken = 0 /\ printed = {}
  /\ childPc = "none" /\ applied = 0 /\ stage = 1
  /\ worker = [s \in StageNames |-> "none"]
  /\ left \in [StageNames -> 0 .. MaxOutput] /\ ToWrite <= MaxOutput
  /\ lost = 0

-----------------------------------------------------------------------------
(***************************************************************************)
(* nscn: perform_run from create_pty on.                                   *)
(***************************************************************************)

\* create_pty drops the Errnos it makes and reports Success in any case.  A
\* slave that grantpt or unlockpt left locked is one that OpenSlaveFails.
CreatePty ==
  /\ parent = "create"
  /\ parent' = "clone"
  /\ \/ ptyOk' = TRUE /\ masterHeld' = {"parent"}
     \/ "pty" \in Faults /\ UNCHANGED <<ptyOk, masterHeld>>
  /\ UNCHANGED <<mode, slaveOpened, slaveHeld, written, taken, printed, childVars, appVars>>

Clone ==
  /\ parent = "clone"
  /\ parent' = "record"
  /\ childPc' = "closemaster"
  /\ masterHeld' = masterHeld \cup (IF ptyOk THEN {"child"} ELSE {})
  /\ UNCHANGED <<mode, ptyOk, slaveOpened, slaveHeld, written, taken, printed, applied, stage, appVars>>

\* nscn exits: its descriptors are closed.
ParentExits(how) ==
  /\ parent' = how
  /\ masterHeld' = masterHeld \ {"parent"}

CloneFails ==
  /\ "clone" \in Faults
  /\ parent = "clone"
  /\ ParentExits("failed")
  /\ UNCHANGED <<mode, ptyOk, slaveOpened, slaveHeld, written, taken, printed, childVars, appVars>>

\* Mutant: nscn closes its end of the terminal before it waits.
RecordDropsMaster ==
  /\ parent = "record"
  /\ IF mode = "detached" THEN parent' = "done" ELSE parent' = mode
  /\ masterHeld' = masterHeld \ {"parent"}
  /\ UNCHANGED <<mode, ptyOk, slaveOpened, slaveHeld, written, taken, printed, childVars, appVars>>

\* The info file is written; nscn then follows the container or leaves it.
Record ==
  /\ parent = "record"
  /\ IF mode = "detached"
       THEN ParentExits("done")
       ELSE parent' = mode /\ UNCHANGED masterHeld
  /\ UNCHANGED <<mode, ptyOk, slaveOpened, slaveHeld, written, taken, printed, childVars, appVars>>

\* Mutant: waitpid with WNOHANG.
AwaitNoHang ==
  /\ parent = "wait"
  /\ ParentExits("done")
  /\ UNCHANGED <<mode, ptyOk, slaveOpened, slaveHeld, written, taken, printed, childVars, appVars>>

Await ==
  /\ parent = "wait"
  /\ childPc = "exited"
  /\ ParentExits("done")
  /\ UNCHANGED <<mode, ptyOk, slaveOpened, slaveHeld, written, taken, printed, childVars, appVars>>

\* The positions of the next n units, and those of them that a print of the
\* buffer as a C string shows: what precedes the first NUL byte.
Chunk(n) == taken + 1 .. taken + n
Shown(n) == {i \in Chunk(n) : \A j \in Chunk(n) : j <= i => written[j] # "nul"}

\* Mutant: the terminating NUL byte is put over the last unit read.
DumpReadShort ==
  /\ parent = "dump"
  /\ \E n \in 1 .. Unread :
       /\ taken' = taken + n
       /\ printed' = printed \cup (Shown(n) \ {taken + n})
  /\ UNCHANGED <<parentVars, ptyOk, masterHeld, slaveOpened, slaveHeld, written, childVars,
                 appVars>>

\* read gives any part of what the pty holds; what follows a NUL byte in it is
\* dropped with the buffer.
DumpRead ==
  /\ parent = "dump"
  /\ \E n \in 1 .. Unread :
       /\ taken' = taken + n
       /\ printed' = printed \cup Shown(n)
  /\ UNCHANGED <<parentVars, ptyOk, masterHeld, slaveOpened, slaveHeld, written, childVars,
                 appVars>>

\* Mutant: nscn stops as soon as the container is over.
DumpEndsEarly ==
  /\ parent = "dump"
  /\ ~ptyOk \/ childPc = "exited"
  /\ ParentExits("done")
  /\ UNCHANGED <<mode, ptyOk, slaveOpened, slaveHeld, written, taken, printed, childVars, appVars>>

\* Mutant: an error without a master is retried.
DumpEndsRetries ==
  /\ parent = "dump"
  /\ Unread = 0 /\ slaveOpened /\ ~slaveHeld
  /\ ParentExits("done")
  /\ UNCHANGED <<mode, ptyOk, slaveOpened, slaveHeld, written, taken, printed, childVars, appVars>>

\* read returns -1: there is no master, or the slave came and went.
DumpEnds ==
  /\ parent = "dump"
  /\ ~ptyOk \/ (Unread = 0 /\ slaveOpened /\ ~slaveHeld)
  /\ ParentExits("done")
  /\ UNCHANGED <<mode, ptyOk, slaveOpened, slaveHeld, written, taken, printed, childVars, appVars>>

Interrupt ==
  /\ "interrupt" \in Faults
  /\ parent \in {"wait", "dump"}
  /\ ParentExits("killed")
  /\ UNCHANGED <<mode, ptyOk, slaveOpened, slaveHeld, written, taken, printed, childVars, appVars>>

-----------------------------------------------------------------------------
(***************************************************************************)
(* init: Container::Impl::start after clone returned 0.                    *)
(***************************************************************************)

\* init returns from start, or is killed, and ends the pid namespace.
ContainerEnds ==
  /\ childPc' = "exited"
  /\ masterHeld' = masterHeld \ {"child"}
  /\ slaveHeld' = FALSE
  /\ worker' = [s \in StageNames |->
                  IF worker[s] = "none" THEN "none" ELSE "ended"]
  /\ UNCHANGED <<parentVars, ptyOk, slaveOpened, written, taken, printed, applied, stage,
                 left, lost>>

CloseMaster ==
  /\ childPc = "closemaster"
  /\ childPc' = "openslave"
  /\ masterHeld' = masterHeld \ {"child"}
  /\ UNCHANGED <<parentVars, ptyOk, slaveOpened, slaveHeld, written, taken, printed, applied,
                 stage, appVars>>

OpenSlave ==
  /\ childPc = "openslave"
  /\ ptyOk /\ masterHeld # {}
  /\ childPc' = "setup"
  /\ slaveOpened' = TRUE /\ slaveHeld' = TRUE
  /\ UNCHANGED <<parentVars, ptyOk, masterHeld, written, taken, printed, applied, stage, appVars>>

\* Without a pty the name of the slave is whatever its buffer held: it may
\* even be the name of something that opens.
OpenGarbage ==
  /\ childPc = "openslave"
  /\ ~ptyOk
  /\ childPc' = "setup"
  /\ UNCHANGED <<parentVars, ptyVars, applied, stage, appVars>>

OpenSlaveFails ==
  /\ childPc = "openslave"
  /\ ~ptyOk \/ masterHeld = {} \/ "setup" \in Faults
  /\ ContainerEnds

Setup ==
  /\ childPc = "setup"
  /\ applied < Len(SetupSteps)
  /\ applied' = applied + 1
  /\ childPc' = IF applied' = Len(SetupSteps) THEN "fork" ELSE "setup"
  /\ UNCHANGED <<parentVars, ptyVars, stage, appVars>>

\* Mutant: a step that fails is passed over like the mkdirs.
SetupFailsOn ==
  /\ "setup" \in Faults
  /\ childPc = "setup"
  /\ childPc' = "fork"
  /\ UNCHANGED <<parentVars, ptyVars, applied, stage, appVars>>

SetupFails ==
  /\ "setup" \in Faults
  /\ childPc = "setup"
  /\ ContainerEnds

Present(s) == s = "app" \/ s \in Handlers

ForkStage ==
  /\ childPc = "fork"
  /\ stage \in 1 .. Len(Stages)
  /\ Present(Stages[stage])
  /\ worker' = [worker EXCEPT ![Stages[stage]] = "forked"]
  /\ childPc' = "waitpid"
  /\ UNCHANGED <<parentVars, ptyVars, applied, stage, left, lost>>

\* fork's -1 is taken for a pid: waitpid(-1) finds no child and init goes on
\* as if the stage had run.  A handler that is not there is passed over.
PassStage ==
  /\ childPc = "fork"
  /\ stage \in 1 .. Len(Stages)
  /\ ~Present(Stages[stage]) \/ "fork" \in Faults
  /\ stage' = stage + 1
  /\ UNCHANGED <<parentVars, ptyVars, childPc, applied, appVars>>

\* Mutant: the next stage does not wait for this one.
WaitStageNoHang ==
  /\ childPc = "waitpid"
  /\ stage' = stage + 1
  /\ childPc' = "fork"
  /\ UNCHANGED <<parentVars, ptyVars, applied, appVars>>

WaitStage ==
  /\ childPc = "waitpid"
  /\ worker[Stages[stage]] = "ended"
  /\ stage' = stage + 1
  /\ childPc' = "fork"
  /\ UNCHANGED <<parentVars, ptyVars, applied, appVars>>

\* start returns Success("child"), perform_run sees that it is not the parent.
InitExits ==
  /\ childPc = "fork"
  /\ stage > Len(Stages)
  /\ ContainerEnds

InitKilled ==
  /\ "kill" \in Faults
  /\ childPc \notin {"none", "exited"}
  /\ ContainerEnds

-----------------------------------------------------------------------------
(***************************************************************************)
(* The forked processes.                                                   *)
(***************************************************************************)

\* execvpe; when it fails the child returns from start and perform_run with
\* an error and so exits.
Exec(s) ==
  /\ worker[s] = "forked"
  /\ \/ worker' = [worker EXCEPT ![s] = "running"]
     \/ "exec" \in Faults /\ worker' = [worker EXCEPT ![s] = "ended"]
  /\ UNCHANGED <<parentVars, ptyVars, childVars, left, lost>>

\* The app and the handlers have the terminal that init opened.
Writes(s) ==
  /\ worker[s] = "running"
  /\ left[s] > 0
  /\ left' = [left EXCEPT ![s] = @ - 1]
  /\ \/ /\ slaveHeld /\ masterHeld # {} /\ Unread < Capacity
        /\ \E u \in Units : written' = Append(written, u)
        /\ UNCHANGED lost
     \/ /\ slaveHeld /\ masterHeld = {}
        /\ lost' = lost + 1
        /\ UNCHANGED written
     \/ ~slaveHeld /\ UNCHANGED <<written, lost>>
  /\ UNCHANGED <<parentVars, ptyOk, masterHeld, slaveOpened, slaveHeld, taken, printed,
                 childVars, worker>>

Exit(s) ==
  /\ worker[s] = "running"
  /\ left[s] = 0
  /\ worker' = [worker EXCEPT ![s] = "ended"]
  /\ UNCHANGED <<parentVars, ptyVars, childVars, left, lost>>

-----------------------------------------------------------------------------
ParentStep == CreatePty \/ Clone \/ CloneFails \/ Record \/ Await \/ DumpRead \/ DumpEnds
ChildStep ==
  \/ CloseMaster \/ OpenSlave \/ OpenGarbage \/ OpenSlaveFails \/ Setup \/ SetupFails
  \/ ForkStage \/ PassStage \/ WaitStage \/ InitExits
WorkerStep == \E s \in StageNames : Exec(s) \/ Writes(s) \/ Exit(s)

\* Everybody is finished: nothing more to do, and no deadlock.
Over ==
  /\ parent \in ParentEnded
  /\ childPc \in {"none", "exited"}
  /\ UNCHANGED vars

Next == ParentStep \/ Interrupt \/ ChildStep \/ InitKilled \/ WorkerStep \/ Over

\* nscn, init and the forked processes are processes of their own, and each
\* is scheduled as long as it can go on; a program of the container ends when
\* it has written what it wants to write.
Fairness == WF_vars(ParentStep) /\ WF_vars(ChildStep) /\ WF_vars(WorkerStep)

Spec == Init /\ [][Next]_vars /\ Fairness

-----------------------------------------------------------------------------
(***************************************************************************)
(* Properties.                                                             *)
(***************************************************************************)

\* No program of the image runs before every step that shuts it in has been
\* taken, chroot, the read-only /proc/sys and setuid among them, wherever
\* the preparation failed (linux.cpp:221-355).
Confined ==
  \A s \in StageNames : worker[s] = "running" => applied = Len(SetupSteps)

\* pre-start is over before the app starts and the app before post-stop:
\* never do two of them run at once (linux.cpp:398-441).
OneAtATime ==
  \A s, t \in StageNames :
    worker[s] \in {"forked", "running"} /\ worker[t] \in {"forked", "running"} => s = t

\* run -wait returns when the container has ended, not before, and so does
\* run -stdout when it has a pty, although it does not await init but reads to
\* the end of the terminal (run.cpp:162-167).
WaitImplied ==
  parent = "done" /\ (mode = "wait" \/ (mode = "dump" /\ ptyOk)) => childPc = "exited"

\* When run -stdout returns it has printed everything the container's programs
\* have written, but for what a NUL byte before it may have hidden
\* (run.cpp:61-72).
OutputComplete ==
  parent = "done" /\ mode = "dump" /\ ptyOk =>
    \A i \in 1 .. Len(written) : i \in printed \/ \E j \in 1 .. i : written[j] = "nul"

\* A write to the terminal fails only when nscn was told not to stay, or was
\* terminated: as long as it waits or copies it keeps the terminal usable, and
\* it does so to the end of the container (run.cpp:162-167).
LostUnattended == lost > 0 => mode = "detached" \/ parent = "killed"

\* "Terminating nscn when waiting (Ctrl-C with -wait or -stdout) does not
\* affect the container" (run.h:37): its programs can still write.
InterruptHarmless == parent = "killed" => lost = 0

\* "-stdout - Dump container's pseudo-terminal to STDOUT (implies -wait)"
\* (run.h:36): nscn stays to the end of the container, pty or none.
StdoutImpliesWait == parent = "done" /\ mode = "dump" => childPc = "exited"

\* A container that nscn reported as started and that is over has run its
\* app (run.cpp:144-152).
AppRuns == parent = "done" /\ childPc = "exited" => worker["app"] # "none"

\* The strengthening behind Confined and OneAtATime.  Once init forks it has
\* taken every step; a forked process is the one init is waiting for.
StageInv ==
  /\ childPc \in {"fork", "waitpid"} => applied = Len(SetupSteps)
  /\ childPc = "waitpid" => stage \in 1 .. Len(Stages)
  /\ parent \in {"create", "clone", "failed"} => childPc = "none"
  /\ parent \in {"wait", "dump"} => mode = parent
  /\ \A s \in StageNames : worker[s] \in {"forked", "running"} =>
       childPc = "waitpid" /\ s = Stages[stage]

\* The pty never holds more than its capacity, the programs write no more than
\* they want to, and of what was read everything was printed that no NUL byte
\* has hidden.
PtyInv ==
  /\ Unread <= Capacity
  /\ Len(written) + lost + ToWrite <= MaxOutput
  /\ \A i \in 1 .. taken : i \in printed \/ \E j \in 1 .. i : written[j] = "nul"

\* With a pty, nscn holds the master until it is done, and the slave is held
\* from its opening to the end of the container: behind WaitImplied,
\* OutputComplete and LostUnattended.
TerminalInv ==
  /\ parent = "create" => ~ptyOk
  /\ parent = "done" /\ mode = "wait" => childPc = "exited"
  /\ slaveOpened \/ slaveHeld => ptyOk
  /\ slaveOpened /\ ~slaveHeld => childPc = "exited"
  /\ ptyOk =>
       /\ childPc \in {"setup", "fork", "waitpid"} => slaveOpened /\ slaveHeld
       /\ parent \in {"clone", "record", "wait", "dump"} => "parent" \in masterHeld
       /\ parent = "done" /\ mode = "dump" => childPc = "exited" /\ Unread = 0

\* The three together, preserved by every step.
StartInv == TypeOK /\ StageInv /\ PtyInv /\ TerminalInv

\* With -wait nobody reads the terminal, and at some point the app, or the
\* handler before or after it, blocks in a write.
TerminalFull ==
  /\ mode = "wait"
  /\ Unread = Capacity
  /\ \E s \in StageNames : worker[s] = "running" /\ left[s] > 0

\* With -stdout nscn reads a master whose slave was never opened and now will
\* never be.
TerminalUnopened ==
  /\ mode = "dump"
  /\ ptyOk
  /\ childPc = "exited"
  /\ ~slaveOpened

\* Whatever fails, nscn comes to an end, but for two ways in which it and the
\* container wait for each other, and these are the only ones
\* (run.cpp:162-167).
RunEnds == <>(parent \in ParentEnded \/ TerminalFull \/ TerminalUnopened)
=============================================================================
