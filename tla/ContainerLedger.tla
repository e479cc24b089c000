---------------------------- MODULE ContainerLedger ----------------------------
(***************************************************************************)
(* What nosecone promises about a container, with no directory, pid or     *)
(* process in sight: the container is prepared, runs, is spent and is      *)
(* cleared away, in this order and never back, and what the user is told   *)
(* about it is never ahead of the facts.  ContainerStore implements it.    *)
(***************************************************************************)
CONSTANT Containers

VARIABLES
  life,   \* life[c]: "absent", "prepared", "running", "spent" or "cleared"
  told    \* told[c]: what a command last printed about c

ledgerVars == <<life, told>>

LedgerInit ==
  /\ life = [c \in Containers |-> "absent"]
  /\ told = [c \in Containers |-> "none"]

Moves(c, from, to) ==
  /\ life[c] \in from
  /\ life' = [life EXCEPT ![c] = to]
  /\ UNCHANGED told

Prepare(c) == Moves(c, {"absent"}, "prepared")

\* A container is started even when its directory could not be made.
Begin(c) == Moves(c, {"absent", "prepared"}, "running")

End(c) == Moves(c, {"running"}, "spent")

\* The end of a container that never had a directory.
EndBare(c) == Moves(c, {"running"}, "cleared")

Clear(c) ==
  /\ life[c] = "spent"
  /\ life' = [life EXCEPT ![c] = "cleared"]
  /\ told' = [told EXCEPT ![c] = "expunged"]

\* Nobody is told that a container that may still run is over.  The opposite
\* is not promised: a spent container may be called RUNNING.
Tell(c) ==
  /\ life[c] \in {"running", "spent", "cleared"}
  /\ \E word \in {"RUNNING"} \cup
                 (IF life[c] = "running" THEN {} ELSE {"EXITED", "expunged"}) :
       told' = [told EXCEPT ![c] = word]
  /\ UNCHANGED life

LedgerNext ==
  \E c \in Containers :
    Prepare(c) \/ Begin(c) \/ End(c) \/ EndBare(c) \/ Clear(c) \/ Tell(c)

LedgerSpec == LedgerInit /\ [][LedgerNext]_ledgerVars
=============================================================================
