--------------------------- MODULE MCContainerStore ---------------------------
(* Instances of ContainerStore for TLC. *)
EXTENDS ContainerStore, TLC

CONSTANTS g1, g2

\* Every client is a gc and asks for the status.
GcAndStatus == [g \in Clients |-> {"gc", "status"}]
\* One gc beside a client that lists and asks for the status: at most one gc at a time.
OneGc == [g \in Clients |-> IF g = g1 THEN {"gc"} ELSE {"list", "status"}]

\* Containers, pids and clients with the same commands are interchangeable.
Symmetry == Permutations(Containers) \cup Permutations(Pids) \cup Permutations(Clients)
=============================================================================
