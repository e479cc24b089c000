-------------------------------- MODULE MCEnter --------------------------------
(* Instances of Enter for TLC. *)
EXTENDS Enter, TLC

\* The client beside the visitors is a gc.
GcOnly == [g \in Clients |-> {"gc"}]

Symmetry == Permutations(Containers) \cup Permutations(Pids)
=============================================================================
