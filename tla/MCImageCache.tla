----------------------------- MODULE MCImageCache -----------------------------
(* Instances of ImageCache for TLC. *)
EXTENDS ImageCache, TLC

\* Fetchers are interchangeable.
Symmetry == Permutations(Fetchers)
=============================================================================
