------------------------------ MODULE MCFetchDeps ------------------------------
(* An instance of FetchDeps for TLC. *)
EXTENDS FetchDeps

CONSTANTS a, b, c

\* a asks for up to two images, b for up to one and c for none or b, some of
\* them for c with labels that leave something out: chains, diamonds, the same
\* image twice, and circles of one, two and three.
To(i, labels) == [image |-> i, labels |-> labels]
Anything == {To(a, "complete"), To(b, "complete"), To(c, "complete"), To(c, "partial")}
UpTo(n) == UNION {[1 .. m -> Anything] : m \in 0 .. n}

MCCatalogs ==
  {[i \in Images |-> IF i = a THEN ofA ELSE IF i = b THEN ofB ELSE ofC] :
     ofA \in UpTo(2), ofB \in UpTo(1), ofC \in {<<>>, <<To(b, "complete")>>}}
=============================================================================
