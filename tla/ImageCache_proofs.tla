--------------------------- MODULE ImageCache_proofs ---------------------------
(***************************************************************************)
(* Proofs about ImageCache, for any number of fetchers and entries.        *)
(***************************************************************************)
EXTENDS ImageCache, TLAPS

USE BlocksAssumption DEF Goes

LEMMA TypeInit == Init => TypeOK
<1> SUFFICES ASSUME Init PROVE TypeOK
  OBVIOUS
<1>1. exists \in BOOLEAN /\ raced \in [Fetchers -> BOOLEAN] /\ damaged \in BOOLEAN
  BY Zenon DEF Init
<1>2. /\ have \subseteq All
      /\ pc \in [Fetchers -> {"idle"}]
      /\ next \in [Fetchers -> 1 .. Blocks + 1]
      /\ got \in [Fetchers -> SUBSET All]
  BY DEF Init
<1>3. pc \in [Fetchers -> Stopped \cup Writing \cup
                          {"download", "structure", "manifest", "extract"}]
  BY <1>2 DEF Stopped
<1> QED
  BY <1>1, <1>2, <1>3 DEF TypeOK

LEMMA TypeStep == TypeOK /\ [Next]_vars => TypeOK'
<1> SUFFICES ASSUME TypeOK, [Next]_vars PROVE TypeOK'
  OBVIOUS
<1>1. exists' \in BOOLEAN
  BY Zenon DEF TypeOK, Next, vars, Begin, OpenFile, WriteBlock, CloseFile, TransferFails,
     ValidateStructure, ValidateManifest, ExtractBlock, ExtractEnds, Kill
<1>5. damaged' \in BOOLEAN
  BY Zenon DEF TypeOK, Next, vars, Begin, OpenFile, WriteBlock, CloseFile, TransferFails,
     ValidateStructure, ValidateManifest, ExtractBlock, ExtractEnds, Kill
<1>2. raced' \in [Fetchers -> BOOLEAN]
  <2>1. ASSUME NEW f \in Fetchers, Begin(f) PROVE raced' \in [Fetchers -> BOOLEAN]
    <3>1. OthersWriting(f) \in BOOLEAN
      BY Zenon DEF OthersWriting
    <3>2. raced' = [raced EXCEPT ![f] = OthersWriting(f)] /\ raced \in [Fetchers -> BOOLEAN]
      BY <2>1, Zenon DEF Begin, TypeOK
    <3> QED
      BY <3>1, <3>2, Zenon
  <2>2. ASSUME NEW f \in Fetchers, OpenFile(f) PROVE raced' \in [Fetchers -> BOOLEAN]
    BY <2>2, Zenon DEF OpenFile
  <2> QED
    BY <2>1, <2>2, Zenon DEF TypeOK, Next, vars, WriteBlock, CloseFile, TransferFails,
       ValidateStructure, ValidateManifest, ExtractBlock, ExtractEnds, Kill
<1>3. /\ have' \subseteq All
      /\ next' \in [Fetchers -> 1 .. Blocks + 1]
      /\ got' \in [Fetchers -> SUBSET All]
  <2> DEFINE Bounds == /\ have' \subseteq All
                       /\ next' \in [Fetchers -> 1 .. Blocks + 1]
                       /\ got' \in [Fetchers -> SUBSET All]
  <2> USE DEF TypeOK, All
  <2>1. ASSUME NEW f \in Fetchers, Begin(f) PROVE Bounds
    BY <2>1 DEF Begin
  <2>2. ASSUME NEW f \in Fetchers, OpenFile(f) PROVE Bounds
    BY <2>2 DEF OpenFile
  <2>3. ASSUME NEW f \in Fetchers, WriteBlock(f) PROVE Bounds
    <3>1. next[f] \in 1 .. Blocks /\ next' = [next EXCEPT ![f] = @ + 1] /\ got' = got
      BY <2>3 DEF WriteBlock
    <3>2. have' = have \cup {next[f]}
      BY <2>3 DEF WriteBlock
    <3>3. have' \subseteq All
      BY <3>1, <3>2
    <3> QED
      BY <3>1, <3>3
  <2>4. ASSUME NEW f \in Fetchers, CloseFile(f) PROVE Bounds
    <3>1. have' \subseteq have
      BY <2>4, Zenon DEF CloseFile
    <3>2. next' = [next EXCEPT ![f] = 1] /\ got' = got
      BY <2>4 DEF CloseFile
    <3> QED
      BY <3>1, <3>2
  <2>5. ASSUME NEW f \in Fetchers, ExtractBlock(f) PROVE Bounds
    <3>1. next[f] \in 1 .. Blocks /\ have' = have /\ next' = [next EXCEPT ![f] = @ + 1]
      BY <2>5 DEF ExtractBlock
    <3>2. got[f] \cup {next[f]} \in SUBSET (1 .. Blocks)
      BY <3>1
    <3>3. got' = [got EXCEPT ![f] = got[f] \cup {next[f]}]
      BY <2>5 DEF ExtractBlock
    <3>4. got' \in [Fetchers -> SUBSET All]
      <4>1. got \in [Fetchers -> SUBSET (1 .. Blocks)]
        OBVIOUS
      <4> DEFINE S == SUBSET (1 .. Blocks)
                 x == got[f] \cup {next[f]}
      <4>2. x \in S /\ got \in [Fetchers -> S] /\ got' = [got EXCEPT ![f] = x]
        BY <3>2, <3>3, <4>1
      <4> HIDE DEF TypeOK, All, S, x
      <4>3. got' \in [Fetchers -> S]
        BY <4>2, Zenon
      <4> QED
        BY <4>3 DEF All, S
    <3>5. have' \subseteq All /\ next' \in [Fetchers -> 1 .. Blocks + 1]
      BY <3>1
    <3> HIDE DEF TypeOK, All
    <3> QED
      BY <3>4, <3>5
  <2>6. CASE UNCHANGED <<have, next, got>>
    BY <2>6
  <2> QED
    BY <2>1, <2>2, <2>3, <2>4, <2>5, <2>6
    DEF Next, vars, TransferFails, ValidateStructure, ValidateManifest, ExtractEnds, Kill
<1>4. pc' \in [Fetchers -> Stopped \cup Writing \cup
                           {"download", "structure", "manifest", "extract"}]
  BY DEF Stopped, Writing, TypeOK, Next, vars, Begin, OpenFile, WriteBlock, CloseFile,
     TransferFails, ValidateStructure, ValidateManifest, ExtractBlock, ExtractEnds, Kill
<1> QED
  BY <1>1, <1>2, <1>3, <1>4, <1>5 DEF TypeOK

\* What a step does to the invariants.
LEMMA MissingStep ==
  CacheInv /\ [Next]_vars => MissingIsComing'
<1> SUFFICES ASSUME TypeOK, MissingIsComing, ReadInv, [Next]_vars
             PROVE  MissingIsComing'
  BY DEF CacheInv
<1> USE DEF TypeOK, MissingIsComing, Writing, All
<1>1. ASSUME NEW f \in Fetchers, Begin(f) PROVE MissingIsComing'
  <2> SUFFICES ASSUME exists', ~damaged', NEW b \in All \ have'
               PROVE  \E g \in Fetchers : pc'[g] \in Writing /\ next'[g] <= b
    OBVIOUS
  <2>1. PICK g \in Fetchers : pc[g] \in Writing /\ next[g] <= b
    BY <1>1 DEF Begin
  <2>2. g # f
    BY <1>1, <2>1 DEF Begin, Stopped
  <2> QED
    BY <1>1, <2>1, <2>2 DEF Begin
<1>2. ASSUME NEW f \in Fetchers, OpenFile(f) PROVE MissingIsComing'
  <2>1. pc'[f] = "write" /\ next'[f] = 1
    BY <1>2 DEF OpenFile, ReadInv
  <2> QED
    BY <1>2, <2>1 DEF OpenFile
<1>3. ASSUME NEW f \in Fetchers, WriteBlock(f) PROVE MissingIsComing'
  <2> SUFFICES ASSUME exists', ~damaged', NEW b \in All \ have'
               PROVE  \E g \in Fetchers : pc'[g] \in Writing /\ next'[g] <= b
    OBVIOUS
  <2>1. PICK g \in Fetchers : pc[g] \in Writing /\ next[g] <= b
    BY <1>3 DEF WriteBlock
  <2>2. CASE g # f
    BY <1>3, <2>1, <2>2 DEF WriteBlock
  <2>3. CASE g = f
    BY <1>3, <2>1, <2>3 DEF WriteBlock
  <2> QED
    BY <2>2, <2>3
<1>4. ASSUME NEW f \in Fetchers, CloseFile(f) PROVE MissingIsComing'
  <2> SUFFICES ASSUME exists', ~damaged', NEW b \in All \ have'
               PROVE  \E g \in Fetchers : pc'[g] \in Writing /\ next'[g] <= b
    OBVIOUS
  <2>1. PICK g \in Fetchers : pc[g] \in Writing /\ next[g] <= b
    BY <1>4 DEF CloseFile
  <2>2. g # f
    BY <1>4, <2>1 DEF CloseFile
  <2> QED
    BY <1>4, <2>1, <2>2 DEF CloseFile
<1>5. CASE /\ UNCHANGED <<exists, have, damaged>>
           /\ \A g \in Fetchers : pc[g] \in Writing => pc'[g] \in Writing /\ next'[g] = next[g]
  BY <1>5
<1>6. ASSUME NEW f \in Fetchers,
             \/ ValidateStructure(f) \/ ValidateManifest(f)
             \/ ExtractBlock(f) \/ ExtractEnds(f)
      PROVE  MissingIsComing'
  BY <1>5, <1>6 DEF ValidateStructure, ValidateManifest, ExtractBlock, ExtractEnds
<1>7. CASE UNCHANGED vars
  BY <1>5, <1>7 DEF vars
<1>8. ASSUME NEW f \in Fetchers, TransferFails(f) \/ Kill(f) PROVE MissingIsComing'
  <2>1. /\ UNCHANGED <<exists, have, next>>
        /\ damaged' = (damaged \/ pc[f] = "write")
        /\ \A g \in Fetchers \ {f} : pc'[g] = pc[g]
    BY <1>8 DEF TransferFails, Kill
  <2>2. CASE pc[f] = "write"
    BY <2>1, <2>2
  <2>3. CASE pc[f] # "write"
    BY <2>1, <2>3
  <2> QED
    BY <2>2, <2>3
<1> QED
  BY <1>1, <1>2, <1>3, <1>4, <1>6, <1>7, <1>8 DEF Next

LEMMA ReadStep ==
  CacheInv /\ [Next]_vars => ReadInv'
<1> SUFFICES ASSUME TypeOK, ReadInv, [Next]_vars, NEW g \in Fetchers
             PROVE  /\ pc'[g] \in {"write", "structure", "manifest", "extract"} => exists'
                    /\ pc'[g] \in {"structure", "manifest", "extract"} =>
                         got'[g] = 1 .. (next'[g] - 1)
                    /\ pc'[g] \in {"structure", "manifest", "download"} => next'[g] = 1
                    /\ pc'[g] \in {"download", "write"} => got'[g] = {}
                    /\ ~raced'[g] => ~OthersWriting(g)'
  BY DEF CacheInv, ReadInv
<1> DEFINE Entered == /\ pc'[g] \in {"write", "structure", "manifest", "extract"} => exists'
                      /\ pc'[g] \in {"structure", "manifest", "extract"} =>
                           got'[g] = 1 .. (next'[g] - 1)
           Fresh   == /\ pc'[g] \in {"structure", "manifest", "download"} => next'[g] = 1
                      /\ pc'[g] \in {"download", "write"} => got'[g] = {}
           Alone   == ~raced'[g] => ~OthersWriting(g)'
<1> USE DEF TypeOK, ReadInv, Writing
<1>1. ASSUME NEW f \in Fetchers, Begin(f) PROVE Entered /\ Fresh /\ Alone
  <2>1. Entered /\ Fresh
    BY <1>1 DEF Begin, Stopped
  <2>2. Alone
    BY <1>1 DEF Begin, Stopped, OthersWriting
  <2> QED
    BY <2>1, <2>2
<1>2. ASSUME NEW f \in Fetchers, OpenFile(f) PROVE Entered /\ Fresh /\ Alone
  <2>1. Entered /\ Fresh
    BY <1>2 DEF OpenFile
  <2>2. CASE g # f
    <3>1. raced'[g]
      BY <1>2, <2>2, Zenon DEF OpenFile
    <3> QED
      BY <2>1, <3>1
  <2>3. CASE g = f
    BY <1>2, <2>1, <2>3 DEF OpenFile, OthersWriting
  <2> QED
    BY <2>2, <2>3
<1>3. ASSUME NEW f \in Fetchers, WriteBlock(f) PROVE Entered /\ Fresh /\ Alone
  BY <1>3 DEF WriteBlock, OthersWriting
<1>4. ASSUME NEW f \in Fetchers, CloseFile(f) PROVE Entered /\ Fresh /\ Alone
  BY <1>4 DEF CloseFile, OthersWriting
<1>5. ASSUME NEW f \in Fetchers, ExtractBlock(f) PROVE Entered /\ Fresh /\ Alone
  BY <1>5 DEF ExtractBlock, OthersWriting
<1>6. ASSUME NEW f \in Fetchers,
             ValidateStructure(f) \/ ValidateManifest(f) \/ ExtractEnds(f)
      PROVE  Entered /\ Fresh /\ Alone
  BY <1>6 DEF ValidateStructure, ValidateManifest, ExtractEnds, OthersWriting
<1>7. CASE UNCHANGED vars
  BY <1>7 DEF vars, OthersWriting
<1>8. ASSUME NEW f \in Fetchers, TransferFails(f) \/ Kill(f) PROVE Entered /\ Fresh /\ Alone
  BY <1>8 DEF TransferFails, Kill, OthersWriting
<1> QED
  BY <1>1, <1>2, <1>3, <1>4, <1>5, <1>6, <1>7, <1>8 DEF Next

\* The invariant behind the theorems about the whole image.
THEOREM CacheInvAlways == Spec => []CacheInv
<1>1. Init => CacheInv
  <2>1. Init => MissingIsComing
    BY DEF Init, MissingIsComing
  <2>2. Init => ReadInv
    BY DEF Init, ReadInv, OthersWriting, Writing
  <2> QED
    BY <2>1, <2>2, TypeInit DEF CacheInv
<1>2. CacheInv /\ [Next]_vars => CacheInv'
  BY TypeStep, MissingStep, ReadStep DEF CacheInv
<1> QED
  BY <1>1, <1>2, PTL DEF Spec

LEMMA QuietIsWhole == CacheInv => QuietCacheWhole
  BY DEF CacheInv, TypeOK, MissingIsComing, QuietCacheWhole, All

\* The only step that makes a container start from a part of its image is
\* one of a process that another was writing beside.
LEMMA WholeStep ==
  CacheInv /\ WholeUnlessRaced /\ [Next]_vars => WholeUnlessRaced'
<1> SUFFICES ASSUME CacheInv, WholeUnlessRaced, [Next]_vars, NEW g \in Fetchers,
                    pc'[g] = "started", ~raced'[g], ~damaged'
             PROVE  got'[g] = All
  BY DEF WholeUnlessRaced
<1> USE DEF CacheInv, TypeOK, WholeUnlessRaced, Stopped, Writing
<1>1. ASSUME NEW f \in Fetchers, Begin(f) PROVE got'[g] = All
  BY <1>1 DEF Begin
<1>2. ASSUME NEW f \in Fetchers, OpenFile(f) PROVE got'[g] = All
  <2>1. g = f
    <3>1. raced' = [h \in Fetchers |-> raced[h] \/ h # f]
      BY <1>2 DEF OpenFile
    <3> QED
      BY <3>1, Zenon
  <2> QED
    BY <1>2, <2>1 DEF OpenFile
<1>3. ASSUME NEW f \in Fetchers, WriteBlock(f) \/ CloseFile(f) PROVE got'[g] = All
  BY <1>3 DEF WriteBlock, CloseFile
<1>4. ASSUME NEW f \in Fetchers, ValidateStructure(f) \/ ValidateManifest(f) PROVE got'[g] = All
  BY <1>4 DEF ValidateStructure, ValidateManifest
<1>5. ASSUME NEW f \in Fetchers, ExtractBlock(f) PROVE got'[g] = All
  BY <1>5 DEF ExtractBlock
<1>6. ASSUME NEW f \in Fetchers, ExtractEnds(f) PROVE got'[g] = All
  <2>1. CASE g # f
    BY <1>6, <2>1 DEF ExtractEnds
  <2>2. CASE g = f
    <3>1. /\ pc[f] = "extract" /\ next[f] \notin have
          /\ got' = got /\ raced' = raced /\ ~damaged
      BY <1>6 DEF ExtractEnds
    <3>2. got[f] = 1 .. (next[f] - 1) /\ exists /\ ~OthersWriting(f)
      BY <2>2, <3>1 DEF ReadInv
    <3>3. \A h \in Fetchers : pc[h] \notin Writing
      BY <3>1, <3>2 DEF OthersWriting
    <3>4. next[f] \notin All
      BY <3>1, <3>2, <3>3 DEF MissingIsComing
    <3>5. next[f] = Blocks + 1
      BY <3>4 DEF All
    <3> QED
      BY <2>2, <3>1, <3>2, <3>5 DEF All
  <2> QED
    BY <2>1, <2>2
<1>7. CASE UNCHANGED vars
  BY <1>7 DEF vars
<1>8. ASSUME NEW f \in Fetchers, TransferFails(f) \/ Kill(f) PROVE got'[g] = All
  BY <1>8 DEF TransferFails, Kill
<1> QED
  BY <1>1, <1>2, <1>3, <1>4, <1>5, <1>6, <1>7, <1>8 DEF Next

-----------------------------------------------------------------------------
(***************************************************************************)
(* The theorems.                                                           *)
(***************************************************************************)

\* The cache's state has its type whatever fails.
THEOREM TypeCorrect == Spec => []TypeOK
  BY TypeInit, TypeStep, PTL DEF Spec

\* As long as no fault hits a file being written, a cache that nobody writes
\* to holds the whole image or none, whoever overwrote whom (https.h:45-90).
THEOREM QuietCacheIsWhole == Spec => []QuietCacheWhole
  BY CacheInvAlways, QuietIsWhole, PTL

\* A container misses a file of its image only if such a fault has occurred or
\* another process wrote to the cache since its nscn began (image.h:203-236).
THEOREM UnracedStartsWhole == Spec => []WholeUnlessRaced
<1>1. Init => WholeUnlessRaced
  BY DEF Init, WholeUnlessRaced
<1> QED
  BY <1>1, WholeStep, CacheInvAlways, PTL DEF Spec

\* Whatever fails, an image file that is there and that nobody is about to
\* write is never changed again (local.h:82).
THEOREM SettledForGood == Spec => SettledStays
<1>1. TypeOK /\ [Next]_vars => (Settled => Settled' /\ have' = have)
  <2> SUFFICES ASSUME TypeOK, [Next]_vars, Settled
               PROVE  Settled' /\ have' = have
    OBVIOUS
  <2> USE DEF TypeOK, Settled, Writing, Stopped
  <2>1. ASSUME NEW f \in Fetchers, Begin(f) PROVE Settled' /\ have' = have
    BY <2>1 DEF Begin
  <2>2. ASSUME NEW f \in Fetchers, OpenFile(f) \/ WriteBlock(f) \/ CloseFile(f) PROVE FALSE
    BY <2>2 DEF OpenFile, WriteBlock, CloseFile
  <2>3. ASSUME NEW f \in Fetchers,
               \/ TransferFails(f) \/ ValidateStructure(f) \/ ValidateManifest(f)
               \/ ExtractBlock(f) \/ ExtractEnds(f) \/ Kill(f)
        PROVE  Settled' /\ have' = have
    BY <2>3 DEF TransferFails, ValidateStructure, ValidateManifest, ExtractBlock, ExtractEnds,
       Kill
  <2>4. CASE UNCHANGED vars
    BY <2>4 DEF vars
  <2> QED
    BY <2>1, <2>2, <2>3, <2>4 DEF Next
<1> QED
  BY <1>1, TypeCorrect, PTL DEF Spec, SettledStays
=============================================================================
