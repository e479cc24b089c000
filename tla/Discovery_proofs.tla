---------------------------- MODULE Discovery_proofs ----------------------------
(***************************************************************************)
(* Proofs about Discovery, for any number of processes, whatever their     *)
(* arguments, the names of images and the directories in the beginning.    *)
(* The loops of separate_flags and of the labels are recursive functions:  *)
(* what they compute is proved by induction over the set of the numbers    *)
(* of turns after which it is so.                                          *)
(***************************************************************************)
EXTENDS Discovery, SequenceTheorems, WellFoundedInduction, TLAPS

USE ProcsAssumption

\* main ends, or dispatches a command.
LEMMA MainDoes ==
  ASSUME NEW args PROVE Main(args).does \in Commands \cup {"success", "failure"}
  BY DEF Main, Does

-----------------------------------------------------------------------------
(* The race for the directories. *)

\* p is not on its way to fail for a directory that another has made.
Safe(p) == pc[p] # "raced" /\ (pc[p] = "mkdir" => ~Stat(goal[p], Current(p)))

ProcTypes ==
  /\ pc = [p \in Procs |-> pc[p]]
  /\ goal = [p \in Procs |-> goal[p]]
  /\ depth = [p \in Procs |-> depth[p]]
  /\ after \in [Procs -> {"main", "fetch", "local", "get"}]
  /\ reading = [p \in Procs |-> Main(argv[p])]

\* The steps after the strategies.
Transfers(p) == Get(p) \/ GetDenied(p) \/ GetFails(p) \/ GetStalls(p)
Finishes(p) ==
  \/ Validate(p) \/ ValidateFails(p) \/ DependencyFails(p) \/ NewUuid(p) \/ UuidFails(p) \/ Repeat(p)

LEMMA StepIs ==
  ASSUME NEW p, Step(p)
  PROVE  \/ Begin(p) \/ Fetch(p) \/ StatDir(p) \/ MkDir(p) \/ MkDirFails(p)
         \/ LocalStrategy(p) \/ SimpleStrategy(p) \/ Transfers(p) \/ Finishes(p)
  BY DEF Step, Transfers, Finishes

LEMMA ProcTypesStep == ProcTypes /\ [Next]_vars => ProcTypes'
<1> SUFFICES ASSUME ProcTypes, [Next]_vars PROVE ProcTypes'
  OBVIOUS
<1> USE DEF ProcTypes, GoTo, MakeDir
<1>1. ASSUME NEW p \in Procs, Begin(p) PROVE ProcTypes'
  BY <1>1 DEF Begin, perProc
<1>2. ASSUME NEW p \in Procs, StatDir(p) \/ MkDir(p) \/ MkDirFails(p) PROVE ProcTypes'
  BY <1>2 DEF StatDir, MkDir, MkDirFails, perProc
<1>3. ASSUME NEW p \in Procs, Fetch(p) \/ LocalStrategy(p) \/ SimpleStrategy(p) PROVE ProcTypes'
  BY <1>3 DEF Fetch, LocalStrategy, SimpleStrategy
<1>4. ASSUME NEW p \in Procs, Transfers(p) \/ Finishes(p) PROVE ProcTypes'
  BY <1>4 DEF Transfers, Finishes, Get, GetDenied, GetFails, GetStalls, Validate, ValidateFails,
              DependencyFails, NewUuid, UuidFails, Repeat, perProc
<1>5. CASE UNCHANGED vars
  BY <1>5 DEF vars, perProc
<1> QED
  BY <1>1, <1>2, <1>3, <1>4, <1>5, StepIs DEF Next, Over

\* A process that takes a step of its own leaves the others where they are.
LEMMA OthersStay ==
  ASSUME ProcTypes, NEW p \in Procs, Step(p), NEW q \in Procs, q # p
  PROVE  pc'[q] = pc[q] /\ goal'[q] = goal[q] /\ depth'[q] = depth[q]
<1> USE DEF ProcTypes, GoTo, MakeDir
<1>1. CASE Begin(p)
  BY <1>1 DEF Begin, perProc
<1>2. CASE StatDir(p) \/ MkDir(p) \/ MkDirFails(p)
  BY <1>2 DEF StatDir, MkDir, MkDirFails, perProc
<1>3. CASE Fetch(p) \/ LocalStrategy(p) \/ SimpleStrategy(p)
  BY <1>3 DEF Fetch, LocalStrategy, SimpleStrategy
<1>4. CASE Transfers(p) \/ Finishes(p)
  BY <1>4 DEF Transfers, Finishes, Get, GetDenied, GetFails, GetStalls, Validate, ValidateFails,
              DependencyFails, NewUuid, UuidFails, Repeat, perProc
<1> QED
  BY <1>1, <1>2, <1>3, <1>4, StepIs

\* Who has just made a directory has to look for the next one first, so that nobody
\* has made it in the meantime, and who has written a file makes no directory: the
\* last to make an entry is safe.
LEMMA SafeStep ==
  ASSUME ProcTypes, \E p \in Procs : Safe(p), [Next]_vars
  PROVE  \E p \in Procs : Safe(p)'
<1>1. PICK p \in Procs : Safe(p)
  OBVIOUS
<1> USE DEF ProcTypes, Safe, At, GoTo
<1>2. ASSUME NEW q \in Procs, MkDir(q) \/ Transfers(q) PROVE Safe(q)'
  BY <1>2 DEF MkDir, Transfers, Get, GetDenied, GetFails, GetStalls
<1>3. ASSUME NEW q \in Procs, Step(q), ~MkDir(q), ~Transfers(q), q # p PROVE Safe(p)'
  <2>1. UNCHANGED <<dirs, files>>
    BY <1>3, StepIs DEF Begin, Fetch, StatDir, MkDirFails, LocalStrategy, SimpleStrategy, Finishes,
                Validate, ValidateFails, DependencyFails, NewUuid, UuidFails, Repeat
  <2>2. pc'[p] = pc[p] /\ goal'[p] = goal[p] /\ depth'[p] = depth[p]
    BY <1>3, OthersStay
  <2>3. Stat(goal[p], Current(p))' <=> Stat(goal[p], Current(p))
    BY <2>1, <2>2 DEF Stat, Reaches, Current
  <2> QED
    BY <1>1, <2>2, <2>3
<1>4. ASSUME Step(p), ~MkDir(p), ~Transfers(p) PROVE Safe(p)'
  <2>1. CASE StatDir(p)
    <3>1. pc'[p] # "raced"
      BY <2>1 DEF StatDir
    <3>2. CASE pc'[p] = "mkdir"
      <4>1. UNCHANGED <<dirs, files, goal, depth>> /\ ~Stat(goal[p], Current(p))
        BY <2>1, <3>2 DEF StatDir
      <4>2. Stat(goal[p], Current(p))' <=> Stat(goal[p], Current(p))
        BY <4>1 DEF Stat, Reaches, Current
      <4> QED
        BY <3>1, <4>1, <4>2
    <3> QED
      BY <3>1, <3>2
  <2>2. CASE MkDirFails(p)
    BY <1>1, <2>2 DEF MkDirFails, MayMkDir
  <2>3. CASE Begin(p)
    <3>1. pc'[p] \notin {"raced", "mkdir"}
      BY <2>3, MainDoes DEF Begin, MakeDir, Commands
    <3> QED
      BY <3>1
  <2>4. CASE Fetch(p) \/ LocalStrategy(p) \/ SimpleStrategy(p)
    <3>1. pc'[p] \notin {"raced", "mkdir"}
      BY <2>4 DEF Fetch, LocalStrategy, SimpleStrategy, MakeDir
    <3> QED
      BY <3>1
  <2>5. CASE Finishes(p)
    <3>1. pc'[p] \notin {"raced", "mkdir"}
      BY <2>5 DEF Finishes, Validate, ValidateFails, DependencyFails, NewUuid, UuidFails, Repeat
    <3> QED
      BY <3>1
  <2> QED
    BY <1>4, <2>1, <2>2, <2>3, <2>4, <2>5, StepIs
<1>5. CASE UNCHANGED vars
  <2>1. UNCHANGED <<dirs, files, pc, goal, depth>>
    BY <1>5 DEF vars, perProc
  <2>2. Stat(goal[p], Current(p))' <=> Stat(goal[p], Current(p))
    BY <2>1 DEF Stat, Reaches, Current
  <2> QED
    BY <1>1, <2>1, <2>2
<1> QED
  BY <1>1, <1>2, <1>3, <1>4, <1>5 DEF Next, Over

\* Of any number of commands that make the same directories at once, one is not
\* failed by the others (mkdir.h:39-45).
THEOREM SomeoneAlways == Spec => []SomeoneGetsThrough
<1>1. Init => ProcTypes /\ \E p \in Procs : Safe(p)
  BY DEF Init, ProcTypes, Safe
<1>2. ProcTypes /\ (\E p \in Procs : Safe(p)) /\ [Next]_vars =>
        (ProcTypes /\ \E p \in Procs : Safe(p))'
  BY ProcTypesStep, SafeStep
<1>3. (\E p \in Procs : Safe(p)) => SomeoneGetsThrough
  BY DEF Safe, SomeoneGetsThrough
<1> QED
  BY <1>1, <1>2, <1>3, PTL DEF Spec

-----------------------------------------------------------------------------
(* Induction, in a form that takes a set for the predicate. *)

Less == {ss \in Nat \X Nat : ss[1] < ss[2]}

\* Every set of natural numbers that is not empty has a least element ...
LEMMA LeastOf ==
  ASSUME NEW T, T \subseteq Nat, T # {}
  PROVE  \E x \in T : \A y \in T : x <= y
<1>1. IsWellFoundedOn(Less, Nat)
  BY NatLessThanWellFounded DEF OpToRel, Less
<1>2. PICK x \in T : \A y \in T : ~ (<<y, x>> \in Less)
  BY <1>1, WFMin
<1>3. ASSUME NEW y \in T PROVE x <= y
  <2>1. x \in Nat /\ y \in Nat
    OBVIOUS
  <2>2. ~ (y < x)
    BY <1>2, <2>1 DEF Less
  <2> QED
    BY <2>1, <2>2
<1> QED
  BY <1>3

\* ... and a greatest one if it is bounded.
LEMMA GreatestOf ==
  ASSUME NEW n \in Nat, NEW T, T \subseteq 1 .. n, T # {}
  PROVE  \E x \in T : \A y \in T : y <= x
<1> DEFINE below == {n - y : y \in T}
<1>1. below \subseteq Nat /\ below # {}
  <2>1. \A y \in T : n - y \in Nat
    OBVIOUS
  <2> QED
    BY <2>1
<1>2. PICK b \in below : \A c \in below : b <= c
  BY <1>1, LeastOf
<1>3. PICK x \in T : b = n - x
  OBVIOUS
<1>4. ASSUME NEW y \in T PROVE y <= x
  <2>1. n - x <= n - y
    BY <1>2, <1>3
  <2> QED
    BY <2>1
<1> QED
  BY <1>4

\* What holds of 0, and of n + 1 if it holds of n, holds of every natural number:
\* the numbers it holds of are given as a set.
LEMMA Induction ==
  ASSUME NEW S, 0 \in S, \A n \in Nat : n \in S => n + 1 \in S
  PROVE  \A n \in Nat : n \in S
<1> SUFFICES ASSUME Nat \ S # {} PROVE FALSE
  OBVIOUS
<1>1. PICK x \in Nat \ S : \A y \in Nat \ S : x <= y
  <2>1. Nat \ S \subseteq Nat
    OBVIOUS
  <2> QED
    BY <2>1, LeastOf
<1>2. x - 1 \in Nat /\ x - 1 \notin Nat \ S
  BY <1>1
<1> QED
  BY <1>1, <1>2

-----------------------------------------------------------------------------
(* Texts and paths. *)

Entry == Seq(Words)

LEMMA DashShape ==
  ASSUME NEW a \in Paths \ {<<>>}, NEW b \in Paths \ {<<>>}
  PROVE  Dash(a, b) \in Paths \ {<<>>}
<1> USE DEF Paths
<1>1. Len(a) \in Nat /\ Len(a) >= 1 /\ Len(b) \in Nat /\ Len(b) >= 1
  BY EmptySeq, LenProperties
<1>2. a[Len(a)] \in Entry /\ b[1] \in Entry
  BY <1>1, ElementOfSeq DEF Entry
<1>3. a[Len(a)] \o b[1] \in Entry
  BY <1>2, ConcatProperties DEF Entry
<1> DEFINE front == SubSeq(a, 1, Len(a) - 1)
           middle == <<a[Len(a)] \o b[1]>>
           rest == SubSeq(b, 2, Len(b))
<1>4. front \in Seq(Entry) /\ rest \in Seq(Entry)
  BY <1>1 DEF Entry
<1>5. middle \in Seq(Entry) /\ Len(middle) = 1
  BY <1>3
<1> HIDE DEF front, middle, rest
<1>6. front \o middle \in Seq(Entry) /\ Len(front \o middle) = Len(front) + 1
  BY <1>4, <1>5, ConcatProperties
<1>7. /\ (front \o middle) \o rest \in Seq(Entry)
      /\ Len((front \o middle) \o rest) = Len(front) + 1 + Len(rest)
  BY <1>4, <1>6, ConcatProperties
<1>8. Len((front \o middle) \o rest) # 0
  BY <1>4, <1>7, LenProperties
<1> QED
  BY <1>7, <1>8, EmptySeq DEF front, middle, rest, Dash, Entry

\* What ends in .aci is none of the entries that lead nowhere or up.
LEMMA AciExtShape ==
  ASSUME NEW text \in Paths \ {<<>>}
  PROVE  /\ AciExt(text) \in Paths \ {<<>>}
         /\ AciExt(text)[Len(AciExt(text))] \notin {Nothing, Here, Up}
<1> USE DEF Paths
<1>1. Len(text) \in Nat /\ Len(text) >= 1
  BY EmptySeq, LenProperties
<1>2. text[Len(text)] \in Entry
  BY <1>1, ElementOfSeq DEF Entry
<1> DEFINE last == Append(text[Len(text)], ".aci")
<1>3. last \in Entry /\ last[Len(last)] = ".aci" /\ Len(last) = Len(text[Len(text)]) + 1
  <2>1. ASSUME NEW e \in Entry
        PROVE  /\ Append(e, ".aci") \in Entry /\ Len(Append(e, ".aci")) = Len(e) + 1
               /\ Append(e, ".aci")[Len(e) + 1] = ".aci"
    <3>1. e \in Seq(Words)
      BY DEF Entry
    <3>2. ".aci" \in Words
      BY WordsAssumption
    <3> QED
      BY <3>1, <3>2, AppendProperties DEF Entry
  <2> HIDE DEF Entry
  <2> QED
    BY <1>2, <2>1
<1>4. last \notin {Nothing, Here, Up}
  <2>1. Nothing[Len(Nothing)] = "" /\ Here[Len(Here)] = "." /\ Up[Len(Up)] = ".."
    BY DEF Nothing, Here, Up
  <2> HIDE DEF last
  <2> QED
    BY <1>3, <2>1
<1>5. AciExt(text) = [text EXCEPT ![Len(text)] = last]
  BY <1>1, LenProperties DEF AciExt
<1> HIDE DEF last
<1>6. AciExt(text) \in Seq(Entry) /\ Len(AciExt(text)) = Len(text) /\ AciExt(text)[Len(text)] = last
  BY <1>1, <1>3, <1>5, ExceptSeq DEF Entry
<1> QED
  BY <1>1, <1>4, <1>6, EmptySeq DEF Entry

\* What a name and labels are rendered to.
LEMMA RenderShape ==
  ASSUME NEW args \in Argvs, NEW asked, asked = RequestOf(Main(args).ordered), asked # <<>>,
         NEW text, text = RenderAciName(asked[1].name, asked[1].labels)
  PROVE  /\ text \in Paths
         /\ text # <<>> => text[Len(text)] \notin {Nothing, Here, Up}
<1> DEFINE labels == asked[1].labels
<1>1. CASE {"version", "os", "arch"} \subseteq DOMAIN labels
  <2>1. /\ TextOf[asked[1].name] \in Paths \ {<<>>} /\ labels["version"] \in Paths \ {<<>>}
        /\ labels["os"] \in Paths \ {<<>>} /\ labels["arch"] \in Paths \ {<<>>}
    BY <1>1, NamesAssumption
  <2> DEFINE two == Dash(TextOf[asked[1].name], labels["version"])
             three == Dash(two, labels["os"])
             four == Dash(three, labels["arch"])
  <2>2. text = AciExt(four)
    BY <1>1 DEF RenderAciName
  <2> HIDE DEF labels
  <2>3. two \in Paths \ {<<>>}
    BY <2>1, DashShape
  <2> HIDE DEF two
  <2>4. three \in Paths \ {<<>>}
    BY <2>1, <2>3, DashShape
  <2> HIDE DEF three
  <2>5. four \in Paths \ {<<>>}
    BY <2>1, <2>4, DashShape
  <2> HIDE DEF four
  <2> QED
    BY <2>2, <2>5, AciExtShape
<1>2. CASE ~({"version", "os", "arch"} \subseteq DOMAIN labels)
  BY <1>2 DEF RenderAciName, Paths
<1> QED
  BY <1>1, <1>2

\* A text without the slashes it begins with.
LEMMA Trimmed ==
  ASSUME NEW text \in Paths, text # <<>>, text[Len(text)] # Nothing
  PROVE  \E k \in 0 .. Len(text) - 1 :
           /\ \A i \in 1 .. k : text[i] = Nothing
           /\ TrimLeadingSlash(text) = SubSeq(text, k + 1, Len(text))
           /\ TrimLeadingSlash(text) \in Paths \ {<<>>}
           /\ Len(TrimLeadingSlash(text)) = Len(text) - k
           /\ \A i \in 1 .. Len(text) - k : TrimLeadingSlash(text)[i] = text[k + i]
<1> USE DEF Paths
<1> DEFINE begins == {n \in 1 .. Len(text) : text[n] # Nothing}
           first == CHOOSE n \in begins : \A m \in begins : n <= m
<1>1. Len(text) \in Nat /\ Len(text) >= 1 /\ Len(text) \in begins
  BY EmptySeq, LenProperties
<1>2. first \in begins /\ \A m \in begins : first <= m
  <2>1. begins \subseteq Nat /\ begins # {}
    BY <1>1
  <2> HIDE DEF begins
  <2> QED
    BY <2>1, LeastOf
<1>3. TrimLeadingSlash(text) = SubSeq(text, first, Len(text))
  BY <1>1 DEF TrimLeadingSlash
<1> HIDE DEF first
<1>4. first \in 1 .. Len(text) /\ \A i \in 1 .. first - 1 : text[i] = Nothing
  BY <1>1, <1>2
<1> DEFINE k == first - 1
<1>5. k \in 0 .. Len(text) - 1 /\ first = k + 1
  BY <1>1, <1>4
<1>6. /\ SubSeq(text, first, Len(text)) \in Seq(Seq(Words))
      /\ Len(SubSeq(text, first, Len(text))) = Len(text) - k
      /\ \A i \in 1 .. Len(text) - k : SubSeq(text, first, Len(text))[i] = text[k + i]
  <2>1. \A i \in first .. Len(text) : text[i] \in Seq(Words)
    BY <1>1, <1>4
  <2>2. SubSeq(text, first, Len(text)) = [i \in 1 .. Len(text) - k |-> text[k + i]]
    BY <1>1, <1>4, <1>5
  <2> QED
    BY <1>1, <1>4, <1>5, <2>1, <2>2
<1>7. Len(text) - k # 0
  BY <1>1, <1>5
<1> QED
  BY <1>3, <1>4, <1>5, <1>6, <1>7, EmptySeq

\* Where the strategies' paths lie.
LEMMA PathShapes ==
  ASSUME NEW p \in Procs, aci[p] \in Paths, aci[p] # <<>>, aci[p][Len(aci[p])] # Nothing
  PROVE  /\ LocalPath(p) \in Paths \ {<<>>} /\ FullPath(p) \in Paths \ {<<>>}
         /\ StorageDir(p) \in Paths \ {<<>>}
<1> USE DEF Paths
<1> DEFINE trimmed == TrimLeadingSlash(aci[p])
<1>1. trimmed \in Paths \ {<<>>}
  BY Trimmed
<1>2. ImagesPath \in Paths \ {<<>>}
  BY PathsAssumption
<1> HIDE DEF trimmed
<1>3. /\ ImagesPath \o trimmed \in Paths /\ Len(ImagesPath \o trimmed) = Len(ImagesPath) + Len(trimmed)
      /\ ImagesPath \o aci[p] \in Paths /\ Len(ImagesPath \o aci[p]) = Len(ImagesPath) + Len(aci[p])
  BY <1>1, <1>2, ConcatProperties
<1>4. Len(ImagesPath) \in Nat \ {0} /\ Len(trimmed) \in Nat \ {0} /\ Len(aci[p]) \in Nat \ {0}
  BY <1>1, <1>2, EmptySeq
<1>5. /\ FullPath(p) \in Paths /\ Len(FullPath(p)) \in Nat /\ Len(FullPath(p)) >= 2
      /\ LocalPath(p) \in Paths /\ Len(LocalPath(p)) >= 2
  BY <1>3, <1>4 DEF FullPath, LocalPath, trimmed
<1>6. StorageDir(p) \in Paths /\ Len(StorageDir(p)) = Len(FullPath(p)) - 1
  <2> HIDE DEF Paths
  <2>1. \A s \in Paths : Len(s) \in Nat /\ Len(s) >= 2 =>
          SubSeq(s, 1, Len(s) - 1) \in Paths /\ Len(SubSeq(s, 1, Len(s) - 1)) = Len(s) - 1
    BY DEF Paths
  <2> QED
    BY <1>5, <2>1 DEF StorageDir
<1> QED
  BY <1>5, <1>6, EmptySeq

-----------------------------------------------------------------------------
(* The walk. *)

\* What the places after each number of entries are, up to the mth.
Walks(path, m, g) == g = [n \in 0 .. m |-> IF n = 0 THEN <<>> ELSE Enter(g[n - 1], path[n])]

LEMMA WalkExists ==
  ASSUME NEW path
  PROVE  \A m \in Nat : \E g : Walks(path, m, g)
<1> DEFINE S == {m \in Nat : \E g : Walks(path, m, g)}
<1>1. 0 \in S
  <2> DEFINE g == [n \in 0 .. 0 |-> <<>>]
  <2>1. g = [n \in 0 .. 0 |-> IF n = 0 THEN <<>> ELSE Enter(g[n - 1], path[n])]
    OBVIOUS
  <2> QED
    BY <2>1 DEF Walks
<1>2. ASSUME NEW m \in Nat, m \in S PROVE m + 1 \in S
  <2>1. PICK g : Walks(path, m, g)
    BY <1>2
  <2> DEFINE h == [n \in 0 .. m + 1 |-> IF n <= m THEN g[n] ELSE Enter(g[m], path[m + 1])]
  <2>2. \A n \in 0 .. m : g[n] = IF n = 0 THEN <<>> ELSE Enter(g[n - 1], path[n])
    BY <2>1 DEF Walks
  <2>3. ASSUME NEW n \in 0 .. m + 1 PROVE h[n] = IF n = 0 THEN <<>> ELSE Enter(h[n - 1], path[n])
    <3>1. CASE n = 0
      BY <2>2, <3>1
    <3>2. CASE n \in 1 .. m
      <4>1. n \in 0 .. m /\ n - 1 \in 0 .. m + 1 /\ n - 1 <= m /\ n <= m /\ n # 0
        BY <3>2
      <4>2. h[n] = g[n] /\ h[n - 1] = g[n - 1]
        BY <4>1
      <4> HIDE DEF h
      <4> QED
        BY <2>2, <4>1, <4>2
    <3>3. CASE n = m + 1
      <4>1. n # 0 /\ ~(n <= m) /\ n - 1 = m /\ m \in 0 .. m + 1 /\ m <= m
        BY <3>3
      <4>2. h[n] = Enter(g[m], path[n]) /\ h[n - 1] = g[m]
        BY <3>3, <4>1
      <4> HIDE DEF h
      <4> QED
        BY <4>1, <4>2
    <3> QED
      BY <3>1, <3>2, <3>3
  <2>4. h = [n \in 0 .. m + 1 |-> IF n = 0 THEN <<>> ELSE Enter(h[n - 1], path[n])]
    <3> DEFINE k == [n \in 0 .. m + 1 |-> IF n = 0 THEN <<>> ELSE Enter(h[n - 1], path[n])]
    <3>1. h = [n \in 0 .. m + 1 |-> h[n]]
      OBVIOUS
    <3>2. \A n \in 0 .. m + 1 : h[n] = k[n]
      <4> HIDE DEF h
      <4> QED
        BY <2>3
    <3> HIDE DEF h
    <3> QED
      BY <2>3, <3>1
  <2> HIDE DEF h
  <2> QED
    BY <2>4 DEF Walks
<1> HIDE DEF S
<1>3. \A m \in Nat : m \in S
  BY <1>1, <1>2, Induction
<1> QED
  BY <1>3 DEF S

LEMMA WalkIs ==
  ASSUME NEW path, Len(path) \in Nat
  PROVE  \A n \in 0 .. Len(path) :
           Walk(path)[n] = IF n = 0 THEN <<>> ELSE Enter(Walk(path)[n - 1], path[n])
<1> DEFINE walk == CHOOSE g : Walks(path, Len(path), g)
<1>1. Walk(path) = walk
  BY DEF Walk, Walks
<1>2. Walks(path, Len(path), walk)
  BY WalkExists
<1> HIDE DEF walk
<1>3. \A n \in 0 .. Len(path) : walk[n] = IF n = 0 THEN <<>> ELSE Enter(walk[n - 1], path[n])
  BY <1>2 DEF Walks
<1> QED
  BY <1>1, <1>3

\* Entries without a name change nothing about where the others lead.
Skip(n, l, k) == IF n <= l THEN n ELSE IF n <= l + k THEN l ELSE n - k

LEMMA SkipsNothing ==
  ASSUME NEW s \in Paths, NEW t \in Paths, NEW w \in Paths, NEW k \in 0 .. Len(t),
         \A i \in 1 .. k : t[i] = Nothing,
         Len(w) = Len(t) - k, \A i \in 1 .. Len(t) - k : w[i] = t[k + i]
  PROVE  \A n \in 0 .. Len(s \o t) : Walk(s \o t)[n] = Walk(s \o w)[Skip(n, Len(s), k)]
<1> USE DEF Paths
<1> DEFINE l == Len(s)
           a == s \o t
           b == s \o w
           S == {n \in Nat : n <= Len(a) => Walk(a)[n] = Walk(b)[Skip(n, l, k)]}
<1>1. /\ l \in Nat /\ Len(t) \in Nat /\ k \in Nat /\ k <= Len(t)
      /\ Len(a) = l + Len(t) /\ Len(b) = l + Len(t) - k
      /\ \A i \in 1 .. Len(a) : a[i] = IF i <= l THEN s[i] ELSE t[i - l]
      /\ \A i \in 1 .. Len(b) : b[i] = IF i <= l THEN s[i] ELSE w[i - l]
  <2>1. l \in Nat /\ Len(t) \in Nat /\ k \in Nat /\ k <= Len(t)
    OBVIOUS
  <2>2. /\ Len(a) = l + Len(t)
        /\ \A i \in 1 .. l + Len(t) : a[i] = IF i <= l THEN s[i] ELSE t[i - l]
    BY ConcatProperties
  <2>3. /\ Len(b) = l + Len(w)
        /\ \A i \in 1 .. l + Len(w) : b[i] = IF i <= l THEN s[i] ELSE w[i - l]
    BY ConcatProperties
  <2>4. l + Len(w) = l + Len(t) - k
    BY <2>1
  <2> HIDE DEF a, b, l
  <2> QED
    BY <2>1, <2>2, <2>3, <2>4
<1>0. /\ l \in Nat /\ Len(t) \in Nat /\ k \in Nat /\ k <= Len(t)
      /\ Len(a) = l + Len(t) /\ Len(b) = l + Len(t) - k
  BY <1>1
<1>2. /\ \A n \in 0 .. Len(a) : Walk(a)[n] = IF n = 0 THEN <<>> ELSE Enter(Walk(a)[n - 1], a[n])
      /\ \A n \in 0 .. Len(b) : Walk(b)[n] = IF n = 0 THEN <<>> ELSE Enter(Walk(b)[n - 1], b[n])
  <2>1. Len(a) \in Nat /\ Len(b) \in Nat
    BY <1>1
  <2> HIDE DEF a, b
  <2> QED
    BY <2>1, WalkIs
<1> HIDE DEF a, b, l
<1>3. 0 \in S
  BY <1>1, <1>2 DEF Skip
<1>4. ASSUME NEW n \in Nat, n \in S PROVE n + 1 \in S
  <2> SUFFICES ASSUME n + 1 <= Len(a) PROVE Walk(a)[n + 1] = Walk(b)[Skip(n + 1, l, k)]
    OBVIOUS
  <2>1. /\ n + 1 \in 0 .. Len(a) /\ n + 1 # 0 /\ n + 1 - 1 = n /\ n <= Len(a) /\ n + 1 \in 1 .. Len(a)
    BY <1>1
  <2>2. Walk(a)[n + 1] = Enter(Walk(b)[Skip(n, l, k)], a[n + 1])
    BY <1>2, <1>4, <2>1
  <2>3. CASE n + 1 <= l
    <3>1. Skip(n, l, k) = n /\ Skip(n + 1, l, k) = n + 1
      BY <1>0, <2>3 DEF Skip
    <3>2. n + 1 \in 0 .. Len(b) /\ n + 1 \in 1 .. Len(b)
      BY <1>0, <2>3
    <3>3. a[n + 1] = b[n + 1]
      BY <1>1, <2>1, <2>3, <3>2
    <3> QED
      BY <1>2, <2>1, <2>2, <3>1, <3>2, <3>3
  <2>4. CASE l < n + 1 /\ n + 1 <= l + k
    <3>1. Skip(n, l, k) = l /\ Skip(n + 1, l, k) = l
      BY <1>0, <2>4 DEF Skip
    <3>2. n + 1 - l \in 1 .. k /\ ~(n + 1 <= l)
      BY <1>0, <2>4
    <3>3. a[n + 1] = t[n + 1 - l]
      BY <1>1, <2>1, <3>2
    <3>4. t[n + 1 - l] = Nothing
      BY <3>2
    <3> QED
      BY <2>2, <3>1, <3>3, <3>4 DEF Enter
  <2>5. CASE l + k < n + 1
    <3>1. Skip(n, l, k) = n - k /\ Skip(n + 1, l, k) = n + 1 - k
      BY <1>0, <2>5 DEF Skip
    <3>2. /\ n + 1 - k \in 0 .. Len(b) /\ n + 1 - k \in 1 .. Len(b) /\ n + 1 - k # 0
          /\ n + 1 - k - 1 = n - k /\ ~(n + 1 - k <= l) /\ ~(n + 1 <= l)
          /\ n + 1 - k - l \in 1 .. Len(t) - k /\ k + (n + 1 - k - l) = n + 1 - l
      BY <1>0, <2>1, <2>5
    <3>3. b[n + 1 - k] = w[n + 1 - k - l] /\ a[n + 1] = t[n + 1 - l]
      BY <1>1, <2>1, <3>2
    <3>4. b[n + 1 - k] = a[n + 1]
      BY <3>2, <3>3
    <3>5. Walk(b)[n + 1 - k] = Enter(Walk(b)[n - k], b[n + 1 - k])
      <4>1. PICK m \in 1 .. Len(b) : m = n + 1 - k
        BY <3>2
      <4>2. m \in 0 .. Len(b) /\ m # 0 /\ m - 1 = n - k
        BY <1>0, <4>1
      <4>3. Walk(b)[m] = Enter(Walk(b)[m - 1], b[m])
        BY <1>2, <4>2
      <4> QED
        BY <4>1, <4>2, <4>3
    <3> QED
      BY <2>2, <3>1, <3>4, <3>5
  <2> QED
    BY <1>1, <2>3, <2>4, <2>5
<1> HIDE DEF S
<1>5. \A n \in Nat : n \in S
  BY <1>3, <1>4, Induction
<1> QED
  BY <1>1, <1>5 DEF S, a, b, l

\* So the two strategies' paths lead to one place, and stat finds both or none.
LEMMA PathsAgree ==
  ASSUME NEW p \in Procs, aci[p] \in Paths, aci[p] # <<>>, aci[p][Len(aci[p])] # Nothing,
         Stat(FullPath(p), Len(FullPath(p)))
  PROVE  Stat(LocalPath(p), Len(LocalPath(p))) /\ Place(LocalPath(p)) = Place(FullPath(p))
<1> DEFINE t == aci[p]
           w == TrimLeadingSlash(t)
           a == ImagesPath \o t
           b == ImagesPath \o w
           l == Len(ImagesPath)
<1>1. PICK k \in 0 .. Len(t) - 1 :
        /\ \A i \in 1 .. k : t[i] = Nothing
        /\ w \in Paths \ {<<>>} /\ Len(w) = Len(t) - k
        /\ \A i \in 1 .. Len(t) - k : w[i] = t[k + i]
  BY Trimmed
<1>2. LocalPath(p) = a /\ FullPath(p) = b
  BY DEF LocalPath, FullPath
<1>3. ImagesPath \in Paths /\ t \in Paths
  BY PathsAssumption
<1> HIDE DEF t, w
<1>4. /\ l \in Nat /\ Len(t) \in Nat /\ Len(t) >= 1 /\ k \in 0 .. Len(t)
      /\ Len(a) = l + Len(t) /\ Len(b) = l + Len(t) - k
  <2>1. Len(t) \in Nat /\ l \in Nat
    BY <1>3 DEF Paths
  <2>2. Len(w) = Len(t) - k /\ k \in Nat /\ k <= Len(t) - 1
    BY <1>1, <2>1
  <2>3. Len(a) = l + Len(t)
    BY <1>3, ConcatProperties DEF Paths
  <2>4. Len(b) = l + Len(w)
    BY <1>1, <1>3, ConcatProperties DEF Paths
  <2> HIDE DEF a, b, l
  <2> QED
    BY <2>1, <2>2, <2>3, <2>4
<1>5. \A n \in 0 .. Len(a) : Walk(a)[n] = Walk(b)[Skip(n, l, k)]
  BY <1>1, <1>3, <1>4, SkipsNothing
<1> HIDE DEF a, b
<1>6. Skip(Len(a), l, k) = Len(b) /\ \A n \in 0 .. Len(a) - 1 : Skip(n, l, k) \in 0 .. Len(b) - 1
  <2>1. k <= Len(t) - 1
    BY <1>4
  <2> HIDE DEF l
  <2> QED
    BY <1>4, <2>1 DEF Skip
<1>7. Len(a) \in 0 .. Len(a) /\ \A n \in 0 .. Len(a) - 1 : n \in 0 .. Len(a)
  BY <1>4
<1>8. Walk(a)[Len(a)] = Walk(b)[Len(b)] /\ \A n \in 0 .. Len(a) - 1 : Walk(a)[n] = Walk(b)[Skip(n, l, k)]
  BY <1>5, <1>6, <1>7
<1>9. Stat(b, Len(b))
  BY <1>2
<1> HIDE DEF l
<1>10. Stat(a, Len(a)) /\ Place(a) = Place(b)
  BY <1>6, <1>8, <1>9 DEF Stat, Reaches, Place
<1> QED
  BY <1>2, <1>10

-----------------------------------------------------------------------------
(* Requests, and where they lead. *)

LEMMA InitInv == Init => DiscoveryInv
<1> SUFFICES ASSUME Init PROVE DiscoveryInv
  OBVIOUS
<1>1. TypeOK
  BY DEF Init, TypeOK, Steps, Ends, Failures, Paths
<1>2. RequestInv
  BY DEF Init, RequestInv, AsksAsTold
<1>3. GoalInv
  BY DEF Init, GoalInv, OnItsWay
<1> QED
  BY <1>1, <1>2, <1>3 DEF DiscoveryInv

\* The text that a request was rendered to ends in the image's file.
LEMMA AciShape ==
  ASSUME TypeOK, NEW p \in Procs, AsksAsTold(p), aci[p] # <<>>
  PROVE  aci[p] \in Paths /\ aci[p][Len(aci[p])] \notin {Nothing, Here, Up}
<1>1. /\ argv[p] \in Argvs /\ request[p] # <<>>
      /\ request[p] = RequestOf(Main(argv[p]).ordered)
      /\ aci[p] = RenderAciName(request[p][1].name, request[p][1].labels)
  BY DEF TypeOK, AsksAsTold
<1> QED
  BY <1>1, RenderShape

\* What is there stays.
LEMMA StatStays ==
  ASSUME DOMAIN dirs \subseteq DOMAIN dirs', DOMAIN files \subseteq DOMAIN files',
         NEW CONSTANT path, NEW CONSTANT n, Stat(path, n)
  PROVE  Stat(path, n)'
  BY DEF Stat, Reaches

\* Nothing of a process changes that takes no step, and nothing disappears.
LEMMA RestStays ==
  ASSUME TypeOK, NEW p \in Procs, Step(p)
  PROVE  /\ UNCHANGED <<argv, reading>>
         /\ \A q \in Procs \ {p} :
              /\ pc'[q] = pc[q] /\ request'[q] = request[q] /\ aci'[q] = aci[q]
              /\ goal'[q] = goal[q] /\ depth'[q] = depth[q] /\ after'[q] = after[q]
              /\ stored'[q] = stored[q]
         /\ DOMAIN dirs \subseteq DOMAIN dirs' /\ DOMAIN files \subseteq DOMAIN files'
<1> USE DEF TypeOK, GoTo, MakeDir
<1>1. CASE Begin(p)
  BY <1>1 DEF Begin, perProc
<1>2. CASE StatDir(p) \/ MkDir(p) \/ MkDirFails(p)
  BY <1>2 DEF StatDir, MkDir, MkDirFails, perProc
<1>3. CASE Fetch(p) \/ LocalStrategy(p) \/ SimpleStrategy(p)
  BY <1>3 DEF Fetch, LocalStrategy, SimpleStrategy
<1>4. CASE Transfers(p)
  <2>1. \A content : DOMAIN files \subseteq DOMAIN Opened(p, content)
    BY DEF Opened
  <2> QED
    BY <1>4, <2>1 DEF Transfers, Get, GetDenied, GetFails, GetStalls, perProc
<1>5. CASE Finishes(p)
  BY <1>5 DEF Finishes, Validate, ValidateFails, DependencyFails, NewUuid, UuidFails, Repeat, perProc
<1> QED
  BY <1>1, <1>2, <1>3, <1>4, <1>5, StepIs

\* So that what holds of it stays.
LEMMA RestKeeps ==
  ASSUME TypeOK, RequestInv, GoalInv, NEW p \in Procs, Step(p), NEW q \in Procs, q # p
  PROVE  AsksAsTold(q)' /\ OnItsWay(q)'
<1>1. /\ UNCHANGED <<argv, reading>>
      /\ DOMAIN dirs \subseteq DOMAIN dirs' /\ DOMAIN files \subseteq DOMAIN files'
      /\ pc'[q] = pc[q] /\ request'[q] = request[q] /\ aci'[q] = aci[q] /\ goal'[q] = goal[q]
      /\ depth'[q] = depth[q] /\ after'[q] = after[q] /\ stored'[q] = stored[q]
  BY RestStays
<1>2. AsksAsTold(q) /\ OnItsWay(q)
  BY DEF RequestInv, GoalInv
<1>3. AsksAsTold(q)'
  BY <1>1, <1>2 DEF AsksAsTold
<1>4. /\ LocalPath(q)' = LocalPath(q) /\ FullPath(q)' = FullPath(q) /\ StorageDir(q)' = StorageDir(q)
      /\ Dealt(q) => Dealt(q)'
      /\ Stat(StorageDir(q), Len(StorageDir(q))) => Stat(StorageDir(q), Len(StorageDir(q)))'
      /\ Stat(stored[q], Len(stored[q])) => Stat(stored[q], Len(stored[q]))'
  BY <1>1 DEF LocalPath, FullPath, StorageDir, Dealt, Stat, Reaches
<1> HIDE <1>1
<1>5. OnItsWay(q)'
  BY <1>1, <1>2, <1>4 DEF OnItsWay
<1> QED
  BY <1>3, <1>5

\* The type invariant.
LEMMA TypesKept ==
  ASSUME DiscoveryInv, NEW p \in Procs, Step(p)
  PROVE  TypeOK'
<1> USE DEF DiscoveryInv, TypeOK, Steps, Ends, Failures, GoTo, MakeDir
<1>1. CASE Begin(p)
  <2>1. CASE reading[p].does \notin {"fetch", "run"}
    <3>1. reading[p].does \in Commands \cup {"success", "failure"}
      BY MainDoes DEF RequestInv, AsksAsTold
    <3>2. /\ pc' = [pc EXCEPT ![p] = IF reading[p].does \in Commands THEN "elsewhere" ELSE reading[p].does]
          /\ UNCHANGED <<argv, reading, perProc>>
      BY <1>1, <2>1 DEF Begin
    <3> QED
      BY <3>1, <3>2 DEF perProc
  <2>2. CASE reading[p].does \in {"fetch", "run"}
    <3>1. UNCHANGED <<argv, reading, aci, stored>> /\ DOMAIN request' = Procs
      BY <1>1, <2>2 DEF Begin
    <3>2. pc' \in [Procs -> Steps]
      BY <1>1, <2>2 DEF Begin
    <3>3. depth' \in [Procs -> Nat] /\ after' \in [Procs -> {"main", "fetch", "local", "get"}]
      <4>1. \/ UNCHANGED <<depth, after>>
            \/ depth' = [depth EXCEPT ![p] = 0] /\ after' = [after EXCEPT ![p] = "fetch"]
        BY <1>1, <2>2 DEF Begin
      <4> QED
        BY <4>1
    <3>4. goal' \in [Procs -> Paths]
      <4>1. goal' = goal \/ goal' = [goal EXCEPT ![p] = ContainersPath]
        BY <1>1, <2>2 DEF Begin
      <4> QED
        BY <1>1, <4>1, PathsAssumption
    <3> QED
      BY <3>1, <3>2, <3>3, <3>4
  <2> QED
    BY <2>1, <2>2
<1>2. CASE Fetch(p)
  <2>1. argv[p] \in Argvs /\ request[p] # <<>> /\ request[p] = RequestOf(Main(argv[p]).ordered)
    BY <1>2 DEF Fetch, At, RequestInv, AsksAsTold
  <2>2. RenderAciName(request[p][1].name, request[p][1].labels) \in Paths
    BY <2>1, RenderShape
  <2> QED
    BY <1>2, <2>2, PathsAssumption DEF Fetch
<1>3. CASE StatDir(p)
  <2>1. UNCHANGED <<argv, reading, request, aci, goal, after, stored>>
    BY <1>3 DEF StatDir
  <2>2. pc' \in [Procs -> Steps]
    BY <1>3 DEF StatDir
  <2>3. depth' \in [Procs -> Nat]
    BY <1>3 DEF StatDir
  <2> QED
    BY <2>1, <2>2, <2>3
<1>4. CASE MkDir(p) \/ MkDirFails(p)
  BY <1>4 DEF MkDir, MkDirFails, perProc
<1>5. CASE LocalStrategy(p)
  BY <1>5 DEF LocalStrategy
<1>6. CASE SimpleStrategy(p)
  <2>1. UNCHANGED <<argv, reading, request, aci, stored>>
    BY <1>6 DEF SimpleStrategy
  <2>2. CASE pc' = [pc EXCEPT ![p] = "refused"] /\ UNCHANGED <<goal, depth, after>>
    BY <2>1, <2>2
  <2>3. CASE aci[p] # <<>> /\ MakeDir(p, StorageDir(p), "get")
    <3>1. aci[p] \in Paths /\ aci[p][Len(aci[p])] \notin {Nothing, Here, Up}
      BY <2>3, AciShape DEF RequestInv
    <3>2. StorageDir(p) \in Paths
      BY <2>3, <3>1, PathShapes
    <3> QED
      BY <2>1, <2>3, <3>2
  <2> QED
    BY <1>6, <2>2, <2>3 DEF SimpleStrategy
<1>7. CASE Transfers(p)
  BY <1>7 DEF Transfers, Get, GetDenied, GetFails, GetStalls, perProc
<1>8. CASE Finishes(p)
  <2>1. CASE Repeat(p)
    <3>1. <<>> \in Paths
      BY DEF Paths
    <3> QED
      BY <2>1, <3>1 DEF Repeat
  <2>2. CASE ~Repeat(p)
    BY <1>8, <2>2 DEF Finishes, Validate, ValidateFails, DependencyFails, NewUuid, UuidFails, perProc
  <2> QED
    BY <2>1, <2>2
<1> QED
  BY <1>1, <1>2, <1>3, <1>4, <1>5, <1>6, <1>7, <1>8, StepIs

\* The process that takes the step asks for what it asked for, or begins to.
LEMMA AskerKept ==
  ASSUME DiscoveryInv, NEW p \in Procs, Step(p)
  PROVE  AsksAsTold(p)'
<1>1. TypeOK /\ AsksAsTold(p)
  BY DEF DiscoveryInv, RequestInv
<1> USE <1>1 DEF TypeOK, AsksAsTold, At, GoTo, MakeDir
<1>2. CASE Begin(p)
  <2>1. CASE reading[p].does \notin {"fetch", "run"}
    <3>1. UNCHANGED <<argv, reading, request, aci>> /\ pc'[p] \in {"elsewhere", "success", "failure"}
      BY <1>2, <2>1, MainDoes DEF Begin, perProc
    <3> QED
      BY <1>2, <3>1 DEF Begin
  <2>2. CASE reading[p].does \in {"fetch", "run"}
    <3>1. /\ UNCHANGED <<argv, reading, aci>> /\ aci[p] = <<>>
          /\ request'[p] = RequestOf(reading[p].ordered)
          /\ pc'[p] \in {"failure", "refused", "stat", "fetch"}
          /\ request'[p] = <<>> => pc'[p] = "failure"
      BY <1>2, <2>2 DEF Begin
    <3> QED
      BY <2>2, <3>1
  <2> QED
    BY <2>1, <2>2
<1>3. CASE Fetch(p)
  BY <1>3 DEF Fetch
<1>4. CASE Repeat(p)
  BY <1>4 DEF Repeat
<1>5. CASE StatDir(p)
  <2>1. UNCHANGED <<argv, reading, request, aci>> /\ request[p] # <<>> /\ pc[p] # "main"
    BY <1>5 DEF StatDir
  <2>2. pc'[p] # "main"
    BY <1>5 DEF StatDir, DiscoveryInv, GoalInv, OnItsWay
  <2> QED
    BY <2>1, <2>2
<1>6. CASE MkDir(p) \/ MkDirFails(p) \/ LocalStrategy(p) \/ SimpleStrategy(p)
  <2>1. UNCHANGED <<argv, reading, request, aci>> /\ request[p] # <<>> /\ pc[p] # "main"
    BY <1>6 DEF MkDir, MkDirFails, LocalStrategy, SimpleStrategy, perProc
  <2>2. pc'[p] # "main"
    BY <1>6 DEF MkDir, MkDirFails, LocalStrategy, SimpleStrategy
  <2> QED
    BY <2>1, <2>2
<1>7. CASE Transfers(p)
  <2>1. UNCHANGED <<argv, reading, request, aci>> /\ request[p] # <<>> /\ pc[p] # "main"
    BY <1>7 DEF Transfers, Get, GetDenied, GetFails, GetStalls, perProc
  <2>2. pc'[p] # "main"
    BY <1>7 DEF Transfers, Get, GetDenied, GetFails, GetStalls
  <2> QED
    BY <2>1, <2>2
<1>8. CASE Finishes(p) /\ ~Repeat(p)
  <2>1. UNCHANGED <<argv, reading, request, aci>> /\ request[p] # <<>> /\ pc[p] # "main"
    BY <1>8 DEF Finishes, Validate, ValidateFails, DependencyFails, NewUuid, UuidFails, perProc
  <2>2. pc'[p] # "main"
    BY <1>8 DEF Finishes, Validate, ValidateFails, DependencyFails, NewUuid, UuidFails
  <2> QED
    BY <2>1, <2>2
<1> QED
  BY <1>2, <1>3, <1>4, <1>5, <1>6, <1>7, <1>8, StepIs

\* And it is on its way still.
LEMMA WayKept ==
  ASSUME DiscoveryInv, NEW p \in Procs, Step(p)
  PROVE  OnItsWay(p)'
<1>1. TypeOK /\ RequestInv /\ AsksAsTold(p) /\ OnItsWay(p)
  BY DEF DiscoveryInv, RequestInv, GoalInv
<1> USE <1>1 DEF TypeOK, OnItsWay, At, GoTo, MakeDir
<1>2. CASE Begin(p)
  <2>1. CASE reading[p].does \notin {"fetch", "run"}
    <3>1. /\ pc'[p] \in {"elsewhere", "success", "failure"} /\ request'[p] = <<>>
      BY <1>2, <2>1, MainDoes DEF Begin, perProc, AsksAsTold
    <3> QED
      BY <3>1
  <2>2. CASE reading[p].does \in {"fetch", "run"}
    <3>1. /\ pc'[p] \in {"failure", "refused", "fetch", "stat"}
          /\ pc'[p] = "stat" => depth'[p] = 0 /\ goal'[p] = ContainersPath /\ after'[p] = "fetch"
      BY <1>2, <2>2 DEF Begin
    <3> QED
      BY <3>1, PathsAssumption DEF Dealt, Paths
  <2> QED
    BY <2>1, <2>2
<1>3. CASE Fetch(p)
  <2>1. pc'[p] = "stat" /\ depth'[p] = 0 /\ goal'[p] = ImagesPath /\ after'[p] = "local"
    BY <1>3 DEF Fetch
  <2> QED
    BY <2>1, PathsAssumption DEF Dealt, Paths
<1>4. CASE StatDir(p)
  <2>1. /\ UNCHANGED <<dirs, files, request, aci, goal, after, stored>>
        /\ depth[p] \in Nat /\ Len(goal[p]) \in Nat
        /\ Dealt(p) /\ depth[p] <= Len(goal[p]) /\ goal[p] # <<>> /\ after[p] # "main"
        /\ after[p] = "get" => aci[p] # <<>> /\ goal[p] = StorageDir(p)
    BY <1>4 DEF StatDir, Paths
  <2>2. StorageDir(p)' = StorageDir(p) /\ \A n : Stat(goal[p], n)' <=> Stat(goal[p], n)
    BY <2>1 DEF StorageDir, FullPath, Stat, Reaches
  <2>3. CASE depth[p] = Len(goal[p]) /\ GoTo(p, after[p]) /\ UNCHANGED depth
    <3>1. Len(goal[p]) >= 1
      BY <2>1, EmptySeq DEF Paths
    <3>2. Stat(goal[p], Len(goal[p]))
      BY <2>1, <2>3, <3>1 DEF Dealt
    <3>3. after[p] = "get" => Stat(StorageDir(p), Len(StorageDir(p)))'
      BY <2>1, <2>2, <3>2
    <3>4. pc'[p] = after[p] /\ after[p] \in {"fetch", "local", "get"}
      BY <2>1, <2>3
    <3> QED
      BY <2>1, <3>3, <3>4
  <2>4. CASE /\ depth[p] < Len(goal[p]) /\ Stat(goal[p], Current(p))
             /\ depth' = [depth EXCEPT ![p] = @ + 1] /\ UNCHANGED pc
    <3>1. depth'[p] = depth[p] + 1 /\ pc'[p] = "stat"
      BY <1>4, <2>4 DEF StatDir
    <3>2. Dealt(p)'
      BY <2>1, <2>2, <2>4, <3>1 DEF Dealt, Current
    <3> QED
      BY <2>1, <2>2, <2>4, <3>1, <3>2
  <2>5. CASE depth[p] < Len(goal[p]) /\ GoTo(p, "mkdir") /\ UNCHANGED depth
    <3>1. Dealt(p)'
      BY <2>1, <2>2, <2>5 DEF Dealt
    <3> QED
      BY <2>1, <2>2, <2>5, <3>1
  <2> QED
    BY <1>4, <2>3, <2>4, <2>5 DEF StatDir
<1>5. CASE MkDir(p)
  <2>1. /\ UNCHANGED <<files, request, aci, goal, after, stored>>
        /\ DOMAIN dirs' = DOMAIN dirs \cup {Wanted(p)}
        /\ Reaches(goal[p], Current(p))
        /\ depth[p] \in Nat /\ depth'[p] = depth[p] + 1 /\ pc'[p] = "stat"
    BY <1>5 DEF MkDir, MayMkDir
  <2>2. /\ Dealt(p) /\ Len(goal[p]) \in Nat /\ depth[p] < Len(goal[p]) /\ goal[p] # <<>>
        /\ after[p] # "main"
        /\ after[p] = "get" => aci[p] # <<>> /\ goal[p] = StorageDir(p)
    BY <1>5 DEF MkDir, Paths
  <2>3. StorageDir(p)' = StorageDir(p)
    BY <2>1 DEF StorageDir, FullPath
  <2>4. \A n : Stat(goal[p], n) => Stat(goal[p], n)'
    BY <2>1 DEF Stat, Reaches
  <2>5. Stat(goal[p], depth[p])'
    BY <2>1 DEF Stat, Reaches, Wanted, Current
  <2>6. Dealt(p)'
    <3>1. \A n \in 1 .. depth[p] : Stat(goal[p], n)
      BY <2>2 DEF Dealt
    <3>2. ASSUME NEW n \in 1 .. depth'[p] PROVE Stat(goal[p], n)'
      <4>1. n \in 1 .. depth[p] \/ n = depth'[p]
        BY <2>1
      <4> QED
        BY <2>4, <2>5, <3>1, <4>1
    <3> QED
      BY <3>2 DEF Dealt
  <2>7. depth'[p] <= Len(goal'[p])
    BY <2>1, <2>2
  <2> QED
    BY <2>1, <2>2, <2>3, <2>6, <2>7
<1>6. CASE LocalStrategy(p)
  <2>1. UNCHANGED <<dirs, files, aci>> /\ LocalPath(p)' = LocalPath(p)
    BY <1>6 DEF LocalStrategy, LocalPath
  <2>2. CASE aci[p] # <<>> /\ Stat(LocalPath(p), Len(LocalPath(p)))
    <3>1. pc'[p] = "validate" /\ stored'[p] = LocalPath(p)
      BY <1>6, <2>2 DEF LocalStrategy
    <3>2. Stat(stored[p], Len(stored[p]))'
      BY <2>1, <2>2, <3>1 DEF Stat, Reaches
    <3> QED
      BY <2>1, <2>2, <3>1, <3>2
  <2>3. CASE ~(aci[p] # <<>> /\ Stat(LocalPath(p), Len(LocalPath(p))))
    <3>1. pc'[p] = "simple"
      BY <1>6, <2>3 DEF LocalStrategy
    <3> QED
      BY <3>1
  <2> QED
    BY <2>2, <2>3
<1>7. CASE SimpleStrategy(p)
  <2>1. UNCHANGED aci
    BY <1>7 DEF SimpleStrategy
  <2>2. CASE pc' = [pc EXCEPT ![p] = "refused"]
    BY <2>2
  <2>3. CASE aci[p] # <<>> /\ MakeDir(p, StorageDir(p), "get")
    <3>1. aci[p] \in Paths /\ aci[p][Len(aci[p])] \notin {Nothing, Here, Up}
      BY <2>3, AciShape
    <3>2. StorageDir(p) \in Paths \ {<<>>}
      BY <2>3, <3>1, PathShapes
    <3>3. pc'[p] = "stat" /\ depth'[p] = 0 /\ goal'[p] = StorageDir(p) /\ after'[p] = "get"
      BY <2>3
    <3>4. StorageDir(p)' = StorageDir(p)
      BY <2>1 DEF StorageDir, FullPath
    <3>5. Len(StorageDir(p)) \in Nat
      BY <3>2 DEF Paths
    <3>6. Dealt(p)'
      BY <3>3 DEF Dealt
    <3> QED
      BY <2>1, <2>3, <3>2, <3>3, <3>4, <3>5, <3>6
  <2> QED
    BY <1>7, <2>2, <2>3 DEF SimpleStrategy
<1>8. CASE Get(p)
  <2>1. /\ pc'[p] = "validate" /\ stored'[p] = FullPath(p) /\ UNCHANGED <<dirs, aci>> /\ aci[p] # <<>>
        /\ Reaches(FullPath(p), Len(FullPath(p)))
    BY <1>8 DEF Get, MayOpen
  <2>2. Place(FullPath(p)) \in DOMAIN files'
    BY <1>8 DEF Get, Opened
  <2>3. FullPath(p)' = FullPath(p)
    BY <2>1 DEF FullPath
  <2>4. Stat(stored[p], Len(stored[p]))'
    BY <2>1, <2>2 DEF Stat, Reaches, Place
  <2> QED
    BY <2>1, <2>3, <2>4
<1>9. CASE Validate(p) \/ NewUuid(p)
  <2>1. /\ pc[p] \in {"validate", "uuid"} /\ pc'[p] \in {"uuid", "success"}
        /\ UNCHANGED <<dirs, files, aci, stored>>
    BY <1>9 DEF Validate, NewUuid, perProc
  <2>2. /\ LocalPath(p)' = LocalPath(p) /\ FullPath(p)' = FullPath(p)
        /\ Stat(stored[p], Len(stored[p])) => Stat(stored[p], Len(stored[p]))'
    BY <2>1 DEF LocalPath, FullPath, Stat, Reaches
  <2> QED
    BY <2>1, <2>2
<1>10. CASE MkDirFails(p) \/ GetDenied(p) \/ GetFails(p) \/ GetStalls(p)
  <2>1. pc'[p] \in {"raced", "denied", "failure", "stalled"}
    BY <1>10 DEF MkDirFails, GetDenied, GetFails, GetStalls
  <2> QED
    BY <2>1
<1>11. CASE ValidateFails(p) \/ DependencyFails(p) \/ UuidFails(p) \/ Repeat(p)
  <2>1. pc'[p] \in {"unusable", "failure", "main"}
    BY <1>11 DEF ValidateFails, DependencyFails, UuidFails, Repeat
  <2> QED
    BY <2>1
<1> QED
  BY <1>2, <1>3, <1>4, <1>5, <1>6, <1>7, <1>8, <1>9, <1>10, <1>11, StepIs DEF Transfers, Finishes

LEMMA InvStep == DiscoveryInv /\ [Next]_vars => DiscoveryInv'
<1>1. ASSUME DiscoveryInv, NEW p \in Procs, Step(p) PROVE DiscoveryInv'
  <2>1. TypeOK'
    BY <1>1, TypesKept
  <2>2. ASSUME NEW q \in Procs PROVE AsksAsTold(q)' /\ OnItsWay(q)'
    BY <1>1, <2>2, AskerKept, WayKept, RestKeeps DEF DiscoveryInv
  <2> QED
    BY <2>1, <2>2 DEF DiscoveryInv, RequestInv, GoalInv
<1>2. ASSUME DiscoveryInv, UNCHANGED vars PROVE DiscoveryInv'
  <2>1. TypeOK'
    BY <1>2 DEF vars, perProc, DiscoveryInv, TypeOK
  <2>2. RequestInv'
    BY <1>2 DEF vars, perProc, DiscoveryInv, RequestInv, AsksAsTold
  <2>3. GoalInv'
    BY <1>2 DEF vars, perProc, DiscoveryInv, GoalInv, OnItsWay, Dealt, Stat, Reaches, LocalPath,
                FullPath, StorageDir
  <2> QED
    BY <2>1, <2>2, <2>3 DEF DiscoveryInv
<1> QED
  BY <1>1, <1>2 DEF Next, Over

\* No directory and no image without its parent, and at the end of a fetch nothing but
\* what was asked for, with something at its path (mkdir.h:33-52, simple.h:79-101,
\* local.h:73-86).
THEOREM DiscoveryInvAlways == Spec => []DiscoveryInv
  BY InitInv, InvStep, PTL DEF Spec

\* What one command has stored or found, every other finds that asks for the same: the
\* paths that the strategies put together each in its way (local.h:57, simple.h:84)
\* lead to one place.
THEOREM StoredWhereLookedAlways == Spec => []StoredWhereLooked
<1>1. DiscoveryInv => StoredWhereLooked
  <2> SUFFICES ASSUME DiscoveryInv, NEW p \in Procs, NEW q \in Procs,
                      pc[p] = "success", request[p] # <<>>, aci[q] # <<>>, SameImage(p, q)
               PROVE  Stat(LocalPath(q), Len(LocalPath(q))) /\ Place(LocalPath(q)) = Place(stored[p])
    BY DEF StoredWhereLooked
  <2>1. /\ TypeOK /\ AsksAsTold(p) /\ AsksAsTold(q) /\ aci[p] # <<>>
        /\ stored[p] \in {LocalPath(p), FullPath(p)} /\ Stat(stored[p], Len(stored[p]))
    BY DEF DiscoveryInv, RequestInv, GoalInv, OnItsWay
  <2>2. /\ aci[p] = RenderAciName(request[p][1].name, request[p][1].labels)
        /\ aci[q] = RenderAciName(request[q][1].name, request[q][1].labels)
    BY <2>1 DEF AsksAsTold
  <2>3. aci[q] = aci[p]
    BY <2>1, <2>2 DEF SameImage, RenderAciName
  <2>4. aci[p] \in Paths /\ aci[p][Len(aci[p])] # Nothing
    BY <2>1, AciShape
  <2>5. LocalPath(q) = LocalPath(p)
    BY <2>3 DEF LocalPath
  <2>6. CASE stored[p] = LocalPath(p)
    BY <2>1, <2>5, <2>6
  <2>7. CASE stored[p] = FullPath(p)
    BY <2>1, <2>4, <2>5, <2>7, PathsAgree
  <2> QED
    BY <2>1, <2>6, <2>7
<1> QED
  BY <1>1, DiscoveryInvAlways, PTL

-----------------------------------------------------------------------------
(* separate_flags. *)

\* The arguments from i on that are no flags.
PlainAt(args, i) == {k \in i .. Len(args) : args[k] = "--" \/ args[k] \notin DOMAIN DashText}

\* Where the arguments from i on begin that are no flags.
LEMMA PlainFromIs ==
  ASSUME NEW args \in Seq(STRING), NEW i \in 1 .. Len(args) + 2
  PROVE  \/ PlainAt(args, i) = {} /\ PlainFrom(args, i) = Len(args) + 1
         \/ \E first \in i .. Len(args) :
              /\ first \in PlainAt(args, i) /\ \A j \in PlainAt(args, i) : first <= j
              /\ PlainFrom(args, i) = IF args[first] = "--" THEN first + 1 ELSE first
<1> DEFINE first == CHOOSE k \in PlainAt(args, i) : \A j \in PlainAt(args, i) : k <= j
<1>1. CASE PlainAt(args, i) = {}
  BY <1>1 DEF PlainFrom, PlainAt
<1>2. CASE PlainAt(args, i) # {}
  <2>1. PlainAt(args, i) \subseteq Nat
    BY DEF PlainAt
  <2>2. first \in PlainAt(args, i) /\ \A j \in PlainAt(args, i) : first <= j
    BY <1>2, <2>1, LeastOf
  <2>3. PlainFrom(args, i) = IF args[first] = "--" THEN first + 1 ELSE first
    BY <1>2 DEF PlainFrom, PlainAt
  <2>4. first \in i .. Len(args)
    BY <2>2 DEF PlainAt
  <2> HIDE DEF first
  <2> QED
    BY <2>2, <2>3, <2>4
<1> QED
  BY <1>1, <1>2

\* What separate_flags' loop has when it has been through the first n arguments, of
\* which those before f are flags and those from c on ordered.
Separated(args, f, c, n) ==
  [flags |-> {DashText[args[k]] : k \in {j \in 1 .. n : j < f}},
   ordered |-> SubSeq(args, c, n),
   finished |-> f <= n]

\* One turn of the loop.
Turn(args, n, so) ==
  IF ~so.finished /\ args[n] = "--" THEN [so EXCEPT !.finished = TRUE]
  ELSE IF ~so.finished /\ args[n] \in DOMAIN DashText
  THEN [so EXCEPT !.flags = @ \cup {DashText[args[n]]}]
  ELSE [so EXCEPT !.finished = TRUE, !.ordered = Append(@, args[n])]

\* f is the first argument that is no flag, and c where the ordered ones begin.
Begins(args, f, c) ==
  /\ f \in 1 .. Len(args) + 1
  /\ \A k \in 1 .. f - 1 : args[k] # "--" /\ args[k] \in DOMAIN DashText
  /\ f <= Len(args) => args[f] = "--" \/ args[f] \notin DOMAIN DashText
  /\ c = IF f <= Len(args) /\ args[f] = "--" THEN f + 1 ELSE f

LEMMA TurnSeparates ==
  ASSUME NEW args \in Seq(STRING), NEW f, NEW c, Begins(args, f, c), NEW n \in 1 .. Len(args)
  PROVE  Turn(args, n, Separated(args, f, c, n - 1)) = Separated(args, f, c, n)
<1> DEFINE so == Separated(args, f, c, n - 1)
           flags(m) == {DashText[args[k]] : k \in {j \in 1 .. m : j < f}}
<1>1. /\ so = [flags |-> flags(n - 1), ordered |-> SubSeq(args, c, n - 1), finished |-> f <= n - 1]
      /\ Separated(args, f, c, n) = [flags |-> flags(n), ordered |-> SubSeq(args, c, n), finished |-> f <= n]
  BY DEF Separated
<1>2. f \in Nat /\ c \in Nat /\ n \in Nat /\ f <= c /\ f >= 1
  BY DEF Begins
<1>3. f <= n => flags(n) = flags(n - 1)
  <2> SUFFICES ASSUME f <= n PROVE {j \in 1 .. n : j < f} = {j \in 1 .. n - 1 : j < f}
    OBVIOUS
  <2> QED
    BY <1>2
<1>4. n < f => flags(n) = flags(n - 1) \cup {DashText[args[n]]}
  <2> SUFFICES ASSUME n < f PROVE {j \in 1 .. n : j < f} = {j \in 1 .. n - 1 : j < f} \cup {n}
    BY Zenon
  <2> QED
    BY <1>2
<1>5. n < c => SubSeq(args, c, n) = <<>> /\ SubSeq(args, c, n - 1) = <<>>
  BY <1>2
<1>6. c <= n => SubSeq(args, c, n) = Append(SubSeq(args, c, n - 1), args[n])
  <2> SUFFICES ASSUME c <= n PROVE SubSeq(args, c, n) = Append(SubSeq(args, c, n - 1), args[n])
    OBVIOUS
  <2>1. SubSeq(args, c, n - 1) = [i \in 1 .. n - c |-> args[c + i - 1]]
    BY <1>2
  <2>2. SubSeq(args, c, n) = [i \in 1 .. n - c + 1 |-> args[c + i - 1]]
    BY <1>2
  <2> QED
    BY <1>2, <2>1, <2>2
<1> DEFINE turn(g, s, b) == Turn(args, n, [flags |-> g, ordered |-> s, finished |-> b])
<1>7. ASSUME NEW g, NEW s, NEW b \in BOOLEAN
      PROVE  /\ ~b /\ args[n] = "--" => turn(g, s, b) = [flags |-> g, ordered |-> s, finished |-> TRUE]
             /\ ~b /\ args[n] # "--" /\ args[n] \in DOMAIN DashText =>
                  turn(g, s, b) = [flags |-> g \cup {DashText[args[n]]}, ordered |-> s, finished |-> FALSE]
             /\ b \/ (args[n] # "--" /\ args[n] \notin DOMAIN DashText) =>
                  turn(g, s, b) = [flags |-> g, ordered |-> Append(s, args[n]), finished |-> TRUE]
  BY DEF Turn
<1>8. Turn(args, n, so) = turn(flags(n - 1), SubSeq(args, c, n - 1), f <= n - 1)
  BY <1>1
<1> HIDE DEF flags, so, turn
<1>9. CASE n < f
  <2>1. args[n] # "--" /\ args[n] \in DOMAIN DashText /\ n < c
    BY <1>2, <1>9 DEF Begins
  <2>2. (f <= n - 1) = FALSE /\ (f <= n) = FALSE
    BY <1>2, <1>9
  <2>3. turn(flags(n - 1), <<>>, FALSE) =
               [flags |-> flags(n - 1) \cup {DashText[args[n]]}, ordered |-> <<>>, finished |-> FALSE]
    BY <1>7, <2>1
  <2> QED
    BY <1>1, <1>4, <1>5, <1>8, <1>9, <2>1, <2>2, <2>3 DEF so
<1>10. CASE n = f
  <2>1. (f <= n - 1) = FALSE /\ (f <= n) = TRUE /\ f <= n
    BY <1>2, <1>10
  <2>2. CASE args[n] = "--"
    <3>1. n < c
      BY <1>2, <1>10, <2>2 DEF Begins
    <3>2. turn(flags(n - 1), <<>>, FALSE) = [flags |-> flags(n - 1), ordered |-> <<>>, finished |-> TRUE]
      BY <1>7, <2>2
    <3> QED
      BY <1>1, <1>3, <1>5, <1>8, <2>1, <3>1, <3>2 DEF so
  <2>3. CASE args[n] # "--"
    <3>1. c <= n /\ args[n] \notin DOMAIN DashText
      BY <1>2, <1>10, <2>3 DEF Begins
    <3>2. turn(flags(n - 1), SubSeq(args, c, n - 1), FALSE) =
            [flags |-> flags(n - 1), ordered |-> Append(SubSeq(args, c, n - 1), args[n]), finished |-> TRUE]
      BY <1>7, <2>3, <3>1
    <3> QED
      BY <1>1, <1>3, <1>6, <1>8, <2>1, <3>1, <3>2 DEF so
  <2> QED
    BY <2>2, <2>3
<1>11. CASE f < n
  <2>1. f <= n /\ c <= n /\ (f <= n - 1) = TRUE /\ (f <= n) = TRUE
    BY <1>2, <1>11 DEF Begins
  <2>2. turn(flags(n - 1), SubSeq(args, c, n - 1), TRUE) =
          [flags |-> flags(n - 1), ordered |-> Append(SubSeq(args, c, n - 1), args[n]), finished |-> TRUE]
    BY <1>7
  <2> QED
    BY <1>1, <1>3, <1>6, <1>8, <2>1, <2>2 DEF so
<1> QED
  BY <1>2, <1>9, <1>10, <1>11

\* For arguments of every length: separate_flags gives the flags before the first
\* argument that is none, and all that follow (command.cpp:24-38).
THEOREM SeparateFlagsIs ==
  ASSUME NEW args \in Seq(STRING), NEW f, NEW c, Begins(args, f, c)
  PROVE  SeparateFlags(args) = Separated(args, f, c, Len(args))
<1> DEFINE start == [flags |-> {}, ordered |-> <<>>, finished |-> FALSE]
           Sep(g) == g = [n \in 0 .. Len(args) |-> IF n = 0 THEN start ELSE Turn(args, n, g[n - 1])]
           sep == CHOOSE g : Sep(g)
           closed == [n \in 0 .. Len(args) |-> Separated(args, f, c, n)]
<1>1. SeparateFlags(args) = sep[Len(args)]
  BY DEF SeparateFlags, Turn
<1>2. Separated(args, f, c, 0) = start
  <2>1. f \in Nat /\ c \in Nat /\ f >= 1 /\ c >= 1
    BY DEF Begins
  <2>2. {j \in 1 .. 0 : j < f} = {} /\ SubSeq(args, c, 0) = <<>> /\ ~(f <= 0)
    BY <2>1
  <2>3. Separated(args, f, c, 0) = start
    <3>1. {DashText[args[k]] : k \in {j \in 1 .. 0 : j < f}} = {} /\ (f <= 0) = FALSE
      BY <2>1, <2>2
    <3> QED
      BY <2>2, <3>1 DEF Separated
  <2> QED
    BY <2>3
<1>3. ASSUME NEW n \in 1 .. Len(args) PROVE Separated(args, f, c, n) = Turn(args, n, Separated(args, f, c, n - 1))
  BY TurnSeparates
<1>4. Sep(closed)
  <2>1. ASSUME NEW n \in 0 .. Len(args)
        PROVE  closed[n] = IF n = 0 THEN start ELSE Turn(args, n, closed[n - 1])
    <3>1. CASE n = 0
      BY <1>2, <3>1
    <3>2. CASE n # 0
      <4>1. n \in 1 .. Len(args) /\ n - 1 \in 0 .. Len(args)
        BY <3>2
      <4> QED
        BY <1>3, <4>1
    <3> QED
      BY <3>1, <3>2
  <2> QED
    BY <2>1
<1>5. Sep(sep)
  BY <1>4
<1>6. ASSUME NEW n \in 1 .. Len(args) PROVE sep[n] = Turn(args, n, sep[n - 1])
  <2>1. n \in 0 .. Len(args) /\ n # 0
    OBVIOUS
  <2>2. \A g : Sep(g) => \A m \in 0 .. Len(args) : g[m] = IF m = 0 THEN start ELSE Turn(args, m, g[m - 1])
    OBVIOUS
  <2>3. \A m \in 0 .. Len(args) : sep[m] = IF m = 0 THEN start ELSE Turn(args, m, sep[m - 1])
    <3> HIDE DEF Sep, sep
    <3> QED
      BY <1>5, <2>2
  <2> HIDE DEF sep
  <2> QED
    BY <2>1, <2>3
<1> HIDE DEF sep
<1>7. \A n \in Nat : n \in {m \in Nat : m <= Len(args) => sep[m] = Separated(args, f, c, m)}
  <2> DEFINE S == {m \in Nat : m <= Len(args) => sep[m] = Separated(args, f, c, m)}
  <2>1. 0 \in S
    BY <1>2, <1>5
  <2>2. ASSUME NEW n \in Nat, n \in S PROVE n + 1 \in S
    <3> SUFFICES ASSUME n + 1 <= Len(args) PROVE sep[n + 1] = Separated(args, f, c, n + 1)
      OBVIOUS
    <3>1. n + 1 \in 1 .. Len(args) /\ n + 1 \in 0 .. Len(args) /\ n + 1 # 0 /\ n + 1 - 1 = n /\ n <= Len(args)
      OBVIOUS
    <3>2. sep[n + 1] = Turn(args, n + 1, sep[n])
      BY <1>6, <3>1
    <3>3. sep[n] = Separated(args, f, c, n)
      BY <2>2, <3>1
    <3> QED
      BY <1>3, <3>1, <3>2, <3>3
  <2> HIDE DEF S
  <2>3. \A n \in Nat : n \in S
    BY <2>1, <2>2, Induction
  <2> QED
    BY <2>3 DEF S
<1> QED
  BY <1>1, <1>7

-----------------------------------------------------------------------------
(* The labels. *)

\* Where the label n is given a value among the first m arguments after the image.
Givers(ordered, m, n) == {k \in 2 .. m : LabelOf[ordered[k]].name = n}
LastGiver(ordered, m, n) == CHOOSE k \in Givers(ordered, m, n) : \A j \in Givers(ordered, m, n) : j <= k

\* The labels after the first m of them have been read.
Labelled(ordered, m) ==
  IF m = 1 THEN DefaultLabels
  ELSE [n \in DOMAIN DefaultLabels \cup {LabelOf[ordered[k]].name : k \in 2 .. m} |->
          IF Givers(ordered, m, n) = {} THEN DefaultLabels[n]
          ELSE LabelOf[ordered[LastGiver(ordered, m, n)]].value]

With(labels, label) ==
  [n \in DOMAIN labels \cup {label.name} |-> IF n = label.name THEN label.value ELSE labels[n]]

LEMMA LastGiverIs ==
  ASSUME NEW ordered, NEW m \in Nat, NEW n, NEW k \in Givers(ordered, m, n),
         \A j \in Givers(ordered, m, n) : j <= k
  PROVE  LastGiver(ordered, m, n) = k
<1>1. Givers(ordered, m, n) \subseteq Nat
  BY DEF Givers
<1>2. \A i \in Givers(ordered, m, n) : (\A j \in Givers(ordered, m, n) : j <= i) => i = k
  BY <1>1
<1> QED
  BY <1>2 DEF LastGiver

\* What the labels of the first m arguments are.
LEMMA LabelledIs ==
  ASSUME NEW ordered, NEW m \in Nat \ {0}
  PROVE  /\ m # 1 => DOMAIN Labelled(ordered, m) =
                       DOMAIN DefaultLabels \cup {LabelOf[ordered[k]].name : k \in 2 .. m}
         /\ \A n \in DOMAIN Labelled(ordered, m) :
              Labelled(ordered, m)[n] =
                IF Givers(ordered, m, n) = {} THEN DefaultLabels[n]
                ELSE LabelOf[ordered[LastGiver(ordered, m, n)]].value
<1>1. CASE m = 1
  <2>1. \A n : Givers(ordered, 1, n) = {}
    BY DEF Givers
  <2>2. Labelled(ordered, m) = DefaultLabels
    BY <1>1 DEF Labelled
  <2> QED
    BY <1>1, <2>1, <2>2
<1>2. CASE m # 1
  BY <1>2 DEF Labelled
<1> QED
  BY <1>1, <1>2

\* One label more is read.
LEMMA LabelledNext ==
  ASSUME NEW ordered, NEW m \in Nat, m >= 2
  PROVE  Labelled(ordered, m) =
           With(Labelled(ordered, m - 1), LabelOf[ordered[m]])
<1> DEFINE a == LabelOf[ordered[m]].name
           v == LabelOf[ordered[m]].value
           old == Labelled(ordered, m - 1)
           domain(i) == DOMAIN DefaultLabels \cup {LabelOf[ordered[k]].name : k \in 2 .. i}
           value(i, n) == IF Givers(ordered, i, n) = {} THEN DefaultLabels[n]
                          ELSE LabelOf[ordered[LastGiver(ordered, i, n)]].value
<1>1. Labelled(ordered, m) = [n \in domain(m) |-> value(m, n)]
  BY DEF Labelled
<1>2. DOMAIN old = domain(m - 1)
  <2>1. CASE m = 2
    <3>1. {LabelOf[ordered[k]].name : k \in 2 .. 1} = {}
      OBVIOUS
    <3>2. old = DefaultLabels
      BY <2>1 DEF Labelled
    <3> HIDE DEF old
    <3> QED
      BY <2>1, <3>1, <3>2
  <2>2. CASE m # 2
    <3>1. m - 1 \in Nat \ {0} /\ m - 1 # 1
      BY <2>2
    <3> QED
      BY <3>1, LabelledIs
  <2> QED
    BY <2>1, <2>2
<1>3. \A n \in DOMAIN old : old[n] = value(m - 1, n)
  <2>1. m - 1 \in Nat \ {0}
    OBVIOUS
  <2> QED
    BY <2>1, LabelledIs
<1>4. domain(m) = {a} \cup domain(m - 1)
  <2>1. 2 .. m = {m} \cup 2 .. m - 1
    OBVIOUS
  <2> HIDE DEF old
  <2> QED
    BY <2>1
<1>5. value(m, a) = v
  <2>1. m \in Givers(ordered, m, a) /\ \A j \in Givers(ordered, m, a) : j <= m
    BY DEF Givers
  <2>2. LastGiver(ordered, m, a) = m
    BY <2>1, LastGiverIs
  <2> QED
    BY <2>1, <2>2
<1>6. ASSUME NEW n, n # a PROVE value(m, n) = value(m - 1, n)
  <2>1. Givers(ordered, m, n) = Givers(ordered, m - 1, n)
    <3>1. \A k : k \in 2 .. m <=> k = m \/ k \in 2 .. m - 1
      OBVIOUS
    <3> QED
      BY <1>6, <3>1 DEF Givers
  <2>2. LastGiver(ordered, m, n) = LastGiver(ordered, m - 1, n)
    BY <2>1 DEF LastGiver
  <2> QED
    BY <2>1, <2>2
<1> HIDE DEF old, domain, value, a, v
<1>7. With(old, LabelOf[ordered[m]]) = [n \in DOMAIN old \cup {a} |-> IF n = a THEN v ELSE old[n]]
  BY DEF With, a, v
<1>8. \A n \in domain(m) : value(m, n) = IF n = a THEN v ELSE old[n]
  BY <1>2, <1>3, <1>4, <1>5, <1>6
<1>9. With(old, LabelOf[ordered[m]]) = [n \in domain(m) |-> IF n = a THEN v ELSE old[n]]
  BY <1>2, <1>4, <1>7
<1>10. [n \in domain(m) |-> value(m, n)] = [n \in domain(m) |-> IF n = a THEN v ELSE old[n]]
  BY <1>8
<1> QED
  BY <1>1, <1>9, <1>10 DEF old, a, v

\* For any number of labels: fetch and run ask for the first argument, with the
\* last value given to each name, or the default (command/fetch.cpp:36-59).
THEOREM RequestOfIs ==
  ASSUME NEW ordered \in Seq(STRING), ordered # <<>>,
         \A i \in 2 .. Len(ordered) : ordered[i] \in DOMAIN LabelOf
  PROVE  RequestOf(ordered) = <<[name |-> ordered[1], labels |-> Labelled(ordered, Len(ordered))]>>
<1> DEFINE one(n, l) == IF n = 1 THEN DefaultLabels
                        ELSE With(l, LabelOf[ordered[n]])
           Reads(g) == g = [n \in 1 .. Len(ordered) |-> one(n, g[n - 1])]
           labels == CHOOSE g : Reads(g)
           closed == [n \in 1 .. Len(ordered) |-> Labelled(ordered, n)]
<1>1. RequestOf(ordered) = <<[name |-> ordered[1], labels |-> labels[Len(ordered)]]>>
  BY DEF RequestOf, With
<1>2. Len(ordered) \in Nat /\ Len(ordered) >= 1
  OBVIOUS
<1>3. ASSUME NEW n \in 1 .. Len(ordered) PROVE Labelled(ordered, n) = one(n, Labelled(ordered, n - 1))
  <2>1. CASE n = 1
    BY <2>1 DEF Labelled
  <2>2. CASE n # 1
    BY <2>2, LabelledNext
  <2> QED
    BY <2>1, <2>2
<1> HIDE DEF one
<1>4. Reads(closed)
  <2>1. ASSUME NEW n \in 1 .. Len(ordered) PROVE Labelled(ordered, n) = one(n, closed[n - 1])
    <3>1. CASE n = 1
      BY <3>1 DEF one, Labelled
    <3>2. CASE n # 1
      <4>1. n - 1 \in 1 .. Len(ordered)
        BY <3>2
      <4> QED
        BY <1>3, <4>1
    <3> QED
      BY <3>1, <3>2
  <2> QED
    BY <2>1
<1>5. Reads(labels)
  BY <1>4
<1>6. ASSUME NEW n \in 1 .. Len(ordered) PROVE labels[n] = one(n, labels[n - 1])
  <2>1. \A g : Reads(g) => \A m \in 1 .. Len(ordered) : g[m] = one(m, g[m - 1])
    OBVIOUS
  <2> HIDE DEF Reads, labels
  <2> QED
    BY <1>5, <2>1
<1> HIDE DEF labels, Reads, closed
<1>7. \A n \in Nat : n \in {m \in Nat : m \in 1 .. Len(ordered) => labels[m] = Labelled(ordered, m)}
  <2> DEFINE S == {m \in Nat : m \in 1 .. Len(ordered) => labels[m] = Labelled(ordered, m)}
  <2>1. 0 \in S
    OBVIOUS
  <2>2. ASSUME NEW n \in Nat, n \in S PROVE n + 1 \in S
    <3> SUFFICES ASSUME n + 1 \in 1 .. Len(ordered) PROVE labels[n + 1] = Labelled(ordered, n + 1)
      OBVIOUS
    <3>1. labels[n + 1] = one(n + 1, labels[n])
      BY <1>6
    <3>2. Labelled(ordered, n + 1) = one(n + 1, Labelled(ordered, n))
      BY <1>3
    <3>3. CASE n = 0
      BY <3>1, <3>2, <3>3 DEF one
    <3>4. CASE n # 0
      <4>1. n \in 1 .. Len(ordered)
        BY <3>4
      <4> QED
        BY <2>2, <3>1, <3>2, <4>1
    <3> QED
      BY <3>3, <3>4
  <2> HIDE DEF S
  <2>3. \A n \in Nat : n \in S
    BY <2>1, <2>2, Induction
  <2> QED
    BY <2>3 DEF S
<1>8. labels[Len(ordered)] = Labelled(ordered, Len(ordered))
  BY <1>2, <1>7
<1> QED
  BY <1>1, <1>8

-----------------------------------------------------------------------------
(* main, and the request. *)

\* What separate_flags makes of the arguments from i on.
LEMMA SeparatesFrom ==
  ASSUME NEW args \in Seq(STRING), NEW i \in 1 .. Len(args) + 1
  PROVE  /\ PlainFrom(args, i) \in i .. Len(args) + 1
         /\ SeparateFlags(SubSeq(args, i, Len(args))).ordered = SubSeq(args, PlainFrom(args, i), Len(args))
         /\ \A x : x \in SeparateFlags(SubSeq(args, i, Len(args))).flags <=>
              \E k \in i .. PlainFrom(args, i) - 1 :
                args[k] \in DOMAIN DashText /\ args[k] # "--" /\ DashText[args[k]] = x
<1> DEFINE s == SubSeq(args, i, Len(args))
           from == PlainFrom(args, i)
<1>1. Len(args) \in Nat /\ i \in Nat /\ i >= 1 /\ i <= Len(args) + 1
  OBVIOUS
<1>2. /\ s \in Seq(STRING) /\ Len(s) = Len(args) - i + 1
      /\ \A k \in 1 .. Len(s) : s[k] = args[k + i - 1]
  <2>1. s = [k \in 1 .. Len(args) - i + 1 |-> args[i + k - 1]]
    BY <1>1
  <2>2. Len(args) - i + 1 \in Nat
    BY <1>1
  <2>3. \A k \in 1 .. Len(args) - i + 1 : i + k - 1 \in 1 .. Len(args)
    BY <1>1
  <2> HIDE DEF s
  <2>4. s \in Seq(STRING)
    BY <2>1, <2>2, <2>3
  <2> QED
    BY <2>1, <2>2, <2>4
<1> HIDE DEF s
<1>3. PICK g \in i .. Len(args) + 1 :
        /\ \A k \in i .. g - 1 : args[k] # "--" /\ args[k] \in DOMAIN DashText
        /\ g <= Len(args) => args[g] = "--" \/ args[g] \notin DOMAIN DashText
        /\ from = IF g <= Len(args) /\ args[g] = "--" THEN g + 1 ELSE g
  <2>1. CASE PlainAt(args, i) = {} /\ from = Len(args) + 1
    <3>1. \A k \in i .. Len(args) : args[k] # "--" /\ args[k] \in DOMAIN DashText
      BY <2>1 DEF PlainAt
    <3>2. /\ Len(args) + 1 \in i .. Len(args) + 1 /\ Len(args) + 1 - 1 = Len(args)
          /\ ~(Len(args) + 1 <= Len(args))
      BY <1>1
    <3> QED
      BY <2>1, <3>1, <3>2
  <2>2. ASSUME NEW first \in i .. Len(args),
               first \in PlainAt(args, i), \A j \in PlainAt(args, i) : first <= j,
               from = IF args[first] = "--" THEN first + 1 ELSE first
        PROVE  \E g \in i .. Len(args) + 1 :
                 /\ \A k \in i .. g - 1 : args[k] # "--" /\ args[k] \in DOMAIN DashText
                 /\ g <= Len(args) => args[g] = "--" \/ args[g] \notin DOMAIN DashText
                 /\ from = IF g <= Len(args) /\ args[g] = "--" THEN g + 1 ELSE g
    <3>1. \A k \in i .. first - 1 : args[k] # "--" /\ args[k] \in DOMAIN DashText
      <4>1. \A k \in i .. first - 1 : k \in i .. Len(args) /\ ~(first <= k)
        BY <1>1
      <4> QED
        BY <2>2, <4>1 DEF PlainAt
    <3>2. first \in i .. Len(args) + 1 /\ first <= Len(args)
      BY <1>1
    <3>3. args[first] = "--" \/ args[first] \notin DOMAIN DashText
      BY <2>2 DEF PlainAt
    <3> QED
      BY <2>2, <3>1, <3>2, <3>3
  <2>3. i \in 1 .. Len(args) + 2
    BY <1>1
  <2> HIDE DEF from
  <2> QED
    BY <2>1, <2>2, <2>3, PlainFromIs DEF from
<1> HIDE DEF from
<1>4. g \in Nat /\ from \in i .. Len(args) + 1 /\ from \in Nat /\ g >= i /\ g <= Len(args) + 1
  BY <1>1, <1>3
<1> DEFINE f == g - i + 1
           c == from - i + 1
<1>5. f \in Nat /\ c \in Nat /\ f >= 1 /\ c >= 1
  BY <1>1, <1>4
<1>6. Begins(s, f, c)
  <2>1. f \in 1 .. Len(s) + 1
    BY <1>1, <1>2, <1>4
  <2>2. ASSUME NEW k \in 1 .. f - 1 PROVE s[k] # "--" /\ s[k] \in DOMAIN DashText
    <3>1. k + i - 1 \in i .. g - 1 /\ k \in 1 .. Len(s)
      BY <1>1, <1>2, <1>4
    <3>2. s[k] = args[k + i - 1]
      BY <1>2, <3>1
    <3> QED
      BY <1>3, <3>1, <3>2
  <2>3. f <= Len(s) <=> g <= Len(args)
    BY <1>1, <1>2, <1>4
  <2>4. f <= Len(s) => s[f] = args[g]
    BY <1>1, <1>2, <1>4, <1>5
  <2>5. f <= Len(s) => s[f] = "--" \/ s[f] \notin DOMAIN DashText
    BY <1>3, <2>3, <2>4
  <2>6. c = IF f <= Len(s) /\ s[f] = "--" THEN f + 1 ELSE f
    <3>1. CASE g <= Len(args) /\ args[g] = "--"
      <4>1. from = g + 1
        BY <1>3, <3>1
      <4> QED
        BY <1>1, <1>4, <2>3, <2>4, <3>1, <4>1
    <3>2. CASE ~(g <= Len(args) /\ args[g] = "--")
      <4>1. from = g
        BY <1>3, <3>2
      <4> QED
        BY <1>1, <1>4, <2>3, <2>4, <3>2, <4>1
    <3> QED
      BY <3>1, <3>2
  <2> HIDE DEF f, c
  <2> QED
    BY <2>1, <2>2, <2>5, <2>6 DEF Begins
<1>7. SeparateFlags(s) = Separated(s, f, c, Len(s))
  <2> HIDE DEF f, c
  <2> QED
    BY <1>2, <1>6, SeparateFlagsIs
<1>8. SeparateFlags(s).ordered = SubSeq(args, from, Len(args))
  <2>1. SeparateFlags(s).ordered = SubSeq(s, c, Len(s))
    <3>1. \A a, b, m : Separated(s, a, b, m).ordered = SubSeq(s, b, m)
      BY Zenon DEF Separated
    <3> HIDE DEF f, c
    <3> QED
      BY <1>7, <3>1
  <2>2. SubSeq(s, c, Len(s)) = [k \in 1 .. Len(s) - c + 1 |-> s[c + k - 1]]
    <3> HIDE DEF f, c
    <3> QED
      BY <1>2, <1>5
  <2>3. SubSeq(args, from, Len(args)) = [k \in 1 .. Len(args) - from + 1 |-> args[from + k - 1]]
    BY <1>4
  <2>4. Len(s) - c + 1 = Len(args) - from + 1
    BY <1>1, <1>2, <1>4
  <2>5. ASSUME NEW k \in 1 .. Len(args) - from + 1 PROVE s[c + k - 1] = args[from + k - 1]
    <3>1. c + k - 1 \in 1 .. Len(s) /\ c + k - 1 + i - 1 = from + k - 1
      BY <1>1, <1>2, <1>4
    <3> HIDE DEF c
    <3> QED
      BY <1>2, <3>1
  <2> HIDE DEF c
  <2> QED
    BY <2>1, <2>2, <2>3, <2>4, <2>5
<1>9. ASSUME NEW x
      PROVE  x \in SeparateFlags(s).flags <=>
               \E k \in i .. from - 1 : args[k] \in DOMAIN DashText /\ args[k] # "--" /\ DashText[args[k]] = x
  <2>1. SeparateFlags(s).flags = {DashText[s[k]] : k \in {j \in 1 .. Len(s) : j < f}}
    BY <1>7 DEF Separated
  <2>2. ASSUME NEW k \in {j \in 1 .. Len(s) : j < f}
        PROVE  /\ k + i - 1 \in i .. from - 1
               /\ args[k + i - 1] \in DOMAIN DashText /\ args[k + i - 1] # "--" /\ s[k] = args[k + i - 1]
    <3>1. k \in 1 .. Len(s) /\ k + i - 1 \in i .. g - 1 /\ g <= from
      BY <1>1, <1>2, <1>3, <1>4
    <3> QED
      BY <1>1, <1>2, <1>3, <1>4, <3>1
  <2>3. ASSUME NEW k \in i .. from - 1, args[k] \in DOMAIN DashText, args[k] # "--"
        PROVE  k - i + 1 \in {j \in 1 .. Len(s) : j < f} /\ s[k - i + 1] = args[k]
    <3>1. k < g
      BY <1>1, <1>3, <1>4, <2>3
    <3>2. k - i + 1 \in 1 .. Len(s) /\ k - i + 1 < f /\ k - i + 1 + i - 1 = k
      BY <1>1, <1>2, <1>4, <3>1
    <3> QED
      BY <1>2, <3>2
  <2> HIDE DEF f, c
  <2>4. ASSUME x \in SeparateFlags(s).flags
        PROVE  \E k \in i .. from - 1 : args[k] \in DOMAIN DashText /\ args[k] # "--" /\ DashText[args[k]] = x
    <3>1. PICK k \in {j \in 1 .. Len(s) : j < f} : x = DashText[s[k]]
      BY <2>1, <2>4
    <3> QED
      BY <2>2, <3>1
  <2>5. ASSUME NEW k \in i .. from - 1, args[k] \in DOMAIN DashText, args[k] # "--", DashText[args[k]] = x
        PROVE  x \in SeparateFlags(s).flags
    BY <2>1, <2>3, <2>5
  <2> QED
    BY <2>4, <2>5
<1> QED
  BY <1>4, <1>8, <1>9 DEF s, from

CommandAt(args) == PlainFrom(args, 1)
ImageAt(args) == PlainFrom(args, CommandAt(args) + 1)
NoHelp(args) ==
  \A k \in 1 .. CommandAt(args) - 1 :
    args[k] \in DOMAIN DashText => args[k] = "--" \/ DashText[args[k]] # "help"

\* Which arguments main dispatches to fetch or run, and what it gives them.
LEMMA MainReads ==
  ASSUME NEW args \in Seq(STRING)
  PROVE  /\ CommandAt(args) \in 1 .. Len(args) + 1
         /\ Main(args).does \in {"fetch", "run"} <=>
              CommandAt(args) <= Len(args) /\ args[CommandAt(args)] \in {"fetch", "run"} /\ NoHelp(args)
         /\ Main(args).does \in {"fetch", "run"} =>
              /\ ImageAt(args) \in CommandAt(args) + 1 .. Len(args) + 1
              /\ Main(args).ordered = SubSeq(args, ImageAt(args), Len(args))
<1> DEFINE main == SeparateFlags(args)
           command == CommandAt(args)
<1>1. Len(args) \in Nat /\ args = SubSeq(args, 1, Len(args))
  OBVIOUS
<1>2. /\ command \in 1 .. Len(args) + 1
      /\ main.ordered = SubSeq(args, command, Len(args))
      /\ \A x : x \in main.flags <=>
           \E k \in 1 .. command - 1 : args[k] \in DOMAIN DashText /\ args[k] # "--" /\ DashText[args[k]] = x
  <2>1. 1 \in 1 .. Len(args) + 1
    BY <1>1
  <2> QED
    <3>1. /\ PlainFrom(args, 1) \in 1 .. Len(args) + 1
          /\ SeparateFlags(SubSeq(args, 1, Len(args))).ordered = SubSeq(args, PlainFrom(args, 1), Len(args))
          /\ \A x : x \in SeparateFlags(SubSeq(args, 1, Len(args))).flags <=>
               \E k \in 1 .. PlainFrom(args, 1) - 1 :
                 args[k] \in DOMAIN DashText /\ args[k] # "--" /\ DashText[args[k]] = x
      BY <2>1, SeparatesFrom
    <3>2. SeparateFlags(SubSeq(args, 1, Len(args))) = main
      BY <1>1
    <3> HIDE DEF main
    <3> QED
      BY <3>1, <3>2 DEF CommandAt
<1> HIDE DEF main, command
<1>3. "help" \in main.flags <=> ~NoHelp(args)
  BY <1>2 DEF NoHelp, command
<1>4. CASE command = Len(args) + 1
  <2>1. main.ordered = <<>>
    BY <1>1, <1>2, <1>4
  <2>2. Main(args).does \in {"success", "failure"}
    BY <1>3, <2>1 DEF Main, Does, main
  <2>3. ~(command <= Len(args))
    BY <1>1, <1>4
  <2> QED
    BY <1>2, <2>2, <2>3 DEF command
<1>5. CASE command # Len(args) + 1
  <2>1. command \in Nat /\ command >= 1 /\ command <= Len(args) /\ command + 1 \in 1 .. Len(args) + 1
    BY <1>1, <1>2, <1>5
  <2>2. /\ main.ordered # <<>> /\ main.ordered[1] = args[command]
        /\ Tail(main.ordered) = SubSeq(args, command + 1, Len(args))
    <3>1. main.ordered = [k \in 1 .. Len(args) - command + 1 |-> args[command + k - 1]]
      BY <1>1, <1>2, <2>1
    <3>2. Len(args) - command + 1 \in Nat /\ Len(args) - command + 1 >= 1 /\ command + 1 - 1 = command
      BY <1>1, <2>1
    <3>3. SubSeq(args, command + 1, Len(args)) = [k \in 1 .. Len(args) - command |-> args[command + 1 + k - 1]]
      BY <1>1, <2>1
    <3>4. main.ordered \in Seq(STRING) /\ Len(main.ordered) = Len(args) - command + 1
      <4>1. \A k \in 1 .. Len(args) - command + 1 : args[command + k - 1] \in STRING
        BY <1>1, <2>1
      <4> QED
        BY <3>1, <3>2, <4>1
    <3>5. Tail(main.ordered) = [k \in 1 .. Len(args) - command |-> main.ordered[k + 1]]
      BY <1>1, <2>1, <3>2, <3>4
    <3>6. \A k \in 1 .. Len(args) - command : main.ordered[k + 1] = args[command + 1 + k - 1]
      BY <1>1, <2>1, <3>1
    <3>7. Tail(main.ordered) = SubSeq(args, command + 1, Len(args))
      BY <3>3, <3>5, <3>6
    <3>8. 1 \in 1 .. Len(args) - command + 1
      BY <3>2
    <3>9. main.ordered[1] = args[command]
      BY <2>1, <3>1, <3>8
    <3>10. main.ordered # <<>>
      BY <3>2, <3>4
    <3> QED
      BY <3>7, <3>9, <3>10
  <2>3. /\ ImageAt(args) \in command + 1 .. Len(args) + 1
        /\ SeparateFlags(Tail(main.ordered)).ordered = SubSeq(args, ImageAt(args), Len(args))
    BY <2>1, <2>2, SeparatesFrom DEF ImageAt, command
  <2>4. CASE "help" \in main.flags
    <3>1. Main(args).does = "success"
      BY <2>4 DEF Main, Does, main
    <3> QED
      BY <1>2, <1>3, <2>4, <3>1 DEF command
  <2>5. CASE "help" \notin main.flags /\ args[command] = "help"
    <3>1. Main(args).does \in {"success", "failure"}
      BY <2>2, <2>5 DEF Main, Does, main
    <3> QED
      BY <1>2, <2>5, <3>1 DEF command
  <2>6. CASE "help" \notin main.flags /\ args[command] # "help"
    <3>1. Main(args) = IF args[command] \in Commands
                       THEN [does |-> args[command], flags |-> SeparateFlags(Tail(main.ordered)).flags,
                             ordered |-> SeparateFlags(Tail(main.ordered)).ordered]
                       ELSE Does("failure")
      BY <2>2, <2>6 DEF Main, main
    <3>2. CASE args[command] \in Commands
      <4>1. Main(args).does = args[command] /\ Main(args).ordered = SeparateFlags(Tail(main.ordered)).ordered
        BY <3>1, <3>2
      <4> QED
        BY <1>2, <1>3, <2>1, <2>3, <2>6, <4>1 DEF command
    <3>3. CASE args[command] \notin Commands
      <4>1. Main(args).does = "failure" /\ args[command] \notin {"fetch", "run"}
        BY <3>1, <3>3 DEF Does, Commands
      <4> QED
        BY <1>2, <4>1 DEF command
    <3> QED
      BY <3>2, <3>3
  <2> QED
    BY <2>4, <2>5, <2>6
<1> QED
  BY <1>4, <1>5

\* The image and the labels that RequestOf takes from the arguments from image on.
LEMMA RequestReads ==
  ASSUME NEW args \in Seq(STRING), NEW image \in 1 .. Len(args) + 1
  PROVE  LET ordered == SubSeq(args, image, Len(args))
             labelled(n) == {k \in image + 1 .. Len(args) : LabelOf[args[k]].name = n}
             last(n) == CHOOSE k \in labelled(n) : \A j \in labelled(n) : j <= k
         IN  /\ RequestOf(ordered) # <<>> <=>
                  image <= Len(args) /\ \A k \in image + 1 .. Len(args) : args[k] \in DOMAIN LabelOf
             /\ RequestOf(ordered) # <<>> =>
                  /\ RequestOf(ordered)[1].name = args[image]
                  /\ \A n \in DOMAIN RequestOf(ordered)[1].labels :
                       RequestOf(ordered)[1].labels[n] =
                         IF labelled(n) # {} THEN LabelOf[args[last(n)]].value ELSE DefaultLabels[n]
<1> DEFINE ordered == SubSeq(args, image, Len(args))
           labelled(n) == {k \in image + 1 .. Len(args) : LabelOf[args[k]].name = n}
           last(n) == CHOOSE k \in labelled(n) : \A j \in labelled(n) : j <= k
           good == \A k \in image + 1 .. Len(args) : args[k] \in DOMAIN LabelOf
<1>1. Len(args) \in Nat /\ image \in Nat /\ image >= 1 /\ image <= Len(args) + 1
  OBVIOUS
<1>2. ordered = [k \in 1 .. Len(args) - image + 1 |-> args[image + k - 1]]
  BY <1>1
<1>3. /\ ordered \in Seq(STRING) /\ Len(ordered) = Len(args) - image + 1
      /\ \A k \in 1 .. Len(ordered) : ordered[k] = args[image + k - 1]
  <2>1. Len(args) - image + 1 \in Nat /\ \A k \in 1 .. Len(args) - image + 1 : args[image + k - 1] \in STRING
    BY <1>1
  <2> HIDE DEF ordered
  <2> QED
    BY <1>2, <2>1
<1> HIDE DEF ordered
<1>4. ordered = <<>> <=> ~(image <= Len(args))
  BY <1>1, <1>3
<1>5. (\A i \in 2 .. Len(ordered) : ordered[i] \in DOMAIN LabelOf) <=> good
  <2>1. ASSUME NEW i \in 2 .. Len(ordered), good PROVE ordered[i] \in DOMAIN LabelOf
    <3>1. image + i - 1 \in image + 1 .. Len(args) /\ i \in 1 .. Len(ordered)
      BY <1>1, <1>3
    <3> QED
      BY <1>3, <2>1, <3>1
  <2>2. ASSUME \A i \in 2 .. Len(ordered) : ordered[i] \in DOMAIN LabelOf, NEW k \in image + 1 .. Len(args)
        PROVE  args[k] \in DOMAIN LabelOf
    <3>1. /\ k - image + 1 \in 2 .. Len(ordered) /\ k - image + 1 \in 1 .. Len(ordered)
          /\ image + (k - image + 1) - 1 = k
      BY <1>1, <1>3
    <3>2. ordered[k - image + 1] = args[k]
      BY <1>3, <3>1
    <3> QED
      BY <2>2, <3>1, <3>2
  <2> QED
    BY <2>1, <2>2
<1> HIDE DEF good
<1>6. ASSUME image <= Len(args), good
      PROVE  /\ RequestOf(ordered) # <<>>
             /\ RequestOf(ordered)[1].name = args[image]
             /\ \A n \in DOMAIN RequestOf(ordered)[1].labels :
                  RequestOf(ordered)[1].labels[n] =
                    IF labelled(n) # {} THEN LabelOf[args[last(n)]].value ELSE DefaultLabels[n]
  <2> DEFINE m == Len(ordered)
             labels == Labelled(ordered, m)
  <2>1. RequestOf(ordered) = <<[name |-> ordered[1], labels |-> labels]>>
    BY <1>3, <1>4, <1>5, <1>6, RequestOfIs
  <2>2. m \in Nat \ {0} /\ ordered[1] = args[image]
    BY <1>1, <1>3, <1>6
  <2>3. \A n \in DOMAIN labels :
          labels[n] = IF Givers(ordered, m, n) = {} THEN DefaultLabels[n]
                      ELSE LabelOf[ordered[LastGiver(ordered, m, n)]].value
    BY <2>2, LabelledIs
  <2> HIDE DEF labels
  <2>4. ASSUME NEW n
        PROVE  \A k \in image + 1 .. Len(args) : k \in labelled(n) <=> k - image + 1 \in Givers(ordered, m, n)
    <3> SUFFICES ASSUME NEW k \in image + 1 .. Len(args)
                 PROVE  k \in labelled(n) <=> k - image + 1 \in Givers(ordered, m, n)
      OBVIOUS
    <3>1. /\ k - image + 1 \in 2 .. m /\ k - image + 1 \in 1 .. m
          /\ image + (k - image + 1) - 1 = k
      BY <1>1, <1>3
    <3>2. ordered[k - image + 1] = args[k]
      BY <1>3, <3>1
    <3> QED
      BY <3>1, <3>2 DEF Givers
  <2>5. ASSUME NEW n, NEW g \in Givers(ordered, m, n)
        PROVE  image + g - 1 \in labelled(n) /\ ordered[g] = args[image + g - 1] /\ g \in 2 .. m
    <3>1. g \in 2 .. m
      BY <2>5 DEF Givers
    <3>2. image + g - 1 \in image + 1 .. Len(args) /\ g \in 1 .. m /\ image + g - 1 - image + 1 = g
      BY <1>1, <1>3, <3>1
    <3> HIDE DEF labelled, m
    <3>3. image + g - 1 \in labelled(n)
      BY <2>4, <2>5, <3>2
    <3> QED
      BY <1>3, <3>1, <3>2, <3>3 DEF m
  <2>6. ASSUME NEW n, labelled(n) # {}
        PROVE  /\ Givers(ordered, m, n) # {}
               /\ LabelOf[ordered[LastGiver(ordered, m, n)]].value = LabelOf[args[last(n)]].value
    <3>1. labelled(n) \subseteq 1 .. Len(args)
      BY <1>1
    <3>2. PICK k \in labelled(n) : \A j \in labelled(n) : j <= k
      BY <1>1, <2>6, <3>1, GreatestOf
    <3>3. last(n) = k
      <4>1. \A i \in labelled(n) : (\A j \in labelled(n) : j <= i) => i = k
        BY <3>1, <3>2
      <4> HIDE DEF labelled
      <4> QED
        BY <3>2, <4>1
    <3>4. k - image + 1 \in Givers(ordered, m, n)
      BY <2>4, <3>2
    <3>5. ASSUME NEW g \in Givers(ordered, m, n) PROVE g <= k - image + 1
      <4>1. image + g - 1 <= k
        BY <2>5, <3>2
      <4>2. g \in Nat /\ k \in Nat
        BY <2>5, <3>1, <3>2
      <4> QED
        BY <1>1, <4>1, <4>2
    <3>6. LastGiver(ordered, m, n) = k - image + 1
      <4> HIDE DEF m
      <4> QED
        BY <2>2, <3>4, <3>5, LastGiverIs
    <3>7. ordered[k - image + 1] = args[image + (k - image + 1) - 1] /\ image + (k - image + 1) - 1 = k
      <4>1. k \in Nat
        BY <3>1, <3>2
      <4> QED
        BY <1>1, <2>5, <3>4, <4>1
    <3> QED
      BY <3>3, <3>4, <3>6, <3>7
  <2>7. ASSUME NEW n, labelled(n) = {} PROVE Givers(ordered, m, n) = {}
    BY <2>5, <2>7
  <2> HIDE DEF labelled, last, m
  <2> QED
    BY <2>1, <2>2, <2>3, <2>6, <2>7
<1>7. ASSUME ~(image <= Len(args) /\ good) PROVE RequestOf(ordered) = <<>>
  BY <1>4, <1>5, <1>7 DEF RequestOf
<1> HIDE DEF labelled, last
<1> QED
  BY <1>6, <1>7 DEF ordered, labelled, last, good

LEMMA ReadAsMeant ==
  ASSUME DiscoveryInv, NEW p \in Procs
  PROVE  LET args == argv[p]
             command == PlainFrom(args, 1)
             image == PlainFrom(args, command + 1)
             labelled(n) == {k \in image + 1 .. Len(args) : LabelOf[args[k]].name = n}
             last(n) == CHOOSE k \in labelled(n) : \A j \in labelled(n) : j <= k
             asks == /\ image <= Len(args) /\ args[command] \in {"fetch", "run"}
                     /\ \A k \in 1 .. command - 1 :
                          args[k] \in DOMAIN DashText => args[k] = "--" \/ DashText[args[k]] # "help"
                     /\ \A k \in image + 1 .. Len(args) : args[k] \in DOMAIN LabelOf
         IN  pc[p] # "main" =>
               /\ request[p] # <<>> <=> asks
               /\ asks => /\ request[p][1].name = args[image]
                          /\ \A n \in DOMAIN request[p][1].labels :
                               request[p][1].labels[n] =
                                 IF labelled(n) # {} THEN LabelOf[args[last(n)]].value ELSE DefaultLabels[n]
<1> DEFINE command(args) == CommandAt(args)
           image(args) == ImageAt(args)
           labelled(args, n) == {k \in image(args) + 1 .. Len(args) : LabelOf[args[k]].name = n}
           last(args, n) == CHOOSE k \in labelled(args, n) : \A j \in labelled(args, n) : j <= k
           asks(args) == /\ image(args) <= Len(args) /\ args[command(args)] \in {"fetch", "run"}
                         /\ NoHelp(args)
                         /\ \A k \in image(args) + 1 .. Len(args) : args[k] \in DOMAIN LabelOf
           says(args, asked) ==
             /\ asked # <<>> <=> asks(args)
             /\ asks(args) => /\ asked[1].name = args[image(args)]
                              /\ \A n \in DOMAIN asked[1].labels :
                                   asked[1].labels[n] =
                                     IF labelled(args, n) # {} THEN LabelOf[args[last(args, n)]].value ELSE DefaultLabels[n]
<1>1. ASSUME NEW args \in Seq(STRING)
      PROVE  says(args, IF Main(args).does \in {"fetch", "run"} THEN RequestOf(Main(args).ordered) ELSE <<>>)
  <2>1. Len(args) \in Nat /\ command(args) \in 1 .. Len(args) + 1
    BY MainReads
  <2>2. CASE Main(args).does \in {"fetch", "run"}
    <3>1. /\ args[command(args)] \in {"fetch", "run"} /\ NoHelp(args)
          /\ image(args) \in 1 .. Len(args) + 1
          /\ Main(args).ordered = SubSeq(args, image(args), Len(args))
      BY <2>1, <2>2, MainReads
    <3> HIDE DEF command, image
    <3>2. /\ RequestOf(SubSeq(args, image(args), Len(args))) # <<>> <=>
               image(args) <= Len(args) /\ \A k \in image(args) + 1 .. Len(args) : args[k] \in DOMAIN LabelOf
          /\ RequestOf(SubSeq(args, image(args), Len(args))) # <<>> =>
               /\ RequestOf(SubSeq(args, image(args), Len(args)))[1].name = args[image(args)]
               /\ \A n \in DOMAIN RequestOf(SubSeq(args, image(args), Len(args)))[1].labels :
                    RequestOf(SubSeq(args, image(args), Len(args)))[1].labels[n] =
                      IF labelled(args, n) # {} THEN LabelOf[args[last(args, n)]].value ELSE DefaultLabels[n]
      BY <3>1, RequestReads
    <3> HIDE DEF labelled, last
    <3> QED
      BY <2>2, <3>1, <3>2
  <2>3. CASE Main(args).does \notin {"fetch", "run"}
    <3>1. ~(command(args) <= Len(args) /\ args[command(args)] \in {"fetch", "run"} /\ NoHelp(args))
      BY <2>3, MainReads
    <3>2. ~asks(args)
      <4>1. CASE command(args) <= Len(args)
        BY <3>1, <4>1
      <4>2. CASE command(args) = Len(args) + 1
        <5>1. image(args) = Len(args) + 1
          <6>1. command(args) + 1 \in 1 .. Len(args) + 2 /\ command(args) + 1 = Len(args) + 2
            BY <2>1, <4>2
          <6>2. PlainAt(args, Len(args) + 2) = {}
            BY <2>1 DEF PlainAt
          <6> QED
            BY <2>1, <6>1, <6>2, PlainFromIs DEF ImageAt
        <5> QED
          BY <2>1, <5>1
      <4> QED
        BY <2>1, <4>1, <4>2
    <3> HIDE DEF asks
    <3> QED
      BY <2>3, <3>2
  <2> QED
    BY <2>2, <2>3
<1>2. argv[p] \in Seq(STRING)
  BY ArgvsAssumption DEF DiscoveryInv, TypeOK
<1>3. pc[p] # "main" =>
        request[p] = IF Main(argv[p]).does \in {"fetch", "run"} THEN RequestOf(Main(argv[p]).ordered) ELSE <<>>
  BY DEF DiscoveryInv, RequestInv, AsksAsTold
<1>4. pc[p] # "main" => says(argv[p], request[p])
  <2> HIDE DEF says
  <2> QED
    BY <1>1, <1>2, <1>3
<1> QED
  BY <1>4 DEF CommandAt, ImageAt, NoHelp

\* fetch and run ask for what their arguments say, flags and -- wherever they
\* stand, labels from left to right (main.cpp:55-110, command.cpp:24-38, fetch.cpp:36-59).
THEOREM ArgsAsReadAlways == Spec => []ArgsAsRead
<1>1. DiscoveryInv => ArgsAsRead
  BY ReadAsMeant DEF ArgsAsRead
<1> QED
  BY <1>1, DiscoveryInvAlways, PTL
===============================================================================
