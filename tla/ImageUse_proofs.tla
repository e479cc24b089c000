----------------------------- MODULE ImageUse_proofs -----------------------------
(***************************************************************************)
(* Proofs about ImageUse, for every set of archives, however long, and     *)
(* every manifest.                                                         *)
(***************************************************************************)
EXTENDS ImageUse, TLAPS

LEMMA TypeInit == Init => TypeOK
<1> SUFFICES ASSUME Init PROVE TypeOK
  OBVIOUS
<1>1. cmd # "rewrite" => IsArchive(first) /\ IsArchive(file)
  BY ArchivesAreArchives DEF Init
<1>2. (cmd \in {"validate", "run"} /\ pc = "structure") \/ (cmd = "rewrite" /\ pc = "read")
  BY DEF Init
<1>3. next = 1 /\ rootfs = "none"
  BY DEF Init
<1> QED
  BY <1>1, <1>2, <1>3 DEF TypeOK, Steps, Ends

LEMMA TypeStep == TypeOK /\ [Next]_vars => TypeOK'
<1> SUFFICES ASSUME TypeOK, [Next]_vars PROVE TypeOK'
  OBVIOUS
<1> USE DEF TypeOK, Steps, Ends, vars, use, archiveVars, initVars
<1>1. CASE Replace
  BY <1>1, ArchivesAreArchives DEF Replace
<1>2. CASE CheckStructure
  BY <1>2 DEF CheckStructure
<1>3. CASE GetValidatedImage
  BY <1>3 DEF GetValidatedImage
<1>4. CASE OpenFails
  BY <1>4 DEF OpenFails
<1>10. CASE OpenArchive
  BY <1>10 DEF OpenArchive
<1>5. CASE SkipEntry
  BY <1>5 DEF SkipEntry, Extracting
<1>11. CASE ExtractEntry
  BY <1>11 DEF ExtractEntry, Extracting
<1>12. CASE ExtractFails
  BY <1>12 DEF ExtractFails, Extracting
<1>13. CASE ExtractThrows
  BY <1>13 DEF ExtractThrows, Extracting
<1>14. CASE ExtractEnds
  BY <1>14 DEF ExtractEnds
<1>6. CASE Become \/ BecomeFails
  BY <1>6 DEF Become, BecomeFails
<1>7. CASE SetEnvironment \/ PreStart \/ RunApp \/ PostStop
  BY <1>7 DEF SetEnvironment, PreStart, RunApp, PostStop, RunHandler
<1>8. CASE ReadRuntime \/ WriteRuntime \/ RereadRuntime
  BY <1>8 DEF ReadRuntime, WriteRuntime, RereadRuntime
<1>9. CASE Over \/ UNCHANGED vars
  BY <1>9 DEF Over
<1> QED
  BY <1>1, <1>2, <1>3, <1>4, <1>5, <1>6, <1>7, <1>8, <1>9, <1>10, <1>11, <1>12, <1>13, <1>14 DEF Next

-------------------------------------------------------------------------------
\* What a manifest that came through is.
LEMMA ValidatedIsValid ==
  ASSUME NEW archive, Has(ValidatedManifest(archive))
  PROVE  Has(ValidatedManifest(archive)[1].app) => AppValid(ValidatedManifest(archive)[1].app[1])
<1> DEFINE text == Manifest(archive)
           try == ImageManifestFromJson(text[1])
<1>1. /\ ValidatedManifest(archive) = Some(try.value)
      /\ ImageManifestValid(try.value)
  BY DEF ValidatedManifest, Has
<1> HIDE DEF try, text
<1>2. Has(try.value.app) => AppValid(try.value.app[1])
  BY <1>1 DEF ImageManifestValid, IfSome
<1> QED
  BY <1>1, <1>2 DEF Some

LEMMA ManifestInit == Init => ManifestInv
  BY DEF Init, ManifestInv

LEMMA ManifestStep == TypeOK /\ ManifestInv /\ [Next]_vars => ManifestInv'
<1> SUFFICES ASSUME TypeOK, ManifestInv, [Next]_vars PROVE ManifestInv'
  OBVIOUS
<1> USE DEF TypeOK, ManifestInv, Steps, Ends, vars, use, archiveVars, initVars
<1>1. CASE Replace
  BY <1>1 DEF Replace
<1>2. CASE CheckStructure
  BY <1>2 DEF CheckStructure
<1>3. CASE GetValidatedImage
  <2>1. pc = "manifest" /\ manifest' = ValidatedManifest(file) /\ UNCHANGED <<use, file>>
    BY <1>3 DEF GetValidatedImage
  <2>2. pc' = "extract" => Has(manifest') /\ Has(manifest'[1].app)
    BY <1>3 DEF GetValidatedImage
  <2>3. pc' \in {"failure", "success", "extract"} /\ (cmd = "run" => pc' # "success")
    BY <1>3 DEF GetValidatedImage
  <2>4. pc' = "extract" => AppValid(manifest'[1].app[1])
    BY <2>1, <2>2, ValidatedIsValid
  <2>5. AppValid(manifest[1].app[1])' = AppValid(manifest'[1].app[1])
    OBVIOUS
  <2> QED
    BY <2>1, <2>2, <2>3, <2>4, <2>5
<1>4. CASE OpenFails \/ OpenArchive
  BY <1>4 DEF OpenFails, OpenArchive
<1>5. CASE SkipEntry \/ ExtractEntry \/ ExtractFails \/ ExtractThrows \/ ExtractEnds
  BY <1>5 DEF SkipEntry, ExtractEntry, ExtractFails, ExtractThrows, ExtractEnds, Extracting
<1>6. CASE Become \/ BecomeFails
  BY <1>6 DEF Become, BecomeFails
<1>7. CASE SetEnvironment \/ PreStart \/ RunApp \/ PostStop
  BY <1>7 DEF SetEnvironment, PreStart, RunApp, PostStop, RunHandler
<1>8. CASE ReadRuntime \/ WriteRuntime \/ RereadRuntime
  BY <1>8 DEF ReadRuntime, WriteRuntime, RereadRuntime
<1>9. CASE Over \/ UNCHANGED vars
  BY <1>9 DEF Over
<1> QED
  BY <1>1, <1>2, <1>3, <1>4, <1>5, <1>6, <1>7, <1>8, <1>9 DEF Next

-------------------------------------------------------------------------------
\* Extraction.
LEMMA ExtractInit == Init => ExtractInv
  BY DEF Init, ExtractInv

LEMMA ExtractStep == TypeOK /\ ExtractInv /\ [Next]_vars => ExtractInv'
<1> SUFFICES ASSUME TypeOK, ExtractInv, [Next]_vars PROVE ExtractInv'
  OBVIOUS
<1> USE DEF vars, use, archiveVars, initVars
<1>1. ASSUME UNCHANGED archiveVars, pc' = "extract" => pc \in {"manifest", "extract"},
             pc' \in {"structure", "manifest"} => pc \in {"structure", "manifest"}
      PROVE  ExtractInv'
  BY <1>1 DEF ExtractInv, Read
<1>2. CASE Replace \/ CheckStructure \/ GetValidatedImage
  BY <1>1, <1>2 DEF Replace, CheckStructure, GetValidatedImage
<1>3. CASE Become \/ BecomeFails \/ SetEnvironment \/ PreStart \/ RunApp \/ PostStop
  BY <1>1, <1>3 DEF Become, BecomeFails, SetEnvironment, PreStart, RunApp, PostStop, RunHandler
<1>4. CASE ReadRuntime \/ WriteRuntime \/ RereadRuntime \/ Over \/ UNCHANGED vars
  BY <1>1, <1>4 DEF ReadRuntime, WriteRuntime, RereadRuntime, Over
<1>5. CASE OpenFails
  BY <1>5 DEF OpenFails, ExtractInv
<1>6. CASE OpenArchive
  <2>1. /\ pc = "extract" /\ pc' = pc /\ opened' = Some(file) /\ next' = 1
        /\ tree' = <<>> /\ rootfs' = "none" /\ opened' # None
    BY <1>6 DEF OpenArchive, ExtractInv, Some, None
  <2>2. IsArchive(file)
    BY <2>1 DEF TypeOK, Ends
  <2>3. opened'[1] = file /\ Len(file.entries) \in Nat
    BY <2>1, <2>2 DEF Some, IsArchive
  <2>4. Read' = {} /\ DOMAIN tree' = {}
    BY <2>1 DEF Read
  <2> QED
    BY <2>1, <2>2, <2>3, <2>4 DEF ExtractInv
<1>7. CASE SkipEntry
  <2>1. /\ pc = "extract" /\ opened # None /\ next <= Len(opened[1].entries)
        /\ Skipped(opened[1].entries[next]) /\ next' = next + 1
        /\ UNCHANGED <<pc, opened, tree, rootfs>>
    BY <1>7 DEF SkipEntry, Extracting, Entry
  <2>2. Read' = Read \cup {next} /\ next \in Nat /\ Len(opened[1].entries) \in Nat
    BY <2>1 DEF Read, TypeOK, ExtractInv, IsArchive
  <2> QED
    BY <2>1, <2>2 DEF ExtractInv
<1>8. CASE ExtractEntry
  <2> DEFINE entries == opened[1].entries
             place == WritePath(entries[next])
  <2>1. /\ pc = "extract" /\ opened # None /\ next <= Len(entries)
        /\ ~Skipped(entries[next]) /\ next' = next + 1 /\ tree' = Put(place, next)
        /\ UNCHANGED <<pc, opened, rootfs>>
    BY <1>8 DEF ExtractEntry, Extracting, Entry
  <2>2. Read' = Read \cup {next} /\ next \in Nat /\ Read \subseteq Nat /\ next \in Read'
    BY <2>1 DEF Read, TypeOK
  <2>3. /\ DOMAIN tree' = DOMAIN tree \cup {place}
        /\ \A p \in DOMAIN tree' : tree'[p] = IF p = place THEN next ELSE tree[p]
    BY <2>1 DEF Put
  <2>4. Len(entries) \in Nat
    BY <2>1 DEF ExtractInv, IsArchive
  <2>5. \A p \in DOMAIN tree' :
          tree'[p] \in Read' /\ ~Skipped(entries[tree'[p]]) /\ WritePath(entries[tree'[p]]) = p
    <3> SUFFICES ASSUME NEW p \in DOMAIN tree'
        PROVE tree'[p] \in Read' /\ ~Skipped(entries[tree'[p]]) /\ WritePath(entries[tree'[p]]) = p
      OBVIOUS
    <3>1. CASE p = place
      BY <2>1, <2>2, <2>3, <3>1
    <3>2. CASE p # place
      <4>1. p \in DOMAIN tree /\ tree'[p] = tree[p]
        BY <2>3, <3>2
      <4>2. tree[p] \in Read /\ ~Skipped(entries[tree[p]]) /\ WritePath(entries[tree[p]]) = p
        BY <2>1, <4>1 DEF ExtractInv
      <4> QED
        BY <2>2, <4>1, <4>2
    <3> QED
      BY <3>1, <3>2
  <2>6. \A i \in Read' : ~Skipped(entries[i]) =>
          WritePath(entries[i]) \in DOMAIN tree' /\ tree'[WritePath(entries[i])] >= i
    <3> SUFFICES ASSUME NEW i \in Read', ~Skipped(entries[i])
        PROVE WritePath(entries[i]) \in DOMAIN tree' /\ tree'[WritePath(entries[i])] >= i
      OBVIOUS
    <3>1. i <= next /\ i \in Nat
      BY <2>1, <2>2 DEF Read
    <3>2. CASE WritePath(entries[i]) = place
      BY <2>2, <2>3, <3>1, <3>2
    <3>3. CASE WritePath(entries[i]) # place
      <4>1. i \in Read
        BY <2>2, <3>3
      <4>2. WritePath(entries[i]) \in DOMAIN tree /\ tree[WritePath(entries[i])] >= i
        BY <2>1, <4>1 DEF ExtractInv
      <4> QED
        BY <2>3, <3>3, <4>2
    <3> QED
      BY <3>2, <3>3
  <2>7. /\ opened = Some(opened[1]) /\ IsArchive(opened[1])
        /\ rootfs = "none"
    BY <2>1 DEF ExtractInv
  <2> QED
    BY <2>1, <2>2, <2>4, <2>5, <2>6, <2>7 DEF ExtractInv
<1>9. CASE ExtractFails \/ ExtractThrows
  BY <1>9 DEF ExtractFails, ExtractThrows, Extracting, ExtractInv
<1>10. CASE ExtractEnds
  <2>1. /\ pc = "extract" /\ opened # None /\ next > Len(opened[1].entries)
        /\ pc' = "become" /\ UNCHANGED <<opened, next, tree>>
    BY <1>10 DEF ExtractEnds
  <2>2. next \in Nat /\ Len(opened[1].entries) \in Nat
    BY <2>1 DEF TypeOK, ExtractInv, IsArchive
  <2> QED
    BY <2>1, <2>2 DEF ExtractInv, Read
<1> QED
  BY <1>2, <1>3, <1>4, <1>5, <1>6, <1>7, <1>8, <1>9, <1>10 DEF Next

-------------------------------------------------------------------------------
\* The programs.
LEMMA StageInit == Init => StageInv
  BY DEF Init, StageInv

\* One more program that has arguments, its own stage being the one at hand.
LEMMA Executes ==
  ASSUME StageInv, NEW program, NEW step,
         executed' = Append(executed, program), pc' = step,
         program.stage \in StageOf(step), StageOf(pc) \subseteq StageOf(step),
         program.args # <<>>, program.args[1] \in AbsPaths
  PROVE  StageInv'
<1> DEFINE SoFar == Range(executed) \cup {program}
<1>1. executed \in Seq(SoFar) /\ program \in SoFar
  <2>1. executed \in Seq(Range(executed)) /\ Range(executed) \subseteq SoFar
    BY DEF StageInv
  <2> HIDE DEF SoFar
  <2>2. executed \in Seq(SoFar)
    BY <2>1
  <2> QED
    BY <2>2 DEF SoFar
<1> HIDE DEF SoFar
<1>2. /\ executed' \in Seq(SoFar) /\ DOMAIN executed' = DOMAIN executed \cup {Len(executed) + 1}
      /\ executed'[Len(executed) + 1] = program
      /\ \A i \in DOMAIN executed : executed'[i] = executed[i]
  BY <1>1
<1>3. executed' \in Seq(Range(executed'))
  BY <1>2 DEF Range
<1>4. \A i \in DOMAIN executed' :
        /\ executed'[i].stage \in StageOf(step)
        /\ executed'[i].args # <<>> /\ executed'[i].args[1] \in AbsPaths
  BY <1>2 DEF StageInv
<1> QED
  BY <1>3, <1>4 DEF StageInv

LEMMA StageStep == TypeOK /\ ManifestInv /\ StageInv /\ [Next]_vars => StageInv'
<1> SUFFICES ASSUME TypeOK, ManifestInv, StageInv, [Next]_vars PROVE StageInv'
  OBVIOUS
<1> USE DEF vars, use, archiveVars, initVars
<1>1. ASSUME UNCHANGED executed, StageOf(pc) \subseteq StageOf(pc') PROVE StageInv'
  BY <1>1 DEF StageInv
<1>2. CASE Replace \/ CheckStructure \/ GetValidatedImage
  BY <1>1, <1>2 DEF Replace, CheckStructure, GetValidatedImage, StageOf
<1>3. CASE OpenFails \/ OpenArchive \/ SkipEntry \/ ExtractEntry \/ ExtractFails
           \/ ExtractThrows \/ ExtractEnds
  BY <1>1, <1>3 DEF OpenFails, OpenArchive, SkipEntry, ExtractEntry, ExtractFails, ExtractThrows,
     ExtractEnds, Extracting, StageOf
<1>4. CASE Become \/ BecomeFails \/ SetEnvironment
  BY <1>1, <1>4 DEF Become, BecomeFails, SetEnvironment, StageOf
<1>5. CASE ReadRuntime \/ WriteRuntime \/ RereadRuntime \/ Over \/ UNCHANGED vars
  BY <1>1, <1>5 DEF ReadRuntime, WriteRuntime, RereadRuntime, Over, StageOf
<1>6. ASSUME pc \in {"pre-start", "app", "post-stop"} PROVE AppValid(App)
  BY <1>6 DEF TypeOK, ManifestInv, App, Ends
<1>7. CASE RunApp
  BY <1>6, <1>7, Executes DEF RunApp, AppValid, ExecValid, StageOf
<1>8. ASSUME NEW event \in {"pre-start", "post-stop"}, NEW then \in {"app", "success"},
             event = "pre-start" <=> then = "app", RunHandler(event, then)
      PROVE  StageInv'
  <2>1. pc = event /\ pc' = then
    BY <1>8 DEF RunHandler
  <2>2. CASE UNCHANGED executed
    BY <1>1, <1>8, <2>1, <2>2 DEF StageOf
  <2>3. CASE executed' # executed
    <3> DEFINE handlers == App.event_handlers[1]
    <3>1. PICK i \in DOMAIN handlers :
            /\ Has(App.event_handlers) /\ handlers[i].name = event
            /\ executed' = Append(executed, [stage |-> event, args |-> handlers[i].exec])
      BY <1>8, <2>3 DEF RunHandler
    <3>2. ExecValid(handlers[i].exec)
      <4>1. EventHandlersValid(handlers)
        BY <1>6, <2>1, <3>1 DEF AppValid, IfSome
      <4>2. EventHandlerValid(handlers[i])
        BY <3>1, <4>1 DEF EventHandlersValid, All
      <4> QED
        BY <4>2 DEF EventHandlerValid
    <3> DEFINE program == [stage |-> event, args |-> handlers[i].exec]
    <3>3. /\ program.args # <<>> /\ program.args[1] \in AbsPaths
          /\ program.stage \in StageOf(then) /\ StageOf(pc) \subseteq StageOf(then)
      BY <1>8, <2>1, <3>2 DEF ExecValid, StageOf
    <3> HIDE DEF program
    <3> QED
      BY <2>1, <3>1, <3>3, Executes DEF program
  <2> QED
    BY <2>2, <2>3
<1>9. CASE PreStart \/ PostStop
  BY <1>8, <1>9 DEF PreStart, PostStop
<1> QED
  BY <1>2, <1>3, <1>4, <1>5, <1>7, <1>9 DEF Next

-------------------------------------------------------------------------------
\* The file whose structure was validated has no entry that extraction throws on.
NeverThrows == rootfs = "throws" => opened # Some(first)

LEMMA ThrowsStep == TypeOK /\ ManifestInv /\ ExtractInv /\ NeverThrows /\ [Next]_vars => NeverThrows'
<1> SUFFICES ASSUME TypeOK, ManifestInv, ExtractInv, NeverThrows, [Next]_vars PROVE NeverThrows'
  OBVIOUS
<1> USE DEF vars, use, archiveVars, initVars
<1>1. CASE UNCHANGED <<rootfs, opened, first>>
  BY <1>1 DEF NeverThrows
<1>2. CASE Replace \/ CheckStructure \/ GetValidatedImage \/ Become \/ BecomeFails
           \/ SetEnvironment \/ PreStart \/ RunApp \/ PostStop
  BY <1>1, <1>2 DEF Replace, CheckStructure, GetValidatedImage, Become, BecomeFails, SetEnvironment,
     PreStart, RunApp, PostStop, RunHandler
<1>3. CASE ReadRuntime \/ WriteRuntime \/ RereadRuntime \/ Over \/ UNCHANGED vars
  BY <1>1, <1>3 DEF ReadRuntime, WriteRuntime, RereadRuntime, Over
<1>4. CASE SkipEntry \/ ExtractEntry
  BY <1>1, <1>4 DEF SkipEntry, ExtractEntry
<1>5. CASE OpenFails \/ ExtractFails \/ ExtractEnds
  BY <1>5 DEF OpenFails, ExtractFails, ExtractEnds, NeverThrows
<1>6. CASE OpenArchive
  BY <1>6 DEF OpenArchive, ExtractInv, NeverThrows
<1>7. CASE ExtractThrows
  <2>1. /\ pc = "extract" /\ opened # None /\ next <= Len(opened[1].entries)
        /\ opened[1].entries[next].kind = "short" /\ UNCHANGED <<opened, first>>
    BY <1>7 DEF ExtractThrows, Extracting, Entry, TooShort
  <2>2. next \in DOMAIN opened[1].entries
    BY <2>1 DEF TypeOK, ExtractInv, IsArchive
  <2>3. ValidateStructure(first)
    BY <2>1 DEF TypeOK, ManifestInv, Ends
  <2>4. ~StructureOf(opened[1].entries[next])
    BY <2>1 DEF StructureOf, IsManifest, Under
  <2>5. opened[1] # first
    BY <2>2, <2>3, <2>4 DEF ValidateStructure
  <2> QED
    BY <2>1, <2>5 DEF NeverThrows, Some
<1> QED
  BY <1>2, <1>3, <1>4, <1>5, <1>6, <1>7 DEF Next

\* Where extraction puts a plain entry, and what file_list calls it.
LEMMA PlainPaths ==
  ASSUME NEW e, PlainEntry(e)
  PROVE  /\ Skipped(e) <=> e.kind = "manifest"
         /\ Under(e) <=> e.kind = "inside"
         /\ e.kind = "root" => WritePath(e) = <<>>
         /\ e.kind = "inside" => WritePath(e) = <<e.name>> /\ Rest(e) = <<"/", e.name>>
  BY DEF PlainEntry, Skipped, IsManifest, Under, WritePath, Rest

LEMMA ExtractedIsListed ==
  ASSUME TypeOK, ExtractInv, rootfs = "success", Plain(opened[1])
  PROVE  /\ {<<"/", p[1]>> : p \in DOMAIN tree \ {<<>>}} = FileList(opened[1])
         /\ \A i \in DOMAIN opened[1].entries :
              LET e == opened[1].entries[i]
              IN  Under(e) => /\ tree[<<e.name>>] >= i
                              /\ opened[1].entries[tree[<<e.name>>]].name = e.name
<1> DEFINE entries == opened[1].entries
<1>1. opened # None /\ Read = DOMAIN entries
  <2>1. opened # None
    BY DEF ExtractInv
  <2>2. next = Len(entries) + 1 /\ entries \in Seq(Entries)
    BY <2>1 DEF ExtractInv, IsArchive
  <2> QED
    BY <2>1, <2>2 DEF Read
<1>2. \A i \in DOMAIN entries : PlainEntry(entries[i])
  BY DEF Plain
<1> HIDE DEF entries
<1>3. ASSUME NEW p \in DOMAIN tree, p # <<>>
      PROVE  /\ tree[p] \in DOMAIN entries /\ entries[tree[p]].kind = "inside"
             /\ p = <<entries[tree[p]].name>>
  <2>1. /\ tree[p] \in DOMAIN entries /\ ~Skipped(entries[tree[p]])
        /\ WritePath(entries[tree[p]]) = p
    BY <1>1 DEF ExtractInv, entries
  <2>2. PlainEntry(entries[tree[p]])
    BY <1>2, <2>1
  <2>3. entries[tree[p]].kind \in {"manifest", "root", "inside"}
    BY <2>2 DEF PlainEntry
  <2> QED
    BY <1>3, <2>1, <2>2, <2>3, PlainPaths
<1>4. ASSUME NEW i \in DOMAIN entries, Under(entries[i])
      PROVE  /\ <<entries[i].name>> \in DOMAIN tree /\ tree[<<entries[i].name>>] >= i
             /\ Rest(entries[i]) = <<"/", entries[i].name>>
  <2>1. PlainEntry(entries[i])
    BY <1>2
  <2>2. /\ entries[i].kind = "inside" /\ ~Skipped(entries[i])
        /\ WritePath(entries[i]) = <<entries[i].name>>
        /\ Rest(entries[i]) = <<"/", entries[i].name>>
    BY <1>4, <2>1, PlainPaths
  <2> QED
    BY <1>1, <2>2 DEF ExtractInv, entries
<1>5. ASSUME NEW p \in DOMAIN tree, p # <<>> PROVE <<"/", p[1]>> \in FileList(opened[1])
  <2>1. PICK e : e = entries[tree[p]]
    OBVIOUS
  <2>2. e.kind = "inside" /\ p = <<e.name>> /\ PlainEntry(e)
    BY <1>2, <1>3, <1>5, <2>1
  <2>3. Under(e) /\ Rest(e) = <<"/", p[1]>>
    BY <2>2, PlainPaths
  <2> QED
    BY <1>3, <1>5, <2>1, <2>3 DEF FileList, entries
<1>6. ASSUME NEW i \in DOMAIN entries, Under(entries[i])
      PROVE  \E p \in DOMAIN tree \ {<<>>} : Rest(entries[i]) = <<"/", p[1]>>
  <2>1. PICK p : p = <<entries[i].name>>
    OBVIOUS
  <2>2. p \in DOMAIN tree \ {<<>>} /\ p[1] = entries[i].name
    BY <1>4, <1>6, <2>1
  <2> QED
    BY <1>4, <1>6, <2>2
<1>7. FileList(opened[1]) \subseteq {<<"/", p[1]>> : p \in DOMAIN tree \ {<<>>}}
  BY <1>6 DEF FileList, entries
<1>8. ASSUME NEW i \in DOMAIN entries, Under(entries[i])
      PROVE  entries[tree[<<entries[i].name>>]].name = entries[i].name
  BY <1>3, <1>4, <1>8
<1> QED
  BY <1>4, <1>5, <1>7, <1>8 DEF entries

-------------------------------------------------------------------------------
\* The programs and the environment at each stage.
ExecutedInv ==
  cmd = "run" =>
    /\ pc = "app" => Range(executed) = Programs("pre-start")
    /\ pc = "post-stop" => Range(executed) = Programs("pre-start") \cup {[stage |-> "app", args |-> App.exec]}
    /\ pc \in {"pre-start", "app", "post-stop"} => EnvAsAsked
    /\ ExecutesDeclared

LEMMA RangeGrows ==
  ASSUME StageInv, NEW program, executed' = Append(executed, program)
  PROVE  Range(executed') = Range(executed) \cup {program}
<1> DEFINE Items == Range(executed) \cup {program}
<1>1. executed \in Seq(Range(executed)) /\ Range(executed) \subseteq Items /\ program \in Items
  BY DEF StageInv
<1> HIDE DEF Items
<1>2. executed \in Seq(Items)
  BY <1>1
<1>3. /\ DOMAIN executed' = DOMAIN executed \cup {Len(executed) + 1}
      /\ executed'[Len(executed) + 1] = program
      /\ \A i \in DOMAIN executed : executed'[i] = executed[i]
  BY <1>1, <1>2
<1> QED
  BY <1>3 DEF Range

\* With one handler of a name at most, the first is what the manifest names.
LEMMA HandlerRun ==
  ASSUME StageInv, NEW event, NEW then, RunHandler(event, then), AppValid(App)
  PROVE  Range(executed') = Range(executed) \cup Programs(event)
<1> DEFINE handlers == IF Has(App.event_handlers) THEN App.event_handlers[1] ELSE <<>>
           found == {i \in DOMAIN handlers : handlers[i].name = event}
<1>1. Programs(event) = {[stage |-> event, args |-> handlers[i].exec] : i \in found}
  BY DEF Programs, Handlers, Range
<1>2. CASE found = {}
  <2>1. executed' = executed
    BY <1>2 DEF RunHandler
  <2> QED
    BY <1>1, <1>2, <2>1
<1>3. CASE found # {}
  <2>1. PICK i \in found : executed' = Append(executed, [stage |-> event, args |-> handlers[i].exec])
    BY <1>3 DEF RunHandler
  <2>2. Has(App.event_handlers)
    BY <2>1
  <2>3. Distinct(NamesOf(handlers))
    BY <2>2 DEF AppValid, IfSome, EventHandlersValid
  <2>4. \A j \in found : j = i
    BY <2>1, <2>3 DEF Distinct, NamesOf
  <2>5. Programs(event) = {[stage |-> event, args |-> handlers[i].exec]}
    BY <1>1, <2>1, <2>4
  <2> QED
    BY <2>1, <2>5, RangeGrows
<1> QED
  BY <1>2, <1>3

LEMMA Merged ==
  ASSUME NEW f, NEW g
  PROVE  /\ DOMAIN SetOver(f, g) = DOMAIN f \cup DOMAIN g
         /\ \A n \in DOMAIN f : SetOver(f, g)[n] = f[n]
         /\ \A n \in DOMAIN g \ DOMAIN f : SetOver(f, g)[n] = g[n]
  BY DEF SetOver

LEMMA AssignedValue ==
  ASSUME NEW variables, Distinct(NamesOf(variables)), NEW i \in DOMAIN variables
  PROVE  /\ variables[i].name \in DOMAIN Assigned(variables)
         /\ Assigned(variables)[variables[i].name] = variables[i].value
<1> DEFINE n == variables[i].name
           IsLast(j) == /\ variables[j].name = n
                        /\ \A k \in DOMAIN variables \ {j} : variables[k].name = n => k < j
           last == CHOOSE j \in DOMAIN variables : IsLast(j)
<1>1. \A j \in DOMAIN variables : variables[j].name = n => j = i
  BY DEF Distinct, NamesOf
<1>2. IsLast(i)
  BY <1>1
<1>3. last \in DOMAIN variables /\ IsLast(last)
  BY <1>2
<1>4. last = i
  BY <1>1, <1>3
<1>5. /\ n \in DOMAIN Assigned(variables)
      /\ Assigned(variables)[n] = variables[last].value
  BY DEF Assigned
<1> QED
  BY <1>4, <1>5

LEMMA IdentityNames ==
  ASSUME NEW identity \in IdentityEnv
  PROVE  DOMAIN identity = {"LOGNAME", "USER", "HOME", "SHELL"}
  BY DEF IdentityEnv

LEMMA EnvironmentSet ==
  ASSUME SetEnvironment, AppValid(App)
  PROVE  EnvAsAsked'
<1>1. PICK identity \in IdentityEnv :
        env' = SetOver(IF Has(App.environment) THEN Assigned(App.environment[1]) ELSE <<>>,
                       SetOver(identity, DefaultEnv))
  BY DEF SetEnvironment
<1> DEFINE assigned == IF Has(App.environment) THEN Assigned(App.environment[1]) ELSE <<>>
           variables == App.environment[1]
<1>2. DOMAIN assigned = Asked
  <2>1. CASE Has(App.environment)
    <3>1. DOMAIN assigned = {variables[i].name : i \in DOMAIN variables}
      BY <2>1 DEF Assigned
    <3>2. Asked = {variables[i].name : i \in DOMAIN variables}
      BY <2>1 DEF Asked, NamesOf, Range
    <3> QED
      BY <3>1, <3>2
  <2>2. CASE ~Has(App.environment)
    BY <2>2 DEF Asked
  <2> QED
    BY <2>1, <2>2
<1>3. ASSUME Has(App.environment), NEW i \in DOMAIN variables
      PROVE  env'[variables[i].name] = variables[i].value
  <2>1. Distinct(NamesOf(variables))
    BY <1>3 DEF AppValid, IfSome, EnvironmentValid
  <2>2. /\ variables[i].name \in DOMAIN assigned
        /\ assigned[variables[i].name] = variables[i].value
    BY <1>3, <2>1, AssignedValue
  <2> HIDE DEF assigned, variables
  <2> QED
    BY <1>1, <2>2, Merged DEF assigned
<1>4. ASSUME NEW n \in DOMAIN DefaultEnv \ Asked PROVE env'[n] = DefaultEnv[n]
  <2>1. n \notin DOMAIN identity
    BY IdentityNames, DefaultsAreFew
  <2>2. PICK rest : rest = SetOver(identity, DefaultEnv)
    OBVIOUS
  <2>3. n \in DOMAIN rest /\ rest[n] = DefaultEnv[n]
    BY <2>1, <2>2 DEF SetOver
  <2>4. env' = SetOver(assigned, rest)
    BY <1>1, <2>2
  <2> HIDE DEF assigned
  <2> QED
    BY <1>2, <2>3, <2>4 DEF SetOver
<1>5. App' = App /\ Asked' = Asked
  BY DEF SetEnvironment, App, Asked
<1> QED
  BY <1>3, <1>4, <1>5 DEF EnvAsAsked

LEMMA ExecutedStep == UseInv /\ ExecutedInv /\ [Next]_vars => ExecutedInv'
<1> SUFFICES ASSUME UseInv, ExecutedInv, [Next]_vars PROVE ExecutedInv'
  OBVIOUS
<1> USE DEF vars, use, archiveVars, initVars
<1>0. cmd' = cmd
  BY DEF Next, Replace, CheckStructure, GetValidatedImage, OpenFails, OpenArchive, SkipEntry,
     ExtractEntry, ExtractFails, ExtractThrows, ExtractEnds, Become, BecomeFails, SetEnvironment,
     PreStart, RunApp, PostStop, RunHandler, ReadRuntime, WriteRuntime, RereadRuntime, Over
<1> SUFFICES ASSUME cmd = "run" PROVE ExecutedInv'
  BY <1>0 DEF ExecutedInv, ExecutesDeclared
<1>1. CASE pc' \notin {"pre-start", "app", "post-stop", "success"}
  BY <1>1 DEF ExecutedInv, ExecutesDeclared
<1>2. CASE UNCHANGED <<pc, manifest, initVars>>
  BY <1>2 DEF ExecutedInv, ExecutesDeclared, EnvAsAsked, Programs, Handlers, Asked, App
<1>3. ASSUME pc \in {"environment", "pre-start", "app", "post-stop"} PROVE AppValid(App)
  BY <1>3 DEF UseInv, TypeOK, ManifestInv, App, Ends
<1>4. ASSUME UNCHANGED manifest
      PROVE  /\ App' = App
             /\ UNCHANGED <<Programs("pre-start"), Programs("post-stop"), Asked>>
  BY <1>4 DEF App, Programs, Handlers, Asked
<1>5. CASE SetEnvironment
  <2>1. pc = "environment" /\ pc' = "pre-start"
    BY <1>5 DEF SetEnvironment
  <2> QED
    BY <1>3, <1>5, <2>1, EnvironmentSet DEF ExecutedInv, ExecutesDeclared
<1>6. ASSUME UNCHANGED <<manifest, env>> PROVE EnvAsAsked' = EnvAsAsked
  BY <1>6 DEF EnvAsAsked, App, Asked
<1>7. CASE PreStart
  <2>1. /\ pc = "pre-start" /\ pc' = "app" /\ UNCHANGED <<use, manifest, env>>
        /\ RunHandler("pre-start", "app")
    BY <1>7 DEF PreStart, RunHandler
  <2>2. Range(executed) = {}
    BY <2>1 DEF UseInv, StageInv, StageOf, Range
  <2>3. Range(executed') = Programs("pre-start")
    BY <1>3, <2>1, <2>2, HandlerRun DEF UseInv
  <2> QED
    BY <1>4, <1>6, <2>1, <2>3 DEF ExecutedInv, ExecutesDeclared
<1>8. CASE RunApp
  <2>1. /\ pc = "app" /\ pc' = "post-stop" /\ UNCHANGED <<use, manifest, env>>
        /\ executed' = Append(executed, [stage |-> "app", args |-> App.exec])
    BY <1>8 DEF RunApp
  <2>2. Range(executed') = Range(executed) \cup {[stage |-> "app", args |-> App.exec]}
    BY <2>1, RangeGrows DEF UseInv
  <2> QED
    BY <1>4, <1>6, <2>1, <2>2 DEF ExecutedInv, ExecutesDeclared
<1>9. CASE PostStop
  <2>1. /\ pc = "post-stop" /\ pc' = "success" /\ UNCHANGED <<use, manifest, env>>
        /\ RunHandler("post-stop", "success")
    BY <1>9 DEF PostStop, RunHandler
  <2>2. Range(executed') = Range(executed) \cup Programs("post-stop")
    BY <1>3, <2>1, HandlerRun DEF UseInv
  <2> QED
    BY <1>4, <1>6, <2>1, <2>2 DEF ExecutedInv, ExecutesDeclared
<1>10. CASE Replace \/ CheckStructure \/ GetValidatedImage \/ Become \/ BecomeFails
  BY <1>1, <1>10 DEF Replace, CheckStructure, GetValidatedImage, Become, BecomeFails
<1>11. CASE OpenFails \/ OpenArchive \/ SkipEntry \/ ExtractEntry \/ ExtractFails
            \/ ExtractThrows \/ ExtractEnds
  BY <1>1, <1>11 DEF OpenFails, OpenArchive, SkipEntry, ExtractEntry, ExtractFails, ExtractThrows,
     ExtractEnds, Extracting
<1>12. CASE ReadRuntime \/ WriteRuntime \/ RereadRuntime
  BY <1>12 DEF ReadRuntime, WriteRuntime, RereadRuntime, UseInv, TypeOK
<1>13. CASE Over \/ UNCHANGED vars
  BY <1>2, <1>13 DEF Over
<1> QED
  BY <1>5, <1>7, <1>8, <1>9, <1>10, <1>11, <1>12, <1>13 DEF Next

-------------------------------------------------------------------------------
(***************************************************************************)
(* A container's manifest through JSON: what is read of what was written,  *)
(* and that whatever is read has the shape of its type.                    *)
(***************************************************************************)

\* The shapes of what is read.
IsOption(o) == o = None \/ o = Some(o[1])
IsArray(a) == a = [i \in DOMAIN a |-> a[i]]
IsPair(x) == x = [name |-> x.name, value |-> x.value]
IsPairs(a) == IsArray(a) /\ \A i \in DOMAIN a : IsPair(a[i])

\* A struct has a value exactly if each of its fields has one.
LEMMA Collected ==
  ASSUME NEW tries
  PROVE  /\ Collect(tries).ok <=> \A f \in DOMAIN tries : tries[f].ok
         /\ Collect(tries).ok \in BOOLEAN
         /\ Collect(tries).ok => Collect(tries) = Result([f \in DOMAIN tries |-> tries[f].value])
         /\ ~Collect(tries).ok => Collect(tries) = Failure
  BY DEF Collect, Result, Failure

LEMMA ResultIs == \A v : Result(v).ok /\ Result(v).value = v /\ Result(v) # Failure
  BY DEF Result, Failure

\* A struct is read back if each of its fields is ...
LEMMA StructBack ==
  ASSUME NEW tries, NEW x, DOMAIN tries = DOMAIN x, IsArray(x),
         \A f \in DOMAIN x : tries[f] = Result(x[f])
  PROVE  Collect(tries) = Result(x)
<1>1. Collect(tries) = Result([f \in DOMAIN tries |-> tries[f].value])
  BY Collected, ResultIs
<1>2. [f \in DOMAIN tries |-> tries[f].value] = x
  BY ResultIs DEF IsArray
<1> QED
  BY <1>1, <1>2

\* ... and only then.
LEMMA StructLost ==
  ASSUME NEW tries, NEW x, NEW f \in DOMAIN tries, tries[f] # Result(x[f]), tries[f] = Failure \/ tries[f] =
          Result(tries[f].value)
  PROVE  Collect(tries) # Result(x)
<1>1. CASE tries[f] = Failure
  <2>1. ~Collect(tries).ok
    <3>1. ~Failure.ok
      BY DEF Failure
    <3>2. ~tries[f].ok
      BY <1>1, <3>1
    <3> QED
      BY <3>2, Collected
  <2> QED
    BY <2>1, ResultIs
<1>2. CASE tries[f] # Failure
  <2> SUFFICES ASSUME Collect(tries) = Result(x) PROVE FALSE
    OBVIOUS
  <2>1. x = [g \in DOMAIN tries |-> tries[g].value]
    <3>1. Collect(tries).ok /\ Collect(tries).value = x
      BY ResultIs
    <3>2. Collect(tries) = Result([g \in DOMAIN tries |-> tries[g].value])
      BY <3>1, Collected
    <3>3. Collect(tries).value = [g \in DOMAIN tries |-> tries[g].value]
      BY <3>2, ResultIs
    <3> QED
      BY <3>1, <3>3
  <2>2. x[f] = tries[f].value
    BY <2>1
  <2> QED
    BY <1>2, <2>2
<1> QED
  BY <1>1, <1>2

\* The JSON types tell apart what is written.
LEMMA JsonTypes ==
  /\ \A s : Is(Str(s), "str") /\ Str(s).str = s
  /\ \A b : Is(BooleanToJson(b), "bool") /\ BooleanToJson(b).bool = b
  /\ \A a : Is([arr |-> a], "arr") /\ ~Is([arr |-> a], "str")
  /\ \A f : Is(Obj(f), "obj") /\ Obj(f).obj = f
  /\ ~Is(Null, "arr")
  BY DEF Is, Str, BooleanToJson, Obj, Null

\* A name with its value is read back.
LEMMA PairBack ==
  ASSUME NEW x, IsPair(x)
  PROVE  NameValueFromJson(NameValueToJson(x)) = Result(x)
<1> DEFINE json == NameValueToJson(x)
           tries == [name |-> TryFrom(StringFromJson, json, "name"),
                     value |-> TryFrom(StringFromJson, json, "value")]
<1>1. Field(json, "name") /\ Field(json, "value") /\ json.obj["name"] = Str(x.name) /\ json.obj["value"] =
        Str(x.value)
  BY DEF Field, NameValueToJson, Obj, Is
<1>2. TryFrom(StringFromJson, json, "name") = Result(x.name) /\ TryFrom(StringFromJson, json, "value") =
        Result(x.value)
  BY <1>1 DEF TryFrom, StringFromJson, Str, Is
<1>3. NameValueFromJson(json) = Collect([name |-> Result(x.name), value |-> Result(x.value)])
  BY <1>2 DEF NameValueFromJson
<1> QED
  BY <1>3, StructBack DEF IsPair, IsArray

\* A list of them is too, unless it is empty: then null is written.
LEMMA PairsBack ==
  ASSUME NEW a, IsPairs(a)
  PROVE  /\ a # <<>> => NameValuesFromJson(NameValuesToJson(a)) = Result(a)
         /\ a = <<>> => NameValuesFromJson(NameValuesToJson(a)) = Failure
<1>1. CASE a = <<>>
  BY <1>1, JsonTypes DEF NameValuesFromJson, NameValuesToJson, ArrayFromJson, ArrayToJson
<1>2. CASE a # <<>>
  <2> DEFINE b == [i \in DOMAIN a |-> NameValueToJson(a[i])]
             tries == [i \in DOMAIN b |-> NameValueFromJson(b[i])]
  <2>1. NameValuesToJson(a) = [arr |-> b]
    BY <1>2 DEF NameValuesToJson, ArrayToJson
  <2>2. NameValuesFromJson([arr |-> b]) = Collect(tries)
    BY DEF NameValuesFromJson, ArrayFromJson, Is
  <2>3. DOMAIN tries = DOMAIN a /\ \A i \in DOMAIN a : tries[i] = Result(a[i])
    BY PairBack DEF IsPairs
  <2> HIDE DEF b, tries
  <2>4. Collect(tries) = Result(a)
    BY <2>3, StructBack DEF IsPairs
  <2> QED
    BY <1>2, <2>1, <2>2, <2>4
<1> QED
  BY <1>1, <1>2

\* The same of a list of strings.
LEMMA StringsBack ==
  ASSUME NEW a, IsArray(a)
  PROVE  /\ a # <<>> => StringsFromJson(ArrayToJson(Str, a)) = Result(a)
         /\ a = <<>> => StringsFromJson(ArrayToJson(Str, a)) = Failure
<1>1. CASE a = <<>>
  BY <1>1, JsonTypes DEF StringsFromJson, ArrayFromJson, ArrayToJson
<1>2. CASE a # <<>>
  <2> DEFINE b == [i \in DOMAIN a |-> Str(a[i])]
             tries == [i \in DOMAIN b |-> StringFromJson(b[i])]
  <2>1. ArrayToJson(Str, a) = [arr |-> b]
    BY <1>2 DEF ArrayToJson
  <2>2. StringsFromJson([arr |-> b]) = Collect(tries)
    BY DEF StringsFromJson, ArrayFromJson, Is
  <2>3. DOMAIN tries = DOMAIN a /\ \A i \in DOMAIN a : tries[i] = Result(a[i])
    BY JsonTypes DEF StringFromJson
  <2> HIDE DEF b, tries
  <2>4. Collect(tries) = Result(a)
    BY <2>3, StructBack
  <2> QED
    BY <1>2, <2>1, <2>2, <2>4
<1> QED
  BY <1>1, <1>2

\* The object written of some fields has those that have a value.
LEMMA Object ==
  ASSUME NEW fields, NEW n \in DOMAIN fields
  PROVE  /\ fields[n] = None => ~Field(ObjOfSome(fields), n)
         /\ \A v : fields[n] = Some(v) => Field(ObjOfSome(fields), n) /\ ObjOfSome(fields).obj[n] = v
<1>1. /\ Field(ObjOfSome(fields), n) <=> Has(fields[n])
      /\ Has(fields[n]) => ObjOfSome(fields).obj[n] = fields[n][1]
  BY DEF ObjOfSome, Obj, Field, Is
<1>2. \A v : Some(v) # None /\ Some(v)[1] = v
  BY DEF Some, None
<1> QED
  BY <1>1, <1>2 DEF Has

\* An optional string is read back.
LEMMA StringOptionBack ==
  ASSUME NEW json, NEW name, NEW o, IsOption(o),
         o = None => ~Field(json, name),
         o # None => Field(json, name) /\ json.obj[name] = Str(o[1])
  PROVE  TryOption(StringFromJson, json, name) = Result(o)
<1>1. CASE o = None
  BY <1>1 DEF TryOption
<1>2. CASE o # None /\ o = Some(o[1])
  BY <1>2, JsonTypes, ResultIs DEF TryOption, StringFromJson
<1> QED
  BY <1>1, <1>2 DEF IsOption

\* So is an optional boolean.
LEMMA BooleanOptionBack ==
  ASSUME NEW json, NEW name, NEW o, IsOption(o),
         o = None => ~Field(json, name),
         o # None => Field(json, name) /\ json.obj[name] = BooleanToJson(o[1])
  PROVE  TryOption(BooleanFromJson, json, name) = Result(o)
<1>1. CASE o = None
  BY <1>1 DEF TryOption
<1>2. CASE o # None /\ o = Some(o[1])
  BY <1>2, JsonTypes, ResultIs DEF TryOption, BooleanFromJson
<1> QED
  BY <1>1, <1>2 DEF IsOption

\* So are optional names and values unless there are none.
LEMMA PairsOptionBack ==
  ASSUME NEW json, NEW name, NEW o, IsOption(o), o # None => IsPairs(o[1]),
         o = None => ~Field(json, name),
         o # None => Field(json, name) /\ json.obj[name] = NameValuesToJson(o[1])
  PROVE  TryOption(NameValuesFromJson, json, name) = IF o = None \/ o[1] # <<>> THEN Result(o) ELSE Failure
<1>1. CASE o = None
  BY <1>1 DEF TryOption
<1>2. CASE o # None /\ o = Some(o[1]) /\ o[1] # <<>>
  <2>1. NameValuesFromJson(json.obj[name]) = Result(o[1])
    BY <1>2, PairsBack
  <2> QED
    BY <1>2, <2>1, ResultIs DEF TryOption
<1>3. CASE o # None /\ o[1] = <<>>
  <2>1. NameValuesFromJson(json.obj[name]) = Failure
    BY <1>3, PairsBack
  <2>2. ~Failure.ok
    BY DEF Failure
  <2> QED
    BY <1>3, <2>1, <2>2 DEF TryOption
<1> QED
  BY <1>1, <1>2, <1>3 DEF IsOption

IsVolume(x) ==
  /\ x = [kind |-> x.kind, fulfills |-> x.fulfills, source |-> x.source, read_only |-> x.read_only]
  /\ IsArray(x.fulfills) /\ IsOption(x.source) /\ IsOption(x.read_only)

\* A volume is read back exactly if it fulfills something (volumes.h:97-108).
LEMMA VolumeBack ==
  ASSUME NEW x, IsVolume(x)
  PROVE  /\ x.fulfills # <<>> => VolumeFromJson(VolumeToJson(x)) = Result(x)
         /\ x.fulfills = <<>> => VolumeFromJson(VolumeToJson(x)) = Failure
<1> DEFINE fields == [kind |-> Some(Str(x.kind)),
                      fulfills |-> Some(ArrayToJson(Str, x.fulfills)),
                      source |-> ToJsonIfSome(Str, x.source),
                      readOnly |-> ToJsonIfSome(BooleanToJson, x.read_only)]
           json == VolumeToJson(x)
           tries == [kind |-> TryFrom(StringFromJson, json, "kind"),
                     fulfills |-> TryFrom(StringsFromJson, json, "fulfills"),
                     source |-> TryOption(StringFromJson, json, "source"),
                     read_only |-> TryOption(BooleanFromJson, json, "readOnly")]
<1>1. ASSUME NEW n \in {"kind", "fulfills", "source", "readOnly"}
      PROVE  /\ fields[n] = None => ~Field(json, n)
             /\ \A v : fields[n] = Some(v) => Field(json, n) /\ json.obj[n] = v
  <2>1. json = ObjOfSome(fields)
    BY DEF VolumeToJson
  <2>2. n \in DOMAIN fields
    OBVIOUS
  <2> HIDE DEF fields, json
  <2> QED
    BY <2>1, <2>2, Object
<1>2. /\ fields["kind"] = Some(Str(x.kind)) /\ fields["fulfills"] = Some(ArrayToJson(Str, x.fulfills))
      /\ fields["source"] = ToJsonIfSome(Str, x.source) /\ fields["readOnly"] =
              ToJsonIfSome(BooleanToJson, x.read_only)
  OBVIOUS
<1> HIDE DEF fields, json
<1>3. TryFrom(StringFromJson, json, "kind") = Result(x.kind)
  <2>1. Field(json, "kind") /\ json.obj["kind"] = Str(x.kind)
    BY <1>1, <1>2
  <2> QED
    BY <2>1, JsonTypes DEF TryFrom, StringFromJson
<1>4. TryFrom(StringsFromJson, json, "fulfills") = StringsFromJson(ArrayToJson(Str, x.fulfills))
  <2>1. Field(json, "fulfills") /\ json.obj["fulfills"] = ArrayToJson(Str, x.fulfills)
    BY <1>1, <1>2
  <2> QED
    BY <2>1 DEF TryFrom
<1>5. TryOption(StringFromJson, json, "source") = Result(x.source)
  BY <1>1, <1>2, StringOptionBack DEF IsVolume, ToJsonIfSome, Has
<1>6. TryOption(BooleanFromJson, json, "readOnly") = Result(x.read_only)
  BY <1>1, <1>2, BooleanOptionBack DEF IsVolume, ToJsonIfSome, Has
<1>7. VolumeFromJson(json) = Collect(tries)
  BY DEF VolumeFromJson
<1>8. ASSUME x.fulfills # <<>> PROVE Collect(tries) = Result(x)
  <2>1. TryFrom(StringsFromJson, json, "fulfills") = Result(x.fulfills)
    BY <1>4, <1>8, StringsBack DEF IsVolume
  <2>2. tries = [kind |-> Result(x.kind), fulfills |-> Result(x.fulfills), source |-> Result(x.source),
                 read_only |-> Result(x.read_only)]
    BY <1>3, <1>5, <1>6, <2>1
  <2> HIDE DEF tries
  <2> QED
    BY <2>2, StructBack DEF IsVolume, IsArray
<1>9. ASSUME x.fulfills = <<>> PROVE Collect(tries) = Failure
  <2>1. tries["fulfills"] = Failure /\ "fulfills" \in DOMAIN tries
    BY <1>4, <1>9, StringsBack DEF IsVolume
  <2>2. ~tries["fulfills"].ok
    BY <2>1 DEF Failure
  <2> HIDE DEF tries
  <2> QED
    BY <2>1, <2>2, Collected
<1> QED
  BY <1>7, <1>8, <1>9 DEF json

VolumesOf(a) == IsArray(a) /\ \A i \in DOMAIN a : IsVolume(a[i])

\* Volumes are read back exactly if there are some and each of them is.
LEMMA VolumesBack ==
  ASSUME NEW a, VolumesOf(a)
  PROVE  VolumesFromJson(VolumesToJson(a)) =
           IF a # <<>> /\ \A i \in DOMAIN a : a[i].fulfills # <<>> THEN Result(a) ELSE Failure
<1>1. CASE a = <<>>
  BY <1>1, JsonTypes DEF VolumesFromJson, VolumesToJson, ArrayFromJson, ArrayToJson
<1>2. CASE a # <<>>
  <2> DEFINE b == [i \in DOMAIN a |-> VolumeToJson(a[i])]
             tries == [i \in DOMAIN b |-> VolumeFromJson(b[i])]
  <2>1. VolumesToJson(a) = [arr |-> b]
    BY <1>2 DEF VolumesToJson, ArrayToJson
  <2>2. VolumesFromJson([arr |-> b]) = Collect(tries)
    BY DEF VolumesFromJson, ArrayFromJson, Is
  <2>3. /\ DOMAIN tries = DOMAIN a
        /\ \A i \in DOMAIN a : tries[i] = IF a[i].fulfills # <<>> THEN Result(a[i]) ELSE Failure
    BY VolumeBack DEF VolumesOf
  <2> HIDE DEF b, tries
  <2>4. CASE \A i \in DOMAIN a : a[i].fulfills # <<>>
    <3>1. Collect(tries) = Result(a)
      BY <2>3, <2>4, StructBack DEF VolumesOf
    <3> QED
      BY <1>2, <2>1, <2>2, <2>4, <3>1
  <2>5. ASSUME NEW i \in DOMAIN a, a[i].fulfills = <<>>
        PROVE  Collect(tries) = Failure
    <3>1. i \in DOMAIN tries /\ ~tries[i].ok
      BY <2>3, <2>5 DEF Failure
    <3> QED
      BY <3>1, Collected
  <2> QED
    BY <1>2, <2>1, <2>2, <2>4, <2>5
<1> QED
  BY <1>1, <1>2

IsAppRef(x) ==
  /\ x = [image_id |-> x.image_id, app_name |-> x.app_name, isolators |-> x.isolators, annotations |-> x.annotations]
  /\ IsOption(x.app_name)
  /\ IsOption(x.isolators) /\ (x.isolators # None => IsPairs(x.isolators[1]))
  /\ IsOption(x.annotations) /\ (x.annotations # None => IsPairs(x.annotations[1]))

\* What keeps a reference: it is named in full or not at all.
RefKeeps(x) ==
  /\ x.isolators # None => x.isolators[1] # <<>>
  /\ x.annotations # None => x.annotations[1] # <<>>
  /\ x.isolators # None \/ x.annotations # None => x.app_name # None

\* An image whose writing does not crash is read back exactly if it is named in
\* full or not at all (app_refs.h:65-78).
LEMMA AppRefBack ==
  ASSUME NEW x, IsAppRef(x), ~AppRefToJsonCrashes(x)
  PROVE  /\ RefKeeps(x) => AppRefFromJson(AppRefToJson(x)) = Result(x)
         /\ ~RefKeeps(x) => AppRefFromJson(AppRefToJson(x)) # Result(x)
         /\ AppRefFromJson(AppRefToJson(x)) = Failure \/
              AppRefFromJson(AppRefToJson(x)) = Result(AppRefFromJson(AppRefToJson(x)).value)
<1> DEFINE named(json) == IF Has(x.app_name) THEN Some(json) ELSE None
           fields == [imageID |-> Some(Str(x.image_id)),
                      app |-> named(Str(x.app_name[1])),
                      isolators |-> named(NameValuesToJson(x.isolators[1])),
                      annotations |-> named(NameValuesToJson(x.annotations[1]))]
           json == AppRefToJson(x)
           tries == [image_id |-> TryFrom(StringFromJson, json, "imageID"),
                     app_name |-> TryOption(StringFromJson, json, "app"),
                     isolators |-> TryOption(NameValuesFromJson, json, "isolators"),
                     annotations |-> TryOption(NameValuesFromJson, json, "annotations")]
<1>1. ASSUME NEW n \in {"imageID", "app", "isolators", "annotations"}
      PROVE  /\ fields[n] = None => ~Field(json, n)
             /\ \A v : fields[n] = Some(v) => Field(json, n) /\ json.obj[n] = v
  <2>1. json = ObjOfSome(fields)
    BY DEF AppRefToJson
  <2>2. n \in DOMAIN fields
    OBVIOUS
  <2> HIDE DEF fields, json
  <2> QED
    BY <2>1, <2>2, Object
<1>2. /\ fields["imageID"] = Some(Str(x.image_id)) /\ fields["app"] = named(Str(x.app_name[1]))
      /\ fields["isolators"] = named(NameValuesToJson(x.isolators[1]))
      /\ fields["annotations"] = named(NameValuesToJson(x.annotations[1]))
  OBVIOUS
<1> HIDE DEF fields, json
<1>3. TryFrom(StringFromJson, json, "imageID") = Result(x.image_id)
  <2>1. Field(json, "imageID") /\ json.obj["imageID"] = Str(x.image_id)
    BY <1>1, <1>2
  <2> QED
    BY <2>1, JsonTypes DEF TryFrom, StringFromJson
<1>4. TryOption(StringFromJson, json, "app") = Result(x.app_name)
  BY <1>1, <1>2, StringOptionBack DEF IsAppRef, Has
<1>5. AppRefFromJson(json) = Collect(tries)
  BY DEF AppRefFromJson
<1>6. Collect(tries) = Failure \/ Collect(tries) = Result(Collect(tries).value)
  <2> HIDE DEF tries
  <2>1. CASE Collect(tries).ok
    <3>1. PICK v : Collect(tries) = Result(v)
      BY <2>1, Collected
    <3> QED
      BY <3>1, ResultIs
  <2>2. CASE ~Collect(tries).ok
    BY <2>2, Collected
  <2> QED
    BY <2>1, <2>2
<1>7. CASE x.app_name # None
  <2>1. x.isolators # None /\ x.annotations # None
    BY <1>7 DEF AppRefToJsonCrashes, Has
  <2>2. TryOption(NameValuesFromJson, json, "isolators") =
          IF x.isolators[1] # <<>> THEN Result(x.isolators) ELSE Failure
    BY <1>1, <1>2, <1>7, <2>1, PairsOptionBack DEF IsAppRef, Has
  <2>3. TryOption(NameValuesFromJson, json, "annotations") =
          IF x.annotations[1] # <<>> THEN Result(x.annotations) ELSE Failure
    BY <1>1, <1>2, <1>7, <2>1, PairsOptionBack DEF IsAppRef, Has
  <2>4. CASE RefKeeps(x)
    <3>1. tries = [image_id |-> Result(x.image_id), app_name |-> Result(x.app_name),
                   isolators |-> Result(x.isolators), annotations |-> Result(x.annotations)]
      BY <1>3, <1>4, <2>1, <2>2, <2>3, <2>4 DEF RefKeeps
    <3>2. Collect(tries) = Result(x)
      <4> HIDE DEF tries
      <4> QED
        BY <3>1, StructBack DEF IsAppRef, IsArray
    <3> QED
      BY <1>5, <1>6, <2>4, <3>2 DEF json
  <2>5. CASE ~RefKeeps(x)
    <3>1. PICK f \in DOMAIN tries : tries[f] = Failure
      <4>1. DOMAIN tries = {"image_id", "app_name", "isolators", "annotations"}
        OBVIOUS
      <4>2. tries["isolators"] = Failure \/ tries["annotations"] = Failure
        BY <1>7, <2>1, <2>2, <2>3, <2>5 DEF RefKeeps
      <4> HIDE DEF tries
      <4> QED
        BY <4>1, <4>2
    <3>2. Collect(tries) = Failure
      <4>1. ~tries[f].ok
        BY <3>1 DEF Failure
      <4> HIDE DEF tries
      <4> QED
        BY <4>1, Collected
    <3> QED
      BY <1>5, <1>6, <2>5, <3>2, ResultIs DEF json
  <2> QED
    BY <2>4, <2>5
<1>8. CASE x.app_name = None
  <2>1. /\ TryOption(NameValuesFromJson, json, "isolators") = Result(None)
        /\ TryOption(NameValuesFromJson, json, "annotations") = Result(None)
    BY <1>1, <1>2, <1>8 DEF TryOption, Has
  <2>2. tries = [image_id |-> Result(x.image_id), app_name |-> Result(x.app_name),
                 isolators |-> Result(None), annotations |-> Result(None)]
    BY <1>3, <1>4, <2>1
  <2>3. CASE RefKeeps(x)
    <3>1. x.isolators = None /\ x.annotations = None
      BY <1>8, <2>3 DEF RefKeeps
    <3>2. Collect(tries) = Result(x)
      <4> HIDE DEF tries
      <4> QED
        BY <2>2, <3>1, StructBack DEF IsAppRef, IsArray
    <3> QED
      BY <1>5, <1>6, <2>3, <3>2 DEF json
  <2>4. CASE ~RefKeeps(x)
    <3>1. x.isolators # None \/ x.annotations # None
      BY <2>4 DEF RefKeeps
    <3>2. /\ "isolators" \in DOMAIN tries /\ "annotations" \in DOMAIN tries
          /\ tries["isolators"] = Result(None) /\ tries["annotations"] = Result(None)
      BY <2>2
    <3> HIDE DEF tries
    <3>3. Collect(tries) # Result(x)
      <4>1. CASE x.isolators # None
        BY <3>2, <4>1, StructLost, ResultIs
      <4>2. CASE x.annotations # None
        BY <3>2, <4>2, StructLost, ResultIs
      <4> QED
        BY <3>1, <4>1, <4>2
    <3> QED
      BY <1>5, <1>6, <2>4, <3>3 DEF json
  <2> QED
    BY <2>3, <2>4
<1> QED
  BY <1>7, <1>8

RefsOf(a) == IsArray(a) /\ \A i \in DOMAIN a : IsAppRef(a[i])

\* The same of the images of a container.
LEMMA AppRefsBack ==
  ASSUME NEW a, RefsOf(a), \A i \in DOMAIN a : ~AppRefToJsonCrashes(a[i])
  PROVE  /\ a # <<>> /\ (\A i \in DOMAIN a : RefKeeps(a[i])) => AppRefsFromJson(AppRefsToJson(a)) = Result(a)
         /\ ~(a # <<>> /\ \A i \in DOMAIN a : RefKeeps(a[i])) => AppRefsFromJson(AppRefsToJson(a)) # Result(a)
         /\ AppRefsFromJson(AppRefsToJson(a)) = Failure \/
              AppRefsFromJson(AppRefsToJson(a)) = Result(AppRefsFromJson(AppRefsToJson(a)).value)
<1>1. CASE a = <<>>
  <2>1. AppRefsFromJson(AppRefsToJson(a)) = Failure
    BY <1>1, JsonTypes DEF AppRefsFromJson, AppRefsToJson, ArrayFromJson, ArrayToJson
  <2> QED
    BY <1>1, <2>1, ResultIs
<1>2. CASE a # <<>>
  <2> DEFINE b == [i \in DOMAIN a |-> AppRefToJson(a[i])]
             tries == [i \in DOMAIN b |-> AppRefFromJson(b[i])]
  <2>1. AppRefsToJson(a) = [arr |-> b]
    BY <1>2 DEF AppRefsToJson, ArrayToJson
  <2>2. AppRefsFromJson([arr |-> b]) = Collect(tries)
    BY DEF AppRefsFromJson, ArrayFromJson, Is
  <2>3. /\ DOMAIN tries = DOMAIN a
        /\ \A i \in DOMAIN a : tries[i] = AppRefFromJson(AppRefToJson(a[i]))
    OBVIOUS
  <2>4. ASSUME NEW i \in DOMAIN a
        PROVE  /\ RefKeeps(a[i]) => tries[i] = Result(a[i])
               /\ ~RefKeeps(a[i]) => tries[i] # Result(a[i])
               /\ tries[i] = Failure \/ tries[i] = Result(tries[i].value)
    <3>1. IsAppRef(a[i]) /\ ~AppRefToJsonCrashes(a[i]) /\ tries[i] = AppRefFromJson(AppRefToJson(a[i]))
      BY <2>3 DEF RefsOf
    <3> HIDE DEF tries
    <3> QED
      BY <3>1, AppRefBack
  <2> HIDE DEF b, tries
  <2>5. Collect(tries) = Failure \/ Collect(tries) = Result(Collect(tries).value)
    <3>1. CASE Collect(tries).ok
      <4>1. PICK v : Collect(tries) = Result(v)
        BY <3>1, Collected
      <4> QED
        BY <4>1, ResultIs
    <3>2. CASE ~Collect(tries).ok
      BY <3>2, Collected
    <3> QED
      BY <3>1, <3>2
  <2>6. CASE \A i \in DOMAIN a : RefKeeps(a[i])
    <3>1. Collect(tries) = Result(a)
      BY <2>3, <2>4, <2>6, StructBack DEF RefsOf
    <3> QED
      BY <1>2, <2>1, <2>2, <2>5, <2>6, <3>1
  <2>7. ASSUME NEW i \in DOMAIN a, ~RefKeeps(a[i])
        PROVE  Collect(tries) # Result(a)
    BY <2>3, <2>4, <2>7, StructLost
  <2> QED
    BY <1>2, <2>1, <2>2, <2>5, <2>6, <2>7
<1> QED
  BY <1>1, <1>2

IsRuntime(crm) ==
  /\ crm = [ac_version |-> crm.ac_version, ac_kind |-> crm.ac_kind, uuid |-> crm.uuid, app_refs |-> crm.app_refs,
            volumes |-> crm.volumes, isolators |-> crm.isolators, annotations |-> crm.annotations]
  /\ RefsOf(crm.app_refs)
  /\ IsOption(crm.volumes) /\ (crm.volumes # None => VolumesOf(crm.volumes[1]))
  /\ IsOption(crm.isolators) /\ (crm.isolators # None => IsPairs(crm.isolators[1]))
  /\ IsOption(crm.annotations) /\ (crm.annotations # None => IsPairs(crm.annotations[1]))

RefsKeep(crm) == crm.app_refs # <<>> /\ \A i \in DOMAIN crm.app_refs : RefKeeps(crm.app_refs[i])
VolumesKeep(crm) ==
  crm.volumes # None => crm.volumes[1] # <<>> /\ \A i \in DOMAIN crm.volumes[1] : crm.volumes[1][i].fulfills # <<>>
ListsKeep(crm) ==
  (crm.isolators # None => crm.isolators[1] # <<>>) /\ (crm.annotations # None => crm.annotations[1] # <<>>)

\* The manifest of a container is read back exactly if its parts are.
LEMMA RuntimeBack ==
  ASSUME NEW crm, IsRuntime(crm), \A i \in DOMAIN crm.app_refs : ~AppRefToJsonCrashes(crm.app_refs[i])
  PROVE  ContainerRuntimeManifestFromJson(ContainerRuntimeManifestToJson(crm)) = Result(crm) <=>
           RefsKeep(crm) /\ VolumesKeep(crm) /\ ListsKeep(crm)
<1> DEFINE fields == [acVersion |-> Some(Str(crm.ac_version)),
                      acKind |-> Some(Str(crm.ac_kind)),
                      uuid |-> Some(Str(crm.uuid)),
                      apps |-> Some(AppRefsToJson(crm.app_refs)),
                      volumes |-> ToJsonIfSome(VolumesToJson, crm.volumes),
                      isolators |-> ToJsonIfSome(NameValuesToJson, crm.isolators),
                      annotations |-> ToJsonIfSome(NameValuesToJson, crm.annotations)]
           json == ContainerRuntimeManifestToJson(crm)
           tries == [ac_version |-> TryFrom(StringFromJson, json, "acVersion"),
                     ac_kind |-> TryFrom(StringFromJson, json, "acKind"),
                     uuid |-> TryFrom(StringFromJson, json, "uuid"),
                     app_refs |-> TryFrom(AppRefsFromJson, json, "apps"),
                     volumes |-> TryOption(VolumesFromJson, json, "volumes"),
                     isolators |-> TryOption(NameValuesFromJson, json, "isolators"),
                     annotations |-> TryOption(NameValuesFromJson, json, "annotations")]
           names == {"acVersion", "acKind", "uuid", "apps", "volumes", "isolators", "annotations"}
           apps == AppRefsFromJson(AppRefsToJson(crm.app_refs))
<1>1. ASSUME NEW n \in names
      PROVE  /\ fields[n] = None => ~Field(json, n)
             /\ \A v : fields[n] = Some(v) => Field(json, n) /\ json.obj[n] = v
  <2>1. json = ObjOfSome(fields)
    BY DEF ContainerRuntimeManifestToJson
  <2>2. n \in DOMAIN fields
    OBVIOUS
  <2> HIDE DEF fields, json
  <2> QED
    BY <2>1, <2>2, Object
<1>2. /\ fields["acVersion"] = Some(Str(crm.ac_version)) /\ fields["acKind"] = Some(Str(crm.ac_kind))
      /\ fields["uuid"] = Some(Str(crm.uuid)) /\ fields["apps"] = Some(AppRefsToJson(crm.app_refs))
      /\ fields["volumes"] = ToJsonIfSome(VolumesToJson, crm.volumes)
      /\ fields["isolators"] = ToJsonIfSome(NameValuesToJson, crm.isolators)
      /\ fields["annotations"] = ToJsonIfSome(NameValuesToJson, crm.annotations)
  OBVIOUS
<1> HIDE DEF fields, json
<1>3. /\ TryFrom(StringFromJson, json, "acVersion") = Result(crm.ac_version)
      /\ TryFrom(StringFromJson, json, "acKind") = Result(crm.ac_kind)
      /\ TryFrom(StringFromJson, json, "uuid") = Result(crm.uuid)
  <2>1. /\ Field(json, "acVersion") /\ json.obj["acVersion"] = Str(crm.ac_version)
        /\ Field(json, "acKind") /\ json.obj["acKind"] = Str(crm.ac_kind)
        /\ Field(json, "uuid") /\ json.obj["uuid"] = Str(crm.uuid)
    BY <1>1, <1>2
  <2> QED
    BY <2>1, JsonTypes DEF TryFrom, StringFromJson
<1>4. TryFrom(AppRefsFromJson, json, "apps") = apps
  <2>1. Field(json, "apps") /\ json.obj["apps"] = AppRefsToJson(crm.app_refs)
    BY <1>1, <1>2
  <2> QED
    BY <2>1 DEF TryFrom
<1> HIDE DEF apps
<1>5. TryOption(VolumesFromJson, json, "volumes") = IF VolumesKeep(crm) THEN Result(crm.volumes) ELSE Failure
  <2>1. CASE crm.volumes = None
    <3>1. ~Field(json, "volumes")
      BY <1>1, <1>2, <2>1 DEF ToJsonIfSome, Has
    <3> QED
      BY <2>1, <3>1 DEF TryOption, VolumesKeep
  <2>2. CASE crm.volumes # None
    <3>1. fields["volumes"] = Some(VolumesToJson(crm.volumes[1]))
      BY <1>2, <2>2 DEF ToJsonIfSome, Has
    <3>2. Field(json, "volumes") /\ json.obj["volumes"] = VolumesToJson(crm.volumes[1])
      BY <1>1, <3>1
    <3>3. VolumesFromJson(json.obj["volumes"]) = IF VolumesKeep(crm) THEN Result(crm.volumes[1]) ELSE Failure
      BY <2>2, <3>2, VolumesBack DEF IsRuntime, VolumesKeep
    <3>4. crm.volumes = Some(crm.volumes[1]) /\ ~Failure.ok
      BY <2>2 DEF IsRuntime, IsOption, Failure
    <3> QED
      BY <3>2, <3>3, <3>4, ResultIs DEF TryOption
  <2> QED
    BY <2>1, <2>2
<1>6. /\ TryOption(NameValuesFromJson, json, "isolators") =
           IF crm.isolators = None \/ crm.isolators[1] # <<>> THEN Result(crm.isolators) ELSE Failure
      /\ TryOption(NameValuesFromJson, json, "annotations") =
           IF crm.annotations = None \/ crm.annotations[1] # <<>> THEN Result(crm.annotations) ELSE Failure
  <2>1. /\ crm.isolators = None => ~Field(json, "isolators")
        /\ crm.isolators # None =>
             Field(json, "isolators") /\ json.obj["isolators"] = NameValuesToJson(crm.isolators[1])
    BY <1>1, <1>2 DEF ToJsonIfSome, Has
  <2>2. /\ crm.annotations = None => ~Field(json, "annotations")
        /\ crm.annotations # None =>
             Field(json, "annotations") /\ json.obj["annotations"] = NameValuesToJson(crm.annotations[1])
    BY <1>1, <1>2 DEF ToJsonIfSome, Has
  <2>3. /\ IsOption(crm.isolators) /\ (crm.isolators # None => IsPairs(crm.isolators[1]))
        /\ IsOption(crm.annotations) /\ (crm.annotations # None => IsPairs(crm.annotations[1]))
    BY DEF IsRuntime
  <2>4. TryOption(NameValuesFromJson, json, "isolators") =
          IF crm.isolators = None \/ crm.isolators[1] # <<>> THEN Result(crm.isolators) ELSE Failure
    BY <2>1, <2>3, PairsOptionBack
  <2>5. TryOption(NameValuesFromJson, json, "annotations") =
          IF crm.annotations = None \/ crm.annotations[1] # <<>> THEN Result(crm.annotations) ELSE Failure
    BY <2>2, <2>3, PairsOptionBack
  <2> QED
    BY <2>4, <2>5
<1>7. /\ RefsKeep(crm) => apps = Result(crm.app_refs)
      /\ ~RefsKeep(crm) => apps # Result(crm.app_refs)
      /\ apps = Failure \/ apps = Result(apps.value)
  BY AppRefsBack DEF IsRuntime, RefsKeep, apps
<1>8. ContainerRuntimeManifestFromJson(json) = Collect(tries)
  BY DEF ContainerRuntimeManifestFromJson
<1>9. ASSUME RefsKeep(crm), VolumesKeep(crm), ListsKeep(crm) PROVE Collect(tries) = Result(crm)
  <2>1. tries = [ac_version |-> Result(crm.ac_version), ac_kind |-> Result(crm.ac_kind), uuid |-> Result(crm.uuid),
                 app_refs |-> Result(crm.app_refs), volumes |-> Result(crm.volumes),
                 isolators |-> Result(crm.isolators), annotations |-> Result(crm.annotations)]
    BY <1>3, <1>4, <1>5, <1>6, <1>7, <1>9 DEF ListsKeep
  <2> HIDE DEF tries
  <2> QED
    BY <2>1, StructBack DEF IsRuntime, IsArray
<1>10. /\ DOMAIN tries = {"ac_version", "ac_kind", "uuid", "app_refs", "volumes", "isolators", "annotations"}
       /\ tries["app_refs"] = apps
       /\ tries["volumes"] = TryOption(VolumesFromJson, json, "volumes")
       /\ tries["isolators"] = TryOption(NameValuesFromJson, json, "isolators")
       /\ tries["annotations"] = TryOption(NameValuesFromJson, json, "annotations")
  BY <1>4
<1>11. ASSUME ~RefsKeep(crm) PROVE Collect(tries) # Result(crm)
  <2> HIDE DEF tries
  <2> QED
    BY <1>7, <1>10, <1>11, StructLost
<1>12. ASSUME NEW f \in {"volumes", "isolators", "annotations"}, tries[f] = Failure PROVE Collect(tries) # Result(crm)
  <2> HIDE DEF tries
  <2>1. f \in DOMAIN tries /\ ~tries[f].ok
    BY <1>10, <1>12 DEF Failure
  <2>2. Collect(tries) = Failure
    BY <2>1, Collected
  <2> QED
    BY <2>2, ResultIs
<1>13. ASSUME ~VolumesKeep(crm) PROVE Collect(tries) # Result(crm)
  <2> HIDE DEF tries
  <2> QED
    BY <1>5, <1>10, <1>12, <1>13
<1>14. ASSUME ~ListsKeep(crm) PROVE Collect(tries) # Result(crm)
  <2> HIDE DEF tries
  <2> QED
    BY <1>6, <1>10, <1>12, <1>14 DEF ListsKeep
<1> QED
  BY <1>8, <1>9, <1>11, <1>13, <1>14 DEF json

\* What is read has the shape of its type.
LEMMA CollectedIs ==
  ASSUME NEW tries, Collect(tries).ok
  PROVE  /\ \A f \in DOMAIN tries : tries[f].ok
         /\ Collect(tries).value = [f \in DOMAIN tries |-> tries[f].value]
  BY Collected, ResultIs

\* An option read is one.
LEMMA OptionRead ==
  ASSUME NEW json, NEW name
  PROVE  /\ TryOption(StringFromJson, json, name).ok => IsOption(TryOption(StringFromJson, json, name).value)
         /\ TryOption(BooleanFromJson, json, name).ok => IsOption(TryOption(BooleanFromJson, json, name).value)
<1>1. IsOption(None) /\ \A v : IsOption(Some(v))
  BY DEF IsOption, Some, None
<1>2. ~Failure.ok
  BY DEF Failure
<1>3. TryOption(StringFromJson, json, name).ok => IsOption(TryOption(StringFromJson, json, name).value)
  BY <1>1, <1>2, ResultIs DEF TryOption
<1>4. TryOption(BooleanFromJson, json, name).ok => IsOption(TryOption(BooleanFromJson, json, name).value)
  BY <1>1, <1>2, ResultIs DEF TryOption
<1> QED
  BY <1>3, <1>4

\* So for a name with its value ...
LEMMA PairRead ==
  ASSUME NEW json, NameValueFromJson(json).ok
  PROVE  IsPair(NameValueFromJson(json).value)
<1> DEFINE tries == [name |-> TryFrom(StringFromJson, json, "name"),
                     value |-> TryFrom(StringFromJson, json, "value")]
           x == NameValueFromJson(json).value
<1>1. NameValueFromJson(json) = Collect(tries)
  BY DEF NameValueFromJson
<1>2. DOMAIN tries = {"name", "value"}
  OBVIOUS
<1> HIDE DEF tries
<1>3. x = [f \in {"name", "value"} |-> tries[f].value]
  BY <1>1, <1>2, CollectedIs
<1> HIDE DEF x
<1>4. IsPair(x)
  BY <1>3 DEF IsPair
<1> QED
  BY <1>4 DEF x

\* ... for lists of them ...
LEMMA PairsRead ==
  ASSUME NEW json, NameValuesFromJson(json).ok
  PROVE  IsPairs(NameValuesFromJson(json).value)
<1> DEFINE tries == [i \in DOMAIN json.arr |-> NameValueFromJson(json.arr[i])]
           a == NameValuesFromJson(json).value
<1>1. NameValuesFromJson(json) = Collect(tries)
  BY DEF NameValuesFromJson, ArrayFromJson, Failure
<1>2. \A i \in DOMAIN tries : tries[i].ok => IsPair(tries[i].value)
  BY PairRead
<1> HIDE DEF tries
<1>3. /\ a = [i \in DOMAIN tries |-> tries[i].value]
      /\ \A i \in DOMAIN tries : tries[i].ok
  BY <1>1, CollectedIs
<1> HIDE DEF a
<1>4. IsPairs(a)
  BY <1>2, <1>3 DEF IsPairs, IsArray
<1> QED
  BY <1>4 DEF a

\* ... that may be missing ...
LEMMA PairsOptionRead ==
  ASSUME NEW json, NEW name, TryOption(NameValuesFromJson, json, name).ok
  PROVE  LET o == TryOption(NameValuesFromJson, json, name).value
         IN  IsOption(o) /\ (o # None => IsPairs(o[1]))
<1>1. CASE ~Field(json, name)
  BY <1>1, ResultIs DEF TryOption, IsOption
<1>2. CASE Field(json, name)
  <2> DEFINE try == NameValuesFromJson(json.obj[name])
  <2>1. TryOption(NameValuesFromJson, json, name) = IF try.ok THEN Result(Some(try.value)) ELSE Failure
    BY <1>2 DEF TryOption
  <2>2. try.ok => IsPairs(try.value)
    BY PairsRead
  <2> HIDE DEF try
  <2>3. try.ok /\ TryOption(NameValuesFromJson, json, name).value = Some(try.value)
    BY <2>1, ResultIs DEF Failure
  <2> QED
    BY <2>2, <2>3 DEF IsOption, Some, None
<1> QED
  BY <1>1, <1>2

\* ... for lists of strings ...
LEMMA StringsRead ==
  ASSUME NEW json, NEW name, TryFrom(StringsFromJson, json, name).ok
  PROVE  IsArray(TryFrom(StringsFromJson, json, name).value)
<1> DEFINE tries == [i \in DOMAIN json.obj[name].arr |-> StringFromJson(json.obj[name].arr[i])]
           a == TryFrom(StringsFromJson, json, name).value
<1>1. TryFrom(StringsFromJson, json, name) = Collect(tries)
  BY DEF TryFrom, StringsFromJson, ArrayFromJson, Failure
<1> HIDE DEF tries
<1>2. a = [i \in DOMAIN tries |-> tries[i].value]
  BY <1>1, CollectedIs
<1> HIDE DEF a
<1>3. IsArray(a)
  BY <1>2 DEF IsArray
<1> QED
  BY <1>3 DEF a

\* ... for volumes ...
LEMMA VolumeRead ==
  ASSUME NEW json, VolumeFromJson(json).ok
  PROVE  IsVolume(VolumeFromJson(json).value)
<1> DEFINE tries == [kind |-> TryFrom(StringFromJson, json, "kind"),
                     fulfills |-> TryFrom(StringsFromJson, json, "fulfills"),
                     source |-> TryOption(StringFromJson, json, "source"),
                     read_only |-> TryOption(BooleanFromJson, json, "readOnly")]
           x == VolumeFromJson(json).value
           names == {"kind", "fulfills", "source", "read_only"}
<1>1. VolumeFromJson(json) = Collect(tries)
  BY DEF VolumeFromJson
<1>2. DOMAIN tries = names
  OBVIOUS
<1>3. /\ tries["fulfills"].ok => IsArray(tries["fulfills"].value)
      /\ tries["source"].ok => IsOption(tries["source"].value)
      /\ tries["read_only"].ok => IsOption(tries["read_only"].value)
  BY StringsRead, OptionRead
<1> HIDE DEF tries
<1>4. (\A f \in names : tries[f].ok) /\ x = [f \in names |-> tries[f].value]
  BY <1>1, <1>2, CollectedIs
<1> HIDE DEF x
<1>5. IsVolume(x)
  BY <1>3, <1>4 DEF IsVolume
<1> QED
  BY <1>5 DEF x

\* ... their lists ...
LEMMA VolumesRead ==
  ASSUME NEW json, VolumesFromJson(json).ok
  PROVE  VolumesOf(VolumesFromJson(json).value)
<1> DEFINE tries == [i \in DOMAIN json.arr |-> VolumeFromJson(json.arr[i])]
           a == VolumesFromJson(json).value
<1>1. VolumesFromJson(json) = Collect(tries)
  BY DEF VolumesFromJson, ArrayFromJson, Failure
<1>2. \A i \in DOMAIN tries : tries[i].ok => IsVolume(tries[i].value)
  BY VolumeRead
<1> HIDE DEF tries
<1>3. /\ a = [i \in DOMAIN tries |-> tries[i].value]
      /\ \A i \in DOMAIN tries : tries[i].ok
  BY <1>1, CollectedIs
<1> HIDE DEF a
<1>4. VolumesOf(a)
  BY <1>2, <1>3 DEF VolumesOf, IsArray
<1> QED
  BY <1>4 DEF a

\* ... that may be missing ...
LEMMA VolumesOptionRead ==
  ASSUME NEW json, NEW name, TryOption(VolumesFromJson, json, name).ok
  PROVE  LET o == TryOption(VolumesFromJson, json, name).value
         IN  IsOption(o) /\ (o # None => VolumesOf(o[1]))
<1>1. CASE ~Field(json, name)
  BY <1>1, ResultIs DEF TryOption, IsOption
<1>2. CASE Field(json, name)
  <2> DEFINE try == VolumesFromJson(json.obj[name])
  <2>1. TryOption(VolumesFromJson, json, name) = IF try.ok THEN Result(Some(try.value)) ELSE Failure
    BY <1>2 DEF TryOption
  <2>2. try.ok => VolumesOf(try.value)
    BY VolumesRead
  <2> HIDE DEF try
  <2>3. try.ok /\ TryOption(VolumesFromJson, json, name).value = Some(try.value)
    BY <2>1, ResultIs DEF Failure
  <2> QED
    BY <2>2, <2>3 DEF IsOption, Some, None
<1> QED
  BY <1>1, <1>2

\* ... for the images of a container ...
LEMMA AppRefRead ==
  ASSUME NEW json, AppRefFromJson(json).ok
  PROVE  IsAppRef(AppRefFromJson(json).value)
<1> DEFINE tries == [image_id |-> TryFrom(StringFromJson, json, "imageID"),
                     app_name |-> TryOption(StringFromJson, json, "app"),
                     isolators |-> TryOption(NameValuesFromJson, json, "isolators"),
                     annotations |-> TryOption(NameValuesFromJson, json, "annotations")]
           x == AppRefFromJson(json).value
           names == {"image_id", "app_name", "isolators", "annotations"}
<1>1. AppRefFromJson(json) = Collect(tries)
  BY DEF AppRefFromJson
<1>2. DOMAIN tries = names
  OBVIOUS
<1>3. tries["app_name"].ok => IsOption(tries["app_name"].value)
  BY OptionRead
<1>4. tries["isolators"].ok =>
        LET o == tries["isolators"].value IN IsOption(o) /\ (o # None => IsPairs(o[1]))
  BY PairsOptionRead
<1>5. tries["annotations"].ok =>
        LET o == tries["annotations"].value IN IsOption(o) /\ (o # None => IsPairs(o[1]))
  BY PairsOptionRead
<1> HIDE DEF tries
<1>6. (\A f \in names : tries[f].ok) /\ x = [f \in names |-> tries[f].value]
  BY <1>1, <1>2, CollectedIs
<1> HIDE DEF x
<1>7. IsAppRef(x)
  BY <1>3, <1>4, <1>5, <1>6 DEF IsAppRef
<1> QED
  BY <1>7 DEF x

\* ... their lists ...
LEMMA AppRefsRead ==
  ASSUME NEW json, NEW name, TryFrom(AppRefsFromJson, json, name).ok
  PROVE  RefsOf(TryFrom(AppRefsFromJson, json, name).value)
<1> DEFINE tries == [i \in DOMAIN json.obj[name].arr |-> AppRefFromJson(json.obj[name].arr[i])]
           a == TryFrom(AppRefsFromJson, json, name).value
<1>1. TryFrom(AppRefsFromJson, json, name) = Collect(tries)
  BY DEF TryFrom, AppRefsFromJson, ArrayFromJson, Failure
<1>2. \A i \in DOMAIN tries : tries[i].ok => IsAppRef(tries[i].value)
  BY AppRefRead
<1> HIDE DEF tries
<1>3. /\ a = [i \in DOMAIN tries |-> tries[i].value]
      /\ \A i \in DOMAIN tries : tries[i].ok
  BY <1>1, CollectedIs
<1> HIDE DEF a
<1>4. RefsOf(a)
  BY <1>2, <1>3 DEF RefsOf, IsArray
<1> QED
  BY <1>4 DEF a

\* ... and for the manifest of a container.
LEMMA RuntimeRead ==
  ASSUME NEW json, ContainerRuntimeManifestFromJson(json).ok
  PROVE  IsRuntime(ContainerRuntimeManifestFromJson(json).value)
<1> DEFINE tries == [ac_version |-> TryFrom(StringFromJson, json, "acVersion"),
                     ac_kind |-> TryFrom(StringFromJson, json, "acKind"),
                     uuid |-> TryFrom(StringFromJson, json, "uuid"),
                     app_refs |-> TryFrom(AppRefsFromJson, json, "apps"),
                     volumes |-> TryOption(VolumesFromJson, json, "volumes"),
                     isolators |-> TryOption(NameValuesFromJson, json, "isolators"),
                     annotations |-> TryOption(NameValuesFromJson, json, "annotations")]
           x == ContainerRuntimeManifestFromJson(json).value
           names == {"ac_version", "ac_kind", "uuid", "app_refs", "volumes", "isolators", "annotations"}
<1>1. ContainerRuntimeManifestFromJson(json) = Collect(tries)
  BY DEF ContainerRuntimeManifestFromJson
<1>2. DOMAIN tries = names
  OBVIOUS
<1>3. tries["app_refs"].ok => RefsOf(tries["app_refs"].value)
  BY AppRefsRead
<1>4. tries["volumes"].ok =>
        LET o == tries["volumes"].value IN IsOption(o) /\ (o # None => VolumesOf(o[1]))
  BY VolumesOptionRead
<1>5. tries["isolators"].ok =>
        LET o == tries["isolators"].value IN IsOption(o) /\ (o # None => IsPairs(o[1]))
  BY PairsOptionRead
<1>6. tries["annotations"].ok =>
        LET o == tries["annotations"].value IN IsOption(o) /\ (o # None => IsPairs(o[1]))
  BY PairsOptionRead
<1> HIDE DEF tries
<1>7. (\A f \in names : tries[f].ok) /\ x = [f \in names |-> tries[f].value]
  BY <1>1, <1>2, CollectedIs
<1> HIDE DEF x
<1>8. IsRuntime(x)
  BY <1>3, <1>4, <1>5, <1>6, <1>7 DEF IsRuntime
<1> QED
  BY <1>8 DEF x

\* The property says of the options what the lemmas above say of them.
LEMMA LosslessIs ==
  ASSUME NEW crm
  PROVE  Lossless(crm) <=> RefsKeep(crm) /\ VolumesKeep(crm) /\ ListsKeep(crm)
  BY DEF Lossless, Written, Has, RefsKeep, RefKeeps, VolumesKeep, ListsKeep

-------------------------------------------------------------------------------
\* What a command is about never changes.
LEMMA UseStep == [Next]_vars => UNCHANGED use
  BY DEF Next, vars, use, archiveVars, initVars, Replace, CheckStructure, GetValidatedImage, OpenFails, OpenArchive,
         SkipEntry, ExtractEntry, ExtractFails, ExtractThrows, ExtractEnds, Become, BecomeFails, SetEnvironment,
         PreStart, RunApp, PostStop, RunHandler, ReadRuntime, WriteRuntime, RereadRuntime, Over

\* Neither command has found anything yet.
LEMMA VerdictInit == Init => VerdictInv /\ RewriteInv
  BY DEF Init, VerdictInv, RewriteInv, Ends, Has, None

\* Only the steps of `nscn validate` can disturb what it has found.
LEMMA VerdictStep == TypeOK /\ ManifestInv /\ VerdictInv /\ [Next]_vars => VerdictInv'
<1> SUFFICES ASSUME TypeOK, ManifestInv, VerdictInv, [Next]_vars PROVE VerdictInv'
  OBVIOUS
<1> USE DEF vars, use, archiveVars, initVars, Ends
<1>1. ASSUME UNCHANGED <<use, file, pc>> \/ pc' \notin Ends \/ cmd # "validate", UNCHANGED use
      PROVE  VerdictInv'
  BY <1>1 DEF VerdictInv
<1>2. CASE Replace
  BY <1>1, <1>2 DEF Replace
<1>3. CASE CheckStructure
  BY <1>3 DEF CheckStructure, VerdictInv, ManifestInv
<1>4. CASE GetValidatedImage
  <2>1. pc = "manifest" /\ UNCHANGED <<use, file>>
    BY <1>4 DEF GetValidatedImage
  <2>2. cmd = "validate" => ValidateStructure(first)
    BY <2>1 DEF ManifestInv
  <2>3. cmd = "validate" => (pc' = "success" <=> Has(ValidatedManifest(file)))
    BY <1>4 DEF GetValidatedImage
  <2> QED
    BY <2>1, <2>2, <2>3 DEF VerdictInv
<1>5. CASE OpenFails \/ OpenArchive \/ SkipEntry \/ ExtractEntry \/ ExtractFails \/ ExtractThrows \/ ExtractEnds
  <2>1. pc = "extract" /\ UNCHANGED use
    BY <1>5 DEF OpenFails, OpenArchive, SkipEntry, ExtractEntry, ExtractFails, ExtractThrows, ExtractEnds, Extracting
  <2> QED
    BY <1>1, <2>1 DEF TypeOK
<1>6. CASE Become \/ BecomeFails \/ SetEnvironment \/ PreStart \/ RunApp \/ PostStop
  <2>1. pc \in {"become", "environment", "pre-start", "app", "post-stop"} /\ UNCHANGED use
    BY <1>6 DEF Become, BecomeFails, SetEnvironment, PreStart, RunApp, PostStop, RunHandler
  <2> QED
    BY <1>1, <2>1 DEF TypeOK
<1>7. CASE ReadRuntime \/ WriteRuntime \/ RereadRuntime
  <2>1. pc \in {"read", "write", "reread"} /\ UNCHANGED use
    BY <1>7 DEF ReadRuntime, WriteRuntime, RereadRuntime
  <2> QED
    BY <1>1, <2>1 DEF TypeOK
<1>8. CASE Over \/ UNCHANGED vars
  BY <1>1, <1>8 DEF Over
<1> QED
  BY <1>2, <1>3, <1>4, <1>5, <1>6, <1>7, <1>8 DEF Next

\* Only the steps of a client can disturb what it has found.
LEMMA RewriteStep == TypeOK /\ RewriteInv /\ [Next]_vars => RewriteInv'
<1> SUFFICES ASSUME TypeOK, RewriteInv, [Next]_vars PROVE RewriteInv'
  OBVIOUS
<1> USE DEF vars, use, archiveVars, initVars, Ends
<1>1. ASSUME UNCHANGED <<use, file, pc, manifest>> \/ cmd # "rewrite", cmd' = cmd
      PROVE  RewriteInv'
  BY <1>1 DEF RewriteInv, Crashes, ReadsBack
<1>2. CASE Replace
  BY <1>1, <1>2 DEF Replace
<1>3. CASE CheckStructure \/ GetValidatedImage
  BY <1>1, <1>3 DEF CheckStructure, GetValidatedImage, TypeOK
<1>5. CASE OpenFails \/ OpenArchive \/ SkipEntry \/ ExtractEntry \/ ExtractFails \/ ExtractThrows \/ ExtractEnds
  <2>1. pc = "extract" /\ cmd' = cmd
    BY <1>5 DEF OpenFails, OpenArchive, SkipEntry, ExtractEntry, ExtractFails, ExtractThrows, ExtractEnds, Extracting
  <2> QED
    BY <1>1, <2>1 DEF TypeOK
<1>6. CASE Become \/ BecomeFails \/ SetEnvironment \/ PreStart \/ RunApp \/ PostStop
  <2>1. pc \in {"become", "environment", "pre-start", "app", "post-stop"} /\ cmd' = cmd
    BY <1>6 DEF Become, BecomeFails, SetEnvironment, PreStart, RunApp, PostStop, RunHandler
  <2> QED
    BY <1>1, <2>1 DEF TypeOK
<1>7. CASE ReadRuntime
  <2> DEFINE try == ContainerRuntimeManifestFromJson(file)
  <2>1. cmd = "rewrite" /\ cmd' = cmd /\ first' = first /\ file' = file /\ file = first
    BY <1>7 DEF ReadRuntime, TypeOK, RewriteInv
  <2>2. \/ try.ok /\ manifest' = Some(try.value) /\ pc' = "write"
        \/ manifest' = None /\ pc' = "failure"
    BY <1>7 DEF ReadRuntime
  <2>3. try.ok => try = Result(try.value)
    <3> DEFINE tries == [ac_version |-> TryFrom(StringFromJson, file, "acVersion"),
                         ac_kind |-> TryFrom(StringFromJson, file, "acKind"),
                         uuid |-> TryFrom(StringFromJson, file, "uuid"),
                         app_refs |-> TryFrom(AppRefsFromJson, file, "apps"),
                         volumes |-> TryOption(VolumesFromJson, file, "volumes"),
                         isolators |-> TryOption(NameValuesFromJson, file, "isolators"),
                         annotations |-> TryOption(NameValuesFromJson, file, "annotations")]
    <3>1. try = Collect(tries)
      BY DEF ContainerRuntimeManifestFromJson
    <3> HIDE DEF tries, try
    <3>2. ASSUME try.ok PROVE \E v : try = Result(v)
      BY <3>1, <3>2, Collected
    <3> QED
      BY <3>2, ResultIs
  <2> HIDE DEF try
  <2>4. CASE try.ok /\ manifest' = Some(try.value) /\ pc' = "write"
    <3>1. manifest'[1] = try.value /\ manifest' # None
      BY <2>4 DEF Some, None
    <3> QED
      BY <2>1, <2>3, <2>4, <3>1 DEF RewriteInv, Has, try
  <2>5. CASE manifest' = None /\ pc' = "failure"
    BY <2>1, <2>5 DEF RewriteInv, Has
  <2> QED
    BY <2>2, <2>4, <2>5
<1>8. CASE WriteRuntime
  <2>1. cmd = "rewrite" /\ UNCHANGED <<cmd, first, manifest>> /\ pc = "write"
    BY <1>8 DEF WriteRuntime, TypeOK
  <2>2. \/ Crashes(manifest[1]) /\ pc' = "aborted"
        \/ ~Crashes(manifest[1]) /\ pc' = "reread" /\ file' = ContainerRuntimeManifestToJson(manifest[1])
    BY <1>8 DEF WriteRuntime, Crashes
  <2>3. Crashes(manifest[1])' <=> Crashes(manifest[1])
    BY <2>1 DEF Crashes
  <2> QED
    BY <2>1, <2>2, <2>3 DEF RewriteInv
<1>9. CASE RereadRuntime
  <2>1. cmd = "rewrite" /\ UNCHANGED <<cmd, first, manifest>> /\ pc = "reread"
    BY <1>9 DEF RereadRuntime, TypeOK
  <2>2. pc' = IF ReadsBack(manifest[1]) THEN "success" ELSE "failure"
    BY <1>9, <2>1 DEF RereadRuntime, RewriteInv, ReadsBack
  <2>3. (Crashes(manifest[1])' <=> Crashes(manifest[1])) /\ (ReadsBack(manifest[1])' <=> ReadsBack(manifest[1]))
    BY <2>1 DEF Crashes, ReadsBack
  <2> QED
    BY <2>1, <2>2, <2>3 DEF RewriteInv
<1>10. CASE Over \/ UNCHANGED vars
  BY <1>1, <1>10 DEF Over
<1> QED
  BY <1>2, <1>3, <1>5, <1>6, <1>7, <1>8, <1>9, <1>10 DEF Next

\* For every JSON value that is a container's manifest: what to_json writes of the
\* manifest reads back as the manifest exactly if it is Lossless, unless the
\* writing crashes (app_refs.h:65-78, volumes.h:97-108, container.h:83-99).
THEOREM RoundTrip ==
  ASSUME NEW json, NEW crm, ContainerRuntimeManifestFromJson(json) = Result(crm), ~Crashes(crm)
  PROVE  ReadsBack(crm) <=> Lossless(crm)
<1>1. IsRuntime(crm)
  BY RuntimeRead, ResultIs
<1> QED
  BY <1>1, RuntimeBack, LosslessIs DEF Crashes, ReadsBack

\* What a client goes by is the round trip of the manifest that was read.
LEMMA RewrittenIsKept == RewriteInv => RewriteKeeps
<1> SUFFICES ASSUME RewriteInv, cmd = "rewrite", pc \in Ends, Has(manifest)
             PROVE  /\ pc = "aborted" <=> Crashes(manifest[1])
                    /\ pc # "aborted" => (pc = "success" <=> Lossless(manifest[1]))
  BY DEF RewriteKeeps, Crashes, AppRefToJsonCrashes
<1> DEFINE crm == manifest[1]
<1>1. /\ ContainerRuntimeManifestFromJson(first) = Result(crm)
      /\ pc = "aborted" <=> Crashes(crm)
      /\ pc # "aborted" => (pc = "success" <=> ReadsBack(crm))
  BY DEF RewriteInv
<1> HIDE DEF crm
<1>2. ~Crashes(crm) => (ReadsBack(crm) <=> Lossless(crm))
  BY <1>1, RoundTrip
<1> QED
  BY <1>1, <1>2 DEF crm

(***************************************************************************)
(* Parsing and validating accept of a JSON value exactly what the format   *)
(* admits: a lemma for each type, from the strings up to the image.        *)
(***************************************************************************)

\* The fields of one string, boolean, path or id.
LEMMA TextRead ==
  ASSUME NEW json, NEW name
  PROVE  /\ TryFrom(StringFromJson, json, name).ok <=> Field(json, name) /\ TextJson(json.obj[name])
         /\ TryFrom(StringFromJson, json, name).ok => TryFrom(StringFromJson, json, name).value = json.obj[name].str
<1>1. ~Failure.ok
  BY DEF Failure
<1> QED
  BY <1>1, ResultIs DEF TryFrom, StringFromJson, TextJson

LEMMA FlagOptionRead ==
  ASSUME NEW json, NEW name
  PROVE  TryOption(BooleanFromJson, json, name).ok <=> Optional(json, name, FlagJson)
<1>1. ~Failure.ok
  BY DEF Failure
<1> QED
  BY <1>1, ResultIs DEF TryOption, BooleanFromJson, Optional, FlagJson

LEMMA PathOptionRead ==
  ASSUME NEW json, NEW name
  PROVE  LET try == TryOption(StringFromJson, json, name)
         IN  try.ok /\ IfSome(PathValid, try.value) <=> Optional(json, name, PathJson)
<1>1. ~Failure.ok /\ \A v : Some(v) # None /\ Some(v)[1] = v
  BY DEF Failure, Some, None
<1>2. CASE ~Field(json, name)
  BY <1>2, ResultIs DEF TryOption, Optional, IfSome, Has
<1>3. CASE Field(json, name)
  BY <1>1, <1>3, ResultIs DEF TryOption, StringFromJson, Optional, IfSome, Has, PathValid, PathJson, TextJson
<1> QED
  BY <1>2, <1>3

LEMMA ImageIDOptionRead ==
  ASSUME NEW json, NEW name
  PROVE  LET try == TryOption(StringFromJson, json, name)
         IN  try.ok /\ IfSome(ImageIDValid, try.value) <=> Optional(json, name, ImageIDJson)
<1>1. ~Failure.ok /\ \A v : Some(v) # None /\ Some(v)[1] = v
  BY DEF Failure, Some, None
<1>2. CASE ~Field(json, name)
  BY <1>2, ResultIs DEF TryOption, Optional, IfSome, Has
<1>3. CASE Field(json, name)
  BY <1>1, <1>3, ResultIs DEF TryOption, StringFromJson, Optional, IfSome, Has, ImageIDValid, ImageIDJson, TextJson
<1> QED
  BY <1>2, <1>3

\* A name with its value: what is read of the two.
LEMMA PairParsed ==
  ASSUME NEW json
  PROVE  LET try == NameValueFromJson(json)
         IN  /\ try.ok <=> Required(json, "name", TextJson) /\ Required(json, "value", TextJson)
             /\ try.ok => try.value.name = NameOf(json) /\ try.value.value = json.obj["value"].str
<1> DEFINE tries == [name |-> TryFrom(StringFromJson, json, "name"),
                     value |-> TryFrom(StringFromJson, json, "value")]
           try == NameValueFromJson(json)
           names == {"name", "value"}
<1>1. try = Collect(tries)
  BY DEF NameValueFromJson
<1>2. /\ DOMAIN tries = names
      /\ tries["name"] = TryFrom(StringFromJson, json, "name")
      /\ tries["value"] = TryFrom(StringFromJson, json, "value")
  OBVIOUS
<1> HIDE DEF tries
<1>3. /\ try.ok <=> \A f \in names : tries[f].ok
      /\ try.ok => try.value = [f \in names |-> tries[f].value]
  BY <1>1, <1>2, Collected, CollectedIs
<1> HIDE DEF try
<1>4. try.ok <=> Required(json, "name", TextJson) /\ Required(json, "value", TextJson)
  BY <1>2, <1>3, TextRead DEF Required
<1>5. ASSUME try.ok PROVE try.value.name = NameOf(json) /\ try.value.value = json.obj["value"].str
  BY <1>2, <1>3, <1>5, TextRead DEF NameOf
<1> QED
  BY <1>4, <1>5 DEF try

\* The four types of names with values.
LEMMA PairForms ==
  ASSUME NEW json
  PROVE  LET try == NameValueFromJson(json)
         IN  /\ try.ok /\ LabelValid(try.value) <=> PairJson(json)
             /\ try.ok /\ IsolatorValid(try.value) <=> PairJson(json)
             /\ try.ok /\ AnnotationValid(try.value) <=> AnnotationJson(json)
             /\ try.ok /\ EnvironmentVariableValid(try.value) <=> VariableJson(json)
             /\ try.ok => try.value.name = NameOf(json)
<1> DEFINE try == NameValueFromJson(json)
<1>1. /\ try.ok <=> Required(json, "name", TextJson) /\ Required(json, "value", TextJson)
      /\ try.ok => try.value.name = NameOf(json) /\ try.value.value = json.obj["value"].str
  BY PairParsed
<1> HIDE DEF try
<1>2. PairJson(json) <=> try.ok /\ NameOf(json) \in AcNames
  BY <1>1 DEF PairJson, Required, NameJson, NameOf
<1>3. VariableJson(json) <=> try.ok /\ NameOf(json) \in EnvNames
  BY <1>1 DEF VariableJson, Required, EnvNameJson, NameOf
<1>4. try.ok /\ AnnotationValid(try.value) <=> AnnotationJson(json)
  BY <1>1, <1>2 DEF AnnotationValid, AnnotationJson
<1>5. (try.ok /\ LabelValid(try.value) <=> PairJson(json)) /\ (try.ok /\ IsolatorValid(try.value) <=> PairJson(json))
  BY <1>1, <1>2 DEF LabelValid, IsolatorValid
<1>6. try.ok /\ EnvironmentVariableValid(try.value) <=> VariableJson(json)
  BY <1>1, <1>3 DEF EnvironmentVariableValid
<1> QED
  BY <1>1, <1>4, <1>5, <1>6 DEF try

\* An array's items have been read, each on its own.
ItemsRead(json, tries, try) ==
  /\ try.ok <=> Is(json, "arr") /\ \A i \in DOMAIN json.arr : tries[i].ok
  /\ try.ok => /\ DOMAIN try.value = DOMAIN json.arr
               /\ \A i \in DOMAIN json.arr : try.value[i] = tries[i].value

LEMMA ListIs ==
  ASSUME NEW json, NEW tries, DOMAIN tries = DOMAIN json.arr,
         NEW try, Is(json, "arr") => try = Collect(tries), ~Is(json, "arr") => try = Failure
  PROVE  ItemsRead(json, tries, try)
<1> USE DEF ItemsRead
<1>1. CASE Is(json, "arr")
  <2>1. try = Collect(tries)
    BY <1>1
  <2>2. try.ok <=> \A i \in DOMAIN json.arr : tries[i].ok
    BY <2>1, Collected
  <2>3. try.ok => try.value = [i \in DOMAIN json.arr |-> tries[i].value]
    BY <2>1, CollectedIs
  <2> QED
    BY <1>1, <2>2, <2>3
<1>2. CASE ~Is(json, "arr")
  BY <1>2 DEF Failure
<1> QED
  BY <1>1, <1>2

\* An optional field that is there has the value of what is there.
LEMMA OptionIs ==
  ASSUME NEW try, NEW there, try = IF there.ok THEN Result(Some(there.value)) ELSE Failure
  PROVE  /\ try.ok <=> there.ok
         /\ try.ok => Has(try.value) /\ try.value[1] = there.value
  BY ResultIs DEF Failure, Has, Some, None

\* Lists of names with values.
LEMMA LabelsForm ==
  ASSUME NEW json
  PROVE  NameValuesFromJson(json).ok /\ LabelsValid(NameValuesFromJson(json).value) <=> PairsJson(json)
<1> DEFINE tries == [i \in DOMAIN json.arr |-> NameValueFromJson(json.arr[i])]
           try == NameValuesFromJson(json)
<1>1. /\ DOMAIN tries = DOMAIN json.arr
      /\ Is(json, "arr") => try = Collect(tries)
      /\ ~Is(json, "arr") => try = Failure
  BY DEF NameValuesFromJson, ArrayFromJson
<1>2. \A i \in DOMAIN json.arr : tries[i].ok /\ LabelValid(tries[i].value) <=> PairJson(json.arr[i])
  BY PairForms
<1> HIDE DEF tries, try
<1>3. ItemsRead(json, tries, try)
  BY <1>1, ListIs
<1> QED
  BY <1>2, <1>3 DEF ItemsRead, PairsJson, ListOf, LabelsValid, All, try

LEMMA IsolatorsForm ==
  ASSUME NEW json
  PROVE  NameValuesFromJson(json).ok /\ IsolatorsValid(NameValuesFromJson(json).value) <=> PairsJson(json)
<1> DEFINE tries == [i \in DOMAIN json.arr |-> NameValueFromJson(json.arr[i])]
           try == NameValuesFromJson(json)
<1>1. /\ DOMAIN tries = DOMAIN json.arr
      /\ Is(json, "arr") => try = Collect(tries)
      /\ ~Is(json, "arr") => try = Failure
  BY DEF NameValuesFromJson, ArrayFromJson
<1>2. \A i \in DOMAIN json.arr : tries[i].ok /\ IsolatorValid(tries[i].value) <=> PairJson(json.arr[i])
  BY PairForms
<1> HIDE DEF tries, try
<1>3. ItemsRead(json, tries, try)
  BY <1>1, ListIs
<1> QED
  BY <1>2, <1>3 DEF ItemsRead, PairsJson, ListOf, IsolatorsValid, All, try

LEMMA AnnotationsForm ==
  ASSUME NEW json
  PROVE  NameValuesFromJson(json).ok /\ AnnotationsValid(NameValuesFromJson(json).value) <=> AnnotationsJson(json)
<1> DEFINE tries == [i \in DOMAIN json.arr |-> NameValueFromJson(json.arr[i])]
           try == NameValuesFromJson(json)
<1>1. /\ DOMAIN tries = DOMAIN json.arr
      /\ Is(json, "arr") => try = Collect(tries)
      /\ ~Is(json, "arr") => try = Failure
  BY DEF NameValuesFromJson, ArrayFromJson
<1>2. \A i \in DOMAIN json.arr : tries[i].ok /\ AnnotationValid(tries[i].value) <=> AnnotationJson(json.arr[i])
  BY PairForms
<1> HIDE DEF tries, try
<1>3. ItemsRead(json, tries, try)
  BY <1>1, ListIs
<1> QED
  BY <1>2, <1>3 DEF ItemsRead, AnnotationsJson, ListOf, AnnotationsValid, All, try

LEMMA EnvironmentForm ==
  ASSUME NEW json
  PROVE  NameValuesFromJson(json).ok /\ EnvironmentValid(NameValuesFromJson(json).value) <=> VariablesJson(json)
<1> DEFINE tries == [i \in DOMAIN json.arr |-> NameValueFromJson(json.arr[i])]
           try == NameValuesFromJson(json)
<1>1. /\ DOMAIN tries = DOMAIN json.arr
      /\ Is(json, "arr") => try = Collect(tries)
      /\ ~Is(json, "arr") => try = Failure
  BY DEF NameValuesFromJson, ArrayFromJson
<1>2. \A i \in DOMAIN json.arr : tries[i].ok /\ EnvironmentVariableValid(tries[i].value) <=> VariableJson(json.arr[i])
  BY PairForms
<1>3. \A i \in DOMAIN json.arr : tries[i].ok => tries[i].value.name = NameOf(json.arr[i])
  BY PairForms
<1> HIDE DEF tries, try
<1>4. ItemsRead(json, tries, try)
  BY <1>1, ListIs
<1>5. ASSUME try.ok PROVE Distinct(NamesOf(try.value)) <=> EachNameOnce(json)
  <2>1. DOMAIN NamesOf(try.value) = DOMAIN json.arr
    BY <1>5, <1>4 DEF ItemsRead, NamesOf
  <2>2. \A i \in DOMAIN json.arr : NamesOf(try.value)[i] = NameOf(json.arr[i])
    BY <1>3, <1>5, <1>4, <2>1 DEF ItemsRead, NamesOf
  <2> QED
    BY <2>1, <2>2 DEF Distinct, EachNameOnce
<1>6. ListOf(VariableJson, json) <=> try.ok /\ All(EnvironmentVariableValid, try.value)
  BY <1>2, <1>4 DEF ItemsRead, ListOf, All
<1> QED
  BY <1>5, <1>6 DEF VariablesJson, EnvironmentValid, try

\* Paths and programs.
LEMMA PathForm ==
  ASSUME NEW json
  PROVE  StringFromJson(json).ok /\ PathValid(StringFromJson(json).value) <=> PathJson(json)
  BY ResultIs DEF StringFromJson, PathValid, PathJson, TextJson, Failure

LEMMA PathsForm ==
  ASSUME NEW json
  PROVE  StringsFromJson(json).ok /\ PathWhitelistValid(StringsFromJson(json).value) <=> PathsJson(json)
<1> DEFINE tries == [i \in DOMAIN json.arr |-> StringFromJson(json.arr[i])]
           try == StringsFromJson(json)
<1>1. /\ DOMAIN tries = DOMAIN json.arr
      /\ Is(json, "arr") => try = Collect(tries)
      /\ ~Is(json, "arr") => try = Failure
  BY DEF StringsFromJson, ArrayFromJson
<1>2. \A i \in DOMAIN json.arr : tries[i].ok /\ PathValid(tries[i].value) <=> PathJson(json.arr[i])
  BY PathForm
<1> HIDE DEF tries, try
<1>3. ItemsRead(json, tries, try)
  BY <1>1, ListIs
<1> QED
  BY <1>2, <1>3 DEF ItemsRead, PathsJson, ListOf, PathWhitelistValid, All, try

LEMMA ExecForm ==
  ASSUME NEW json
  PROVE  StringsFromJson(json).ok /\ ExecValid(StringsFromJson(json).value) <=> ExecJson(json)
<1> DEFINE tries == [i \in DOMAIN json.arr |-> StringFromJson(json.arr[i])]
           try == StringsFromJson(json)
           args == [i \in DOMAIN json.arr |-> json.arr[i].str]
<1>1. CASE ~Is(json, "arr")
  <2>1. ~try.ok
    BY <1>1 DEF StringsFromJson, ArrayFromJson, Failure
  <2> QED
    BY <1>1, <2>1 DEF ExecJson, ListOf
<1>2. CASE Is(json, "arr")
  <2>1. try = Collect(tries) /\ DOMAIN tries = DOMAIN json.arr
    BY <1>2 DEF StringsFromJson, ArrayFromJson
  <2>2. \A i \in DOMAIN json.arr : /\ tries[i].ok <=> TextJson(json.arr[i])
                                   /\ tries[i].ok => tries[i].value = json.arr[i].str
    BY ResultIs DEF StringFromJson, TextJson, Failure
  <2>3. ExecJson(json) <=> ListOf(TextJson, json) /\ args # <<>> /\ args[1] \in AbsPaths
    BY DEF ExecJson
  <2> HIDE DEF tries
  <2>4. /\ try.ok <=> \A i \in DOMAIN json.arr : tries[i].ok
        /\ try.ok => try.value = [i \in DOMAIN json.arr |-> tries[i].value]
    BY <2>1, Collected, CollectedIs
  <2> HIDE DEF try
  <2>5. try.ok <=> ListOf(TextJson, json)
    BY <1>2, <2>2, <2>4 DEF ListOf
  <2>6. try.ok => try.value = args
    BY <2>2, <2>4
  <2> QED
    BY <2>3, <2>5, <2>6 DEF ExecValid, try
<1> QED
  BY <1>1, <1>2

\* Those lists where they are optional.
LEMMA LabelsOption ==
  ASSUME NEW json, NEW name
  PROVE  LET try == TryOption(NameValuesFromJson, json, name)
         IN  try.ok /\ IfSome(LabelsValid, try.value) <=> Optional(json, name, PairsJson)
<1>1. CASE ~Field(json, name)
  BY <1>1, ResultIs DEF TryOption, Optional, IfSome, Has
<1>2. CASE Field(json, name)
  BY <1>2, LabelsForm, OptionIs DEF TryOption, Optional, IfSome
<1> QED
  BY <1>1, <1>2

LEMMA IsolatorsOption ==
  ASSUME NEW json, NEW name
  PROVE  LET try == TryOption(NameValuesFromJson, json, name)
         IN  try.ok /\ IfSome(IsolatorsValid, try.value) <=> Optional(json, name, PairsJson)
<1>1. CASE ~Field(json, name)
  BY <1>1, ResultIs DEF TryOption, Optional, IfSome, Has
<1>2. CASE Field(json, name)
  BY <1>2, IsolatorsForm, OptionIs DEF TryOption, Optional, IfSome
<1> QED
  BY <1>1, <1>2

LEMMA AnnotationsOption ==
  ASSUME NEW json, NEW name
  PROVE  LET try == TryOption(NameValuesFromJson, json, name)
         IN  try.ok /\ IfSome(AnnotationsValid, try.value) <=> Optional(json, name, AnnotationsJson)
<1>1. CASE ~Field(json, name)
  BY <1>1, ResultIs DEF TryOption, Optional, IfSome, Has
<1>2. CASE Field(json, name)
  BY <1>2, AnnotationsForm, OptionIs DEF TryOption, Optional, IfSome
<1> QED
  BY <1>1, <1>2

LEMMA EnvironmentOption ==
  ASSUME NEW json, NEW name
  PROVE  LET try == TryOption(NameValuesFromJson, json, name)
         IN  try.ok /\ IfSome(EnvironmentValid, try.value) <=> Optional(json, name, VariablesJson)
<1>1. CASE ~Field(json, name)
  BY <1>1, ResultIs DEF TryOption, Optional, IfSome, Has
<1>2. CASE Field(json, name)
  BY <1>2, EnvironmentForm, OptionIs DEF TryOption, Optional, IfSome
<1> QED
  BY <1>1, <1>2

LEMMA PathsOption ==
  ASSUME NEW json, NEW name
  PROVE  LET try == TryOption(StringsFromJson, json, name)
         IN  try.ok /\ IfSome(PathWhitelistValid, try.value) <=> Optional(json, name, PathsJson)
<1>1. CASE ~Field(json, name)
  BY <1>1, ResultIs DEF TryOption, Optional, IfSome, Has
<1>2. CASE Field(json, name)
  BY <1>2, PathsForm, OptionIs DEF TryOption, Optional, IfSome
<1> QED
  BY <1>1, <1>2

\* Event handlers, mount points and ports.
LEMMA HandlerForm ==
  ASSUME NEW json
  PROVE  /\ EventHandlerFromJson(json).ok /\ EventHandlerValid(EventHandlerFromJson(json).value) <=> HandlerJson(json)
         /\ EventHandlerFromJson(json).ok => EventHandlerFromJson(json).value.name = NameOf(json)
<1> DEFINE tries == [name |-> TryFrom(StringFromJson, json, "name"),
                     exec |-> TryFrom(StringsFromJson, json, "exec")]
           try == EventHandlerFromJson(json)
           names == {"name", "exec"}
<1>1. try = Collect(tries)
  BY DEF EventHandlerFromJson
<1>2. DOMAIN tries = names
  OBVIOUS
<1>3. /\ tries["name"] = TryFrom(StringFromJson, json, "name")
      /\ tries["exec"] = TryFrom(StringsFromJson, json, "exec")
  OBVIOUS
<1> HIDE DEF tries
<1>4. /\ try.ok <=> \A f \in names : tries[f].ok
      /\ try.ok => try.value = [f \in names |-> tries[f].value]
  BY <1>1, <1>2, Collected, CollectedIs
<1> HIDE DEF try
<1>5. ASSUME try.ok
      PROVE  /\ try.value.name = tries["name"].value
               /\ try.value.exec = tries["exec"].value
  BY <1>4, <1>5
<1>6. tries["name"].ok /\ ACNameValid(tries["name"].value) <=> Required(json, "name", NameJson)
  BY <1>3, TextRead DEF Required, NameJson, ACNameValid
<1>7. tries["exec"].ok /\ ExecValid(tries["exec"].value) <=> Required(json, "exec", ExecJson)
  BY <1>3, ExecForm DEF TryFrom, Required, Failure
<1>8. try.ok /\ EventHandlerValid(try.value) <=> HandlerJson(json)
  <2>1. ASSUME try.ok /\ EventHandlerValid(try.value) PROVE HandlerJson(json)
    BY <1>4, <1>5, <1>6, <1>7, <2>1 DEF EventHandlerValid, HandlerJson
  <2>2. ASSUME HandlerJson(json) PROVE try.ok /\ EventHandlerValid(try.value)
    <3>1. try.ok
      BY <1>4, <1>6, <1>7, <2>2 DEF HandlerJson
    <3> QED
      BY <1>5, <3>1, <1>6, <1>7, <2>2 DEF EventHandlerValid, HandlerJson
  <2> QED
    BY <2>1, <2>2
<1>9. try.ok => try.value.name = NameOf(json)
  BY <1>3, <1>4, <1>5, TextRead DEF NameOf
<1> QED
  BY <1>8, <1>9 DEF try

LEMMA MountPointForm ==
  ASSUME NEW json
  PROVE  /\ MountPointFromJson(json).ok /\ MountPointValid(MountPointFromJson(json).value) <=> MountPointJson(json)
         /\ MountPointFromJson(json).ok => MountPointFromJson(json).value.name = NameOf(json)
<1> DEFINE tries == [name |-> TryFrom(StringFromJson, json, "name"),
                     path |-> TryFrom(StringFromJson, json, "path"),
                     read_only |-> TryOption(BooleanFromJson, json, "readOnly")]
           try == MountPointFromJson(json)
           names == {"name", "path", "read_only"}
<1>1. try = Collect(tries)
  BY DEF MountPointFromJson
<1>2. DOMAIN tries = names
  OBVIOUS
<1>3. /\ tries["name"] = TryFrom(StringFromJson, json, "name")
      /\ tries["path"] = TryFrom(StringFromJson, json, "path")
      /\ tries["read_only"] = TryOption(BooleanFromJson, json, "readOnly")
  OBVIOUS
<1> HIDE DEF tries
<1>4. /\ try.ok <=> \A f \in names : tries[f].ok
      /\ try.ok => try.value = [f \in names |-> tries[f].value]
  BY <1>1, <1>2, Collected, CollectedIs
<1> HIDE DEF try
<1>5. ASSUME try.ok
      PROVE  /\ try.value.name = tries["name"].value
               /\ try.value.path = tries["path"].value
               /\ try.value.read_only = tries["read_only"].value
  BY <1>4, <1>5
<1>6. tries["name"].ok /\ ACNameValid(tries["name"].value) <=> Required(json, "name", NameJson)
  BY <1>3, TextRead DEF Required, NameJson, ACNameValid
<1>7. tries["path"].ok /\ PathValid(tries["path"].value) <=> Required(json, "path", PathJson)
  BY <1>3, TextRead DEF Required, PathJson, PathValid
<1>8. tries["read_only"].ok <=> Optional(json, "readOnly", FlagJson)
  BY <1>3, FlagOptionRead
<1>9. try.ok /\ MountPointValid(try.value) <=> MountPointJson(json)
  <2>1. ASSUME try.ok /\ MountPointValid(try.value) PROVE MountPointJson(json)
    BY <1>4, <1>5, <1>6, <1>7, <1>8, <2>1 DEF MountPointValid, MountPointJson
  <2>2. ASSUME MountPointJson(json) PROVE try.ok /\ MountPointValid(try.value)
    <3>1. try.ok
      BY <1>4, <1>6, <1>7, <1>8, <2>2 DEF MountPointJson
    <3> QED
      BY <1>5, <3>1, <1>6, <1>7, <1>8, <2>2 DEF MountPointValid, MountPointJson
  <2> QED
    BY <2>1, <2>2
<1>10. try.ok => try.value.name = NameOf(json)
  BY <1>3, <1>4, <1>5, TextRead DEF NameOf
<1> QED
  BY <1>9, <1>10 DEF try

\* A port is taken if the grammar has it and it is not at a bound.
PortNumberTaken(json) == PortNumberJson(json) /\ json.num \notin {1, MaxPort}
PortTaken(json) == PortJson(json) /\ json.obj["port"].num \notin {1, MaxPort}
PortsTaken(json) == PortsJson(json) /\ ~PortsAtBound(json)
AppTaken(json) == AppJson(json) /\ ~AppAtBound(json)

LEMMA PortNumberForm ==
  ASSUME NEW json, NEW name
  PROVE  LET try == TryFrom(IntegerFromJson, json, name)
         IN  try.ok /\ PortNumberValid(try.value) <=> Required(json, name, PortNumberTaken)
<1>1. ~Failure.ok
  BY DEF Failure
<1>2. \A n : PortNumberValid(n) <=> n \in 1 .. MaxPort /\ n \notin {1, MaxPort}
  <2>1. MaxPort \in Int /\ MaxPort > 1
    BY DEF MaxPort
  <2> QED
    BY <2>1 DEF PortNumberValid
<1>3. Required(json, name, PortNumberTaken) <=>
        Field(json, name) /\ Is(json.obj[name], "num") /\ PortNumberValid(json.obj[name].num)
  BY <1>2, Zenon DEF Required, PortNumberTaken, PortNumberJson
<1> QED
  BY <1>1, <1>3, ResultIs DEF TryFrom, IntegerFromJson

LEMMA PortForm ==
  ASSUME NEW json
  PROVE  PortFromJson(json).ok /\ PortValid(PortFromJson(json).value) <=> PortTaken(json)
<1> DEFINE tries == [name |-> TryFrom(StringFromJson, json, "name"),
                     port |-> TryFrom(IntegerFromJson, json, "port"),
                     protocol |-> TryFrom(StringFromJson, json, "protocol"),
                     socket_activated |-> TryOption(BooleanFromJson, json, "socketActivated")]
           try == PortFromJson(json)
           names == {"name", "port", "protocol", "socket_activated"}
<1>1. try = Collect(tries)
  BY DEF PortFromJson
<1>2. DOMAIN tries = names
  OBVIOUS
<1>3. /\ tries["name"] = TryFrom(StringFromJson, json, "name")
      /\ tries["port"] = TryFrom(IntegerFromJson, json, "port")
      /\ tries["protocol"] = TryFrom(StringFromJson, json, "protocol")
      /\ tries["socket_activated"] = TryOption(BooleanFromJson, json, "socketActivated")
  OBVIOUS
<1> HIDE DEF tries
<1>4. /\ try.ok <=> \A f \in names : tries[f].ok
      /\ try.ok => try.value = [f \in names |-> tries[f].value]
  BY <1>1, <1>2, Collected, CollectedIs
<1> HIDE DEF try
<1>5. ASSUME try.ok
      PROVE  /\ try.value.name = tries["name"].value
               /\ try.value.port = tries["port"].value
               /\ try.value.protocol = tries["protocol"].value
               /\ try.value.socket_activated = tries["socket_activated"].value
  BY <1>4, <1>5
<1>6. tries["name"].ok /\ ACNameValid(tries["name"].value) <=> Required(json, "name", NameJson)
  BY <1>3, TextRead DEF Required, NameJson, ACNameValid
<1>7. tries["port"].ok /\ PortNumberValid(tries["port"].value) <=>
        Required(json, "port", PortNumberJson) /\ json.obj["port"].num \notin {1, MaxPort}
  BY <1>3, PortNumberForm DEF Required, PortNumberTaken
<1>8. tries["protocol"].ok /\ ProtocolValid(tries["protocol"].value) <=> Required(json, "protocol", ProtocolJson)
  BY <1>3, TextRead DEF Required, ProtocolJson, ProtocolValid
<1>9. tries["socket_activated"].ok <=> Optional(json, "socketActivated", FlagJson)
  BY <1>3, FlagOptionRead
<1>10. try.ok /\ PortValid(try.value) <=> PortTaken(json)
  <2>1. ASSUME try.ok /\ PortValid(try.value) PROVE PortTaken(json)
    BY <1>4, <1>5, <1>6, <1>7, <1>8, <1>9, <2>1 DEF PortValid, PortTaken, PortJson
  <2>2. ASSUME PortTaken(json) PROVE try.ok /\ PortValid(try.value)
    <3>1. try.ok
      BY <1>4, <1>6, <1>7, <1>8, <1>9, <2>2 DEF PortTaken, PortJson
    <3> QED
      BY <1>5, <3>1, <1>6, <1>7, <1>8, <1>9, <2>2 DEF PortValid, PortTaken, PortJson
  <2> QED
    BY <2>1, <2>2
<1> QED
  BY <1>10 DEF try

\* Their lists.
LEMMA HandlersForm ==
  ASSUME NEW json
  PROVE  EventHandlersFromJson(json).ok /\ EventHandlersValid(EventHandlersFromJson(json).value) <=>
          HandlersJson(json)
<1> DEFINE tries == [i \in DOMAIN json.arr |-> EventHandlerFromJson(json.arr[i])]
           try == EventHandlersFromJson(json)
<1>1. /\ DOMAIN tries = DOMAIN json.arr
      /\ Is(json, "arr") => try = Collect(tries)
      /\ ~Is(json, "arr") => try = Failure
  BY DEF EventHandlersFromJson, ArrayFromJson
<1>2. \A i \in DOMAIN json.arr : tries[i].ok /\ EventHandlerValid(tries[i].value) <=> HandlerJson(json.arr[i])
  BY HandlerForm
<1>3. \A i \in DOMAIN json.arr : tries[i].ok => tries[i].value.name = NameOf(json.arr[i])
  BY HandlerForm
<1> HIDE DEF tries, try
<1>4. ItemsRead(json, tries, try)
  BY <1>1, ListIs
<1>5. ASSUME try.ok PROVE Distinct(NamesOf(try.value)) <=> EachNameOnce(json)
  <2>1. DOMAIN NamesOf(try.value) = DOMAIN json.arr
    BY <1>5, <1>4 DEF ItemsRead, NamesOf
  <2>2. \A i \in DOMAIN json.arr : NamesOf(try.value)[i] = NameOf(json.arr[i])
    BY <1>3, <1>5, <1>4, <2>1 DEF ItemsRead, NamesOf
  <2> QED
    BY <2>1, <2>2 DEF Distinct, EachNameOnce
<1>6. ListOf(HandlerJson, json) <=> try.ok /\ All(EventHandlerValid, try.value)
  BY <1>2, <1>4 DEF ItemsRead, ListOf, All
<1> QED
  BY <1>5, <1>6 DEF HandlersJson, EventHandlersValid, try

LEMMA MountPointsForm ==
  ASSUME NEW json
  PROVE  MountPointsFromJson(json).ok /\ MountPointsValid(MountPointsFromJson(json).value) <=> MountPointsJson(json)
<1> DEFINE tries == [i \in DOMAIN json.arr |-> MountPointFromJson(json.arr[i])]
           try == MountPointsFromJson(json)
<1>1. /\ DOMAIN tries = DOMAIN json.arr
      /\ Is(json, "arr") => try = Collect(tries)
      /\ ~Is(json, "arr") => try = Failure
  BY DEF MountPointsFromJson, ArrayFromJson
<1>2. \A i \in DOMAIN json.arr : tries[i].ok /\ MountPointValid(tries[i].value) <=> MountPointJson(json.arr[i])
  BY MountPointForm
<1>3. \A i \in DOMAIN json.arr : tries[i].ok => tries[i].value.name = NameOf(json.arr[i])
  BY MountPointForm
<1> HIDE DEF tries, try
<1>4. ItemsRead(json, tries, try)
  BY <1>1, ListIs
<1>5. ASSUME try.ok PROVE Distinct(NamesOf(try.value)) <=> EachNameOnce(json)
  <2>1. DOMAIN NamesOf(try.value) = DOMAIN json.arr
    BY <1>5, <1>4 DEF ItemsRead, NamesOf
  <2>2. \A i \in DOMAIN json.arr : NamesOf(try.value)[i] = NameOf(json.arr[i])
    BY <1>3, <1>5, <1>4, <2>1 DEF ItemsRead, NamesOf
  <2> QED
    BY <2>1, <2>2 DEF Distinct, EachNameOnce
<1>6. ListOf(MountPointJson, json) <=> try.ok /\ All(MountPointValid, try.value)
  BY <1>2, <1>4 DEF ItemsRead, ListOf, All
<1> QED
  BY <1>5, <1>6 DEF MountPointsJson, MountPointsValid, try

LEMMA PortsForm ==
  ASSUME NEW json
  PROVE  PortsFromJson(json).ok /\ PortsValid(PortsFromJson(json).value) <=> PortsTaken(json)
<1> DEFINE tries == [i \in DOMAIN json.arr |-> PortFromJson(json.arr[i])]
           try == PortsFromJson(json)
<1>1. /\ DOMAIN tries = DOMAIN json.arr
      /\ Is(json, "arr") => try = Collect(tries)
      /\ ~Is(json, "arr") => try = Failure
  BY DEF PortsFromJson, ArrayFromJson
<1>2. \A i \in DOMAIN json.arr : tries[i].ok /\ PortValid(tries[i].value) <=> PortTaken(json.arr[i])
  BY PortForm
<1> HIDE DEF tries, try
<1>3. ItemsRead(json, tries, try)
  BY <1>1, ListIs
<1>4. PortsTaken(json) <=> Is(json, "arr") /\ \A i \in DOMAIN json.arr : PortTaken(json.arr[i])
  BY DEF PortsTaken, PortsJson, PortsAtBound, PortTaken, ListOf
<1> QED
  BY <1>2, <1>3, <1>4 DEF ItemsRead, PortsValid, All, try

\* Their lists where they are optional.
LEMMA HandlersOption ==
  ASSUME NEW json, NEW name
  PROVE  LET try == TryOption(EventHandlersFromJson, json, name)
         IN  try.ok /\ IfSome(EventHandlersValid, try.value) <=> Optional(json, name, HandlersJson)
<1>1. CASE ~Field(json, name)
  BY <1>1, ResultIs DEF TryOption, Optional, IfSome, Has
<1>2. CASE Field(json, name)
  BY <1>2, HandlersForm, OptionIs DEF TryOption, Optional, IfSome
<1> QED
  BY <1>1, <1>2

LEMMA MountPointsOption ==
  ASSUME NEW json, NEW name
  PROVE  LET try == TryOption(MountPointsFromJson, json, name)
         IN  try.ok /\ IfSome(MountPointsValid, try.value) <=> Optional(json, name, MountPointsJson)
<1>1. CASE ~Field(json, name)
  BY <1>1, ResultIs DEF TryOption, Optional, IfSome, Has
<1>2. CASE Field(json, name)
  BY <1>2, MountPointsForm, OptionIs DEF TryOption, Optional, IfSome
<1> QED
  BY <1>1, <1>2

LEMMA PortsOption ==
  ASSUME NEW json, NEW name
  PROVE  LET try == TryOption(PortsFromJson, json, name)
         IN  try.ok /\ IfSome(PortsValid, try.value) <=> Optional(json, name, PortsTaken)
<1>1. CASE ~Field(json, name)
  BY <1>1, ResultIs DEF TryOption, Optional, IfSome, Has
<1>2. CASE Field(json, name)
  BY <1>2, PortsForm, OptionIs DEF TryOption, Optional, IfSome
<1> QED
  BY <1>1, <1>2

\* The app, the dependencies, and the manifest of an image.
LEMMA AppForm ==
  ASSUME NEW json
  PROVE  AppFromJson(json).ok /\ AppValid(AppFromJson(json).value) <=> AppTaken(json)
<1> DEFINE tries == [exec |-> TryFrom(StringsFromJson, json, "exec"),
                     user |-> TryFrom(StringFromJson, json, "user"),
                     group |-> TryFrom(StringFromJson, json, "group"),
                     event_handlers |-> TryOption(EventHandlersFromJson, json, "eventHandlers"),
                     working_directory |-> TryOption(StringFromJson, json, "workingDirectory"),
                     environment |-> TryOption(NameValuesFromJson, json, "environment"),
                     mount_points |-> TryOption(MountPointsFromJson, json, "mountPoints"),
                     ports |-> TryOption(PortsFromJson, json, "ports"),
                     isolators |-> TryOption(NameValuesFromJson, json, "isolators")]
           try == AppFromJson(json)
           names == {"exec", "user", "group", "event_handlers", "working_directory", "environment",
                     "mount_points", "ports", "isolators"}
<1>1. try = Collect(tries)
  BY DEF AppFromJson
<1>2. DOMAIN tries = names
  OBVIOUS
<1>3. /\ tries["exec"] = TryFrom(StringsFromJson, json, "exec")
      /\ tries["user"] = TryFrom(StringFromJson, json, "user")
      /\ tries["group"] = TryFrom(StringFromJson, json, "group")
      /\ tries["event_handlers"] = TryOption(EventHandlersFromJson, json, "eventHandlers")
      /\ tries["working_directory"] = TryOption(StringFromJson, json, "workingDirectory")
      /\ tries["environment"] = TryOption(NameValuesFromJson, json, "environment")
      /\ tries["mount_points"] = TryOption(MountPointsFromJson, json, "mountPoints")
      /\ tries["ports"] = TryOption(PortsFromJson, json, "ports")
      /\ tries["isolators"] = TryOption(NameValuesFromJson, json, "isolators")
  OBVIOUS
<1> HIDE DEF tries
<1>4. /\ try.ok <=> \A f \in names : tries[f].ok
      /\ try.ok => try.value = [f \in names |-> tries[f].value]
  BY <1>1, <1>2, Collected, CollectedIs
<1> HIDE DEF try
<1>5. ASSUME try.ok
      PROVE  /\ try.value.exec = tries["exec"].value
               /\ try.value.user = tries["user"].value
               /\ try.value.group = tries["group"].value
               /\ try.value.event_handlers = tries["event_handlers"].value
               /\ try.value.working_directory = tries["working_directory"].value
               /\ try.value.environment = tries["environment"].value
               /\ try.value.mount_points = tries["mount_points"].value
               /\ try.value.ports = tries["ports"].value
               /\ try.value.isolators = tries["isolators"].value
  BY <1>4, <1>5
<1>6. tries["exec"].ok /\ ExecValid(tries["exec"].value) <=> Required(json, "exec", ExecJson)
  BY <1>3, ExecForm DEF TryFrom, Required, Failure
<1>7. tries["user"].ok /\ UserValid(tries["user"].value) <=> Required(json, "user", NonEmptyJson)
  BY <1>3, TextRead DEF Required, NonEmptyJson, UserValid
<1>8. tries["group"].ok /\ GroupValid(tries["group"].value) <=> Required(json, "group", NonEmptyJson)
  BY <1>3, TextRead DEF Required, NonEmptyJson, GroupValid
<1>9. tries["event_handlers"].ok /\ IfSome(EventHandlersValid, tries["event_handlers"].value) <=>
        Optional(json, "eventHandlers", HandlersJson)
  BY <1>3, HandlersOption
<1>10. tries["working_directory"].ok /\ IfSome(PathValid, tries["working_directory"].value) <=>
        Optional(json, "workingDirectory", PathJson)
  BY <1>3, PathOptionRead
<1>11. tries["environment"].ok /\ IfSome(EnvironmentValid, tries["environment"].value) <=>
        Optional(json, "environment", VariablesJson)
  BY <1>3, EnvironmentOption
<1>12. tries["mount_points"].ok /\ IfSome(MountPointsValid, tries["mount_points"].value) <=>
        Optional(json, "mountPoints", MountPointsJson)
  BY <1>3, MountPointsOption
<1>13. tries["ports"].ok /\ IfSome(PortsValid, tries["ports"].value) <=>
        Optional(json, "ports", PortsJson) /\ ~AppAtBound(json)
  BY <1>3, PortsOption DEF Optional, PortsTaken, AppAtBound
<1>14. tries["isolators"].ok /\ IfSome(IsolatorsValid, tries["isolators"].value) <=>
        Optional(json, "isolators", PairsJson)
  BY <1>3, IsolatorsOption
<1>15. try.ok /\ AppValid(try.value) <=> AppTaken(json)
  <2>1. ASSUME try.ok /\ AppValid(try.value) PROVE AppTaken(json)
    BY <1>4, <1>5, <1>6, <1>7, <1>8, <1>9, <1>10, <1>11, <1>12, <1>13, <1>14, <2>1 DEF AppValid, AppTaken, AppJson
  <2>2. ASSUME AppTaken(json) PROVE try.ok /\ AppValid(try.value)
    <3>1. try.ok
      BY <1>4, <1>6, <1>7, <1>8, <1>9, <1>10, <1>11, <1>12, <1>13, <1>14, <2>2 DEF AppTaken, AppJson
    <3> QED
      BY <1>5, <3>1, <1>6, <1>7, <1>8, <1>9, <1>10, <1>11, <1>12, <1>13, <1>14, <2>2 DEF AppValid, AppTaken, AppJson
  <2> QED
    BY <2>1, <2>2
<1> QED
  BY <1>15 DEF try

LEMMA AppOption ==
  ASSUME NEW json, NEW name
  PROVE  LET try == TryOption(AppFromJson, json, name)
         IN  try.ok /\ IfSome(AppValid, try.value) <=> Optional(json, name, AppTaken)
<1>1. CASE ~Field(json, name)
  BY <1>1, ResultIs DEF TryOption, Optional, IfSome, Has
<1>2. CASE Field(json, name)
  BY <1>2, AppForm, OptionIs DEF TryOption, Optional, IfSome
<1> QED
  BY <1>1, <1>2

LEMMA DependencyForm ==
  ASSUME NEW json
  PROVE  DependencyFromJson(json).ok /\ DependencyValid(DependencyFromJson(json).value) <=> DependencyJson(json)
<1> DEFINE tries == [app_name |-> TryFrom(StringFromJson, json, "app"),
                     image_id |-> TryOption(StringFromJson, json, "imageID"),
                     labels |-> TryOption(NameValuesFromJson, json, "labels")]
           try == DependencyFromJson(json)
           names == {"app_name", "image_id", "labels"}
<1>1. try = Collect(tries)
  BY DEF DependencyFromJson
<1>2. DOMAIN tries = names
  OBVIOUS
<1>3. /\ tries["app_name"] = TryFrom(StringFromJson, json, "app")
      /\ tries["image_id"] = TryOption(StringFromJson, json, "imageID")
      /\ tries["labels"] = TryOption(NameValuesFromJson, json, "labels")
  OBVIOUS
<1> HIDE DEF tries
<1>4. /\ try.ok <=> \A f \in names : tries[f].ok
      /\ try.ok => try.value = [f \in names |-> tries[f].value]
  BY <1>1, <1>2, Collected, CollectedIs
<1> HIDE DEF try
<1>5. ASSUME try.ok
      PROVE  /\ try.value.app_name = tries["app_name"].value
               /\ try.value.image_id = tries["image_id"].value
               /\ try.value.labels = tries["labels"].value
  BY <1>4, <1>5
<1>6. tries["app_name"].ok /\ ACNameValid(tries["app_name"].value) <=> Required(json, "app", NameJson)
  BY <1>3, TextRead DEF Required, NameJson, ACNameValid
<1>7. tries["image_id"].ok /\ IfSome(ImageIDValid, tries["image_id"].value) <=> Optional(json, "imageID", ImageIDJson)
  BY <1>3, ImageIDOptionRead
<1>8. tries["labels"].ok /\ IfSome(LabelsValid, tries["labels"].value) <=> Optional(json, "labels", PairsJson)
  BY <1>3, LabelsOption
<1>9. try.ok /\ DependencyValid(try.value) <=> DependencyJson(json)
  <2>1. ASSUME try.ok /\ DependencyValid(try.value) PROVE DependencyJson(json)
    BY <1>4, <1>5, <1>6, <1>7, <1>8, <2>1 DEF DependencyValid, DependencyJson
  <2>2. ASSUME DependencyJson(json) PROVE try.ok /\ DependencyValid(try.value)
    <3>1. try.ok
      BY <1>4, <1>6, <1>7, <1>8, <2>2 DEF DependencyJson
    <3> QED
      BY <1>5, <3>1, <1>6, <1>7, <1>8, <2>2 DEF DependencyValid, DependencyJson
  <2> QED
    BY <2>1, <2>2
<1> QED
  BY <1>9 DEF try

LEMMA DependenciesForm ==
  ASSUME NEW json
  PROVE  DependenciesFromJson(json).ok /\ DependenciesValid(DependenciesFromJson(json).value) <=>
          DependenciesJson(json)
<1> DEFINE tries == [i \in DOMAIN json.arr |-> DependencyFromJson(json.arr[i])]
           try == DependenciesFromJson(json)
<1>1. /\ DOMAIN tries = DOMAIN json.arr
      /\ Is(json, "arr") => try = Collect(tries)
      /\ ~Is(json, "arr") => try = Failure
  BY DEF DependenciesFromJson, ArrayFromJson
<1>2. \A i \in DOMAIN json.arr : tries[i].ok /\ DependencyValid(tries[i].value) <=> DependencyJson(json.arr[i])
  BY DependencyForm
<1> HIDE DEF tries, try
<1>3. ItemsRead(json, tries, try)
  BY <1>1, ListIs
<1> QED
  BY <1>2, <1>3 DEF ItemsRead, DependenciesJson, ListOf, DependenciesValid, All, try

LEMMA DependenciesOption ==
  ASSUME NEW json, NEW name
  PROVE  LET try == TryOption(DependenciesFromJson, json, name)
         IN  try.ok /\ IfSome(DependenciesValid, try.value) <=> Optional(json, name, DependenciesJson)
<1>1. CASE ~Field(json, name)
  BY <1>1, ResultIs DEF TryOption, Optional, IfSome, Has
<1>2. CASE Field(json, name)
  BY <1>2, DependenciesForm, OptionIs DEF TryOption, Optional, IfSome
<1> QED
  BY <1>1, <1>2

\* For every JSON value: parsing it as the manifest of an image and validating what
\* was parsed accepts exactly what the format's grammar does, but for the manifests that
\* have a port 1 or 65535 (schema/image.h:38-104, ports.h:44).
THEOREM ImageForm ==
  ASSUME NEW json
  PROVE  ImageManifestFromJson(json).ok /\ ImageManifestValid(ImageManifestFromJson(json).value) <=>
            ImageJson(json) /\ ~AtBound(json)
<1> DEFINE tries == [ac_kind |-> TryFrom(StringFromJson, json, "acKind"),
                     ac_version |-> TryFrom(StringFromJson, json, "acVersion"),
                     name |-> TryFrom(StringFromJson, json, "name"),
                     labels |-> TryOption(NameValuesFromJson, json, "labels"),
                     app |-> TryOption(AppFromJson, json, "app"),
                     dependencies |-> TryOption(DependenciesFromJson, json, "dependencies"),
                     path_whitelist |-> TryOption(StringsFromJson, json, "pathWhitelist"),
                     annotations |-> TryOption(NameValuesFromJson, json, "annotations")]
           try == ImageManifestFromJson(json)
           names == {"ac_kind", "ac_version", "name", "labels", "app", "dependencies", "path_whitelist", "annotations"}
<1>1. try = Collect(tries)
  BY DEF ImageManifestFromJson
<1>2. DOMAIN tries = names
  OBVIOUS
<1>3. /\ tries["ac_kind"] = TryFrom(StringFromJson, json, "acKind")
      /\ tries["ac_version"] = TryFrom(StringFromJson, json, "acVersion")
      /\ tries["name"] = TryFrom(StringFromJson, json, "name")
      /\ tries["labels"] = TryOption(NameValuesFromJson, json, "labels")
      /\ tries["app"] = TryOption(AppFromJson, json, "app")
      /\ tries["dependencies"] = TryOption(DependenciesFromJson, json, "dependencies")
      /\ tries["path_whitelist"] = TryOption(StringsFromJson, json, "pathWhitelist")
      /\ tries["annotations"] = TryOption(NameValuesFromJson, json, "annotations")
  OBVIOUS
<1> HIDE DEF tries
<1>4. /\ try.ok <=> \A f \in names : tries[f].ok
      /\ try.ok => try.value = [f \in names |-> tries[f].value]
  BY <1>1, <1>2, Collected, CollectedIs
<1> HIDE DEF try
<1>5. ASSUME try.ok
      PROVE  /\ try.value.ac_kind = tries["ac_kind"].value
               /\ try.value.ac_version = tries["ac_version"].value
               /\ try.value.name = tries["name"].value
               /\ try.value.labels = tries["labels"].value
               /\ try.value.app = tries["app"].value
               /\ try.value.dependencies = tries["dependencies"].value
               /\ try.value.path_whitelist = tries["path_whitelist"].value
               /\ try.value.annotations = tries["annotations"].value
  BY <1>4, <1>5
<1>6. tries["ac_kind"].ok /\ AcKindValid(tries["ac_kind"].value) <=> Required(json, "acKind", KindJson)
  BY <1>3, TextRead DEF Required, KindJson, AcKindValid
<1>7. tries["ac_version"].ok /\ AcVersionValid(tries["ac_version"].value) <=> Required(json, "acVersion", VersionJson)
  BY <1>3, TextRead DEF Required, VersionJson, AcVersionValid
<1>8. tries["name"].ok /\ ACNameValid(tries["name"].value) <=> Required(json, "name", NameJson)
  BY <1>3, TextRead DEF Required, NameJson, ACNameValid
<1>9. tries["labels"].ok /\ IfSome(LabelsValid, tries["labels"].value) <=> Optional(json, "labels", PairsJson)
  BY <1>3, LabelsOption
<1>10. tries["app"].ok /\ IfSome(AppValid, tries["app"].value) <=>
        Optional(json, "app", AppJson) /\ ~AtBound(json)
  BY <1>3, AppOption DEF Optional, AppTaken, AtBound
<1>11. tries["dependencies"].ok /\ IfSome(DependenciesValid, tries["dependencies"].value) <=>
        Optional(json, "dependencies", DependenciesJson)
  BY <1>3, DependenciesOption
<1>12. tries["path_whitelist"].ok /\ IfSome(PathWhitelistValid, tries["path_whitelist"].value) <=>
        Optional(json, "pathWhitelist", PathsJson)
  BY <1>3, PathsOption
<1>13. tries["annotations"].ok /\ IfSome(AnnotationsValid, tries["annotations"].value) <=>
        Optional(json, "annotations", AnnotationsJson)
  BY <1>3, AnnotationsOption
<1>14. try.ok /\ ImageManifestValid(try.value) <=> ImageJson(json) /\ ~AtBound(json)
  <2>1. ASSUME try.ok /\ ImageManifestValid(try.value) PROVE ImageJson(json) /\ ~AtBound(json)
    BY <1>4, <1>5, <1>6, <1>7, <1>8, <1>9, <1>10, <1>11, <1>12, <1>13, <2>1 DEF ImageManifestValid, ImageJson
  <2>2. ASSUME ImageJson(json), ~AtBound(json) PROVE try.ok /\ ImageManifestValid(try.value)
    <3>1. try.ok
      BY <1>4, <1>6, <1>7, <1>8, <1>9, <1>10, <1>11, <1>12, <1>13, <2>2 DEF ImageJson
    <3> QED
      BY <1>5, <3>1, <1>6, <1>7, <1>8, <1>9, <1>10, <1>11, <1>12, <1>13, <2>2 DEF ImageManifestValid, ImageJson
  <2> QED
    BY <2>1, <2>2
<1> QED
  BY <1>14 DEF try

-------------------------------------------------------------------------------
\* Which file types have the bit that is tested.
LEMMA TypeBits ==
  \A t \in FileTypes : /\ HasBit(t, REG) <=> t \in {REG, LNK, SOCK}
                       /\ HasBit(t, DIR) <=> t \in {DIR, BLK, SOCK}
  BY DEF FileTypes, HasBit, FIFO, CHR, DIR, BLK, REG, LNK, SOCK

\* What the code takes an archive for, in the terms of the archive itself.
LEMMA TakenIs ==
  ASSUME NEW a, IsArchive(a)
  PROVE  Meant(Taken(a)) <=>
           /\ a.opens /\ ImageJson(a.text)
           /\ \E i \in DOMAIN a.entries :
                /\ Places(a, "manifest") = {i}
                /\ a.entries[i].type \in {REG, LNK, SOCK}
                /\ a.cut = "data" => i # Len(a.entries)
           /\ \A i \in Places(a, "root") : a.entries[i].type \in {DIR, BLK, SOCK}
           /\ Places(a, "outside") = {} /\ Places(a, "short") = {}
<1> DEFINE D == DOMAIN a.entries
           t == Taken(a)
           same(k) == {i \in D : a.entries[i].kind = k}
<1>1. /\ \A i \in D : a.entries[i] \in Entries
      /\ D = 1 .. Len(a.entries) /\ Len(a.entries) \in Nat
  BY DEF IsArchive
<1>2. /\ t.opens = a.opens /\ t.text = a.text
      /\ t.entries = [i \in D |-> TakenEntry(a.entries[i])]
      /\ t.cut = IF a.cut = "data" /\ Len(a.entries) \in Places(a, "manifest") THEN "data" ELSE "no"
  BY DEF Taken, IsArchive
<1>3. \A k : Places(a, k) = {i \in D : a.entries[i].kind = k}
  BY DEF Places
<1>4. \A k : Places(t, k) = {i \in D : TakenEntry(a.entries[i]).kind = k}
  BY <1>2 DEF Places
<1>5. \A i \in D : TakenEntry(a.entries[i]).kind =
                     IF a.entries[i].kind = "sibling" THEN "inside" ELSE a.entries[i].kind
  BY <1>1 DEF TakenEntry, Entries
<1>6. \A i \in D :
        /\ a.entries[i].kind = "manifest" =>
             (TakenEntry(a.entries[i]).type = REG <=> a.entries[i].type \in {REG, LNK, SOCK})
        /\ a.entries[i].kind = "root" =>
             (TakenEntry(a.entries[i]).type = DIR <=> a.entries[i].type \in {DIR, BLK, SOCK})
  BY <1>1 DEF TakenEntry, Entries, REG, LNK, SOCK, DIR, BLK
<1> HIDE DEF t, D
<1>7. /\ \A k \in {"manifest", "root", "outside", "short"} : Places(t, k) = Places(a, k)
      /\ Places(t, "sibling") = {}
  <2>1. \A i \in D : \A k \in {"manifest", "root", "outside", "short"} :
          TakenEntry(a.entries[i]).kind = k <=> a.entries[i].kind = k
    BY <1>5
  <2>2. \A i \in D : TakenEntry(a.entries[i]).kind # "sibling"
    BY <1>5
  <2>3. Places(t, "sibling") = {}
    <3>1. Places(t, "sibling") = {i \in D : TakenEntry(a.entries[i]).kind = "sibling"}
      BY <1>4
    <3> QED
      BY <2>2, <3>1
  <2>4. ASSUME NEW k \in {"manifest", "root", "outside", "short"}
        PROVE  Places(t, k) = Places(a, k)
    <3>1. Places(t, k) = {i \in D : TakenEntry(a.entries[i]).kind = k}
      BY <1>4
    <3>2. Places(a, k) = {i \in D : a.entries[i].kind = k}
      BY <1>3
    <3> QED
      BY <2>1, <3>1, <3>2
  <2> QED
    BY <2>3, <2>4
<1>8. \A i \in D : t.entries[i] = TakenEntry(a.entries[i])
  BY <1>2
<1>9. (\E i \in Places(t, "manifest") : Places(t, "manifest") = {i} /\ t.entries[i].type = REG) <=>
        \E i \in D : Places(a, "manifest") = {i} /\ a.entries[i].type \in {REG, LNK, SOCK}
  BY <1>3, <1>6, <1>7, <1>8
<1>10. (\A i \in Places(t, "root") : t.entries[i].type = DIR) <=>
         \A i \in Places(a, "root") : a.entries[i].type \in {DIR, BLK, SOCK}
  BY <1>3, <1>6, <1>7, <1>8
<1>11. LayoutMeant(t) <=>
         /\ \E i \in D : Places(a, "manifest") = {i} /\ a.entries[i].type \in {REG, LNK, SOCK}
         /\ \A i \in Places(a, "root") : a.entries[i].type \in {DIR, BLK, SOCK}
         /\ Places(a, "outside") = {} /\ Places(a, "short") = {}
  BY <1>7, <1>9, <1>10 DEF LayoutMeant
<1>12. \A i : Places(a, "manifest") = {i} =>
         (t.cut = "no" <=> (a.cut = "data" => i # Len(a.entries)))
  BY <1>2
<1> QED
  BY <1>2, <1>11, <1>12 DEF Meant, t, D

\* For every archive: both passes of `nscn validate` take it exactly if what it is
\* taken for is meant to be valid and no port is at a bound; the deviations from
\* the messages' words are those that Taken and AtBound name, and no others
\* (image.h:113-179, executor/validate.cpp:48-91).
THEOREM Accepted ==
  ASSUME NEW a, IsArchive(a)
  PROVE  ValidateStructure(a) /\ Has(ValidatedManifest(a)) <=> Meant(Taken(a)) /\ ~AtBound(a.text)
<1> DEFINE D == DOMAIN a.entries
           found == {i \in D : IsManifest(a.entries[i])}
           Form(json) == ImageJson(json) /\ ~AtBound(json)
<1>1. /\ \A i \in D : a.entries[i] \in Entries
      /\ D = 1 .. Len(a.entries) /\ Len(a.entries) \in Nat
  BY DEF IsArchive
<1>2. \A i \in D : /\ a.entries[i].kind \in {"manifest", "root", "inside", "sibling", "outside", "short"}
                   /\ a.entries[i].type \in FileTypes
  BY <1>1 DEF Entries
<1>3. /\ found = Places(a, "manifest")
      /\ \A k : Places(a, k) = {i \in D : a.entries[i].kind = k}
  BY DEF Places, IsManifest
<1> HIDE DEF D, found
<1>4. \A i \in D : StructureOf(a.entries[i]) <=>
        /\ a.entries[i].kind \notin {"outside", "short"}
        /\ a.entries[i].kind = "manifest" => a.entries[i].type \in {REG, LNK, SOCK}
        /\ a.entries[i].kind = "root" => a.entries[i].type \in {DIR, BLK, SOCK}
  <2> SUFFICES ASSUME NEW i \in D
               PROVE  StructureOf(a.entries[i]) <=>
                        /\ a.entries[i].kind \notin {"outside", "short"}
                        /\ a.entries[i].kind = "manifest" => a.entries[i].type \in {REG, LNK, SOCK}
                        /\ a.entries[i].kind = "root" => a.entries[i].type \in {DIR, BLK, SOCK}
    OBVIOUS
  <2>1. /\ HasBit(a.entries[i].type, REG) <=> a.entries[i].type \in {REG, LNK, SOCK}
        /\ HasBit(a.entries[i].type, DIR) <=> a.entries[i].type \in {DIR, BLK, SOCK}
    BY <1>2, TypeBits
  <2> QED
    BY <1>2, <2>1 DEF StructureOf, IsManifest, Under
<1>5. Has(ValidatedManifest(a)) <=> Manifest(a) # <<>> /\ Form(Manifest(a)[1])
  <2> DEFINE text == Manifest(a)
             try == ImageManifestFromJson(text[1])
  <2>1. try.ok /\ ImageManifestValid(try.value) <=> Form(text[1])
    BY ImageForm
  <2>2. Form(text[1]) => ~Is(text[1], "notJson")
    BY DEF ImageJson, Required, Field, Is
  <2>3. ValidatedManifest(a) =
          IF text = <<>> \/ Is(text[1], "notJson") THEN None
          ELSE IF try.ok /\ ImageManifestValid(try.value) THEN Some(try.value) ELSE None
    BY DEF ValidatedManifest
  <2> HIDE DEF try, text
  <2>4. Some(try.value) # None
    BY DEF Some, None
  <2>5. Has(ValidatedManifest(a)) <=> text # <<>> /\ Form(text[1])
    BY <2>1, <2>2, <2>3, <2>4 DEF Has
  <2> QED
    BY <2>5 DEF text
<1>6. ASSUME NEW i \in D, found = {i}, a.opens
      PROVE  /\ a.entries[i].type \in {REG, LNK, SOCK} /\ (a.cut = "data" => i # Len(a.entries)) =>
                  Manifest(a) = <<a.text>>
             /\ Manifest(a) # <<>> =>
                  a.entries[i].type \in {REG, LNK, SOCK} /\ (a.cut = "data" => i # Len(a.entries))
  <2>1. (CHOOSE j \in found : \A k \in found : j <= k) = i
    BY <1>1, <1>6
  <2>2. Manifest(a) = IF HasBit(a.entries[i].type, REG) /\ Readable(a, i) THEN <<a.text>> ELSE <<>>
    BY <1>6, <2>1 DEF Manifest, found, D
  <2>3. Readable(a, i) <=> (a.cut = "data" => i # Len(a.entries))
    BY <1>1, <1>6 DEF Readable
  <2>4. HasBit(a.entries[i].type, REG) <=> a.entries[i].type \in {REG, LNK, SOCK}
    BY <1>2, <1>6, TypeBits
  <2> QED
    BY <2>2, <2>3, <2>4
<1>7. ASSUME ValidateStructure(a), Has(ValidatedManifest(a)) PROVE Meant(Taken(a)) /\ Form(a.text)
  <2>1. Manifest(a) # <<>> /\ Form(Manifest(a)[1])
    BY <1>5, <1>7
  <2>2. a.opens /\ found # {}
    BY <2>1 DEF Manifest, found, D
  <2>3. PICK i \in D : found = {i}
    BY <1>7, <2>2 DEF ValidateStructure, found, D
  <2>4. /\ a.entries[i].type \in {REG, LNK, SOCK} /\ (a.cut = "data" => i # Len(a.entries))
        /\ Manifest(a) = <<a.text>>
    BY <1>6, <2>1, <2>2, <2>3
  <2>5. \A j \in D : StructureOf(a.entries[j])
    BY <1>7 DEF ValidateStructure, D
  <2>6. /\ \A j \in Places(a, "root") : a.entries[j].type \in {DIR, BLK, SOCK}
        /\ Places(a, "outside") = {} /\ Places(a, "short") = {}
    BY <1>3, <1>4, <2>5
  <2>7. Form(a.text) /\ Places(a, "manifest") = {i}
    BY <1>3, <2>1, <2>3, <2>4
  <2> QED
    BY <2>2, <2>4, <2>6, <2>7, TakenIs DEF D
<1>8. ASSUME Meant(Taken(a)), Form(a.text) PROVE ValidateStructure(a) /\ Has(ValidatedManifest(a))
  <2>1. PICK i \in D : /\ Places(a, "manifest") = {i} /\ a.entries[i].type \in {REG, LNK, SOCK}
                       /\ a.cut = "data" => i # Len(a.entries)
    BY <1>8, TakenIs DEF D
  <2>2. /\ a.opens /\ found = {i}
        /\ \A j \in Places(a, "root") : a.entries[j].type \in {DIR, BLK, SOCK}
        /\ Places(a, "outside") = {} /\ Places(a, "short") = {}
    BY <1>3, <1>8, <2>1, TakenIs
  <2>3. Has(ValidatedManifest(a))
    BY <1>5, <1>6, <1>8, <2>1, <2>2
  <2>4. \A j \in D : StructureOf(a.entries[j])
    BY <1>2, <1>3, <1>4, <2>1, <2>2
  <2> QED
    BY <2>2, <2>3, <2>4 DEF ValidateStructure, found, D
<1>9. Meant(Taken(a)) => ImageJson(a.text)
  BY TakenIs
<1> QED
  BY <1>7, <1>8, <1>9 DEF Form


(***************************************************************************)
(* The theorems.                                                           *)
(***************************************************************************)

\* For every archive and every replacement: a run past its validation has a valid
\* manifest with an app, extraction has put the last of every name into its
\* place, what is executed has an absolute path, and validate and a client go by
\* what they have found (image.h:182-241, executor/validate.cpp:35-91,
\* linux.cpp:386-442).
THEOREM UseInvAlways == Spec => []UseInv
<1>1. Init => UseInv
  BY TypeInit, ManifestInit, ExtractInit, StageInit, VerdictInit DEF UseInv
<1>2. UseInv /\ [Next]_vars => UseInv'
  BY TypeStep, ManifestStep, ExtractStep, StageStep, VerdictStep, RewriteStep DEF UseInv
<1> QED
  BY <1>1, <1>2, PTL DEF Spec

\* For every plain archive, extraction succeeds only with what file_list lists,
\* each name with the last entry's file; it never throws on the file that was
\* validated (image.h:85-110, 182-241).
THEOREM ExtractsRootfsAlways == Spec => []ExtractsRootfs
<1>1. Init => NeverThrows
  BY DEF Init, NeverThrows
<1>2. UseInv /\ NeverThrows /\ [Next]_vars => NeverThrows'
  BY ThrowsStep DEF UseInv
<1>3. UseInv /\ NeverThrows => ExtractsRootfs
  BY ExtractedIsListed DEF UseInv, NeverThrows, ExtractsRootfs
<1> QED
  BY <1>1, <1>2, <1>3, UseInvAlways, PTL DEF Spec

\* For every manifest that is valid: a run that has gone through has executed the
\* app and the handlers the manifest names, in the environment it asks for
\* (linux.cpp:357-442).
THEOREM ExecutesDeclaredAlways == Spec => []ExecutesDeclared
<1>1. Init => ExecutedInv
  BY DEF Init, ExecutedInv, ExecutesDeclared
<1>2. UseInv /\ ExecutedInv /\ [Next]_vars => ExecutedInv'
  BY ExecutedStep
<1>3. ExecutedInv => ExecutesDeclared
  BY DEF ExecutedInv, ExecutesDeclared
<1> QED
  BY <1>1, <1>2, <1>3, UseInvAlways, PTL DEF Spec

\* For every archive and every JSON value in it: `nscn validate` accepts the image
\* exactly if what the code takes it for is what its messages say an image is and
\* no port is 1 or 65535 (command/validate.cpp, executor/validate.cpp:48-91,
\* image.h:113-179, appc/schema).
THEOREM VerdictAsMeantAlways == Spec => []VerdictAsMeant
<1> DEFINE Given == cmd = "validate" => first \in Archives
<1>1. Init => Given
  BY DEF Init
<1>2. Given /\ [Next]_vars => Given'
  BY UseStep DEF use
<1>3. UseInv /\ Given => VerdictAsMeant
  <2> SUFFICES ASSUME TypeOK, VerdictInv, first \in Archives, cmd = "validate", pc \in Ends, file = first
               PROVE  pc = "success" <=> Meant(Taken(first)) /\ ~AtBound(first.text)
    BY DEF UseInv, VerdictAsMeant, Judged
  <2>1. pc = "success" <=> ValidateStructure(first) /\ Has(ValidatedManifest(first))
    BY DEF VerdictInv
  <2>2. IsArchive(first)
    BY DEF TypeOK
  <2> QED
    BY <2>1, <2>2, Accepted
<1> QED
  BY <1>1, <1>2, <1>3, UseInvAlways, PTL DEF Spec

\* For every JSON value a client may read the manifest of a container from, valid
\* or not: writing crashes exactly if an image is named and lacks its isolators
\* or its annotations, and what is written otherwise reads back as the manifest
\* exactly if it has nothing that is written as null or not at all
\* (app_refs.h:65-78, volumes.h:97-108, container.h:83-99, common.h:199-205).
THEOREM RewriteKeepsAlways == Spec => []RewriteKeeps
<1>1. UseInv => RewriteKeeps
  BY RewrittenIsKept DEF UseInv
<1> QED
  BY <1>1, UseInvAlways, PTL
===============================================================================
