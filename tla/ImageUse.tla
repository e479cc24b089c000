------------------------------- MODULE ImageUse -------------------------------
(***************************************************************************)
(* One image from its file to the programs it has executed: the passes     *)
(* that `nscn validate` and `nscn run` make over the archive, each of      *)
(* which opens the file anew, the manifest they parse and validate, and    *)
(* what the container's init takes from the manifest for its identity,     *)
(* its environment and its programs.  The file may be replaced by another  *)
(* between two passes.  A client of the library may also parse, validate   *)
(* and rewrite the manifest of a container (cmd "rewrite").                *)
(***************************************************************************)
EXTENDS ImageFormat, Functions

CONSTANTS
  Archives,      \* the archives a command may begin with
  Replacements,  \* those that may come in their place
  Runtimes,      \* the JSON values a client may read a container's manifest from
  NumberOf,      \* what std::stoi makes of a user or a group; no other is a number
  PasswdNames,   \* the uid of each user of the password file
  DefaultEnv     \* PATH, and TERM where it is set

ASSUME ArchivesAreArchives == \A archive \in Archives \cup Replacements : IsArchive(archive)

\* The flag of an archive says what the format does.
ASSUME FlagsAreRight == \A archive \in Archives : archive.meant <=> Meant(archive)

ASSUME DefaultsAreFew == DOMAIN DefaultEnv \subseteq {"PATH", "TERM"}

VARIABLES
  cmd,       \* "validate", "run" or "rewrite"
  file,      \* the archive that is at the path now
  first,     \* the archive that was there when the command began
  pc,        \* the next step
  manifest,  \* the manifest as parsed: none, or <<manifest>>
  opened,    \* the archive that is being extracted: none, or <<archive>>
  next,      \* the entry whose header is read next
  tree,      \* what extraction made: from a place below rootfs to the entry whose file
             \* is there, 0 for a file without its data
  rootfs,    \* what create_rootfs returned: "none", "success", "error", or "throws"
  uid,       \* who init is: -1 before setuid
  env,       \* the environment the programs are given
  executed   \* the programs executed, in order: their stage and arguments

use == <<cmd, first>>                    \* never changes
archiveVars == <<opened, next, tree, rootfs>>
initVars == <<uid, env, executed>>       \* the container's init
vars == <<use, file, pc, manifest, archiveVars, initVars>>

\* What the command ends with; "aborted" is an uncaught exception or a crash.
Ends == {"success", "failure", "aborted"}
Steps == {"structure", "manifest", "extract", "become", "environment", "pre-start",
          "app", "post-stop", "read", "write", "reread"}

Init ==
  /\ \/ /\ cmd \in {"validate", "run"} /\ file \in Archives
        /\ pc = "structure"
     \/ /\ cmd = "rewrite" /\ file \in Runtimes
        /\ pc = "read"
  /\ first = file
  /\ manifest = None
  /\ opened = None /\ next = 1 /\ tree = <<>> /\ rootfs = "none"
  /\ uid = -1 /\ env = <<>> /\ executed = <<>>

\* Somebody puts another archive in the file's place.
Replace ==
  /\ cmd # "rewrite" /\ file = first /\ pc \in {"manifest", "extract"}
  /\ file' \in Replacements \ {file}
  /\ UNCHANGED <<use, pc, manifest, archiveVars, initVars>>

CheckStructure ==
  /\ pc = "structure"
  /\ pc' = IF ValidateStructure(file) THEN "manifest" ELSE "failure"
  /\ UNCHANGED <<use, file, manifest, archiveVars, initVars>>

\* The manifest of an archive as JSON value, parsed and validated, or None.
ValidatedManifest(archive) ==
  LET text == Manifest(archive)
  IN  IF text = <<>> \/ Is(text[1], "notJson") THEN None
      ELSE LET try == ImageManifestFromJson(text[1])
           IN  IF try.ok /\ ImageManifestValid(try.value) THEN Some(try.value) ELSE None

\* Mutant: run goes on without an app.
GetValidatedImageAppless ==
  /\ pc = "manifest"
  /\ manifest' = ValidatedManifest(file)
  /\ pc' = IF ~Has(manifest') THEN "failure"
           ELSE IF cmd = "validate" THEN "success" ELSE "extract"
  /\ UNCHANGED <<use, file, archiveVars, initVars>>

\* validate ends here; run goes on if the manifest has an app.
GetValidatedImage ==
  /\ pc = "manifest"
  /\ manifest' = ValidatedManifest(file)
  /\ pc' = IF ~Has(manifest') THEN "failure"
           ELSE IF cmd = "validate" THEN "success"
           ELSE IF Has(manifest'[1].app) THEN "extract" ELSE "failure"
  /\ UNCHANGED <<use, file, archiveVars, initVars>>

\* create_rootfs, whose status nobody reads, up to the opening of the archive.
OpenFails ==
  /\ pc = "extract" /\ opened = None
  /\ rootfs' = "error" /\ pc' = "become"
  /\ UNCHANGED <<use, file, manifest, opened, next, tree, initVars>>

OpenArchive ==
  /\ pc = "extract" /\ opened = None
  /\ file.opens
  /\ opened' = Some(file) /\ next' = 1
  /\ UNCHANGED <<use, file, pc, manifest, tree, rootfs, initVars>>

Extracting == pc = "extract" /\ opened # None /\ next <= Len(opened[1].entries)
Entry == opened[1].entries[next]
Put(place, i) == [p \in DOMAIN tree \cup {place} |-> IF p = place THEN i ELSE tree[p]]

SkipEntry ==
  /\ Extracting /\ Skipped(Entry)
  /\ next' = next + 1
  /\ UNCHANGED <<use, file, pc, manifest, opened, tree, rootfs, initVars>>

\* Mutant: a place that is taken is left alone.
ExtractEntryOnce ==
  /\ Extracting /\ ~Skipped(Entry) /\ ~TooShort(Entry)
  /\ HasData(Entry) => Readable(opened[1], next)
  /\ tree' = IF WritePath(Entry) \in DOMAIN tree THEN tree ELSE Put(WritePath(Entry), next)
  /\ next' = next + 1
  /\ UNCHANGED <<use, file, pc, manifest, opened, rootfs, initVars>>

ExtractEntry ==
  /\ Extracting /\ ~Skipped(Entry) /\ ~TooShort(Entry)
  /\ HasData(Entry) => Readable(opened[1], next)
  /\ tree' = Put(WritePath(Entry), next)
  /\ next' = next + 1
  /\ UNCHANGED <<use, file, pc, manifest, opened, rootfs, initVars>>

\* Reading or writing the entry fails, before or after its file was made.
ExtractFails ==
  /\ Extracting /\ ~Skipped(Entry) /\ ~TooShort(Entry)
  /\ tree' \in {tree, Put(WritePath(Entry), 0)}
  /\ rootfs' = "error" /\ pc' = "become"
  /\ UNCHANGED <<use, file, manifest, opened, next, initVars>>

ExtractThrows ==
  /\ Extracting /\ TooShort(Entry)
  /\ rootfs' = "throws" /\ pc' = "aborted"
  /\ UNCHANGED <<use, file, manifest, opened, next, tree, initVars>>

\* The archive's end, or a header that cannot be read; closing may fail.
ExtractEnds ==
  /\ pc = "extract" /\ opened # None /\ next > Len(opened[1].entries)
  /\ rootfs' \in {"success", "error"} /\ pc' = "become"
  /\ UNCHANGED <<use, file, manifest, opened, next, tree, initVars>>

App == manifest[1].app[1]
IsNumber(s) == s \in DOMAIN NumberOf
IsUser(s) == s \in DOMAIN PasswdNames

\* setgid takes the group for a number and throws if it is none; a user that is
\* neither a number nor known is taken from an empty Try.
Become ==
  /\ pc = "become"
  /\ IF IsNumber(App.group) /\ (IsNumber(App.user) \/ IsUser(App.user))
     THEN /\ uid' = IF IsNumber(App.user) THEN NumberOf[App.user] ELSE PasswdNames[App.user]
          /\ pc' = "environment"
     ELSE pc' = "aborted" /\ UNCHANGED uid
  /\ UNCHANGED <<use, file, manifest, archiveVars, env, executed>>

\* One of start's calls fails: the container's init ends.
BecomeFails ==
  /\ pc = "become"
  /\ pc' = "failure"
  /\ UNCHANGED <<use, file, manifest, archiveVars, initVars>>

\* The identity's part of the environment.  The name, the home and the shell of a
\* user that was looked up are read from a buffer of a function that has returned.
IdentityEnv ==
  LET looked == {PasswdNames[u] : u \in DOMAIN PasswdNames}
  IN  IF uid \in looked
      THEN {[LOGNAME |-> w, USER |-> w, HOME |-> w, SHELL |-> w] : w \in {"entry", "garbage"}}
      ELSE {[LOGNAME |-> App.user, USER |-> App.user, HOME |-> "/tmp", SHELL |-> "/bin/sh"]}

\* The variables of f, set over those of g.
SetOver(f, g) == [n \in DOMAIN f \cup DOMAIN g |-> IF n \in DOMAIN f THEN f[n] ELSE g[n]]

\* The values that an environment's variables end up with: a map keeps the last.
Assigned(variables) ==
  [n \in {variables[i].name : i \in DOMAIN variables} |->
     LET last == CHOOSE i \in DOMAIN variables :
                   variables[i].name = n /\ \A j \in DOMAIN variables \ {i} : variables[j].name = n => j < i
     IN  variables[last].value]

\* Mutant: the defaults are set last.
SetEnvironmentLate ==
  /\ pc = "environment"
  /\ \E identity \in IdentityEnv :
       env' = SetOver(SetOver(identity, DefaultEnv),
                      IF Has(App.environment) THEN Assigned(App.environment[1]) ELSE <<>>)
  /\ pc' = "pre-start"
  /\ UNCHANGED <<use, file, manifest, archiveVars, uid, executed>>

SetEnvironment ==
  /\ pc = "environment"
  /\ \E identity \in IdentityEnv :
       env' = SetOver(IF Has(App.environment) THEN Assigned(App.environment[1]) ELSE <<>>,
                      SetOver(identity, DefaultEnv))
  /\ pc' = "pre-start"
  /\ UNCHANGED <<use, file, manifest, archiveVars, uid, executed>>

\* The first handler of that name, if there is one; execvpe gets what it says.
RunHandler(event, then) ==
  LET handlers == IF Has(App.event_handlers) THEN App.event_handlers[1] ELSE <<>>
      found == {i \in DOMAIN handlers : handlers[i].name = event}
  IN  /\ pc = event
      /\ IF found = {} THEN UNCHANGED executed
         ELSE \E i \in found :
                /\ \A j \in found : i <= j
                /\ executed' = Append(executed, [stage |-> event, args |-> handlers[i].exec])
      /\ pc' = then
      /\ UNCHANGED <<use, file, manifest, archiveVars, uid, env>>

PreStart == RunHandler("pre-start", "app")
PostStop == RunHandler("post-stop", "success")

RunApp ==
  /\ pc = "app"
  /\ executed' = Append(executed, [stage |-> "app", args |-> App.exec])
  /\ pc' = "post-stop"
  /\ UNCHANGED <<use, file, manifest, archiveVars, uid, env>>

(* The library's client. *)

ReadRuntime ==
  /\ pc = "read"
  /\ LET try == ContainerRuntimeManifestFromJson(file)
     IN  IF try.ok /\ ContainerRuntimeManifestValid(try.value)
         THEN manifest' = Some(try.value) /\ pc' = "write"
         ELSE manifest' = None /\ pc' = "failure"
  /\ UNCHANGED <<use, file, archiveVars, initVars>>

WriteRuntime ==
  /\ pc = "write"
  /\ IF \E i \in DOMAIN manifest[1].app_refs : AppRefToJsonCrashes(manifest[1].app_refs[i])
     THEN pc' = "aborted" /\ UNCHANGED file
     ELSE pc' = "reread" /\ file' = ContainerRuntimeManifestToJson(manifest[1])
  /\ UNCHANGED <<use, manifest, archiveVars, initVars>>

RereadRuntime ==
  /\ pc = "reread"
  /\ pc' = IF ContainerRuntimeManifestFromJson(file) = Result(manifest[1])
           THEN "success" ELSE "failure"
  /\ UNCHANGED <<use, file, manifest, archiveVars, initVars>>

Over == pc \in Ends /\ UNCHANGED vars

Next ==
  \/ Replace \/ CheckStructure \/ GetValidatedImage
  \/ OpenFails \/ OpenArchive \/ SkipEntry \/ ExtractEntry \/ ExtractFails
  \/ ExtractThrows \/ ExtractEnds
  \/ Become \/ BecomeFails \/ SetEnvironment \/ PreStart \/ RunApp \/ PostStop
  \/ ReadRuntime \/ WriteRuntime \/ RereadRuntime
  \/ Over

Spec == Init /\ [][Next]_vars

-------------------------------------------------------------------------------
(* Properties. *)

\* Only rootfs itself and rootfs/..., written without a ./
PlainEntry(e) == ~e.dot /\ e.kind \in {"manifest", "root", "inside"}
Plain(archive) == \A i \in DOMAIN archive.entries : PlainEntry(archive.entries[i])

TypeOK ==
  /\ cmd \in {"validate", "run", "rewrite"}
  /\ cmd # "rewrite" => IsArchive(first) /\ IsArchive(file)
  /\ pc \in Steps \cup Ends
  /\ cmd = "validate" => pc \in {"structure", "manifest"} \cup Ends
  /\ pc \in {"read", "write", "reread"} => cmd = "rewrite"
  /\ cmd = "rewrite" => pc \in {"read", "write", "reread"} \cup Ends
  /\ next \in Nat /\ next > 0
  /\ rootfs \in {"none", "success", "error", "throws"}

\* A run that is past its validation has a valid manifest with an app, and the
\* file that was there when the command began has a valid structure.
ManifestInv ==
  /\ pc = "structure" => file = first
  /\ pc \notin {"structure", "failure"} /\ cmd # "rewrite" => ValidateStructure(first)
  /\ cmd = "run" /\ pc \notin {"structure", "manifest", "failure", "aborted"} =>
       Has(manifest) /\ Has(manifest[1].app) /\ AppValid(manifest[1].app[1])

\* Extraction, until it fails: every file is the last of those read so far whose
\* place is this one, and of those that are not passed over none is missing.
Read == 1 .. next - 1
ExtractInv ==
  /\ pc \in {"structure", "manifest"} => opened = None
  /\ pc \in {"structure", "manifest", "extract"} => rootfs = "none"
  /\ opened = None => tree = <<>> /\ next = 1 /\ rootfs \in {"none", "error"}
  /\ opened # None => opened = Some(opened[1]) /\ IsArchive(opened[1])
  /\ opened # None /\ (pc = "extract" \/ rootfs = "success") =>
       /\ next <= Len(opened[1].entries) + 1
       /\ rootfs = "success" => next = Len(opened[1].entries) + 1
       /\ \A place \in DOMAIN tree :
            /\ tree[place] \in Read
            /\ ~Skipped(opened[1].entries[tree[place]])
            /\ WritePath(opened[1].entries[tree[place]]) = place
       /\ \A i \in Read :
            LET place == WritePath(opened[1].entries[i])
            IN  ~Skipped(opened[1].entries[i]) => place \in DOMAIN tree /\ tree[place] >= i

\* The programs executed so far are those of the stages before this one.
StageOf(step) == CASE step \in {"success", "post-stop"} -> {"pre-start", "app", "post-stop"}
                   [] step = "app" -> {"pre-start"}
                   [] OTHER -> {}
StageInv ==
  /\ executed \in Seq(Range(executed))
  /\ \A i \in DOMAIN executed :
       /\ executed[i].stage \in StageOf(pc)
       /\ executed[i].args # <<>> /\ executed[i].args[1] \in AbsPaths

\* What `nscn validate` has found of a file that nobody replaced.
VerdictInv ==
  cmd = "validate" /\ pc \in Ends /\ file = first =>
    (pc = "success" <=> ValidateStructure(first) /\ Has(ValidatedManifest(first)))

\* A client's manifest is what was read; the client crashes in writing it, or
\* goes by what comes back of what was written.
Crashes(crm) == \E i \in DOMAIN crm.app_refs : AppRefToJsonCrashes(crm.app_refs[i])
ReadsBack(crm) == ContainerRuntimeManifestFromJson(ContainerRuntimeManifestToJson(crm)) = Result(crm)
RewriteInv ==
  cmd = "rewrite" =>
    /\ pc = "read" => ~Has(manifest) /\ file = first
    /\ pc \in {"write", "reread"} => Has(manifest)
    /\ Has(manifest) => ContainerRuntimeManifestFromJson(first) = Result(manifest[1])
    /\ pc = "reread" => ~Crashes(manifest[1]) /\ file = ContainerRuntimeManifestToJson(manifest[1])
    /\ pc \in Ends /\ Has(manifest) =>
         /\ pc = "aborted" <=> Crashes(manifest[1])
         /\ pc # "aborted" => (pc = "success" <=> ReadsBack(manifest[1]))

\* The six together, preserved by every step.
UseInv == TypeOK /\ ManifestInv /\ ExtractInv /\ StageInv /\ VerdictInv /\ RewriteInv

\* extract_rootfs_to reports success only with all that file_list lists in its
\* place, each place with the last entry of that name, for an archive without
\* leading ./ and without names that only begin like rootfs; and it never throws
\* on the file whose structure was validated.
ExtractsRootfs ==
  /\ rootfs = "throws" => opened # Some(first)
  /\ rootfs = "success" /\ Plain(opened[1]) =>
       /\ {<<"/", p[1]>> : p \in DOMAIN tree \ {<<>>}} = FileList(opened[1])
       /\ \A i \in DOMAIN opened[1].entries :
            LET e == opened[1].entries[i]
            IN  Under(e) => /\ tree[<<e.name>>] >= i
                            /\ opened[1].entries[tree[<<e.name>>]].name = e.name

\* `nscn validate` accepts an image exactly if what it takes the archive for is meant
\* to be valid and has no port at the bounds: no part that is in order hides one that
\* is not, none is refused for nothing, and it deviates from the format in nothing
\* but the bounds of ports.h:44, the types and the prefix of image.h:134-141 and the
\* unreadable header of image.h:127.
Judged == cmd = "validate" /\ pc \in Ends /\ file = first
VerdictAsMeant ==
  Judged => (pc = "success" <=> Meant(Taken(first)) /\ ~AtBound(first.text))

\* A run that has gone through has executed the app and both handlers the
\* manifest names, and nothing else, in the environment the manifest asks for,
\* the defaults filling in only what it leaves out.
Handlers == IF Has(App.event_handlers) THEN Range(App.event_handlers[1]) ELSE {}
Programs(event) == {[stage |-> event, args |-> h.exec] : h \in {g \in Handlers : g.name = event}}
Asked == IF Has(App.environment) THEN Range(NamesOf(App.environment[1])) ELSE {}
EnvAsAsked ==
  /\ Has(App.environment) =>
       \A i \in DOMAIN App.environment[1] :
         env[App.environment[1][i].name] = App.environment[1][i].value
  /\ \A n \in DOMAIN DefaultEnv \ Asked : env[n] = DefaultEnv[n]
ExecutesDeclared ==
  cmd = "run" /\ pc = "success" =>
    /\ Range(executed) =
         Programs("pre-start") \cup {[stage |-> "app", args |-> App.exec]} \cup Programs("post-stop")
    /\ EnvAsAsked

\* What a client writes of a valid manifest reads back as that manifest exactly
\* if every image is named in full or not at all and no list is empty; with only
\* the name given, the writing crashes.
Written(option) == Has(option) => option[1] # <<>>
Lossless(crm) ==
  /\ crm.app_refs # <<>>
  /\ Written(crm.volumes) /\ Written(crm.isolators) /\ Written(crm.annotations)
  /\ Has(crm.volumes) => \A i \in DOMAIN crm.volumes[1] : crm.volumes[1][i].fulfills # <<>>
  /\ \A i \in DOMAIN crm.app_refs :
       LET ref == crm.app_refs[i]
       IN  /\ Written(ref.isolators) /\ Written(ref.annotations)
           /\ Has(ref.isolators) \/ Has(ref.annotations) => Has(ref.app_name)
RewriteKeeps ==
  cmd = "rewrite" /\ pc \in Ends /\ Has(manifest) =>
    /\ pc = "aborted" <=> \E i \in DOMAIN manifest[1].app_refs :
                            LET ref == manifest[1].app_refs[i]
                            IN  Has(ref.app_name) /\ (~Has(ref.isolators) \/ ~Has(ref.annotations))
    /\ pc # "aborted" => (pc = "success" <=> Lossless(manifest[1]))
===============================================================================
