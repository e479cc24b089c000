------------------------------ MODULE ImageFormat ------------------------------
(***************************************************************************)
(* The images that `nscn validate` is meant to accept, said as a grammar:  *)
(* one predicate on JSON values for each production, with no parsing, no   *)
(* Option and no Try, and with the bounds and file types that the code's   *)
(* own messages name.  It is the reference that the verdict of the code is *)
(* compared with; at the end is what the verdict is known to deviate in.   *)
(***************************************************************************)
EXTENDS Schema, ImageArchive

Required(json, name, Form(_)) == Field(json, name) /\ Form(json.obj[name])
Optional(json, name, Form(_)) == Field(json, name) => Form(json.obj[name])
ListOf(Form(_), json) == Is(json, "arr") /\ \A i \in DOMAIN json.arr : Form(json.arr[i])

TextJson(json) == Is(json, "str")
FlagJson(json) == Is(json, "bool")
NonEmptyJson(json) == TextJson(json) /\ json.str # ""
NameJson(json) == TextJson(json) /\ json.str \in AcNames
PathJson(json) == TextJson(json) /\ json.str \in AbsPaths
ImageIDJson(json) == TextJson(json) /\ json.str \in ImageIds
EnvNameJson(json) == TextJson(json) /\ json.str \in EnvNames
VersionJson(json) == TextJson(json) /\ json.str \in AcVersions
KindJson(json) == TextJson(json) /\ json.str \in {"ImageManifest", "ContainerRuntimeManifest"}
ProtocolJson(json) == TextJson(json) /\ json.str \in {"tcp", "udp"}
PortNumberJson(json) == Is(json, "num") /\ json.num \in 1 .. MaxPort

NameOf(json) == json.obj["name"].str
EachNameOnce(json) == \A i, j \in DOMAIN json.arr : NameOf(json.arr[i]) = NameOf(json.arr[j]) => i = j

\* Labels, isolators and, with a URL for some, annotations.
PairJson(json) == Required(json, "name", NameJson) /\ Required(json, "value", TextJson)
PairsJson(json) == ListOf(PairJson, json)
AnnotationJson(json) ==
  /\ PairJson(json)
  /\ NameOf(json) \in {"homepage", "documentation"} => json.obj["value"].str \in HttpUrls
AnnotationsJson(json) == ListOf(AnnotationJson, json)
PathsJson(json) == ListOf(PathJson, json)

\* A program, by its absolute path, and its arguments.
ExecJson(json) ==
  LET args == [i \in DOMAIN json.arr |-> json.arr[i].str]
  IN  ListOf(TextJson, json) /\ args # <<>> /\ args[1] \in AbsPaths
HandlerJson(json) == Required(json, "name", NameJson) /\ Required(json, "exec", ExecJson)
HandlersJson(json) == ListOf(HandlerJson, json) /\ EachNameOnce(json)

VariableJson(json) == Required(json, "name", EnvNameJson) /\ Required(json, "value", TextJson)
VariablesJson(json) == ListOf(VariableJson, json) /\ EachNameOnce(json)

MountPointJson(json) ==
  /\ Required(json, "name", NameJson) /\ Required(json, "path", PathJson)
  /\ Optional(json, "readOnly", FlagJson)
MountPointsJson(json) == ListOf(MountPointJson, json) /\ EachNameOnce(json)

PortJson(json) ==
  /\ Required(json, "name", NameJson)
  /\ Required(json, "port", PortNumberJson) /\ Required(json, "protocol", ProtocolJson)
  /\ Optional(json, "socketActivated", FlagJson)
PortsJson(json) == ListOf(PortJson, json)

AppJson(json) ==
  /\ Required(json, "exec", ExecJson)
  /\ Required(json, "user", NonEmptyJson) /\ Required(json, "group", NonEmptyJson)
  /\ Optional(json, "eventHandlers", HandlersJson)
  /\ Optional(json, "workingDirectory", PathJson)
  /\ Optional(json, "environment", VariablesJson)
  /\ Optional(json, "mountPoints", MountPointsJson)
  /\ Optional(json, "ports", PortsJson)
  /\ Optional(json, "isolators", PairsJson)

DependencyJson(json) ==
  /\ Required(json, "app", NameJson)
  /\ Optional(json, "imageID", ImageIDJson) /\ Optional(json, "labels", PairsJson)
DependenciesJson(json) == ListOf(DependencyJson, json)

ImageJson(json) ==
  /\ Required(json, "acKind", KindJson)
  /\ Required(json, "acVersion", VersionJson)
  /\ Required(json, "name", NameJson)
  /\ Optional(json, "labels", PairsJson)
  /\ Optional(json, "app", AppJson)
  /\ Optional(json, "dependencies", DependenciesJson)
  /\ Optional(json, "pathWhitelist", PathsJson)
  /\ Optional(json, "annotations", AnnotationsJson)

\* One manifest, and beside it the directory rootfs and what is in it.
Places(archive, kind) == {i \in DOMAIN archive.entries : archive.entries[i].kind = kind}
LayoutMeant(archive) ==
  /\ \E i \in Places(archive, "manifest") :
       /\ Places(archive, "manifest") = {i}
       /\ archive.entries[i].type = REG
  /\ \A i \in Places(archive, "root") : archive.entries[i].type = DIR
  /\ \A kind \in {"sibling", "outside", "short"} : Places(archive, kind) = {}

Meant(archive) ==
  archive.opens /\ archive.cut = "no" /\ LayoutMeant(archive) /\ ImageJson(archive.text)

\* What the code takes an archive for: links and sockets for regular files, block
\* devices and sockets for directories, what begins like rootfs for what is in it,
\* and what breaks off, but for the manifest's own data, for the whole.
TakenEntry(e) ==
  CASE e.kind = "manifest" /\ e.type \in {LNK, SOCK} -> [e EXCEPT !.type = REG]
    [] e.kind = "root" /\ e.type \in {BLK, SOCK} -> [e EXCEPT !.type = DIR]
    [] e.kind = "sibling" -> [e EXCEPT !.kind = "inside"]
    [] OTHER -> e
Taken(archive) ==
  [archive EXCEPT
     !.entries = [i \in DOMAIN @ |-> TakenEntry(@[i])],
     !.cut = IF @ = "data" /\ Len(archive.entries) \in Places(archive, "manifest") THEN @ ELSE "no"]

\* Whether a valid manifest has a port at either bound, which the code refuses.
PortsAtBound(json) == \E i \in DOMAIN json.arr : json.arr[i].obj["port"].num \in {1, MaxPort}
AppAtBound(json) == Field(json, "ports") /\ PortsAtBound(json.obj["ports"])
AtBound(json) == Field(json, "app") /\ AppAtBound(json.obj["app"])
=============================================================================
