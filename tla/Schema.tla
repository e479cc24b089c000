-------------------------------- MODULE Schema --------------------------------
(***************************************************************************)
(* The manifests of appc/schema: what from_json makes of a JSON value and  *)
(* what validate then says of it.  A JSON value is a record with the one   *)
(* field str, num, bool, null, arr or obj.  The text of a string is        *)
(* abstracted to the classes that the patterns of validate tell apart.     *)
(***************************************************************************)
EXTENDS Integers, Sequences

CONSTANTS
  AcNames,      \* the strings that match ACName's pattern and length
  AcVersions,   \* the version strings
  AbsPaths,     \* the absolute paths
  ImageIds,     \* <hash name>-<hex digits>
  Uuids,        \* the rfc4122 strings
  EnvNames,     \* the names of environment variables
  HttpUrls      \* what begins with http:// or https://

ASSUME EmptyIsNothing ==
  "" \notin AcNames \cup AcVersions \cup AbsPaths \cup ImageIds \cup Uuids \cup EnvNames \cup HttpUrls

Is(json, type) == DOMAIN json = {type}
Str(s) == [str |-> s]
Null == [null |-> TRUE]
Obj(fields) == [obj |-> fields]

(* util: Option is a sequence of at most one value, Try a record. *)
None == <<>>
Some(v) == <<v>>
Has(option) == option # None
Failure == [ok |-> FALSE]
Result(v) == [ok |-> TRUE, value |-> v]

\* A struct of the fields' values if all of them have one.
Collect(tries) ==
  IF \A f \in DOMAIN tries : tries[f].ok
  THEN Result([f \in DOMAIN tries |-> tries[f].value])
  ELSE Failure

IfSome(Valid(_), option) == Has(option) => Valid(option[1])
Distinct(names) == \A i, j \in DOMAIN names : names[i] = names[j] => i = j
All(Valid(_), array) == \A i \in DOMAIN array : Valid(array[i])
NamesOf(array) == [i \in DOMAIN array |-> array[i].name]

(* try_json.h *)
Field(json, name) == Is(json, "obj") /\ name \in DOMAIN json.obj
TryFrom(From(_), json, name) ==
  IF Field(json, name) THEN From(json.obj[name]) ELSE Failure

\* A missing field is None; a field that is there and does not parse, null
\* included, is a failure.
TryOption(From(_), json, name) ==
  IF ~Field(json, name) THEN Result(None)
  ELSE LET try == From(json.obj[name])
       IN  IF try.ok THEN Result(Some(try.value)) ELSE Failure

(* common.h *)
StringFromJson(json) == IF Is(json, "str") THEN Result(json.str) ELSE Failure
IntegerFromJson(json) == IF Is(json, "num") THEN Result(json.num) ELSE Failure
BooleanFromJson(json) == IF Is(json, "bool") THEN Result(json.bool) ELSE Failure

ArrayFromJson(From(_), json) ==
  IF Is(json, "arr") THEN Collect([i \in DOMAIN json.arr |-> From(json.arr[i])]) ELSE Failure

\* A Json nobody has pushed to is null.
ArrayToJson(To(_), array) ==
  IF array = <<>> THEN Null ELSE [arr |-> [i \in DOMAIN array |-> To(array[i])]]

NameValueFromJson(json) ==
  Collect([name |-> TryFrom(StringFromJson, json, "name"),
           value |-> TryFrom(StringFromJson, json, "value")])
NameValuesFromJson(json) == ArrayFromJson(NameValueFromJson, json)
NameValueToJson(x) == Obj([name |-> Str(x.name), value |-> Str(x.value)])
NameValuesToJson(array) == ArrayToJson(NameValueToJson, array)
StringsFromJson(json) == ArrayFromJson(StringFromJson, json)

(* The types that are a string or a list of names and values. *)
ACNameValid(s) == s \in AcNames
AcKindValid(s) == s \in {"ImageManifest", "ContainerRuntimeManifest"}
AcVersionValid(s) == s \in AcVersions
PathValid(s) == s \in AbsPaths
UserValid(s) == s # ""
GroupValid(s) == s # ""
ImageIDValid(s) == s \in ImageIds
UUIDValid(s) == s \in Uuids
LabelValid(x) == x.name \in AcNames
LabelsValid(array) == All(LabelValid, array)
IsolatorValid(x) == x.name \in AcNames
IsolatorsValid(array) == All(IsolatorValid, array)
AnnotationValid(x) ==
  /\ x.name \in AcNames
  /\ x.name \in {"homepage", "documentation"} => x.value \in HttpUrls
AnnotationsValid(array) == All(AnnotationValid, array)
PathWhitelistValid(array) == All(PathValid, array)

(* exec.h, event_handlers.h, environment.h *)
ExecValid(args) == args # <<>> /\ args[1] \in AbsPaths

EventHandlerFromJson(json) ==
  Collect([name |-> TryFrom(StringFromJson, json, "name"),
           exec |-> TryFrom(StringsFromJson, json, "exec")])
EventHandlersFromJson(json) == ArrayFromJson(EventHandlerFromJson, json)
\* Any ACName is an event.
EventHandlerValid(x) == ACNameValid(x.name) /\ ExecValid(x.exec)
EventHandlersValid(array) == Distinct(NamesOf(array)) /\ All(EventHandlerValid, array)

EnvironmentVariableValid(x) == x.name \in EnvNames
EnvironmentValid(array) == Distinct(NamesOf(array)) /\ All(EnvironmentVariableValid, array)

(* mount_points.h, ports.h *)
MountPointFromJson(json) ==
  Collect([name |-> TryFrom(StringFromJson, json, "name"),
           path |-> TryFrom(StringFromJson, json, "path"),
           read_only |-> TryOption(BooleanFromJson, json, "readOnly")])
MountPointsFromJson(json) == ArrayFromJson(MountPointFromJson, json)
MountPointValid(x) == ACNameValid(x.name) /\ PathValid(x.path)
MountPointsValid(array) == Distinct(NamesOf(array)) /\ All(MountPointValid, array)

MaxPort == 65535
PortNumberValid(n) == n \in 2 .. MaxPort - 1
ProtocolValid(s) == s \in {"tcp", "udp"}
PortFromJson(json) ==
  Collect([name |-> TryFrom(StringFromJson, json, "name"),
           port |-> TryFrom(IntegerFromJson, json, "port"),
           protocol |-> TryFrom(StringFromJson, json, "protocol"),
           socket_activated |-> TryOption(BooleanFromJson, json, "socketActivated")])
PortsFromJson(json) == ArrayFromJson(PortFromJson, json)
PortValid(x) == ACNameValid(x.name) /\ PortNumberValid(x.port) /\ ProtocolValid(x.protocol)
PortsValid(array) == All(PortValid, array)

(* app.h *)
AppFromJson(json) ==
  Collect([exec |-> TryFrom(StringsFromJson, json, "exec"),
           user |-> TryFrom(StringFromJson, json, "user"),
           group |-> TryFrom(StringFromJson, json, "group"),
           event_handlers |-> TryOption(EventHandlersFromJson, json, "eventHandlers"),
           working_directory |-> TryOption(StringFromJson, json, "workingDirectory"),
           environment |-> TryOption(NameValuesFromJson, json, "environment"),
           mount_points |-> TryOption(MountPointsFromJson, json, "mountPoints"),
           ports |-> TryOption(PortsFromJson, json, "ports"),
           isolators |-> TryOption(NameValuesFromJson, json, "isolators")])

AppValid(app) ==
  /\ ExecValid(app.exec)
  /\ UserValid(app.user)
  /\ GroupValid(app.group)
  /\ IfSome(EventHandlersValid, app.event_handlers)
  /\ IfSome(PathValid, app.working_directory)
  /\ IfSome(EnvironmentValid, app.environment)
  /\ IfSome(MountPointsValid, app.mount_points)
  /\ IfSome(PortsValid, app.ports)
  /\ IfSome(IsolatorsValid, app.isolators)

(* dependencies.h, image.h *)
DependencyFromJson(json) ==
  Collect([app_name |-> TryFrom(StringFromJson, json, "app"),
           image_id |-> TryOption(StringFromJson, json, "imageID"),
           labels |-> TryOption(NameValuesFromJson, json, "labels")])
DependenciesFromJson(json) == ArrayFromJson(DependencyFromJson, json)
DependencyValid(x) ==
  ACNameValid(x.app_name) /\ IfSome(ImageIDValid, x.image_id) /\ IfSome(LabelsValid, x.labels)
DependenciesValid(array) == All(DependencyValid, array)

ImageManifestFromJson(json) ==
  Collect([ac_kind |-> TryFrom(StringFromJson, json, "acKind"),
           ac_version |-> TryFrom(StringFromJson, json, "acVersion"),
           name |-> TryFrom(StringFromJson, json, "name"),
           labels |-> TryOption(NameValuesFromJson, json, "labels"),
           app |-> TryOption(AppFromJson, json, "app"),
           dependencies |-> TryOption(DependenciesFromJson, json, "dependencies"),
           path_whitelist |-> TryOption(StringsFromJson, json, "pathWhitelist"),
           annotations |-> TryOption(NameValuesFromJson, json, "annotations")])

\* Mutant: what is optional is not validated.
ImageManifestValidInPart(m) ==
  AcKindValid(m.ac_kind) /\ AcVersionValid(m.ac_version) /\ ACNameValid(m.name)

ImageManifestValid(m) ==
  /\ AcKindValid(m.ac_kind)
  /\ AcVersionValid(m.ac_version)
  /\ ACNameValid(m.name)
  /\ IfSome(LabelsValid, m.labels)
  /\ IfSome(AppValid, m.app)
  /\ IfSome(DependenciesValid, m.dependencies)
  /\ IfSome(PathWhitelistValid, m.path_whitelist)
  /\ IfSome(AnnotationsValid, m.annotations)

(* volumes.h, app_refs.h, container.h: the manifest of a running container. *)
VolumeFromJson(json) ==
  Collect([kind |-> TryFrom(StringFromJson, json, "kind"),
           fulfills |-> TryFrom(StringsFromJson, json, "fulfills"),
           source |-> TryOption(StringFromJson, json, "source"),
           read_only |-> TryOption(BooleanFromJson, json, "readOnly")])
VolumesFromJson(json) == ArrayFromJson(VolumeFromJson, json)

VolumeKindValid(s) == s \in {"empty", "host"}
VolumeSourceValid(s) == PathValid(s)
MountPointNamesValid(names) == All(ACNameValid, names)
VolumeValid(x) ==
  /\ VolumeKindValid(x.kind)
  /\ MountPointNamesValid(x.fulfills)
  /\ IfSome(VolumeSourceValid, x.source)
  /\ x.kind = "host" => Has(x.source)
VolumesValid(array) == All(VolumeValid, array)

AppRefFromJson(json) ==
  Collect([image_id |-> TryFrom(StringFromJson, json, "imageID"),
           app_name |-> TryOption(StringFromJson, json, "app"),
           isolators |-> TryOption(NameValuesFromJson, json, "isolators"),
           annotations |-> TryOption(NameValuesFromJson, json, "annotations")])
AppRefsFromJson(json) == ArrayFromJson(AppRefFromJson, json)
AppRefValid(x) ==
  /\ ImageIDValid(x.image_id)
  /\ IfSome(ACNameValid, x.app_name)
  /\ IfSome(IsolatorsValid, x.isolators)
  /\ IfSome(AnnotationsValid, x.annotations)
AppRefsValid(array) == All(AppRefValid, array)

ContainerRuntimeManifestFromJson(json) ==
  Collect([ac_version |-> TryFrom(StringFromJson, json, "acVersion"),
           ac_kind |-> TryFrom(StringFromJson, json, "acKind"),
           uuid |-> TryFrom(StringFromJson, json, "uuid"),
           app_refs |-> TryFrom(AppRefsFromJson, json, "apps"),
           volumes |-> TryOption(VolumesFromJson, json, "volumes"),
           isolators |-> TryOption(NameValuesFromJson, json, "isolators"),
           annotations |-> TryOption(NameValuesFromJson, json, "annotations")])

ContainerRuntimeManifestValid(crm) ==
  /\ AcVersionValid(crm.ac_version)
  /\ AcKindValid(crm.ac_kind)
  /\ UUIDValid(crm.uuid)
  /\ AppRefsValid(crm.app_refs)
  /\ IfSome(VolumesValid, crm.volumes)
  /\ IfSome(IsolatorsValid, crm.isolators)
  /\ IfSome(AnnotationsValid, crm.annotations)

\* An object of those fields that have a value, as it is being written.
ObjOfSome(fields) == Obj([n \in {m \in DOMAIN fields : Has(fields[m])} |-> fields[n][1]])
ToJsonIfSome(To(_), option) == IF Has(option) THEN Some(To(option[1])) ELSE None
BooleanToJson(b) == [bool |-> b]

VolumeToJson(x) ==
  ObjOfSome([kind |-> Some(Str(x.kind)),
             fulfills |-> Some(ArrayToJson(Str, x.fulfills)),
             source |-> ToJsonIfSome(Str, x.source),
             readOnly |-> ToJsonIfSome(BooleanToJson, x.read_only)])

\* to_json asks for the name where it takes the isolators and the annotations:
\* without them it takes the value of an empty option.
AppRefToJsonCrashes(x) == Has(x.app_name) /\ ~(Has(x.isolators) /\ Has(x.annotations))

AppRefToJson(x) ==
  LET ifNamed(json) == IF Has(x.app_name) THEN Some(json) ELSE None
  IN  ObjOfSome([imageID |-> Some(Str(x.image_id)),
                 app |-> ifNamed(Str(x.app_name[1])),
                 isolators |-> ifNamed(NameValuesToJson(x.isolators[1])),
                 annotations |-> ifNamed(NameValuesToJson(x.annotations[1]))])

VolumesToJson(array) == ArrayToJson(VolumeToJson, array)
AppRefsToJson(array) == ArrayToJson(AppRefToJson, array)

\* Mutant: the volumes are written only beside isolators.
ContainerRuntimeManifestToJsonLoses(crm) ==
  ObjOfSome([acVersion |-> Some(Str(crm.ac_version)),
             acKind |-> Some(Str(crm.ac_kind)),
             uuid |-> Some(Str(crm.uuid)),
             apps |-> Some(AppRefsToJson(crm.app_refs)),
             volumes |-> IF Has(crm.isolators) THEN ToJsonIfSome(VolumesToJson, crm.volumes) ELSE None,
             isolators |-> ToJsonIfSome(NameValuesToJson, crm.isolators),
             annotations |-> ToJsonIfSome(NameValuesToJson, crm.annotations)])

ContainerRuntimeManifestToJson(crm) ==
  ObjOfSome([acVersion |-> Some(Str(crm.ac_version)),
             acKind |-> Some(Str(crm.ac_kind)),
             uuid |-> Some(Str(crm.uuid)),
             apps |-> Some(AppRefsToJson(crm.app_refs)),
             volumes |-> ToJsonIfSome(VolumesToJson, crm.volumes),
             isolators |-> ToJsonIfSome(NameValuesToJson, crm.isolators),
             annotations |-> ToJsonIfSome(NameValuesToJson, crm.annotations)])
=============================================================================
