------------------------------ MODULE MCImageUse ------------------------------
(***************************************************************************)
(* An instance of ImageUse for TLC: every image that differs from a usual  *)
(* one in its archive, or in at most two fields of its manifest.           *)
(***************************************************************************)
EXTENDS ImageUse, TLC

List(s) == [arr |-> s]
Pair(n, v) == Obj([name |-> Str(n), value |-> Str(v)])
Without(json, field) == Obj([n \in DOMAIN json.obj \ {field} |-> json.obj[n]])
With(json, field, j) == Obj((field :> j) @@ json.obj)

\* Variants of a field: its JSON value, or <<>> to leave it out, and whether the
\* manifest stays valid with it.  Right and Wrong make several at once.
Right(values) == {[json |-> <<j>>, meant |-> TRUE] : j \in values}
Wrong(values) == {[json |-> <<j>>, meant |-> FALSE] : j \in values}
Missing(meant) == {[json |-> <<>>, meant |-> meant]}

NameLists == Right({List(<<>>), List(<<Pair("a", "1"), Pair("a", "2")>>)})
  \cup Wrong({Null, Str("a"), List(<<Str("a")>>), List(<<Pair("a", "1"), Pair("a b", "1")>>),
              List(<<Without(Pair("a", "1"), "value")>>), List(<<With(Pair("a", "1"), "value", Null)>>)})

Handler(n, args) == Obj([name |-> Str(n), exec |-> List(args)])
Pre == Handler("pre-start", <<Str("/pre")>>)
Post == Handler("post-stop", <<Str("/post"), Str("x")>>)
Mount(n, p) == Obj([name |-> Str(n), path |-> Str(p)])
Port(n) == Obj([name |-> Str("web"), port |-> [num |-> n], protocol |-> Str("tcp")])

BaseApp == Obj([exec |-> List(<<Str("/app"), Str("x")>>), user |-> Str("0"), group |-> Str("0")])

\* An event no container has is accepted.
AppVariants ==
  [exec |-> Missing(FALSE) \cup Wrong({Null, List(<<>>), List(<<Str("app")>>), List(<<[num |-> 1]>>)}),
   user |-> Missing(FALSE) \cup Wrong({Str(""), [num |-> 0]})
              \cup Right({Str("7up"), Str("web"), Str("nobody")}),
   group |-> Missing(FALSE) \cup Wrong({Str("")}) \cup Right({Str("users")}),
   eventHandlers |-> Right({List(<<>>), List(<<Pre>>), List(<<Post, Pre>>),
                            List(<<Handler("stopped", <<Str("/pre")>>)>>)})
              \cup Wrong({Null, List(<<Pre, Pre>>), List(<<Handler("pre-start", <<>>)>>),
                          List(<<Pre, Handler("post-stop", <<Str("post")>>)>>), List(<<Without(Pre, "exec")>>)}),
   workingDirectory |-> Right({Str("/srv")}) \cup Wrong({Null, Str("srv")}),
   environment |-> Right({List(<<Pair("PATH", "/app"), Pair("X", "1")>>), List(<<Pair("USER", "u")>>)})
              \cup Wrong({List(<<Pair("X", "1"), Pair("X", "2")>>), List(<<Pair("", "1")>>), Null}),
   mountPoints |-> Right({List(<<Mount("data", "/data"), Mount("log", "/data")>>)})
              \cup Wrong({List(<<Mount("data", "/data"), Mount("data", "/log")>>), List(<<Mount("data", "data")>>),
                          List(<<With(Mount("data", "/data"), "readOnly", Null)>>)}),
   ports |-> Right({List(<<Port(2), Port(n)>>) : n \in {1, MaxPort - 1, MaxPort}})
              \cup Wrong({List(<<Port(2), Port(n)>>) : n \in {0, 65536}})
              \cup Wrong({List(<<With(Port(80), "protocol", Str("sctp"))>>), List(<<With(Port(80), "port", Str("80"))>>),
                          List(<<With(Port(80), "socketActivated", Str("true"))>>)}),
   isolators |-> NameLists]

\* A JSON object with the variants put in for its fields.
Change(json, variants) ==
  Obj([n \in {m \in DOMAIN variants : variants[m].json # <<>>} |-> variants[n].json[1]]
        @@ [n \in DOMAIN json.obj \ DOMAIN variants |-> json.obj[n]])
MeantOf(variants) == \A n \in DOMAIN variants : variants[n].meant
Choices(families, fields) ==
  {f \in [fields -> UNION {families[n] : n \in fields}] : \A n \in fields : f[n] \in families[n]}
UpToTwo(families) ==
  UNION {Choices(families, fields) : fields \in {{m, n} : m, n \in DOMAIN families}}

Changed(json, families) ==
  {[json |-> <<Change(json, f)>>, meant |-> MeantOf(f)] : f \in UpToTwo(families)}

Dependency(fields) == Obj([app |-> Str("base")] @@ fields)
\* Either kind of manifest is taken for an image's.
ManifestVariants ==
  [acKind |-> Missing(FALSE) \cup Wrong({Null, Str("Image")}) \cup Right({Str("ContainerRuntimeManifest")}),
   acVersion |-> Missing(FALSE) \cup Wrong({Str("1")}),
   name |-> Missing(FALSE) \cup Wrong({Str(""), Str("a b")}),
   labels |-> NameLists,
   app |-> Missing(TRUE) \cup Wrong({Null}) \cup Changed(BaseApp, AppVariants),
   dependencies |-> Right({List(<<>>), List(<<Dependency(<<>>), Dependency([labels |-> List(<<Pair("a", "1")>>)])>>)})
              \cup Wrong({List(<<Dependency([imageID |-> Str("sha")])>>), List(<<Dependency([labels |-> Null])>>),
                          List(<<Obj(<<>>)>>), Obj(<<>>)}),
   pathWhitelist |-> Right({List(<<Str("/app")>>)}) \cup Wrong({List(<<Str("app")>>), Str("/app")}),
   annotations |-> NameLists \cup Right({List(<<Pair("homepage", "http://a")>>)})
              \cup Wrong({List(<<Pair("homepage", "a")>>), List(<<Pair("documentation", "a")>>)})]

BaseManifest == Obj([acKind |-> Str("ImageManifest"), acVersion |-> Str("1.0.0"), name |-> Str("a"), app |-> BaseApp])
Manifests == {[json |-> <<BaseManifest>>, meant |-> TRUE], [json |-> <<List(<<>>)>>, meant |-> FALSE],
              [json |-> <<[notJson |-> TRUE]>>, meant |-> FALSE]}
  \cup Changed(BaseManifest, [ManifestVariants EXCEPT
                 !.app = Missing(TRUE) \cup Wrong({Null, BaseManifest})])
  \cup Changed(BaseManifest, [app |-> ManifestVariants.app])

(* Archives. *)
E(dot, kind, name, type) == [dot |-> dot, kind |-> kind, name |-> name, type |-> type]
TheManifest == E(FALSE, "manifest", "", REG)
Root == E(FALSE, "root", "", DIR)
File(n) == E(FALSE, "inside", n, REG)
Archive(entries, cut, text, meant) ==
  [opens |-> TRUE, entries |-> entries, cut |-> cut, text |-> text, meant |-> meant]

EntryKinds ==
  {TheManifest, E(TRUE, "manifest", "", REG), E(FALSE, "manifest", "", SOCK), E(FALSE, "manifest", "", DIR),
   Root, E(TRUE, "root", "", DIR), E(FALSE, "root", "", BLK), E(FALSE, "root", "", REG),
   File("x"), File("y"), E(TRUE, "inside", "x", REG), E(FALSE, "inside", "x", FIFO),
   E(FALSE, "sibling", "x", REG), E(TRUE, "sibling", "x", REG),
   E(FALSE, "outside", "", REG), E(TRUE, "outside", "", REG), E(FALSE, "short", "", DIR)}

\* What the format asks for: all but one are rootfs or in it.
WellFormed(entries) ==
  LET manifests == {i \in DOMAIN entries : entries[i].kind = "manifest"}
  IN  /\ \E i \in manifests : manifests = {i} /\ entries[i].type = REG
      /\ \A i \in DOMAIN entries \ manifests :
           \/ entries[i].kind = "inside"
           \/ entries[i].kind = "root" /\ entries[i].type = DIR

ShortArchives ==
  {Archive(s, cut, BaseManifest, WellFormed(s) /\ cut = "no") :
     s \in UNION {[1 .. n -> EntryKinds] : n \in 1 .. 2}
           \cup {<<TheManifest>> \o s : s \in [1 .. 2 -> EntryKinds]},
     cut \in {"no", "header", "data"}}
LongArchives ==
  {Archive(<<TheManifest, Root>> \o s, cut, BaseManifest, WellFormed(s \o <<TheManifest>>) /\ cut = "no") :
     s \in [1 .. 3 -> {File("x"), File("y"), E(FALSE, "sibling", "x", REG)}], cut \in {"no", "data"}}

MCReplacements ==
  {Archive(<<TheManifest, File("x")>>, "no", BaseManifest, TRUE),
   Archive(<<E(FALSE, "short", "", DIR)>>, "no", BaseManifest, FALSE),
   Archive(<<TheManifest>>, "no", [notJson |-> TRUE], FALSE),
   [Archive(<<>>, "no", BaseManifest, FALSE) EXCEPT !.opens = FALSE]}
MCArchives == MCReplacements \cup ShortArchives \cup LongArchives
  \cup {Archive(<<TheManifest, Root, File("x")>>, "no", m.json[1], m.meant) : m \in Manifests}

(* Manifests of containers. *)
Ref == Obj([imageID |-> Str("sha-1")])
RefVariants ==
  [imageID |-> Missing(FALSE) \cup Wrong({Str("sha")}),
   app |-> Right({Str("a")}) \cup Wrong({Str("a b")}),
   isolators |-> NameLists,
   annotations |-> NameLists]
BaseVolume == Obj([kind |-> Str("host"), fulfills |-> List(<<Str("data")>>), source |-> Str("/srv")])
VolumeVariants ==
  [kind |-> Right({Str("empty")}) \cup Wrong({Str("other")}),
   fulfills |-> Missing(FALSE) \cup Right({List(<<>>)}),
   source |-> Missing(FALSE) \cup Wrong({Str("srv")}),
   readOnly |-> Right({[bool |-> TRUE]}) \cup Wrong({Null})]
Named == With(With(With(Ref, "app", Str("a")), "isolators", List(<<Pair("a", "1")>>)),
              "annotations", List(<<Pair("a", "1")>>))
RuntimeVariants ==
  [uuid |-> Wrong({Str("1")}),
   apps |-> Right({List(<<>>), List(<<Named, Ref>>)}) \cup
            {[json |-> <<List(<<Named, v.json[1]>>)>>, meant |-> v.meant] :
               v \in Changed(Ref, RefVariants) \cup Changed(Named, RefVariants)},
   volumes |-> Right({List(<<>>)}) \cup
            {[json |-> <<List(<<v.json[1]>>)>>, meant |-> v.meant] : v \in Changed(BaseVolume, VolumeVariants)},
   isolators |-> NameLists,
   annotations |-> NameLists]
BaseRuntime == Obj([acKind |-> Str("ContainerRuntimeManifest"), acVersion |-> Str("1.0.0"), uuid |-> Str("u-u-i-d"),
                    apps |-> List(<<Named>>)])
MCRuntimes == {v.json[1] : v \in Changed(BaseRuntime, RuntimeVariants)}

MCNumberOf == ("0" :> 0) @@ ("7up" :> 7)
MCPasswdNames == ("root" :> 0) @@ ("web" :> 33)
MCDefaultEnv == ("PATH" :> "/bin") @@ ("TERM" :> "xterm")
===============================================================================
