------------------------------ MODULE MCDiscovery ------------------------------
(* An instance of Discovery for TLC. *)
EXTENDS Discovery

MCDashText == [arg \in {"--", "-v", "-help", "-nodeps", "-x//app", "-a:b"} |->
  CASE arg = "--" -> "-" [] arg = "-v" -> "v" [] arg = "-help" -> "help"
    [] arg = "-nodeps" -> "nodeps" [] arg = "-x//app" -> "x//app" [] arg = "-a:b" -> "a:b"]

Label(n, text) == [name |-> n, value |-> text]
MCLabelOf ==
  [arg \in {"version:/", "version:2", ":x", "-a:b"} |->
     CASE arg = "version:/" -> Label("version", <<Nothing, Nothing>>)
       [] arg = "version:2" -> Label("version", <<<<"2">>>>)
       [] arg = ":x" -> Label("", <<<<"x">>>>)
       [] arg = "-a:b" -> Label("-a", <<<<"b">>>>)]
MCDefaultLabels == [version |-> <<<<"1">>>>, os |-> <<<<"linux">>>>, arch |-> <<<<"amd64">>>>]

MCWords == {"", ".", "..", ".aci", "tmp", "nscn", "containers", "images", "app", "x", "y", "b", "1", "2", "linux", "amd64"}

\* Names with directories, with a dash, with entries that lead nowhere or up, and one
\* that takes the file of app for a directory.
Names == {"app", "-x//app", "/x/app", "x/./../app", "app.aci/y"}
MCTextOf == [n \in Names |->
  CASE n = "app" -> <<<<"app">>>>
    [] n = "-x//app" -> <<<<"", "x">>, Nothing, <<"app">>>>
    [] n = "/x/app" -> <<Nothing, <<"x">>, <<"app">>>>
    [] n = "x/./../app" -> <<<<"x">>, Here, Up, <<"app">>>>
    [] n = "app.aci/y" -> <<<<"app", "1", "linux", "amd64", ".aci">>, <<"y">>>>]

\* Whatever the arguments, and those of processes that meet.
Misread ==
  {<<>>, <<"-help", "fetch", "app">>, <<"help", "x">>, <<"list">>, <<"fetch", "-nodeps">>,
   <<"fetch", "app", "-nodeps">>, <<"--", "--", "fetch">>}
Meeting ==
  {<<"fetch", "app">>, <<"--", "run", "app">>, <<"fetch", "-nodeps", "--", "-x//app">>,
   <<"-v", "fetch", "/x/app", "-a:b", "version:2", "version:/">>,
   <<"fetch", "x/./../app", ":x">>, <<"fetch", "app.aci/y">>}
MCArgvs == Misread \cup Meeting

Entries(names) == [n \in DOMAIN names |-> <<names[n]>>]
MCContainersPath == Entries(<<"tmp", "nscn", "containers">>)
MCImagesPath == Entries(<<"tmp", "nscn", "images">>)

\* /tmp alone, or with what an earlier command of root's has made.
MCInitialDirs ==
  LET tmp == [d \in {<<>>, Entries(<<"tmp">>)} |-> IF d = <<>> THEN "root" ELSE "all"]
  IN  {tmp, [d \in DOMAIN tmp \cup {Entries(<<"tmp", "nscn">>), MCImagesPath} |->
               IF d \in DOMAIN tmp THEN tmp[d] ELSE "root"]}
================================================================================
