SPECIFICATION Spec
CONSTANTS
  Procs = {"p", "q"}
  Roots = {"p"}
  Argvs <- MCArgvs
  DashText <- MCDashText
  LabelOf <- MCLabelOf
  DefaultLabels <- MCDefaultLabels
  Words <- MCWords
  TextOf <- MCTextOf
  ContainersPath <- MCContainersPath
  ImagesPath <- MCImagesPath
  InitialDirs <- MCInitialDirs
  Faults = {"net", "stall", "disk", "deps", "uuid"}
INVARIANTS DiscoveryInv ArgsAsRead SomeoneGetsThrough StoredWhereLooked
PROPERTY FetchSettles
