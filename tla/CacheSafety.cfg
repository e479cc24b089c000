SPECIFICATION Spec
CONSTANTS
  Fetchers = {f1, f2, f3}
  Blocks = 3
  ManifestAt = 2
  Faults = {"net", "crash", "disk"}
SYMMETRY Symmetry
INVARIANTS CacheInv QuietCacheWhole WholeUnlessRaced
PROPERTY SettledStays
