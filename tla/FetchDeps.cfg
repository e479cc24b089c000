SPECIFICATION Spec
CONSTANTS
  a = a
  b = b
  c = c
  Images = {a, b, c}
  Root = a
  Catalogs <- MCCatalogs
  MaxDepth = 4
  MaxHeld = 30
  Faults = {"net", "stall", "mkdir"}
INVARIANTS ListInv FetchedIsWanted FetchedIsSound DependencyOnTop CrashedInCycle ExhaustedByDoubling
PROPERTY FetchEnds
