SPECIFICATION Spec
CONSTANTS
  g1 = g1
  g2 = g2
  Containers = {c1, c2}
  Clients = {g1, g2}
  Pids = {p1}
  Files = {}
  Special = {}
  Commands <- GcAndStatus
  Faults = {"io", "crash", "reuse"}
SYMMETRY Symmetry
INVARIANTS TypeOK StoreInv GcSparesLive ExitedIsGone
PROPERTIES LiveTreeKept KeepsLedger
