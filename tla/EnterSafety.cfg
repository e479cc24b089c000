SPECIFICATION EnterSpec
CONSTANTS
  Containers = {c1, c2}
  Clients = {g}
  Visitors = {e}
  Pids = {p1, p2}
  Files = {f}
  Special = {f}
  Commands <- GcOnly
  Faults = {"io", "crash"}
SYMMETRY Symmetry
INVARIANTS EnterInv EntersOneContainer ShellKeepsTree
