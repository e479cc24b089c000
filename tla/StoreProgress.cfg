SPECIFICATION FairSpec
CONSTANTS
  g1 = g1
  g2 = g2
  Containers = {c1, c2}
  Clients = {g1, g2}
  Pids = {p1, p2}
  Files = {f}
  Special = {}
  Commands <- OneGc
  Faults = {}
INVARIANT NoOrphan
PROPERTIES RunningIsAlive SpentCollected
