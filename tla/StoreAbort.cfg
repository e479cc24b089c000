SPECIFICATION Spec
CONSTANTS
  g1 = g1
  g2 = g2
  Containers = {c1}
  Clients = {g1}
  Pids = {p1}
  Files = {f}
  Special = {}
  Commands <- OneGc
  Faults = {}
INVARIANT NoAbort
