SPECIFICATION Spec
CONSTANTS
  Modes = {"dump"}
  Handlers = {}
  MaxOutput = 0
  Capacity = 1
  Faults = {"pty"}
INVARIANT StdoutImpliesWait
