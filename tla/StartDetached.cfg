SPECIFICATION Spec
CONSTANTS
  Modes = {"detached"}
  Handlers = {"pre-start", "post-stop"}
  MaxOutput = 1
  Capacity = 1
  Faults = {}
INVARIANT AppRuns
