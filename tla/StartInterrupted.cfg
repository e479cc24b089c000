SPECIFICATION Spec
CONSTANTS
  Modes = {"wait", "dump"}
  Handlers = {}
  MaxOutput = 1
  Capacity = 1
  Faults = {"interrupt"}
INVARIANT InterruptHarmless
