SPECIFICATION Spec
CONSTANTS
  Modes = {"detached", "wait", "dump"}
  Handlers = {"pre-start", "post-stop"}
  MaxOutput = 4
  Capacity = 2
  Faults = {"pty", "clone", "setup", "fork", "exec", "kill", "interrupt"}
INVARIANTS Confined OneAtATime WaitImplied OutputComplete LostUnattended StartInv
PROPERTY RunEnds
