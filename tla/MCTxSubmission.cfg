\* A call on Ray, interrupted while it submits its tasks.
SPECIFICATION Spec
CONSTANTS
  Keys <- TwoKeys
  Features = {f}
  NoAddr = NoAddr
  Signals = {"feature"}
  Modes = {"merge"}
  PrimaryLeads = TRUE
  Deviations = {}
  MaxCalls = 2
  Writers = {ray}
  RayWriters = {ray}
  Exclusive = TRUE
  Faults = {"submission"}
  MaxFaults = 1
INVARIANTS
  RolledBackIsRestored
\* The bound on calls stops the behaviours.
CHECK_DEADLOCK FALSE
