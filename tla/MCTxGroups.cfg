\* Two feature groups: what one call pads while it writes the other.
SPECIFICATION Spec
CONSTANTS
  Keys <- TwoKeys
  Features = {f, g}
  NoAddr = NoAddr
  Signals = {"feature"}
  Modes = {"merge"}
  PrimaryLeads = TRUE
  Deviations = {}
  MaxCalls = 2
  Writers = {local, ray}
  RayWriters = {ray}
  Exclusive = TRUE
  Faults = {"task", "log", "restore", "interrupt", "crash"}
  MaxFaults = 1
SYMMETRY FeatureSymmetry
INVARIANTS
  TypeOK
PROPERTIES
  Atomic
\* The bound on calls stops the behaviours.
CHECK_DEADLOCK FALSE
