\* Two local writers of different feature groups at one time.
SPECIFICATION Spec
CONSTANTS
  Keys <- TwoKeys
  Features = {f, g}
  NoAddr = NoAddr
  Signals = {"feature"}
  Modes = {"copy"}
  PrimaryLeads = TRUE
  Deviations = {}
  MaxCalls = 2
  Writers = {v, w}
  RayWriters = {}
  Exclusive = FALSE
  Faults = {}
  MaxFaults = 0
INVARIANTS
  GroupsDontConflict
\* The bound on calls stops the behaviours.
CHECK_DEADLOCK FALSE
