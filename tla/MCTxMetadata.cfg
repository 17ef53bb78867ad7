\* A call on Ray, with no fault at all.
SPECIFICATION Spec
CONSTANTS
  Keys <- TwoKeys
  Features = {f}
  NoAddr = NoAddr
  Signals = {"feature"}
  Modes = {"copy"}
  PrimaryLeads = TRUE
  Deviations = {}
  MaxCalls = 1
  Writers = {ray}
  RayWriters = {ray}
  Exclusive = TRUE
  Faults = {}
  MaxFaults = 0
INVARIANTS
  MetadataLast
\* The bound on calls stops the behaviours.
CHECK_DEADLOCK FALSE
