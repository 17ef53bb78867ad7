\* One call at a time, local or on Ray, with up to two faults.
SPECIFICATION FairSpec
CONSTANTS
  Keys <- TwoKeys
  Features = {f}
  NoAddr = NoAddr
  Signals = {"feature"}
  Modes = {"copy"}
  PrimaryLeads = TRUE
  Deviations = {}
  MaxCalls = 2
  Writers = {local, ray}
  RayWriters = {ray}
  Exclusive = TRUE
  Faults = {"task", "log", "restore", "interrupt", "crash"}
  MaxFaults = 2
INVARIANTS
  RolledBackIsRestored
  IndexUnique
PROPERTIES
  Atomic
  Settles
\* The bound on calls stops the behaviours.
CHECK_DEADLOCK FALSE
