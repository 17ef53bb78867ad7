\* An update in copy mode that ends before the values it is written over do.
SPECIFICATION ReadSpec
CONSTANTS
  Keys <- LineKeys
  Features = {f}
  Forward = {}
  NoAddr = NoAddr
  Signals = {"feature"}
  Modes = {"copy"}
  PrimaryLeads = TRUE
  Deviations = {"tail"}
  MaxCalls = 2
INVARIANTS
  ReadsServeWrites
\* The bound on calls stops the behaviours.
CHECK_DEADLOCK FALSE
