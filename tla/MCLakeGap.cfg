\* An update copied over a table that skips an index key in between.
SPECIFICATION Spec
CONSTANTS
  Keys <- SmallKeys
  Features = {f}
  NoAddr = NoAddr
  Signals = {"feature"}
  Modes = {"copy"}
  PrimaryLeads = TRUE
  Deviations = {"gap"}
  MaxCalls = 3
INVARIANTS
  TablesAligned
\* The bound on calls stops the behaviours.
CHECK_DEADLOCK FALSE
