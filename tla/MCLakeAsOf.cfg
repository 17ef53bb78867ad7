\* An as-of input that skips an index key within its range.
SPECIFICATION ReadSpec
CONSTANTS
  Keys <- LineKeys
  Features = {f}
  Forward = {}
  NoAddr = NoAddr
  Signals = {"feature", "as_of_feature"}
  Modes = {"merge"}
  PrimaryLeads = TRUE
  Deviations = {"asof"}
  MaxCalls = 3
INVARIANTS
  AsOfCarries
\* The bound on calls stops the behaviours.
CHECK_DEADLOCK FALSE
