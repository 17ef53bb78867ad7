\* An in-place update that stops before the end of its table.
SPECIFICATION Spec
CONSTANTS
  Keys <- SmallKeys
  Features = {f, g}
  NoAddr = NoAddr
  Signals = {"feature"}
  Modes = {"merge"}
  PrimaryLeads = TRUE
  Deviations = {"regress"}
  MaxCalls = 3
SYMMETRY FeatureSymmetry
INVARIANTS
  TablesAligned
\* The bound on calls stops the behaviours.
CHECK_DEADLOCK FALSE
