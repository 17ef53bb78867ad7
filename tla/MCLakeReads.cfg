\* What reads return, by name and by version, bounded and not.
SPECIFICATION ReadSpec
CONSTANTS
  Keys <- ZigzagKeys
  Features = {f, g}
  Forward = {g}
  NoAddr = NoAddr
  Signals = {"feature", "as_of_feature", "sparse_feature"}
  Modes = {"copy", "merge"}
  PrimaryLeads = TRUE
  Deviations = {}
  MaxCalls = 3
INVARIANTS
  TypeOK
  TablesAligned
  LastUpdatedIsHonest
  OneRowPerVersion
  NoDanglingAddr
  ReadsServeWrites
  BoundedReadsAgree
PROPERTIES
  OldVersionsStay
  VersionsSurvive
  Contract
\* The bound on calls stops the behaviours.
CHECK_DEADLOCK FALSE
