\* Two calls at a time that register or store features of any name.
SPECIFICATION Spec
CONSTANTS
  a = a
  b = b
  c = c
  d = d
  Features = {a, b, c, d}
  Exprs <- ChainExprs
  Transformed <- TransformA
  Callers = {p, q}
  MaxCalls = 4
SYMMETRY CallerSymmetry
INVARIANTS
  TypeOK
  ReadsCompose
  FramesKeepVersions

  
\* The bound on calls stops the behaviours.
CHECK_DEADLOCK FALSE
