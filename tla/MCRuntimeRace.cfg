\* Two registrations of one computed feature at one time.
SPECIFICATION Spec
CONSTANTS
  a = a
  b = b
  c = c
  d = d
  Features = {a, b}
  Exprs <- OneOverA
  Transformed <- NoTransforms
  Callers = {p, q}
  MaxCalls = 3
INVARIANTS
  RegisteredOnce
\* The bound on calls stops the behaviours.
CHECK_DEADLOCK FALSE
