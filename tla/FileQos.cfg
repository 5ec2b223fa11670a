SPECIFICATION Spec
CONSTANTS
  Proc = {p1, p2}
  Fds = {d1}
  File = {f1, f2}
  Private = {f2}
  Obj = {s1, s2}
  Io = {i1}
  Priorities = {1, 40}
  NULL = NULL
  junk = junk
SYMMETRY Symmetry
CHECK_DEADLOCK FALSE
INVARIANTS NoUseAfterFree QosOutlivesBio SuccessInitialises PriorityKept
