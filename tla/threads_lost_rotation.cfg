SPECIFICATION Spec
CONSTANTS
  None = None
  SessionRefs = {s1, s2, s3}
  Threads = {t1, t2}
  Targets = {}
  Keys = {}
  CartRefs = {c1}
  MaxCalls = 3
SYMMETRY Symmetry
INVARIANTS SingleRotation
CHECK_DEADLOCK FALSE
