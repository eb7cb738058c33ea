SPECIFICATION Spec
CONSTANTS
  None = None
  SessionRefs = {s1, s2, s3}
  Threads = {t1, t2}
  Targets = {"merchant_context", "browsing", "human_handoff"}
  Keys = {k1, k2}
  CartRefs = {c1, c2}
  MaxCalls = 3
SYMMETRY Symmetry
INVARIANTS TypeOK
PROPERTIES RotationUnlessLate OnlyLateCallsLose
CHECK_DEADLOCK FALSE
