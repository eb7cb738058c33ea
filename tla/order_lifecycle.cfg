SPECIFICATION Spec
CONSTANTS
  None = None
  Orders = {o1}
  ClientRefs = {k1, k2}
  Whats = {w1, w2}
  Stages = {preparation}
  Completions = {served}
  Threads = {t1, t2}
SYMMETRY Symmetry
INVARIANTS TypeOK
PROPERTIES CancellationIsFinal ImplementsDecisions
CHECK_DEADLOCK FALSE
