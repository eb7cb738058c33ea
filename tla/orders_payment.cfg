SPECIFICATION OneSessionSpec
CONSTANTS
  None = None
  SessionRefs = {s1, s2}
  Correlations = {corr}
  Handles = {h1, h2}
  Confirmations = {f1, f2}
  Contents = {m1}
  ClientRefs = {c1, c2}
  Threads = {t1}
  Happenings = {"rotate", "move"}
  MoveTargets = {"human_handoff", "review"}
  MaxMoves = 2
  MaxTime = 0
  MaxReplaced = 0
  Policies <- CounterOrNot
  MaxPolicies = 2
SYMMETRY Symmetry
INVARIANTS PaymentTypeOK PaymentIsForShownOrder OfferWasPermitted
PROPERTIES ShownOrderIsKept
CHECK_DEADLOCK FALSE
