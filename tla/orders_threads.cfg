SPECIFICATION Spec
CONSTANTS
  None = None
  SessionRefs = {s1, s2, s3}
  Correlations = {corr, corr2}
  Handles = {h1, h2}
  Confirmations = {f1}
  Contents = {m1}
  ClientRefs = {c1, c2}
  Threads = {t1, t2}
  Happenings = {"lose", "rotate"}
  MoveTargets = {}
  MaxMoves = 0
  MaxTime = 0
  MaxReplaced = 0
SYMMETRY Symmetry
INVARIANTS TypeOK OneOrderPerConfirmation OrderIsClaimed SubmittingIsClaimed
PROPERTIES ImplementsPromise AnswerIsTheOrder
CHECK_DEADLOCK FALSE
