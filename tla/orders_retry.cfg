SPECIFICATION FairSpec
CONSTANTS
  None = None
  SessionRefs = {s1}
  Correlations = {corr}
  Handles = {h1}
  Confirmations = {f1}
  Contents = {m1, m2}
  ClientRefs = {c1}
  Threads = {t1}
  Happenings = {"rotate", "lapse", "move", "replace", "lose", "tick"}
  MoveTargets = {"human_handoff", "canceled"}
  MaxMoves = 2
  MaxTime = 1
  MaxReplaced = 1
PROPERTIES RetryShowsTheOrder
CHECK_DEADLOCK FALSE
