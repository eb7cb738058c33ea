SPECIFICATION Spec
CONSTANTS
  None = None
  Subjects = {i1, i2}
  Attestations = {a1, a2}
  Verifications = {w1}
  Parties = {p1, p2}
  Contexts = {ctx}
  Purposes = {marketing}
  Versions = {v1, v2}
  FirstVersion = v1
  Keys = {k1, k2}
  Threads = {t1}
  MaxTime = 1
  MaxBindings = 1
  MaxPolicyChanges = 1
SYMMETRY Symmetry
INVARIANTS TypeOK VerifiedByOwnEvidence AllowedIsDecided
PROPERTIES RetryKeepsWithdrawal
CHECK_DEADLOCK FALSE
