SPECIFICATION Spec
CONSTANTS
  None = None
  SessionRefs = {s1, s2}
  Aliases = {a1}
  Identities = {alice}
  Conversations = {conv}
  Correlations = {"corr"}
  Tables = {t1}
  Keys = {k1, k2}
  Projections <- TwoOrders
  CartRefs = {c1}
  QuoteRefs = {}
  HandoffRefs = {}
  MaxTime = 1
  MaxVersion = 2
  MaxCreated = 1
  MaxBindings = 1
  MaxEvidence = 1
SYMMETRY Symmetry
INVARIANTS TypeOK RotationChain EvidenceBacked OneMovePerKey
PROPERTIES ReopenedByXbosOnly ReferencesAreKept ImplementsRotation
CHECK_DEADLOCK FALSE
