SPECIFICATION Spec
CONSTANTS
  None = None
  Threads = {t1, t2}
  Tokens = {k1, k2}
  Tables = {b1}
  Merchants = {b1, b2}
  MerchantOf <- OneMerchantEach
  MaxTime = 1
  MaxVersion = 2
  MaxCalls = 3
SYMMETRY Symmetry
INVARIANTS TypeOK SingleUse
PROPERTIES NoStaleEntry
CHECK_DEADLOCK FALSE
