SPECIFICATION Spec
CONSTANTS
  None = None
  Items = {i1, i2}
  Prices = {low, high}
  MaxVersion = 3
SYMMETRY Symmetry
INVARIANTS TypeOK ChangesAreAcknowledged
CHECK_DEADLOCK FALSE
