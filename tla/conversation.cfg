SPECIFICATION Spec
CONSTANTS
  None = None
  Items = {i1}
  Sections = {menu, empty}
  SectionOf <- AllInOneSection
  GoneItems = {gone}
  Modes = {"takeaway"}
  Methods = {cash, mtn}
  Confirmations = {f1, f2}
  Threads = {t1, t2}
  MaxQuantity = 2
  MaxMessages = 5
SYMMETRY Symmetry
INVARIANTS PaymentIsForTheOrder ReviewIsOfTheCart
CHECK_DEADLOCK FALSE
