SPECIFICATION WebhookSpec
CONSTANTS
  None = None
  Items = {i1}
  Sections = {menu}
  SectionOf <- AllInOneSection
  GoneItems = {}
  Modes = {"takeaway"}
  Methods = {cash}
  Confirmations = {f1, f2}
  Threads = {t1, t2}
  MaxQuantity = 4
  MaxMessages = 0
  Callbacks = {c1}
  Payloads <- FivePayloads
  MaxFailures = 3
INVARIANTS WebhookTypeOK AcknowledgedIsAnswered AnsweredInOrder EffectsAreDelivered
PROPERTIES EveryCallbackIsAcknowledged
CHECK_DEADLOCK FALSE
