SPECIFICATION Spec
CONSTANTS
  Orders = {o1}
  Handlers = {h1, h2}
  Requests = {r1, r2}
  CronJobs = {c1}
  NoOrder = NoOrder
  NoMessage = NoMessage
  QueuesDeclared = TRUE
  ClientEdits <- AllEdits
  MaxEdits = 2
  MaxErrors = 0
  MaxRedeliveries = 0
SYMMETRY Symmetry
INVARIANTS
  TypeOK
  OnlyDeletedOrdersFail
PROPERTIES
  ImplementsLifecycle
CHECK_DEADLOCK FALSE
