SPECIFICATION Spec
CONSTANTS
  Orders = {o1}
  Handlers = {h1, h2}
  Requests = {r1}
  CronJobs = {c1}
  NoOrder = NoOrder
  NoMessage = NoMessage
  QueuesDeclared = TRUE
  ClientEdits <- NoEdits
  MaxEdits = 0
  MaxErrors = 1
  MaxRedeliveries = 0
INVARIANTS
  FailedCallsAreRetried
CHECK_DEADLOCK FALSE
