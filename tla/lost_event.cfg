SPECIFICATION FairSpec
CONSTANTS
  Orders = {o1}
  Handlers = {h1, h2}
  Requests = {r1}
  CronJobs = {c1}
  NoOrder = NoOrder
  NoMessage = NoMessage
  QueuesDeclared = FALSE
  ClientEdits <- NoEdits
  MaxEdits = 0
  MaxErrors = 0
  MaxRedeliveries = 0
PROPERTIES
  CreatedIsConsumed
CHECK_DEADLOCK FALSE
