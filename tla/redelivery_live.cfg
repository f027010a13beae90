SPECIFICATION FairSpec
CONSTANTS
  Orders = {o1}
  Handlers = {h1, h2}
  Requests = {r1}
  CronJobs = {c1}
  NoOrder = NoOrder
  NoMessage = NoMessage
  QueuesDeclared = TRUE
  ClientEdits <- NoEdits
  MaxEdits = 0
  MaxErrors = 0
  MaxRedeliveries = 1
PROPERTIES
  CreatedIsConsumed
  ExpiredIsNotified
CHECK_DEADLOCK FALSE
