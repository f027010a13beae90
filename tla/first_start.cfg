SPECIFICATION FairSpec
CONSTANTS
  Orders = {o1}
  Handlers = {h1, h2}
  Requests = {r1}
  CronJobs = {c1}
  NoOrder = NoOrder
  NoMessage = NoMessage
  QueuesDeclared = FALSE
  ClientEdits <- AllEdits
  MaxEdits = 1
  MaxErrors = 1
  MaxRedeliveries = 0
PROPERTIES
  OrdersSettle
  PaidIsNotified
CHECK_DEADLOCK FALSE
