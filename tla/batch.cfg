SPECIFICATION FairSpec
CONSTANTS
  Orders = {o1, o2}
  Handlers = {h1}
  Requests = {r1}
  CronJobs = {c1}
  NoOrder = NoOrder
  NoMessage = NoMessage
  QueuesDeclared = TRUE
  ClientEdits <- OnlyDeletes
  MaxEdits = 1
  MaxErrors = 0
  MaxRedeliveries = 0
INVARIANTS
  NotificationsAreTrue
PROPERTIES
  PaidIsNotified
  ExpiredIsNotified
CHECK_DEADLOCK FALSE
