SPECIFICATION Spec
CONSTANTS
  Orders = {o1}
  Handlers = {h1, h2}
  Requests = {r1}
  CronJobs = {c1}
  NoOrder = NoOrder
  NoMessage = NoMessage
  QueuesDeclared = TRUE
  ClientEdits <- OnlyReopenings
  MaxEdits = 1
  MaxErrors = 1
  MaxRedeliveries = 1
SYMMETRY Symmetry
INVARIANTS
  NoEventLost
  AckedEventsAreNoted
  NotChargedTwice
  PaidIsNotForgotten
  CompletedIsPaid
  NotificationsAreTrue
PROPERTIES
  ServicesFollowEdges
  ExpiredOnlyOnce
  ImplementsLifecycle
CHECK_DEADLOCK FALSE
