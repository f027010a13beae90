SPECIFICATION Spec
CONSTANTS
  p1 = p1
  p2 = p2
  o1 = o1
  o2 = o2
  u1 = u1
  u2 = u2
  Products = {p1, p2}
  Orders = {o1, o2}
  Users = {u1, u2}
  Owner <- MCOwner
  Requests = {r1, r2}
  NoOrder = NoOrder
  Seeded = {p1}
  Carts <- MCCarts
  Stocks = {1, 2}
  MaxStock = 2
SYMMETRY Symmetry
INVARIANTS
  TypeOK
  ReferencesHold
  OnlyOverflowIsNegative
PROPERTIES
  UnitsAreKept
CHECK_DEADLOCK FALSE
