SPECIFICATION FairSpec
CONSTANTS
  i1 = i1
  i2 = i2
  e1 = e1
  e2 = e2
  k1 = k1
  k2 = k2
  Ids = {i1, i2}
  Emails = {e1, e2}
  Passwords = {k1, k2}
  Kept = Kept
  Requests = {r1, r2}
  Seeded <- MCSeeded
INVARIANTS
  TypeOK
  EmailsAreUnique
  PasswordIsLastSet
PROPERTIES
  AccessEnds
CHECK_DEADLOCK FALSE
