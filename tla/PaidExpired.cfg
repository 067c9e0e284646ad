\* A payment succeeds, and the booking expires.
SPECIFICATION Spec
CONSTANTS
  b1 = b1  b2 = b2  b3 = b3
  u1 = u1  u2 = u2
  None = None
  Bookings = {b1, b3}
  Users = {u1, u2}
  UserOf <- MCUserOf
  Jobs = {j1, j2}
  Calls = {c1}
  Readers = {}
  Payers = {b1}
  Cancellers = {b3}
  MaxAttempts = 2
  TotalSeats = 1
  MaxScore = 1
  Faulty = FALSE
SYMMETRY SlotSymmetry
INVARIANTS
  PaidIsNotExpired
\* Every booking ends and no id is used twice: the instance may stop.
CHECK_DEADLOCK FALSE
