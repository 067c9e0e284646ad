\* One booking, two calls of processPayment at a time, three jobs; all may fail.
SPECIFICATION Spec
CONSTANTS
  b1 = b1  b2 = b2  b3 = b3
  u1 = u1  u2 = u2
  None = None
  Bookings = {b1}
  Users = {u1, u2}
  UserOf <- MCUserOf
  Jobs = {j1, j2, j3}
  Calls = {c1, c2}
  Readers = {}
  Payers = {b1}
  Cancellers = {b1}
  MaxAttempts = 2
  TotalSeats = 1
  MaxScore = 1
  Faulty = TRUE
SYMMETRY SlotSymmetry
INVARIANTS
  ConfirmedIsPaid
\* Every booking ends and no id is used twice: the instance may stop.
CHECK_DEADLOCK FALSE
