\* One user, three bookings, two seats.
SPECIFICATION Spec
CONSTANTS
  b1 = b1  b2 = b2  b3 = b3
  u1 = u1  u2 = u2
  None = None
  Bookings = {b1, b2, b3}
  Users = {u1}
  UserOf <- MCOneUser
  Jobs = {j1, j2}
  Calls = {}
  Readers = {}
  Payers = {}
  Cancellers = {b1}
  MaxAttempts = 2
  TotalSeats = 2
  MaxScore = 1
  Faulty = FALSE
SYMMETRY SlotSymmetry
INVARIANTS
  OneHoldPerUser
\* Every booking ends and no id is used twice: the instance may stop.
CHECK_DEADLOCK FALSE
