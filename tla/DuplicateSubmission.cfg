\* A retry that does not wait for the first answer.
SPECIFICATION Spec
CONSTANTS
  user = user
  addr = addr
  key = key
  PerUser = 2
  Requests = {r1, r2}
  Attempts = {r1, r2}
  Users <- MCUsers
  Keys <- MCKeys
  Clients <- MCClients
  Limit <- MCLimit
  By <- MCBy
  From <- MCFrom
  KeyOf <- MCKeyOf
  None = None
  Window = 1
  MaxTime = 2
  Seats = 0
  OpenAt = 1
  CloseAt = 2
  Patient = FALSE
  Faulty = FALSE
SYMMETRY RouteSymmetry
INVARIANTS
  OneBookingPerKey
CHECK_DEADLOCK FALSE
