\* A submission and two retries by a patient client, within one window of time.
SPECIFICATION Spec
CONSTANTS
  user = user
  addr = addr
  key = key
  PerUser = 2
  Requests = {r1, r2, r3}
  Attempts = {r1, r2, r3}
  Users <- MCUsers
  Keys <- MCKeys
  Clients <- MCClients
  Limit <- MCLimit
  By <- MCBy
  From <- MCFrom
  KeyOf <- MCKeyOf
  None = None
  Window = 1
  MaxTime = 0
  Seats = 1
  OpenAt = 0
  CloseAt = 1
  Patient = TRUE
  Faulty = TRUE
SYMMETRY RouteSymmetry
INVARIANTS
  TypeOK
  BookingsBounded
  ReplaysIdentical
CHECK_DEADLOCK FALSE
