\* A submission and a retry by a patient client, before, in and after the hours.
SPECIFICATION Spec
CONSTANTS
  user = user
  addr = addr
  key = key
  PerUser = 1
  Requests = {r1, r2}
  Attempts = {r1, r2}
  Users <- MCUsers
  Keys <- MCKeys
  Clients <- MCClients
  Limit <- MCLimit
  By <- MCBy
  From <- MCFrom
  KeyOf <- MCKeyOf
  None = None
  Window = 2
  MaxTime = 2
  Seats = 1
  OpenAt = 1
  CloseAt = 2
  Patient = TRUE
  Faulty = TRUE
SYMMETRY RouteSymmetry
INVARIANTS
  TypeOK
  PassesBounded
  RefusedOnlyWhenBusy
  WindowObeysAdmin
  BookingsBounded
  ReplaysIdentical
CHECK_DEADLOCK FALSE
