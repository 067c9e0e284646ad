\* Two users with two requests each, two processes, two slots, three tokens.
SPECIFICATION Spec
CONSTANTS
  Users = {u1, u2}
  PerUser = 2
  Requests <- MCRequests
  By <- MCBy
  Tokens = {t1, t2, t3}
  MaxConcurrent = 2
  Subscribers = 2
  None = None
  Faulty = TRUE
SYMMETRY RoomSymmetry
INVARIANTS
  TypeOK
  NoUndercount
PROPERTIES
  SlotsSpec
CHECK_DEADLOCK FALSE
