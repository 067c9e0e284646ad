\* One slot, one request per user, two processes; nothing fails.
SPECIFICATION Spec
CONSTANTS
  Users = {u1, u2}
  PerUser = 1
  Requests <- MCRequests
  By <- MCBy
  Tokens = {t1, t2, t3}
  MaxConcurrent = 1
  Subscribers = 2
  None = None
  Faulty = FALSE
INVARIANT LimitHolds
CHECK_DEADLOCK FALSE
