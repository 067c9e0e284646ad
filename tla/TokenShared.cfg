\* Two requests of one user and one token; nothing fails.
SPECIFICATION Spec
CONSTANTS
  Users = {u1, u2}
  PerUser = 2
  Requests <- MCRequests
  By <- MCBy
  Tokens = {t1}
  MaxConcurrent = 1
  Subscribers = 1
  None = None
  Faulty = FALSE
INVARIANT TokenUsedOnce
CHECK_DEADLOCK FALSE
