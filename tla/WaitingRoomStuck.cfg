\* A user waits for ever.
SPECIFICATION FairSpec
CONSTANTS
  Users = {u1, u2}
  PerUser = 1
  Requests <- MCRequests
  By <- MCBy
  Tokens = {t1}
  MaxConcurrent = 1
  Subscribers = 1
  None = None
  Faulty = FALSE
PROPERTIES
  WaitersAdmitted
CHECK_DEADLOCK FALSE
