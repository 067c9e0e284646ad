\* Two bookings, one of which may be paid, under the fairness of the worker, requests and timers.
SPECIFICATION FairSpec
CONSTANTS
  b1 = b1  b2 = b2  b3 = b3
  u1 = u1  u2 = u2
  None = None
  Bookings = {b1, b3}
  Users = {u1, u2}
  UserOf <- MCUserOf
  Jobs = {j1, j2}
  Calls = {c1}
  Readers = {}
  Payers = {b1}
  Cancellers = {}
  MaxAttempts = 2
  TotalSeats = 1
  MaxScore = 1
  Faulty = FALSE
PROPERTIES
  UnpaidSeatGivenUp
  PromotionLands
\* Every booking ends and no id is used twice: the instance may stop.
CHECK_DEADLOCK FALSE
