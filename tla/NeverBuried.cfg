\* One process, stopped or crashed once, around one job.
SPECIFICATION ListeningSpec
CONSTANTS
  Servers = {s1}
  Signals = {SIGTERM}
  Requests = {r1}
  Attempts = 2
  MaxStalls = 1
  MaxEnds = 1
  Faulty = TRUE
PROPERTIES
  ExhaustedAreBuried
CHECK_DEADLOCK FALSE
