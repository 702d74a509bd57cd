\* Two sessions on one device of any kind: two commands to an operation, a
\* second attempt to connect, two calls that fail after connecting.
SPECIFICATION FairSpec
CONSTANTS
  w1 = w1
  w2 = w2
  Workers = {w1, w2}
  Drivers <- MCDrivers
  Works <- MCWorks
  N = 2
  MaxAttempts = 2
  MaxFaults = 2
INVARIANTS
  TypeOK
  SentOnce
  CommittedTogether
  CleanReportIsTrue
  LeftoverNeedsLostSession
PROPERTIES
  SessionsEnd
CHECK_DEADLOCK FALSE
