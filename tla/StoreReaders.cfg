CONSTANTS
  Devices = {d1, d2}
  Readers = {r1}
  MaxUpdates = 2
  MaxPolls = 1
  MaxFailures = 1
SPECIFICATION FairSpec
INVARIANTS
  TypeOK
  TerminalAnswerIsFinal
  TerminalDetailIsComplete
  ResultsPrecedeVerdict
PROPERTIES
  ImplementsLifecycle
  EventuallyExported
CHECK_DEADLOCK FALSE
