SPECIFICATION EnableSpec
CONSTANTS
  c1 = c1
  c2 = c2
  p1 = p1
  p2 = p2
  tA = tA
  Calls = {c1, c2}
  Asked <- MCAsked
  Params = {p1, p2}
  PaysKeeper = {p1}
  NoParams = NoParams
  NoQueue = NoQueue
  Held <- MCHeld
  IsRegistry = TRUE
  RetryLimit = 1
  MaxCrashes = 1
  MaxFaults = 1
INVARIANTS
  EnableTypeOK
  OnlyTheStoredQueueIsWired
  LiveIsWired
PROPERTIES
  RequestsAreAnswered
\* the requests are finite, and once they are answered the worker is idle
CHECK_DEADLOCK FALSE
