\* The worker is the only writer and no request is lost.
SPECIFICATION Spec
CONSTANTS
  r1 = r1
  r2 = r2
  w1 = w1
  w2 = w2
  Readers <- MCReaders
  Writers = {}
  NoEntry = NoEntry
  TTL = 2
  MaxFill = 1
  MaxTime = 5
  MaxVersion = 2
INVARIANT
  WritesInvalidate
CHECK_DEADLOCK FALSE
