SPECIFICATION ReapFairSpec
CONSTANTS
  Readers = {r1, r2}
  LatestReaders = {r2}
  FaultyReaders = {r2}
  ProducerMayCrash = TRUE
  Capacity = 1
  WriterLock = 4
  NoPid = NoPid
  MaxId = 3
PROPERTIES
  DeadAreReaped
