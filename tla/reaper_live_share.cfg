SPECIFICATION ReapSpec
CONSTANTS
  Readers = {r1, r2}
  LatestReaders = {r1, r2}
  FaultyReaders = {r2}
  ProducerMayCrash = FALSE
  Capacity = 1
  WriterLock = 4
  NoPid = NoPid
  MaxId = 2
PROPERTIES
  LiveShareKept
