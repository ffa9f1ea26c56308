SPECIFICATION FairSpec
CONSTANTS
  r1 = r1  r2 = r2  t1 = t1
  Readers = {r1, r2}
  Turns = {t1}
  Session = session
  Sizes = {1, 2}
  MaxReaders = 2
  MaxQueueEvents = 2
  MaxQueueBytes = 3
  MaxPublished = 4
CHECK_DEADLOCK FALSE
INVARIANTS
  TypeOK
  SequencesNameEvents
PROPERTIES
  NothingStale
  FeedSpec
  ReadersAreReleased
