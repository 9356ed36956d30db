SPECIFICATION FairSpec
CONSTANTS
  r1 = r1
  w1 = w1
  s1 = s1
  t1 = t1
  t2 = t2
  none = none
  Requests <- MCRequests
  Workers <- MCWorkers
  Publishers <- MCHandlers
  Submitters <- MCHandlers
  Streams <- MCStreams
  Topics <- MCTopics
  TopicOf <- MCTopicOf
  Capacity = 2
  DropWhenFull = TRUE
  MaxID = 4
  None = none
  NoJob = none
  Buffer = 1
  MaxJobs = 2
INVARIANTS
  TypeOK
  NoSendOnClosed
  InOrder
  WorkersEndFirst
PROPERTIES
  StopReturns
  PublishersProceed
  JobsTaken
CHECK_DEADLOCK FALSE
