\* Two workers and three jobs on a queue of two slots: the pool may be made
\* partly, the queue is full for the third push, release may begin anywhere.
CONSTANTS
  PoolSize = 2
  Jobs = {j1, j2, j3}
  NoJob = NoJob
  Capacity = 2
  Main = Main
SPECIFICATION FairSpec
INVARIANTS TypeOK NothingDeletedUnderWorker EndMeansExited HandedOverOnce
PROPERTIES ReleaseReturns QueuedJobRuns
CHECK_DEADLOCK FALSE
