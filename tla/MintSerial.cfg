\* One enqueue and one sweep at a time, with a crash or a file error.
SPECIFICATION FairSpec
CONSTANTS
  s1 = s1
  s2 = s2
  e1 = e1
  e2 = e2
  w1 = w1
  w2 = w2
  NoRow = NoRow
  Submissions <- TwoSubmissions
  Enqueuers <- OneEnqueuer
  Workers <- OneWorker
  Backoff <- ExponentialBackoff
  MaxAttempts = 2
  RetryBase = 1
  RetryMax = 2
  Limit = 1
  MaxJobs = 2
  MaxFaults = 1
  MaxRows = 100
  ReadsFail = FALSE
INVARIANTS TypeOK QueuedOnce RetryBudget
PROPERTIES BackoffHonoured ImplementsLifecycle JobsSettle
