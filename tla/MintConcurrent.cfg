\* Two approvals and two sweeps of one submission overlap.
SPECIFICATION Spec
CONSTANTS
  s1 = s1
  s2 = s2
  e1 = e1
  e2 = e2
  w1 = w1
  w2 = w2
  NoRow = NoRow
  Submissions <- OneSubmission
  Enqueuers <- TwoEnqueuers
  Workers <- TwoWorkers
  Backoff <- ExponentialBackoff
  MaxAttempts = 2
  RetryBase = 1
  RetryMax = 2
  Limit = 1
  MaxJobs = 2
  MaxFaults = 1
  MaxRows = 6
  ReadsFail = TRUE
CHECK_DEADLOCK FALSE
SYMMETRY HandlerSymmetry
INVARIANTS EveryTxIsLogged
