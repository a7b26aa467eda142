\* Two overlapping requests, two idempotency keys, two provider events, one abort.
SPECIFICATION FairSpec
CONSTANTS
  r1 = r1
  r2 = r2
  k1 = k1
  k2 = k2
  NoKey = NoKey
  Requests <- TwoRequests
  IdempotencyKeys <- TwoKeys
  MaxEvents = 2
  MaxFaults = 1
INVARIANTS TypeOK OneOrderPerKey OrderFollowsEvents EventAppliedOnce AckedIsRecorded
PROPERTIES EventsArrive
