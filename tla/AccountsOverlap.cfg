\* One address, two overlapping requests.
SPECIFICATION Spec
CONSTANTS
  r1 = r1
  r2 = r2
  Requests <- TwoRequests
  MaxAccounts = 3
  MaxTokens = 4
INVARIANTS TypeOK UnverifiedHasToken LinkWorksOnce SessionsAreProved
PROPERTIES DisappearsForAReason
CHECK_DEADLOCK FALSE
SYMMETRY Interchangeable
