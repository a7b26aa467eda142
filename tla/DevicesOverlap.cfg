\* Two phones of one account, two overlapping calls, one fault.
SPECIFICATION FairSpec
CONSTANTS
  p1 = p1
  p2 = p2
  r1 = r1
  r2 = r2
  NoPhone = NoPhone
  Phones <- TwoPhones
  Requests <- TwoRequests
  MaxDevices = 2
  MaxRows = 5
  MaxFaults = 1
INVARIANTS TypeOK ActivatedIsRegistered PushesOutOnlyUnseen
PROPERTIES PushedOutPhoneWipes AccountRecovers
CHECK_DEADLOCK FALSE
