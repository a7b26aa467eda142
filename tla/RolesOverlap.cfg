\* A designated operator and two others, two overlapping requests, one of them cut short.
SPECIFICATION Spec
CONSTANTS
  r1 = r1
  r2 = r2
  admin = admin
  staff = staff
  other = other
  Requests <- TwoRequests
  Addresses <- ThreePeople
  Designated <- Admins
  ConsoleDesignated <- Admins
  Assigned <- CollectorOrOperator
  MaxUsers = 2
  MaxRows = 3
  MaxChanges = 1
  MaxFaults = 1
INVARIANTS TypeOK PowerIsTraceable
CHECK_DEADLOCK FALSE
SYMMETRY InterchangeableStaff
