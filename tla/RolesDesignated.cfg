\* The designated operator signs in for the first time, and nothing fails.
SPECIFICATION Spec
CONSTANTS
  r1 = r1
  r2 = r2
  admin = admin
  staff = staff
  other = other
  Requests <- OneRequest
  Addresses <- Admins
  Designated <- Admins
  ConsoleDesignated <- Admins
  Assigned <- CollectorOrOperator
  MaxUsers = 1
  MaxRows = 1
  MaxChanges = 1
  MaxFaults = 0
PROPERTIES DesignatedAfterSignIn
CHECK_DEADLOCK FALSE
