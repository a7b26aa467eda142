\* One row from before the column is offered to two works.
SPECIFICATION Spec
CONSTANTS
  s1 = s1
  s2 = s2
  old = old
  r1 = r1
  r2 = r2
  op = op
  NoSubmission = NoSubmission
  NoRow = NoRow
  Artist = Artist
  Nobody = Nobody
  Operators <- OneOperator
  Submissions <- TwoWorks
  Legacy <- OneRow
  Title <- BearsFirstTitle
  LegacyIssued <- FirstIssued
  Total = 1
  DualWrite = FALSE
  Reviews <- OneReview
  Lists <- OneList
  MaxApprovals = 2
  MaxFaults = 1
PROPERTIES LinksStay
CHECK_DEADLOCK FALSE
