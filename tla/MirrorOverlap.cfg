\* Two works, one row from before the column, a review and an operator's list that overlap, one failure.
SPECIFICATION FairSpec
CONSTANTS
  s1 = s1
  s2 = s2
  old = old
  r1 = r1
  r2 = r2
  op = op
  NoSubmission = NoSubmission
  NoRow = NoRow
  Artist = Artist
  Nobody = Nobody
  Operators <- OneOperator
  Submissions <- TwoWorks
  Legacy <- OneRow
  Title <- BearsFirstTitle
  LegacyIssued <- FirstIssued
  Total = 2
  DualWrite = TRUE
  Reviews <- OneReview
  Lists <- OneList
  MaxApprovals = 2
  MaxFaults = 1
INVARIANTS TypeOK GenesisOnce IssuedIsChronicled
PROPERTIES MirrorCatchesUp
CHECK_DEADLOCK FALSE
