\* Two requests overlap, with a crash, a failed read or a failed write.
SPECIFICATION Spec
CONSTANTS
  s1 = s1
  h1 = h1
  h2 = h2
  artist = artist
  artist2 = artist2
  collector = collector
  collector2 = collector2
  None = None
  Submissions <- OneSubmission
  Users <- FourUsers
  ArtistOf <- ByArtist
  Buyers <- OneBuyer
  Handlers <- TwoHandlers
  MaxMint = 2
  MaxRequests = 4
  MaxFaults = 1
  ReadsFail = TRUE
CHECK_DEADLOCK FALSE
SYMMETRY HandlerSymmetry
INVARIANTS IssuanceIsApproved CustodyTrail
