\* One request at a time, with a crash or a failed write.
SPECIFICATION FairSpec
CONSTANTS
  s1 = s1
  h1 = h1
  h2 = h2
  artist = artist
  artist2 = artist2
  collector = collector
  collector2 = collector2
  None = None
  Submissions <- OneSubmission
  Users <- FourUsers
  ArtistOf <- ByArtist
  Buyers <- TwoBuyers
  Handlers <- OneHandler
  MaxMint = 2
  MaxRequests = 4
  MaxFaults = 1
  ReadsFail = FALSE
CHECK_DEADLOCK FALSE
INVARIANTS TypeOK OwnerHasTheMaster CertificatesChained ChronicleChained
PROPERTIES ImplementsLifecycle CertificatesCatchUp
