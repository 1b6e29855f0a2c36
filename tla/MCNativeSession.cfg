SPECIFICATION FairSpec
CONSTANTS
  c1 = c1
  c2 = c2
  m1 = m1
  m2 = m2
  Call <- MCCall
  Arrival <- MCArrival
  Lease <- MCLease
  Size <- MCSize
  MaxMessages = 2
  MaxBufferedBytes = 3
  MaxMessageBytes = 2
INVARIANTS
  LeasesAreExact
  OutcomeHonest
  EndsAreTrue
PROPERTIES
  SendReturns
  CloseReturns
  GoneReleases
CONSTRAINT OneScene
