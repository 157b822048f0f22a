SPECIFICATION FairSpec
CONSTANTS
  gc = gc
  other = other
  NoAddress = NoAddress
  Malformed = Malformed
  InitialAddress = NoAddress
  Senders <- OneSender
  Servers <- OtherServers
  RequestDepth = 3
  StatusDepth = 1
  MaxTroubles = 2
INVARIANTS
  TypeOK
  NoFalseDiscovery
PROPERTIES
  RefereeKeepsFlowing
  Settles
