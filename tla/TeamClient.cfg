\* Two servers, so that a reconnect can go elsewhere.
SPECIFICATION FairSpec
CONSTANTS
  s1 = s1
  s2 = s2
  NoAddress = NoAddress
  Malformed = Malformed
  InitialAddress = s1
  Servers <- TwoServers
  MaxPolls = 2
  BufferSize = 3
  MaxOwed = 2
INVARIANTS
  TypeOK
  TruthfulUnlessLapsed
  ConnectTruthful
  InStepUnlessLapsed
  StepAgreesWithSocket
PROPERTIES
  DiesOnlyOfReset
  ImplementsService
  HandlersReturn
  DeadLinkNoticed
