SPECIFICATION Spec
CONSTANTS
  s1 = s1
  s2 = s2
  NoAddress = NoAddress
  Malformed = Malformed
  InitialAddress = s1
  Servers <- OneServer
  MaxPolls = 1
  BufferSize = 3
  MaxOwed = 2
PROPERTY
  PingIsSurvived
