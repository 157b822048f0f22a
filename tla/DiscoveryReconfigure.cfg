SPECIFICATION Spec
CONSTANTS
  gc = gc
  other = other
  NoAddress = NoAddress
  Malformed = Malformed
  InitialAddress = NoAddress
  Senders <- OneSender
  Servers <- OneSender
  RequestDepth = 2
  StatusDepth = 1
  MaxTroubles = 0
PROPERTY
  OnlyReconfiguresDisconnected
