SPECIFICATION Spec
CONSTANTS
  NsPerUs = 2
  NsPerSec = 7
  TwoTo64 = 56
  TwoTo32 = 8
  NsPerDouble = 3
  MaxRepeated = 2
  Instants <- SomeInstants
CHECK_DEADLOCK FALSE
INVARIANTS
  MirrorsProtobufs
