SPECIFICATION FairSpec
CONSTANTS
  KernelDepth = 2
  MaxPackets = 2
  lo = lo
  eth = eth
  wlan = wlan
  Nics <- ThreeNics
  InterfaceLists <- OneMachine
  InterfaceAddresses <- NoParameter
\* The process may stop after the destructor.
CHECK_DEADLOCK FALSE
PROPERTY
  ListensWhileAlive
