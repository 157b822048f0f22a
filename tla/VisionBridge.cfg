SPECIFICATION FairSpec
CONSTANTS
  KernelDepth = 2
  MaxPackets = 4
  lo = lo
  eth = eth
  wlan = wlan
  Nics <- ThreeNics
  InterfaceLists <- Machines
  InterfaceAddresses <- Parameters
\* The process may stop after the destructor.
CHECK_DEADLOCK FALSE
INVARIANTS
  TypeOK
  JoinsWhatItCan
  PublisherOutlivesCallback
  PublishedInOrder
  CallbackKeepsItsPacket
  NoCallbackAfterDestroy
PROPERTIES
  HandedInOrder
  PublishesUntilError
  DestructorReturns
