\* The program ends, or is stuck in a bad stream or in its progress bar.
SPECIFICATION FairSpec
CONSTANTS
  MaxEntries = 3
  MaxSize = 1
CHECK_DEADLOCK FALSE
INVARIANTS
  TypeOK
  TranslatesKnownLog
  OnlyLogsMakeBags
  BarEnds
PROPERTIES
  Terminates
