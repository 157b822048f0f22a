\* The program ends.
SPECIFICATION Spec
CONSTANTS
  MaxEntries = 1
  MaxSize = 1
CHECK_DEADLOCK FALSE
INVARIANT
  PrintsWhatWasTranslated
