SPECIFICATION Spec
CONSTANTS
  MaxLen = 5
  SIMCLIST_MAX_SPARE_ELEMS = 2
  SIMCLIST_MINQUICKSORTELS = 3
  Data = {1, 2}
INVARIANTS RepOk MemoryAccounted ReadsRight
PROPERTIES ImplementsSequence
