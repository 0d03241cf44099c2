SPECIFICATION Spec
CONSTANTS
  Event = {e1, e2, e3}
  MaxCrashes = 1
PROPERTIES
  ReadableStaysReadable
CHECK_DEADLOCK FALSE
