SPECIFICATION Spec
CONSTANTS
  Capacity = 2
  MaxItems = 6
CHECK_DEADLOCK FALSE
PROPERTIES
  KeepsContract
