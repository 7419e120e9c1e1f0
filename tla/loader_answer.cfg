SPECIFICATION Spec
CONSTANTS
  Addresses = {a1}
  MaxCreated = 1
CHECK_DEADLOCK FALSE
PROPERTY Answered
