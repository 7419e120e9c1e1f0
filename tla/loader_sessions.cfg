SPECIFICATION Spec
CONSTANTS
  Addresses = {a1, a2}
  MaxCreated = 4
CHECK_DEADLOCK FALSE
INVARIANTS TypeOK HandlesLive FreedBehindThread
PROPERTY DestructorReturns
