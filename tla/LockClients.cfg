SPECIFICATION Spec
CONSTANTS
  a = a
  b = b
  c = c
  pitch = pitch
  Nobody = Nobody
  Request = {a, b, c}
  Slot <- MCSlots
  MaxCrashes = 2
INVARIANTS TypeOK HolderOwnsOrLapsed MutualExclusion
PROPERTY LockIsFreedEventually
CHECK_DEADLOCK FALSE
