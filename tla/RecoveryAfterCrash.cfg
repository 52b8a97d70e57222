SPECIFICATION RecFairSpec
CONSTANTS
  early = early
  same = same
  late = late
  away = away
  abroad = abroad
  pitch = pitch
  closed = closed
  lights = lights
  heating = heating
  broken = broken
  loop = loop
  admin = admin
  Nobody = Nobody
  Slot <- MCSlots
  ActiveField = {pitch}
  Simple = {}
  Request = {early, late, away}
  Utility = {lights, broken}
  Bookable = {lights}
  Wanted <- UtilitiesOneRefused
  Faults = {}
  PoolSize = 15
  MaxCrashes = 1
  Recoverer = {loop, admin}
  Cancellable = {}
  RecordsExpire = FALSE
CHECK_DEADLOCK FALSE
INVARIANT ExclusiveSlots
PROPERTIES ImplementsAtomicCommit PreparedIsResolved
