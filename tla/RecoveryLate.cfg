SPECIFICATION RecSpec
CONSTANTS
  early = early
  same = same
  late = late
  away = away
  abroad = abroad
  pitch = pitch
  closed = closed
  lights = lights
  heating = heating
  broken = broken
  loop = loop
  admin = admin
  Nobody = Nobody
  Slot <- MCSlots
  ActiveField = {pitch}
  Simple = {}
  Request = {early, late}
  Utility = {lights}
  Bookable = {lights}
  Wanted <- OneUtility
  Faults = {"call", "db"}
  PoolSize = 15
  MaxCrashes = 0
  Recoverer = {loop}
  Cancellable = {early}
  RecordsExpire = TRUE
CHECK_DEADLOCK FALSE
INVARIANTS RecTypeOK UnanimousCommit
PROPERTY InsertedIntoFreeSlot
