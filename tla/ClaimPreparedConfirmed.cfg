SPECIFICATION RecFairSpec
CONSTANTS
  early = early
  same = same
  late = late
  away = away
  abroad = abroad
  pitch = pitch
  closed = closed
  lights = lights
  heating = heating
  broken = broken
  loop = loop
  admin = admin
  Nobody = Nobody
  Slot <- MCSlots
  ActiveField = {pitch}
  Simple = {}
  Request = {early}
  Utility = {lights}
  Bookable = {lights}
  Wanted <- OneUtility
  Faults = {}
  PoolSize = 15
  MaxCrashes = 1
  Recoverer = {loop}
  Cancellable = {}
  RecordsExpire = FALSE
CHECK_DEADLOCK FALSE
PROPERTY PreparedIsConfirmed
