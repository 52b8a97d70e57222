SPECIFICATION Spec
CONSTANTS
  early = early
  same = same
  late = late
  away = away
  abroad = abroad
  pitch = pitch
  closed = closed
  lights = lights
  heating = heating
  broken = broken
  Nobody = Nobody
  Slot <- MCSlots
  ActiveField = {pitch}
  Request = {early, abroad, late}
  Simple = {}
  Utility = {lights, heating, broken}
  Bookable = {lights, heating}
  Wanted <- TwoVotes
  Faults = {"redis", "db"}
  PoolSize = 15
  MaxCrashes = 0
INVARIANTS TypeOK ExclusiveSlots UnanimousCommit AllOrNothing
PROPERTY ImplementsLedger
CHECK_DEADLOCK FALSE
