SPECIFICATION FairSpec
CONSTANTS
  early = early
  same = same
  late = late
  away = away
  abroad = abroad
  pitch = pitch
  closed = closed
  lights = lights
  heating = heating
  broken = broken
  Nobody = Nobody
  Slot <- MCSlots
  ActiveField = {pitch}
  Request = {early, same, late}
  Simple = {same}
  Utility = {lights, heating}
  Bookable = {lights, heating}
  Wanted <- TwoUtilities
  Faults = {"call"}
  PoolSize = 2
  MaxCrashes = 1
INVARIANTS RefusalFreesSlot AnswerMatchesOutcome
PROPERTIES DecisionIsFinal PendingIsResolved EveryRequestAnswered
CHECK_DEADLOCK FALSE
