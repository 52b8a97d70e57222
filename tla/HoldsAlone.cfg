SPECIFICATION Spec
CONSTANTS
  anna = anna
  bruno = bruno
  pitch = pitch
  court = court
  User = {anna}
  Place = {court}
  First = court
  Booked <- EarlyBooking
  Free = Free
  Opening = 960
  Closing = 1080
  Duration = 60
  DayLength = 2880
  Minute = 2
  MaxMoves = 4
  Faults = {"fetch", "booking", "publish", "recovery"}
CHECK_DEADLOCK FALSE
INVARIANTS NoHoldIsForgotten ShownHoldEnds CalendarIsCurrent
