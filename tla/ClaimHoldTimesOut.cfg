SPECIFICATION Spec
CONSTANTS
  anna = anna
  bruno = bruno
  pitch = pitch
  court = court
  User = {anna, bruno}
  Place = {court}
  First = court
  Booked <- NoBookings
  Free = Free
  Opening = 960
  Closing = 1080
  Duration = 60
  DayLength = 2880
  Minute = 2
  MaxMoves = 3
  Faults = {"booking"}
CHECK_DEADLOCK FALSE
PROPERTY HoldTimesOut
