SPECIFICATION Spec
CONSTANTS
  anna = anna
  bruno = bruno
  pitch = pitch
  court = court
  User = {anna}
  Place = {pitch, court}
  First = court
  Booked <- OneBooking
  Free = Free
  Opening = 960
  Closing = 1080
  Duration = 60
  DayLength = 2880
  Minute = 2
  MaxMoves = 4
  Faults = {"page", "socket", "booking"}
CHECK_DEADLOCK FALSE
INVARIANTS TypeOK CalendarIsCurrent GridAgreesWithServer BookedRangeIsTaken
PROPERTY AllFreeInTheEnd
