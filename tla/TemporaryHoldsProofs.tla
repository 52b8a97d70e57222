------------------------- MODULE TemporaryHoldsProofs -------------------------
(***************************************************************************)
(* The browsers and their holds, for any users, places, grids and faults:  *)
(* what browsers read in the bookings and ask of the server is the same,   *)
(* a calendar is out of date only while something will put it right, and   *)
(* while connections last somebody will end every hold.                    *)
(***************************************************************************)
EXTENDS TemporaryHolds, SlotGridProofs
LOCAL INSTANCE SequencesExt

\* A click makes a selection of a selection.
LEMMA SelectionIsSelection ==
  ASSUME NEW c \in User, NEW s \in Calendar, selected[c] \in Selections
  PROVE  Selection(c, s) \in Selections
<1>. DEFINE old == selected[c]
<1>1. CASE Len(old) # 1
  BY <1>1 DEF Selection, Selections
<1>2. CASE Len(old) = 1
  <2>1. PICK f \in Calendar : old = <<f>>
    BY <1>2 DEF Selections, Ranges
  <2>2. f \in Int /\ s \in Int
    BY DEF Calendar
  <2>3. <<f, s>> \in Ranges \/ <<s, f>> \in Ranges
    BY <2>2 DEF Ranges
  <2>4. f <= s => <<f, s>> \in Ranges
    BY <2>2 DEF Ranges
  <2>5. ~ (f <= s) => <<s, f>> \in Ranges
    BY <2>2 DEF Ranges
  <2>. QED  BY <1>2, <2>1, <2>4, <2>5 DEF Selection, Selections
<1>. QED  BY <1>1, <1>2

\* A selection of two slots is a range.
LEMMA TwoSlotsAreARange ==
  ASSUME NEW sel \in Selections, Len(sel) = 2
  PROVE  sel \in Ranges
<1>1. Len(<<>>) = 0 /\ \A s \in Calendar : Len(<<s>>) = 1
  OBVIOUS
<1>. QED  BY <1>1 DEF Selections

\* Steps that leave places, selections and bookings as they are.
LEMMA Untouched ==
  ASSUME SelectionType, UNCHANGED <<at, selected, booking>>
  PROVE  SelectionType'
BY DEF SelectionType

\* Redraws only empty selections.
LEMMA RenderKeepsSelections ==
  ASSUME NEW c \in User, NEW p, NEW sh, SelectionType, Render(c, p, sh)
  PROVE  selected' \in [User -> Selections]
BY DEF SelectionType, Render, Selections

\* Every step makes ranges of ranges.
LEMMA SelectionStep ==
  ASSUME SelectionType, [Next]_vars
  PROVE  SelectionType'
<1>1. ASSUME NEW c \in User, NEW s \in Calendar, Click(c, s)
      PROVE  SelectionType'
  <2>1. selected' \in [User -> Selections]
    BY <1>1, SelectionIsSelection DEF Click, SelectionType
  <2>. QED  BY <1>1, <2>1 DEF Click, SelectionType, request
<1>2. ASSUME NEW c \in User, TimerFires(c) \/ LeavePage(c)
      PROVE  SelectionType'
  <2>1. selected' = [selected EXCEPT ![c] = <<>>] /\ UNCHANGED <<at, booking>>
    BY <1>2 DEF TimerFires, LeavePage, request
  <2>. QED  BY <2>1 DEF SelectionType, Selections
<1>3. ASSUME NEW c \in User, ChangePlace(c)
      PROVE  SelectionType'
  <2>1. PICK p \in Place : at' = [at EXCEPT ![c] = p] /\ Render(c, p, Blank)
    BY <1>3 DEF ChangePlace
  <2>2. UNCHANGED booking
    BY <1>3 DEF ChangePlace, request
  <2>. QED  BY <2>1, <2>2, RenderKeepsSelections DEF SelectionType
<1>4. ASSUME NEW c \in User, Receive(c) \/ Settle(c)
      PROVE  SelectionType'
  <2>1. UNCHANGED <<at, booking>>
    BY <1>4 DEF Receive, Settle, request
  <2>2. selected' = selected \/ \E p, sh : Render(c, p, sh)
    BY <1>4 DEF Receive, Settle, Ignore, Redraw, Mark
  <2>. QED  BY <2>1, <2>2, RenderKeepsSelections DEF SelectionType
<1>5. ASSUME NEW c \in User, Confirm(c)
      PROVE  SelectionType'
  <2>1. selected[c] \in Selections /\ Len(selected[c]) = 2
    BY <1>5 DEF Confirm, SelectionType
  <2>2. selected[c] \in Ranges
    BY <2>1, TwoSlotsAreARange
  <2>3. UNCHANGED <<at, selected>>
    BY <1>5 DEF Confirm, screen, view
  <2>. QED  BY <1>5, <2>2, <2>3 DEF Confirm, SelectionType, BookingType
<1>6. ASSUME NEW c \in User, Served(c)
      PROVE  SelectionType'
  <2>1. UNCHANGED <<at, selected>>
    BY <1>6 DEF Served, BookingInserted, BookingConfirmed, BookingAnnounced, BookingAnswered,
                BookingFailed, BookingRefused, screen, view
  <2>2. booking' \in [User -> BookingType \cup {NoBooking}]
    BY <1>6 DEF Served, BookingInserted, BookingConfirmed, BookingAnnounced, BookingAnswered,
                BookingFailed, BookingRefused, GiveUp, SelectionType, BookingType, NoBooking
  <2>. QED  BY <2>1, <2>2 DEF SelectionType
<1>7. ASSUME NEW c \in User,
             Fetched(c) \/ LocalTimerFires(c) \/ Relayed(c) \/ ServerReads(c)
               \/ Drop(c) \/ SubscriptionDies(c) \/ Reconnect(c)
      PROVE  SelectionType'
  <2>1. UNCHANGED <<at, selected, booking>>
    BY <1>7 DEF Fetched, DrawHolds, DrawBookings, DrawFails, LocalTimerFires, Relayed, NextSlot,
                PublishHolds, ServerReads, Drop, SubscriptionDies, Reconnect, screen, view, request
  <2>. QED  BY <2>1, Untouched
<1>8. ASSUME \/ DeleteBooking \/ RecoveryWrites \/ UNCHANGED vars
             \/ \E p \in Place, s \in Calendar : HoldExpires(p, s)
      PROVE  SelectionType'
  <2>1. UNCHANGED <<at, selected, booking>>
    BY <1>8 DEF DeleteBooking, RecoveryWrites, HoldExpires, vars, screen, view, request
  <2>. QED  BY <2>1, Untouched
<1>. QED  BY <1>1, <1>2, <1>3, <1>4, <1>5, <1>6, <1>7, <1>8 DEF Next, Automatic

\* Selections and booked ranges are in the order of the day, whatever is clicked.
THEOREM SelectionTypeCorrect == Spec => []SelectionType
<1>1. Init => SelectionType
  BY HoldsAssumption DEF Init, SelectionType, Selections
<1>. QED  BY <1>1, SelectionStep, PTL DEF Spec

\* Whatever bookings a browser has read, its check of a range, to the minute, and the
\* server's, to the second, agree on those of one day, but for the first minute of a
\* slot in which a booking ends: whatever the opening hours and the length of a slot.
THEOREM BrowserAgreesWithServer == Spec => []GridAgreesWithServer
<1>1. GridAgreesWithServer
  BY GridAgreement DEF GridAgreesWithServer
<1>. QED  BY <1>1, PTL

\* Whatever range a user has selected and booked, exactly its slots are read back.
THEOREM BookedRangeIsReadBack == Spec => []BookedRangeIsTaken
<1>1. SelectionType => BookedRangeIsTaken
  <2>. SUFFICES ASSUME SelectionType, NEW c \in User, NEW k \in Calendar,
                       booking[c] # NoBooking, Asked(c).end < DayLength
                PROVE  IsSlotTaken(k, Asked(c)) <=> k \in Covered(booking[c].range)
    BY DEF BookedRangeIsTaken
  <2>1. booking[c].range \in Ranges
    BY DEF SelectionType, BookingType
  <2>2. PICK i \in Calendar, j \in Calendar : i <= j /\ booking[c].range = <<i, j>>
    BY <2>1 DEF Ranges
  <2>3. Covered(booking[c].range) = i .. j
    BY <2>2 DEF Covered
  <2>4. /\ Asked(c).start = WindowOf(<<i, j>>).start
        /\ Asked(c).end = WindowOf(<<i, j>>).end
    BY <2>2 DEF Asked
  <2>. QED  BY <2>2, <2>3, <2>4, RangeRoundTrip
<1>. QED  BY <1>1, SelectionTypeCorrect, PTL

-----------------------------------------------------------------------------
(* Types.                                                                  *)

Answer == [stage : {"holds"}, place : Place, read : Holding]
            \cup [stage : {"bookings"}, place : Place, read : SUBSET Window]

\* Timers are numbered in the order in which they are armed.
TimersType ==
  /\ handle \in [User -> Nat] /\ moves \in Nat
  /\ timers \in [User -> SUBSET [id : Nat \ {0}, slots : SUBSET Calendar]]
  /\ \A c \in User : handle[c] + moves <= MaxMoves
  /\ \A c \in User : \A t \in timers[c] : t.id <= handle[c]

WireType ==
  /\ hold \in [Place -> Holding]
  /\ socket \in [User -> {"open", "deaf", "closed", "gone"}]
  /\ outbox \in [User -> Seq(MessageType)]
  /\ inbox \in [User -> Seq(EventType)]

ScreenType ==
  /\ booked \subseteq Window /\ dead \subseteq Window
  /\ known \in [User -> SUBSET Window]
  /\ shown \in [User -> Holding]
  /\ local \in [User -> SUBSET (Place \X Calendar \X User)]
  /\ answers \in [User -> Seq(Answer)]
  /\ refused \in [User -> SUBSET Calendar] /\ unmarked \in [User -> SUBSET Calendar]
  /\ settling \subseteq User /\ visible \subseteq User /\ misled \subseteq User

HoldsType == SelectionType /\ TimersType /\ WireType /\ ScreenType

\* The slots of a selection are slots.
LEMMA CoveredSlots ==
  ASSUME NEW sel \in Selections
  PROVE  Covered(sel) \in SUBSET Calendar
<1>1. CASE sel = <<>>
  BY <1>1 DEF Covered
<1>2. CASE \E s \in Calendar : sel = <<s>>
  BY <1>2 DEF Covered, Calendar
<1>3. CASE sel \in Ranges
  <2>1. PICK i \in Calendar, j \in Calendar : sel = <<i, j>>
    BY <1>3 DEF Ranges
  <2>2. Covered(sel) = i .. j
    BY <2>1 DEF Covered
  <2>3. PICK n \in Int : Calendar = 1 .. n
    BY GridAssumption DEF Calendar
  <2>. QED  BY <2>2, <2>3
<1>. QED  BY <1>1, <1>2, <1>3 DEF Selections

\* What is booked, or nothing, is a selection.
LEMMA BookedSlots ==
  ASSUME SelectionType, NEW c \in User
  PROVE  Covered(booking[c].range) \in SUBSET Calendar
<1>1. booking[c].range \in Selections
  BY DEF SelectionType, BookingType, NoBooking, Selections
<1>. QED  BY <1>1, CoveredSlots

\* A booking that is asked for starts on the day shown and ends by the end of the next.
LEMMA AskedIsWindow ==
  ASSUME SelectionType, NEW c \in User, booking[c] # NoBooking
  PROVE  Asked(c) \in Window
<1>1. booking[c] \in BookingType
  BY DEF SelectionType
<1>2. PICK i \in Calendar, j \in Calendar : i <= j /\ booking[c].range = <<i, j>>
  BY <1>1 DEF BookingType, Ranges
<1>3. /\ Opening <= StartOf(i) /\ StartOf(i) <= StartOf(j) /\ StartOf(j) < Closing
      /\ StartOf(i) \in Int /\ StartOf(j) \in Int
  <2>1. i \in Int /\ j \in Int
    BY DEF Calendar
  <2>2. Opening <= StartOf(i) /\ StartOf(i) <= StartOf(j) /\ StartOf(i) \in Int /\ StartOf(j) \in Int
    <3>1. StartOf(1) = Opening /\ 1 <= i
      BY GridAssumption DEF StartOf, Calendar
    <3>. QED  BY <1>2, <2>1, <3>1, Starts
  <2>3. StartOf(j) < Closing
    <3>. DEFINE a == Closing - Opening + Duration - 1
    <3>1. a \in Nat /\ Duration \in Nat \ {0} /\ Opening \in Nat /\ Closing \in Nat
      BY GridAssumption
    <3>2. a \div Duration \in Nat /\ (a \div Duration) * Duration <= a /\ j <= a \div Duration
      BY <3>1, Division DEF Calendar
    <3>3. (j - 1) * Duration <= (a \div Duration - 1) * Duration
      <4>1. ~ ((a \div Duration - 1) * Duration < (j - 1) * Duration)
        BY <3>1, <3>2, <2>1, Ordered
      <4>. QED  BY <3>1, <3>2, <2>1, <4>1
    <3>4. (a \div Duration - 1) * Duration = (a \div Duration) * Duration - Duration
      BY <3>1, <3>2
    <3>5. StartOf(j) = Opening + (j - 1) * Duration
      BY DEF StartOf
    <3>. HIDE DEF a
    <3>6. a = Closing - Opening + Duration - 1
      BY DEF a
    <3>. DEFINE x == (j - 1) * Duration
                y == (a \div Duration) * Duration
    <3>7. x \in Int /\ y \in Int
      BY <3>1, <3>2, <2>1
    <3>8. x <= y - Duration /\ y <= a /\ StartOf(j) = Opening + x
      BY <3>2, <3>3, <3>4, <3>5
    <3>. HIDE DEF x, y
    <3>. QED  BY <3>1, <3>6, <3>7, <3>8
  <2>. QED  BY <2>2, <2>3
<1>4. WindowOf(booking[c].range) = [start |-> StartOf(i), end |-> StartOf(j) + Duration]
  BY <1>2 DEF WindowOf
<1>5. Asked(c) = [place |-> booking[c].place, start |-> StartOf(i), end |-> StartOf(j) + Duration]
  BY <1>4 DEF Asked
<1>6. StartOf(i) \in 0 .. DayLength - 1 /\ StartOf(j) + Duration \in 1 .. 2 * DayLength - 1
  BY <1>3, GridAssumption, HoldsAssumption
<1>. QED  BY <1>1, <1>5, <1>6 DEF BookingType, Window

\* Messages are well formed, and so are the queues they are put into.
LEMMA MessageIsTyped ==
  ASSUME NEW o \in Operation, NEW p \in Place, NEW slots \in SUBSET Calendar
  PROVE  Message(o, p, slots) \in Seq(MessageType)
<1>1. [op |-> o, place |-> p, slots |-> slots, todo |-> slots] \in MessageType
  BY DEF MessageType
<1>. QED  BY <1>1 DEF Message

LEMMA SendIsTyped ==
  ASSUME WireType, NEW c \in User, NEW msgs \in Seq(MessageType), Send(c, msgs)
  PROVE  outbox' \in [User -> Seq(MessageType)]
<1>1. outbox[c] \o msgs \in Seq(MessageType)
  BY DEF WireType
<1>. QED  BY <1>1 DEF WireType, Send

LEMMA EventIsTyped ==
  ASSUME WireType, NEW o \in Operation \cup {"confirmed", "cancelled"}, NEW p \in Place,
         NEW slots \in SUBSET Calendar, NEW u \in User \cup {Free},
         Event(o, p, slots, u) \/ (slots = {} /\ Announce(o, p, u))
  PROVE  inbox' \in [User -> Seq(EventType)]
<1>1. [op |-> o, place |-> p, slots |-> slots, by |-> u] \in EventType
  BY DEF EventType
<1>2. \A c \in User :
        Append(inbox[c], [op |-> o, place |-> p, slots |-> slots, by |-> u]) \in Seq(EventType)
  BY <1>1 DEF WireType
<1>3. CASE Event(o, p, slots, u)
  BY <1>2, <1>3 DEF WireType, Event
<1>4. CASE slots = {} /\ Announce(o, p, u)
  <2>1. Event(o, p, slots, u) \/ UNCHANGED inbox
    BY <1>4 DEF Announce
  <2>. QED  BY <1>3, <2>1 DEF WireType
<1>. QED  BY <1>3, <1>4

\* The elements of two sequences put together.
LEMMA Joined ==
  ASSUME NEW S, NEW a \in Seq(S), NEW b \in Seq(S)
  PROVE  /\ a \o b \in Seq(S)
         /\ Len(a \o b) = Len(a) + Len(b)
         /\ \A j \in 1 .. Len(a) + Len(b) :
              (a \o b)[j] = IF j <= Len(a) THEN a[j] ELSE b[j - Len(a)]
OBVIOUS

\* What stands before and after position i, put together.
LEMMA JoinedAround ==
  ASSUME NEW S, NEW s \in Seq(S), NEW i \in 1 .. Len(s), NEW a \in Seq(S), NEW b \in Seq(S),
         Len(a) = i - 1, \A j \in 1 .. i - 1 : a[j] = s[j],
         Len(b) = Len(s) - i, \A j \in 1 .. Len(s) - i : b[j] = s[j + i]
  PROVE  /\ a \o b \in Seq(S)
         /\ Len(a \o b) = Len(s) - 1
         /\ \A j \in 1 .. Len(s) - 1 : (a \o b)[j] = s[IF j < i THEN j ELSE j + 1]
<1>1. Len(s) \in Nat /\ i \in Int /\ 1 <= i /\ i <= Len(s)
  OBVIOUS
<1>2. Len(a) + Len(b) = Len(s) - 1
  BY <1>1
<1>3. ASSUME NEW j \in 1 .. Len(s) - 1
      PROVE  (a \o b)[j] = s[IF j < i THEN j ELSE j + 1]
  <2>1. CASE j < i
    <3>1. (a \o b)[j] = a[j]
      BY <1>1, <1>2, <2>1, Joined
    <3>. QED  BY <1>1, <2>1, <3>1
  <2>2. CASE ~ (j < i)
    <3>1. (a \o b)[j] = b[j - (i - 1)]
      BY <1>1, <1>2, <2>2, Joined
    <3>2. j - (i - 1) \in 1 .. Len(s) - i /\ j - (i - 1) + i = j + 1
      BY <1>1, <2>2
    <3>. QED  BY <2>2, <3>1, <3>2
  <2>. QED  BY <2>1, <2>2
<1>. QED  BY <1>2, <1>3, Joined

\* Removing an element leaves the others in their order.
LEMMA RemoveIsTyped ==
  ASSUME NEW S, NEW s \in Seq(S), NEW i \in 1 .. Len(s)
  PROVE  /\ RemoveAt(s, i) \in Seq(S)
         /\ Len(RemoveAt(s, i)) = Len(s) - 1
         /\ \A j \in 1 .. Len(s) - 1 : RemoveAt(s, i)[j] = s[IF j < i THEN j ELSE j + 1]
<1>. DEFINE a == SubSeq(s, 1, i - 1)
            b == SubSeq(s, i + 1, Len(s))
<1>1. a \in Seq(S) /\ Len(a) = i - 1 /\ \A j \in 1 .. i - 1 : a[j] = s[j]
  OBVIOUS
<1>2. b \in Seq(S) /\ Len(b) = Len(s) - i /\ \A j \in 1 .. Len(s) - i : b[j] = s[j + i]
  OBVIOUS
<1>3. RemoveAt(s, i) = a \o b
  BY DEF RemoveAt
<1>4. /\ a \o b \in Seq(S)
      /\ Len(a \o b) = Len(s) - 1
      /\ \A j \in 1 .. Len(s) - 1 : (a \o b)[j] = s[IF j < i THEN j ELSE j + 1]
  <2>. HIDE DEF a, b
  <2>. QED  BY <1>1, <1>2, JoinedAround
<1>. HIDE DEF a, b
<1>. QED  BY <1>3, <1>4

\* A redraw puts one more fetch behind those under way.
LEMMA RenderIsTyped ==
  ASSUME WireType, ScreenType, NEW c \in User, NEW p \in Place, NEW sh \in Holding,
         Render(c, p, sh)
  PROVE  /\ answers' \in [User -> Seq(Answer)]
         /\ shown' \in [User -> Holding]
         /\ unmarked' \in [User -> SUBSET Calendar]
         /\ visible' \subseteq User /\ misled' \subseteq User
<1>1. [stage |-> "holds", place |-> p, read |-> hold[p]] \in Answer
  BY DEF WireType, Answer
<1>2. Append(answers[c], [stage |-> "holds", place |-> p, read |-> hold[p]]) \in Seq(Answer)
  BY <1>1 DEF ScreenType
<1>. QED  BY <1>2 DEF ScreenType, Render, MarkSlots

\* No step but a click arms a timer.
LEMMA FewerTimers ==
  ASSUME TimersType, NEW c \in User,
         TimerFires(c) \/ ChangePlace(c) \/ LeavePage(c) \/ Confirm(c) \/ Drop(c)
           \/ SubscriptionDies(c)
  PROVE  \E T \in SUBSET timers[c] : timers' = [timers EXCEPT ![c] = T]
<1>1. CASE TimerFires(c)
  <2>1. PICK t \in timers[c] : timers' = [timers EXCEPT ![c] = @ \ {t}]
    BY <1>1 DEF TimerFires
  <2>. QED  BY <2>1 DEF TimersType
<1>2. CASE ChangePlace(c)
  <2>. DEFINE T == IF selected[c] = <<>> THEN timers[c] ELSE {t \in timers[c] : t.id # handle[c]}
  <2>1. timers' = [timers EXCEPT ![c] = T]
    BY <1>2 DEF ChangePlace
  <2>2. T \in SUBSET timers[c]
    OBVIOUS
  <2>. QED  BY <2>1, <2>2
<1>3. CASE LeavePage(c)
  BY <1>3 DEF LeavePage, TimersType
<1>4. CASE Confirm(c)
  <2>. DEFINE T == {t \in timers[c] : t.id # handle[c]}
  <2>1. timers' = [timers EXCEPT ![c] = T] /\ T \in SUBSET timers[c]
    BY <1>4 DEF Confirm, TimersType
  <2>. QED  BY <2>1
<1>5. CASE Drop(c) \/ SubscriptionDies(c)
  <2>1. timers' = timers
    BY <1>5 DEF Drop, SubscriptionDies, alarm
  <2>. QED  BY <2>1 DEF TimersType
<1>. QED  BY <1>1, <1>2, <1>3, <1>4, <1>5

\* Timers stay numbered, and of slots.
LEMMA TimersStep ==
  ASSUME SelectionType, TimersType, [Next]_vars
  PROVE  TimersType'
<1>1. ASSUME NEW c \in User, NEW s \in Calendar, Click(c, s)
      PROVE  TimersType'
  <2>. DEFINE new == Selection(c, s)
              t0 == [id |-> handle[c] + 1, slots |-> Covered(new)]
  <2>1. Covered(new) \in SUBSET Calendar
    BY SelectionIsSelection, CoveredSlots DEF SelectionType
  <2>2. t0 \in [id : Nat \ {0}, slots : SUBSET Calendar] /\ t0.id = handle[c] + 1
    BY <2>1 DEF TimersType
  <2>3. /\ moves \in Nat \ {0} /\ moves' = moves - 1
        /\ handle' = [handle EXCEPT ![c] = @ + 1]
        /\ \E T \in SUBSET (timers[c] \cup {t0}) : timers' = [timers EXCEPT ![c] = T]
    <3>1. /\ moves > 0 /\ moves' = moves - 1 /\ moves \in Nat
          /\ handle' = [handle EXCEPT ![c] = @ + 1]
      BY <1>1 DEF Click, MakeMove, TimersType
    <3>2. \E T \in SUBSET (timers[c] \cup {t0}) : timers' = [timers EXCEPT ![c] = T]
      BY <1>1 DEF Click
    <3>3. moves \in Nat \ {0}
      BY <3>1
    <3>. HIDE DEF t0
    <3>. QED  BY <3>1, <3>2, <3>3
  <2>. HIDE DEF t0
  <2>4. PICK T \in SUBSET (timers[c] \cup {t0}) : timers' = [timers EXCEPT ![c] = T]
    BY <2>3
  <2>5. \A d \in User : timers'[d] = IF d = c THEN T ELSE timers[d]
    BY <2>4 DEF TimersType
  <2>6. \A d \in User : handle'[d] = IF d = c THEN handle[c] + 1 ELSE handle[d]
    BY <2>3 DEF TimersType
  <2>7. handle' \in [User -> Nat] /\ moves' \in Nat
    BY <2>3 DEF TimersType
  <2>8. timers' \in [User -> SUBSET [id : Nat \ {0}, slots : SUBSET Calendar]]
    BY <2>2, <2>4 DEF TimersType
  <2>9. \A d \in User : handle'[d] + moves' <= MaxMoves
    BY <2>3, <2>6, HoldsAssumption DEF TimersType
  <2>10. \A d \in User : \A t \in timers'[d] : t.id <= handle'[d]
    <3>1. \A t \in timers[c] : t.id \in Nat /\ t.id <= handle[c]
      BY DEF TimersType
    <3>. QED  BY <2>2, <2>5, <2>6, <3>1 DEF TimersType
  <2>. QED  BY <2>7, <2>8, <2>9, <2>10 DEF TimersType
<1>2. ASSUME NEW c \in User,
             TimerFires(c) \/ ChangePlace(c) \/ LeavePage(c) \/ Confirm(c) \/ Drop(c)
               \/ SubscriptionDies(c)
      PROVE  TimersType'
  <2>1. /\ UNCHANGED handle
        /\ UNCHANGED moves \/ MakeMove
    BY <1>2 DEF TimerFires, ChangePlace, LeavePage, Confirm, Drop, SubscriptionDies, alarm
  <2>2. PICK T \in SUBSET timers[c] : timers' = [timers EXCEPT ![c] = T]
    BY <1>2, FewerTimers
  <2>3. \A d \in User : timers'[d] \in SUBSET timers[d]
    BY <2>2 DEF TimersType
  <2>4. timers' \in [User -> SUBSET [id : Nat \ {0}, slots : SUBSET Calendar]]
    BY <2>2 DEF TimersType
  <2>5. moves' \in Nat /\ moves' <= moves
    BY <2>1 DEF TimersType, MakeMove
  <2>. QED  BY <2>1, <2>3, <2>4, <2>5, HoldsAssumption DEF TimersType
<1>3. CASE DeleteBooking \/ RecoveryWrites
  BY <1>3, HoldsAssumption DEF DeleteBooking, RecoveryWrites, TimersType, MakeMove, alarm
<1>4. ASSUME NEW c \in User,
             Fetched(c) \/ Served(c) \/ Relayed(c) \/ LocalTimerFires(c) \/ Receive(c)
               \/ Settle(c) \/ ServerReads(c) \/ Reconnect(c)
      PROVE  UNCHANGED <<timers, handle, moves>>
  BY <1>4 DEF Fetched, DrawHolds, DrawBookings, DrawFails, Served, BookingInserted,
              BookingConfirmed, BookingAnnounced, BookingAnswered, BookingFailed, BookingRefused,
              Relayed, NextSlot, PublishHolds, LocalTimerFires, Receive, Settle, ServerReads,
              Reconnect, alarm
<1>5. ASSUME (\E p \in Place, s \in Calendar : HoldExpires(p, s)) \/ UNCHANGED vars
      PROVE  UNCHANGED <<timers, handle, moves>>
  BY <1>5 DEF HoldExpires, vars, alarm
<1>6. UNCHANGED <<timers, handle, moves>> => TimersType'
  BY DEF TimersType
<1>. QED  BY <1>1, <1>2, <1>3, <1>4, <1>5, <1>6 DEF Next, Automatic

\* What the steps that send something send is well formed.
LEMMA SendersAreTyped ==
  ASSUME SelectionType, TimersType, WireType, NEW c \in User,
         \/ \E s \in Calendar : Click(c, s)
         \/ TimerFires(c) \/ ChangePlace(c) \/ LeavePage(c) \/ BookingAnswered(c)
  PROVE  outbox' \in [User -> Seq(MessageType)]
<1>. DEFINE Out(o, slots) == Message(o, at[c], slots)
<1>1. at[c] \in Place /\ selected[c] \in Selections
  BY DEF SelectionType
<1>2. \A slots \in SUBSET Calendar :
        /\ Message("release", at[c], slots) \in Seq(MessageType)
        /\ Message("hold", at[c], slots) \in Seq(MessageType)
  BY <1>1, MessageIsTyped DEF Operation
<1>3. ASSUME NEW s \in Calendar, Click(c, s)
      PROVE  outbox' \in [User -> Seq(MessageType)]
  <2>1. /\ Covered(selected[c]) \in SUBSET Calendar
        /\ Covered(Selection(c, s)) \in SUBSET Calendar
    BY <1>1, SelectionIsSelection, CoveredSlots
  <2>2. Message("release", at[c], Covered(selected[c]))
          \o Message("hold", at[c], Covered(Selection(c, s))) \in Seq(MessageType)
    BY <1>2, <2>1
  <2>. QED  BY <1>3, <2>2, SendIsTyped DEF Click
<1>4. CASE TimerFires(c)
  <2>1. PICK t \in timers[c] : Send(c, Message("release", at[c], t.slots))
    BY <1>4 DEF TimerFires
  <2>2. t.slots \in SUBSET Calendar
    BY DEF TimersType
  <2>. QED  BY <1>2, <2>1, <2>2, SendIsTyped
<1>5. CASE ChangePlace(c) \/ LeavePage(c)
  <2>1. Send(c, Message("release", at[c], Covered(selected[c])))
    BY <1>5 DEF ChangePlace, LeavePage
  <2>. QED  BY <1>1, <1>2, <2>1, CoveredSlots, SendIsTyped
<1>6. CASE BookingAnswered(c)
  <2>1. Send(c, Message("release", at[c], Covered(booking[c].range)))
    BY <1>6 DEF BookingAnswered
  <2>. QED  BY <1>2, <2>1, BookedSlots, SendIsTyped
<1>. QED  BY <1>3, <1>4, <1>5, <1>6

\* Sockets, queues and keys keep their types.
LEMMA WireStep ==
  ASSUME SelectionType, TimersType, WireType, ScreenType, [Next]_vars
  PROVE  WireType'
<1>0. <<>> \in Seq(EventType) /\ <<>> \in Seq(MessageType)
  OBVIOUS
<1>1. ASSUME NEW c \in User,
             \/ \E s \in Calendar : Click(c, s)
             \/ TimerFires(c) \/ ChangePlace(c) \/ BookingAnswered(c)
      PROVE  WireType'
  <2>1. UNCHANGED <<hold, socket, inbox>>
    BY <1>1 DEF Click, TimerFires, ChangePlace, BookingAnswered
  <2>. QED  BY <1>1, <2>1, SendersAreTyped DEF WireType
<1>2. ASSUME NEW c \in User, LeavePage(c)
      PROVE  WireType'
  <2>1. outbox' \in [User -> Seq(MessageType)]
    BY <1>2, SendersAreTyped
  <2>2. /\ UNCHANGED hold /\ socket' = [socket EXCEPT ![c] = "gone"]
        /\ inbox' = [inbox EXCEPT ![c] = <<>>]
    BY <1>2 DEF LeavePage
  <2>. QED  BY <2>1, <2>2, <1>0 DEF WireType
<1>3. ASSUME NEW c \in User, BookingAnnounced(c)
      PROVE  WireType'
  <2>1. booking[c] \in BookingType
    BY <1>3 DEF BookingAnnounced, SelectionType, NoBooking
  <2>2. booking[c].place \in Place
    BY <2>1 DEF BookingType
  <2>3. inbox' \in [User -> Seq(EventType)]
    BY <1>3, <2>2, EventIsTyped DEF BookingAnnounced
  <2>. QED  BY <1>3, <2>3 DEF BookingAnnounced, WireType
<1>4. CASE DeleteBooking
  <2>1. PICK b \in booked \cup dead : Announce("cancelled", b.place, Free)
    BY <1>4 DEF DeleteBooking
  <2>2. b.place \in Place
    BY DEF ScreenType, Window
  <2>3. inbox' \in [User -> Seq(EventType)]
    BY <2>1, <2>2, EventIsTyped
  <2>. QED  BY <1>4, <2>3 DEF DeleteBooking, WireType
<1>5. ASSUME NEW c \in User, Receive(c)
      PROVE  WireType'
  <2>1. Tail(inbox[c]) \in Seq(EventType)
    BY <1>5 DEF Receive, WireType
  <2>. QED  BY <1>5, <2>1 DEF Receive, WireType
<1>6. ASSUME NEW c \in User, NextSlot(c)
      PROVE  WireType'
  <2>. DEFINE m == outbox[c][1]
  <2>1. PICK s \in m.todo :
          /\ hold' = [hold EXCEPT ![m.place][s] = IF m.op = "hold" THEN c ELSE Free]
          /\ outbox' = [outbox EXCEPT ![c][1].todo = @ \ {s}]
    BY <1>6, Zenon DEF NextSlot
  <2>2. outbox[c] \in Seq(MessageType) /\ outbox[c] # <<>>
    BY <1>6 DEF NextSlot, WireType
  <2>3. m \in MessageType
    BY <2>2
  <2>4. m.place \in Place /\ s \in Calendar
    BY <2>1, <2>3 DEF MessageType
  <2>5. hold' \in [Place -> Holding]
    BY <2>1, <2>4 DEF WireType, Holding
  <2>6. [m EXCEPT !.todo = @ \ {s}] \in MessageType
    BY <2>3 DEF MessageType
  <2>7. [outbox[c] EXCEPT ![1] = [m EXCEPT !.todo = @ \ {s}]] \in Seq(MessageType)
    BY <2>2, <2>6
  <2>8. outbox' = [outbox EXCEPT ![c] = [outbox[c] EXCEPT ![1] = [m EXCEPT !.todo = @ \ {s}]]]
    BY <2>1
  <2>9. outbox' \in [User -> Seq(MessageType)]
    BY <2>7, <2>8 DEF WireType
  <2>. QED  BY <1>6, <2>5, <2>9 DEF NextSlot, WireType
<1>7. ASSUME NEW c \in User, PublishHolds(c)
      PROVE  WireType'
  <2>. DEFINE m == outbox[c][1]
  <2>1. outbox[c] \in Seq(MessageType) /\ outbox[c] # <<>>
    BY <1>7 DEF PublishHolds, WireType
  <2>2. m \in MessageType /\ Tail(outbox[c]) \in Seq(MessageType)
    BY <2>1
  <2>3. m.op \in Operation \cup {"confirmed", "cancelled"} /\ m.place \in Place
          /\ m.slots \in SUBSET Calendar
    BY <2>2 DEF MessageType
  <2>4. inbox' \in [User -> Seq(EventType)]
    BY <1>7, <2>3, EventIsTyped DEF PublishHolds
  <2>. QED  BY <1>7, <2>2, <2>4 DEF PublishHolds, WireType
<1>8. ASSUME NEW p \in Place, NEW s \in Calendar, HoldExpires(p, s)
      PROVE  WireType'
  <2>1. hold' \in [Place -> Holding]
    BY <1>8 DEF HoldExpires, WireType, Holding
  <2>. QED  BY <1>8, <2>1 DEF HoldExpires, WireType, wire
<1>9. ASSUME NEW c \in User, Drop(c) \/ SubscriptionDies(c) \/ Reconnect(c)
      PROVE  WireType'
  BY <1>0, <1>9 DEF Drop, SubscriptionDies, Reconnect, WireType
<1>10. ASSUME NEW c \in User,
              Fetched(c) \/ LocalTimerFires(c) \/ Settle(c) \/ ServerReads(c) \/ Confirm(c)
                \/ BookingInserted(c) \/ BookingConfirmed(c) \/ BookingFailed(c)
                \/ BookingRefused(c)
       PROVE  UNCHANGED <<hold, wire>>
  <2>1. CASE Fetched(c)
    BY <2>1 DEF Fetched, DrawHolds, DrawBookings, DrawFails
  <2>2. CASE LocalTimerFires(c) \/ Settle(c) \/ ServerReads(c)
    BY <2>2 DEF LocalTimerFires, Settle, ServerReads
  <2>3. CASE Confirm(c) \/ BookingInserted(c) \/ BookingConfirmed(c) \/ BookingFailed(c)
               \/ BookingRefused(c)
    BY <2>3 DEF Confirm, BookingInserted, BookingConfirmed, BookingFailed, BookingRefused
  <2>. QED  BY <1>10, <2>1, <2>2, <2>3
<1>11. RecoveryWrites \/ UNCHANGED vars => UNCHANGED <<hold, wire>>
  BY DEF RecoveryWrites, vars
<1>12. UNCHANGED <<hold, wire>> => WireType'
  BY DEF WireType, wire
<1>. QED  BY <1>1, <1>2, <1>3, <1>4, <1>5, <1>6, <1>7, <1>8, <1>9, <1>10, <1>11, <1>12
          DEF Next, Automatic, Served, Relayed

\* What is on the screen keeps its type, and so do the bookings.
LEMMA ScreenStep ==
  ASSUME SelectionType, TimersType, WireType, ScreenType, [Next]_vars
  PROVE  ScreenType'
<1>. DEFINE Others == <<booked, dead, known, shown, local, answers, refused, unmarked, settling,
                        visible, misled>>
<1>0. Blank \in Holding /\ <<>> \in Seq(Answer)
  BY DEF Blank, Holding
<1>1. ASSUME NEW c \in User, ChangePlace(c)
      PROVE  ScreenType'
  <2>1. PICK p \in Place : Render(c, p, Blank)
    BY <1>1 DEF ChangePlace
  <2>2. /\ answers' \in [User -> Seq(Answer)] /\ shown' \in [User -> Holding]
        /\ unmarked' \in [User -> SUBSET Calendar]
        /\ visible' \subseteq User /\ misled' \subseteq User
    BY <1>0, <2>1, RenderIsTyped
  <2>3. UNCHANGED <<known, local, request>>
    BY <1>1 DEF ChangePlace
  <2>. QED  BY <2>2, <2>3 DEF ScreenType, request, rows
<1>2. ASSUME NEW c \in User, Settle(c)
      PROVE  ScreenType'
  <2>1. at[c] \in Place
    BY DEF SelectionType
  <2>2. /\ answers' \in [User -> Seq(Answer)] /\ shown' \in [User -> Holding]
        /\ unmarked' \in [User -> SUBSET Calendar]
        /\ visible' \subseteq User /\ misled' \subseteq User
    BY <1>0, <1>2, <2>1, RenderIsTyped DEF Settle
  <2>3. settling' \subseteq User /\ UNCHANGED <<known, local, booked, dead, refused>>
    BY <1>2 DEF Settle, ScreenType, rows
  <2>. QED  BY <2>2, <2>3 DEF ScreenType
<1>3. ASSUME NEW c \in User, Receive(c)
      PROVE  ScreenType'
  <2>. DEFINE e == Head(inbox[c])
  <2>1. UNCHANGED <<known, local, booked, dead, refused, settling>>
    BY <1>3 DEF Receive, request, rows
  <2>2. at[c] \in Place /\ shown[c] \in Holding /\ e \in EventType
    BY <1>3 DEF Receive, SelectionType, ScreenType, WireType
  <2>3. /\ answers' \in [User -> Seq(Answer)] /\ shown' \in [User -> Holding]
        /\ unmarked' \in [User -> SUBSET Calendar]
        /\ visible' \subseteq User /\ misled' \subseteq User
    <3>1. CASE Ignore(c, e)
      BY <3>1 DEF Ignore, ScreenType, fetches
    <3>2. CASE Redraw(c, e)
      <4>1. PICK sh \in Holding : Render(c, at[c], sh)
        BY <1>0, <2>2, <3>2 DEF Redraw
      <4>. QED  BY <2>2, <4>1, RenderIsTyped
    <3>3. CASE Mark(c, e)
      <4>. DEFINE sh == [s \in Calendar |->
                           IF s \notin e.slots \/ (e.op = "hold" /\ e.by = c) THEN shown[c][s]
                           ELSE IF e.op = "hold" THEN e.by ELSE Free]
      <4>1. e.by \in User \cup {Free}
        BY <2>2 DEF EventType
      <4>2. sh \in Holding
        BY <2>2, <4>1 DEF Holding
      <4>3. shown' = [shown EXCEPT ![c] = sh] /\ UNCHANGED <<visible, answers, misled>>
        BY <3>3 DEF Mark, fetches
      <4>4. unmarked' \in [User -> SUBSET Calendar]
        BY <3>3 DEF Mark, MarkSlots, ScreenType
      <4>. QED  BY <4>2, <4>3, <4>4 DEF ScreenType
    <3>. QED  BY <1>3, <3>1, <3>2, <3>3 DEF Receive
  <2>. QED  BY <2>1, <2>3 DEF ScreenType
<1>4. ASSUME NEW c \in User, ServerReads(c)
      PROVE  ScreenType'
  <2>. DEFINE read(a) == IF a.stage = "holds" THEN hold[a.place] ELSE BookingsAt(a.place)
  <2>1. PICK i \in 1 .. Len(answers[c]) :
          answers' = [answers EXCEPT ![c][i].read = read(answers[c][i])]
    BY <1>4, Zenon DEF ServerReads
  <2>2. answers[c] \in Seq(Answer) /\ answers[c][i] \in Answer
    BY DEF ScreenType
  <2>3. [answers[c][i] EXCEPT !.read = read(answers[c][i])] \in Answer
    <3>1. BookingsAt(answers[c][i].place) \in SUBSET Window
      BY DEF BookingsAt, ScreenType
    <3>2. answers[c][i].place \in Place /\ hold[answers[c][i].place] \in Holding
      BY <2>2 DEF Answer, WireType
    <3>. QED  BY <2>2, <3>1, <3>2 DEF Answer
  <2>4. [answers[c] EXCEPT ![i] = [@ EXCEPT !.read = read(answers[c][i])]] \in Seq(Answer)
    BY <2>2, <2>3
  <2>5. answers' = [answers EXCEPT ![c] =
                      [answers[c] EXCEPT ![i] = [@ EXCEPT !.read = read(answers[c][i])]]]
    BY <2>1
  <2>6. answers' \in [User -> Seq(Answer)]
    BY <2>4, <2>5 DEF ScreenType
  <2>. QED  BY <1>4, <2>6 DEF ServerReads, ScreenType, view, request, rows
<1>5. ASSUME NEW c \in User, DrawHolds(c)
      PROVE  ScreenType'
  <2>. DEFINE p == at[c]
              new == [stage |-> "bookings", place |-> p, read |-> BookingsAt(p)]
  <2>0. PICK i \in 1 .. Len(answers[c]) :
          /\ answers[c][i].stage = "holds"
          /\ \E held \in {answers[c][i].read} \cup (IF "fetch" \in Faults THEN {Blank} ELSE {}) :
               /\ shown' = [shown EXCEPT ![c] =
                              [s \in Calendar |-> IF held[s] = Free THEN @[s] ELSE held[s]]]
               /\ local' = [local EXCEPT ![c] =
                              @ \cup {<<p, s, held[s]>> : s \in {z \in Calendar : held[z] # Free}}]
               /\ unmarked' = IF c \notin visible THEN unmarked
                    ELSE [unmarked EXCEPT ![c] =
                            @ \cup {s \in Calendar : shown[c][s] = Free /\ held[s] # Free}]
          /\ answers' = [answers EXCEPT ![c] = Append(RemoveAt(@, i), new)]
    BY <1>5 DEF DrawHolds
  <2>1. PICK held \in {answers[c][i].read} \cup (IF "fetch" \in Faults THEN {Blank} ELSE {}) :
          /\ shown' = [shown EXCEPT ![c] =
                         [s \in Calendar |-> IF held[s] = Free THEN @[s] ELSE held[s]]]
          /\ local' = [local EXCEPT ![c] =
                         @ \cup {<<p, s, held[s]>> : s \in {z \in Calendar : held[z] # Free}}]
          /\ unmarked' = IF c \notin visible THEN unmarked
               ELSE [unmarked EXCEPT ![c] =
                       @ \cup {s \in Calendar : shown[c][s] = Free /\ held[s] # Free}]
    BY <2>0
  <2>2. answers[c] \in Seq(Answer) /\ answers[c][i] \in Answer /\ p \in Place
    BY DEF ScreenType, SelectionType
  <2>3. held \in Holding
    BY <1>0, <2>0, <2>2 DEF Answer
  <2>4. shown' \in [User -> Holding]
    BY <2>1, <2>3 DEF ScreenType, Holding
  <2>5. local' \in [User -> SUBSET (Place \X Calendar \X User)]
    <3>1. {<<p, s, held[s]>> : s \in {z \in Calendar : held[z] # Free}}
            \in SUBSET (Place \X Calendar \X User)
      BY <2>2, <2>3 DEF Holding
    <3>. QED  BY <2>1, <3>1 DEF ScreenType
  <2>6. new \in Answer
    BY <2>2 DEF Answer, BookingsAt, ScreenType
  <2>7. Append(RemoveAt(answers[c], i), new) \in Seq(Answer)
    BY <2>2, <2>6, RemoveIsTyped
  <2>8. answers' \in [User -> Seq(Answer)]
    BY <2>0, <2>7 DEF ScreenType
  <2>9. unmarked' \in [User -> SUBSET Calendar]
    BY <2>1 DEF ScreenType
  <2>. QED  BY <1>5, <2>4, <2>5, <2>8, <2>9 DEF DrawHolds, ScreenType, request, rows
<1>6. ASSUME NEW c \in User, DrawBookings(c)
      PROVE  ScreenType'
  <2>1. PICK i \in 1 .. Len(answers[c]) :
          /\ answers[c][i].stage = "bookings"
          /\ known' = [known EXCEPT ![c] = answers[c][i].read]
          /\ answers' = [answers EXCEPT ![c] = RemoveAt(@, i)]
    BY <1>6 DEF DrawBookings
  <2>2. /\ misled' \subseteq User /\ visible' \subseteq User
        /\ unmarked' \in [User -> SUBSET Calendar]
    BY <1>6 DEF DrawBookings, MarkSlots, ScreenType
  <2>3. answers[c] \in Seq(Answer) /\ answers[c][i] \in Answer
    BY DEF ScreenType
  <2>4. RemoveAt(answers[c], i) \in Seq(Answer) /\ answers[c][i].read \in SUBSET Window
    BY <2>1, <2>3, RemoveIsTyped DEF Answer
  <2>5. answers' \in [User -> Seq(Answer)] /\ known' \in [User -> SUBSET Window]
    BY <2>1, <2>4 DEF ScreenType
  <2>. QED  BY <1>6, <2>2, <2>5 DEF DrawBookings, ScreenType, request, rows
<1>7. ASSUME NEW c \in User, DrawFails(c)
      PROVE  ScreenType'
  <2>1. PICK i \in 1 .. Len(answers[c]) : answers' = [answers EXCEPT ![c] = RemoveAt(@, i)]
    BY <1>7 DEF DrawFails
  <2>2. RemoveAt(answers[c], i) \in Seq(Answer)
    BY RemoveIsTyped DEF ScreenType
  <2>3. answers' \in [User -> Seq(Answer)]
    BY <2>1, <2>2 DEF ScreenType
  <2>. QED  BY <1>7, <2>3 DEF DrawFails, MarkSlots, ScreenType, request, rows
<1>8. ASSUME NEW c \in User, LocalTimerFires(c)
      PROVE  ScreenType'
  <2>1. PICK t \in local[c] :
          /\ local' = [local EXCEPT ![c] = @ \ {t}]
          /\ shown' = IF t[1] = at[c] /\ shown[c][t[2]] = t[3]
                        THEN [shown EXCEPT ![c][t[2]] = Free] ELSE shown
          /\ MarkSlots(c) \/ UNCHANGED unmarked
    BY <1>8 DEF LocalTimerFires
  <2>2. t[2] \in Calendar
    BY DEF ScreenType
  <2>3. local' \in [User -> SUBSET (Place \X Calendar \X User)]
    BY <2>1 DEF ScreenType
  <2>4. shown' \in [User -> Holding]
    BY <2>1, <2>2 DEF ScreenType, Holding
  <2>5. unmarked' \in [User -> SUBSET Calendar]
    BY <2>1 DEF MarkSlots, ScreenType
  <2>. QED  BY <1>8, <2>3, <2>4, <2>5 DEF LocalTimerFires, ScreenType, fetches, request, rows
<1>9. ASSUME NEW c \in User, LeavePage(c)
      PROVE  ScreenType'
  BY <1>0, <1>9 DEF LeavePage, MarkSlots, ScreenType, rows
<1>10. ASSUME NEW c \in User, BookingInserted(c) \/ BookingConfirmed(c)
       PROVE  ScreenType'
  <2>1. booking[c] # NoBooking
    BY <1>10 DEF BookingInserted, BookingConfirmed, NoBooking
  <2>2. booked' \subseteq Window /\ dead' \subseteq Window
    BY <1>10, <2>1, AskedIsWindow DEF BookingInserted, BookingConfirmed, ScreenType
  <2>. QED  BY <1>10, <2>2 DEF BookingInserted, BookingConfirmed, ScreenType, screen, view, fetches
<1>11. ASSUME NEW c \in User, BookingAnswered(c) \/ BookingAnnounced(c)
       PROVE  ScreenType'
  BY <1>11 DEF BookingAnswered, BookingAnnounced, Announce, Unaware, ScreenType, screen, view,
               fetches, rows
<1>12. ASSUME NEW c \in User, BookingFailed(c) \/ BookingRefused(c)
       PROVE  ScreenType'
  <2>1. booked' \subseteq booked /\ dead' \subseteq Window
    <3>1. CASE BookingFailed(c)
      <4>1. booking[c] # NoBooking
        BY <3>1 DEF BookingFailed, NoBooking
      <4>. QED  BY <3>1, <4>1, AskedIsWindow DEF BookingFailed, ScreenType
    <3>2. CASE BookingRefused(c)
      BY <3>2 DEF BookingRefused, rows, ScreenType
    <3>. QED  BY <1>12, <3>1, <3>2
  <2>2. misled' \subseteq User
    BY <1>12 DEF BookingFailed, BookingRefused, Unaware, ScreenType
  <2>3. refused' \in [User -> SUBSET Calendar]
    BY <1>12, BookedSlots DEF BookingFailed, BookingRefused, GiveUp, ScreenType
  <2>4. UNCHANGED <<known, shown, local, answers, unmarked, settling, visible>>
    BY <1>12 DEF BookingFailed, BookingRefused, view
  <2>. QED  BY <2>1, <2>2, <2>3, <2>4 DEF ScreenType
<1>13. ASSUME NEW c \in User, Drop(c) \/ SubscriptionDies(c)
       PROVE  ScreenType'
  BY <1>13 DEF Drop, SubscriptionDies, ScreenType, view, request, rows
<1>14. CASE DeleteBooking \/ RecoveryWrites
  <2>1. PICK b \in booked \cup dead : /\ booked' \subseteq booked \cup {b}
                                     /\ dead' \subseteq dead \cup {b}
    <3>1. CASE DeleteBooking
      BY <3>1 DEF DeleteBooking
    <3>2. CASE RecoveryWrites
      BY <3>2 DEF RecoveryWrites
    <3>. QED  BY <1>14, <3>1, <3>2
  <2>2. misled' \subseteq User
    BY <1>14 DEF DeleteBooking, RecoveryWrites, Announce, Unaware, ScreenType
  <2>3. UNCHANGED <<known, shown, local, answers, refused, unmarked, settling, visible>>
    BY <1>14 DEF DeleteBooking, RecoveryWrites, view
  <2>. QED  BY <2>1, <2>2, <2>3 DEF ScreenType
<1>15. ASSUME NEW c \in User, Relayed(c) \/ Confirm(c) \/ Reconnect(c)
       PROVE  UNCHANGED Others
  BY <1>15 DEF Relayed, NextSlot, PublishHolds, Confirm, Reconnect, screen, view, fetches,
               request, rows
<1>18. ASSUME NEW c \in User, TimerFires(c) \/ \E s \in Calendar : Click(c, s)
       PROVE  ScreenType'
  <2>1. unmarked' \in [User -> SUBSET Calendar]
    BY <1>18 DEF TimerFires, Click, MarkSlots, ScreenType
  <2>2. UNCHANGED <<known, shown, visible, local, fetches, request>>
    BY <1>18 DEF TimerFires, Click
  <2>. QED  BY <2>1, <2>2 DEF ScreenType, fetches, request, rows
<1>16. ASSUME (\E p \in Place, s \in Calendar : HoldExpires(p, s)) \/ UNCHANGED vars
       PROVE  UNCHANGED Others
  BY <1>16 DEF HoldExpires, vars, screen, view, fetches, request, rows
<1>17. UNCHANGED Others => ScreenType'
  BY DEF ScreenType
<1>. QED  BY <1>1, <1>2, <1>3, <1>4, <1>5, <1>6, <1>7, <1>8, <1>9, <1>10, <1>11, <1>12, <1>13,
             <1>14, <1>15, <1>16, <1>17, <1>18 DEF Next, Automatic, Fetched, Served

\* The types hold of every state.
LEMMA HoldsTypeStep ==
  ASSUME HoldsType, [Next]_vars
  PROVE  HoldsType'
BY SelectionStep, TimersStep, WireStep, ScreenStep DEF HoldsType

LEMMA HoldsTypeInit ==
  ASSUME Init
  PROVE  HoldsType
<1>1. SelectionType
  BY HoldsAssumption DEF Init, SelectionType, Selections
<1>2. TimersType
  BY HoldsAssumption DEF Init, TimersType
<1>3. Blank \in Holding
  BY DEF Blank, Holding
<1>4. <<>> \in Seq(MessageType) /\ <<>> \in Seq(EventType) /\ <<>> \in Seq(Answer)
  OBVIOUS
<1>5. WireType
  BY <1>3, <1>4 DEF Init, WireType
<1>6. ScreenType
  BY <1>3, <1>4, HoldsAssumption DEF Init, ScreenType, BookingsAt
<1>. QED  BY <1>1, <1>2, <1>5, <1>6 DEF HoldsType

\* Browsers, queues, keys and timers keep their types, timers are numbered in the order
\* in which they were armed.
THEOREM HoldsTypeHolds == Spec => []HoldsType
BY HoldsTypeInit, HoldsTypeStep, PTL DEF Spec

LEMMA AnswersAreTyped ==
  ASSUME NEW a \in Answer
  PROVE  AnswerType(a)
BY DEF Answer, AnswerType

\* Type correctness of browsers, queues, keys and fetches, for any users, places,
\* bookings, grid and faults, and for any number of moves.
THEOREM TypeCorrect == Spec => []TypeOK
<1>1. HoldsType => TypeOK
  <2>. SUFFICES ASSUME HoldsType
                PROVE  TypeOK
    OBVIOUS
  <2>1. ASSUME NEW c \in User
        PROVE  /\ outbox[c] \in Seq(MessageType)
               /\ inbox[c] \in Seq(EventType)
               /\ shown[c] \in Holding
               /\ known[c] \subseteq Window
               /\ local[c] \subseteq Place \X Calendar \X User
               /\ refused[c] \subseteq Calendar /\ unmarked[c] \subseteq Calendar
    BY DEF HoldsType, WireType, ScreenType
  <2>2. ASSUME NEW c \in User
        PROVE  /\ handle[c] \in 0 .. MaxMoves
               /\ timers[c] \subseteq [id : 1 .. MaxMoves, slots : SUBSET Calendar]
    <3>1. handle[c] \in 0 .. MaxMoves /\ MaxMoves \in Nat
      BY HoldsAssumption DEF HoldsType, TimersType
    <3>2. ASSUME NEW t \in timers[c]
          PROVE  t \in [id : 1 .. MaxMoves, slots : SUBSET Calendar]
      <4>1. t \in [id : Nat \ {0}, slots : SUBSET Calendar] /\ t.id <= handle[c]
        BY DEF HoldsType, TimersType
      <4>2. t.id \in 1 .. MaxMoves
        BY <3>1, <4>1
      <4>. QED  BY <4>1, <4>2
    <3>. QED  BY <3>1, <3>2
  <2>3. ASSUME NEW c \in User, NEW i \in 1 .. Len(answers[c])
        PROVE  AnswerType(answers[c][i])
    <3>1. answers[c] \in Seq(Answer)
      BY DEF HoldsType, ScreenType
    <3>. QED  BY <3>1, AnswersAreTyped
  <2>4. /\ hold \in [Place -> Holding]
        /\ socket \in [User -> {"open", "deaf", "closed", "gone"}]
        /\ SelectionType /\ booked \subseteq Window /\ dead \subseteq Window
        /\ {settling, visible, misled} \subseteq SUBSET User
    BY DEF HoldsType, WireType, ScreenType
  <2>. QED  BY <2>1, <2>2, <2>3, <2>4 DEF TypeOK
<1>. QED  BY <1>1, HoldsTypeHolds, PTL

-----------------------------------------------------------------------------
(* Calendars are current.                                                  *)

\* Reading R of the bookings at place p is right but for rows not announced yet.
Faithful(R, p) ==
  /\ \A b \in R : b.place = p => b \in booked
  /\ \A b \in booked \ Pending : b.place = p => b \in R

\* Why browser c need not draw its calendar again: it is about to, or what it has
\* drawn, or will have drawn when its fetches are answered in turn, is faithful.
Current(c) ==
  \/ AboutToRead(c)
  \/ answers[c] = <<>> /\ Faithful(known[c], at[c])
  \/ \E i \in 1 .. Len(answers[c]) :
       /\ i = Len(answers[c])
       /\ answers[c][i].stage = "bookings" /\ answers[c][i].place = at[c]
       /\ Faithful(answers[c][i].read, at[c])

CalendarInvariant == \A c \in User \ misled : socket[c] = "open" /\ Current(c)

\* Browser c has reading R of the bookings, or will when a fetch is answered.
Reads(c, R) ==
  \/ R = known[c]
  \/ \E i \in 1 .. Len(answers[c]) : answers[c][i].stage = "bookings" /\ answers[c][i].read = R

\* A reading stays faithful while no booking in it ends and none comes out of Pending.
LEMMA FaithfulStep ==
  ASSUME NEW R, NEW p, Faithful(R, p),
         \A b \in booked : b \in R /\ b.place = p => b \in booked',
         \A b \in booked' \ Pending' : b.place = p => b \in booked \ Pending
  PROVE  Faithful(R, p)'
BY DEF Faithful

\* Of the rows not announced yet, a step of one request leaves those of the others.
LEMMA PendingElsewhere ==
  ASSUME SelectionType, NEW d \in User, NEW B, booking' = [booking EXCEPT ![d] = B]
  PROVE  /\ Pending \subseteq Pending' \cup {Asked(d)}
         /\ booking[d].stage \notin {"pending", "confirmed"} => Pending \subseteq Pending'
<1>1. ASSUME NEW e \in User, e # d
      PROVE  booking'[e] = booking[e] /\ Asked(e)' = Asked(e)
  BY <1>1 DEF Asked, SelectionType
<1>. QED  BY <1>1 DEF Pending

\* The request whose stage changes asks for the same row, pending or confirmed.
LEMMA PendingHere ==
  ASSUME SelectionType, NEW d \in User, booking[d] # NoBooking,
         NEW st \in {"pending", "confirmed"}, booking' = [booking EXCEPT ![d].stage = st]
  PROVE  /\ Asked(d) \in Pending'
         /\ Pending \subseteq Pending' \cup {Asked(d)}
<1>1. booking[d] \in BookingType
  BY DEF SelectionType
<1>2. booking'[d].stage = st /\ Asked(d)' = Asked(d)
  BY <1>1 DEF Asked, SelectionType, BookingType
<1>3. booking' = [booking EXCEPT ![d] = [booking[d] EXCEPT !.stage = st]]
  OBVIOUS
<1>. QED  BY <1>2, <1>3, PendingElsewhere DEF Pending

\* An announcement of a change at the place browser c shows will make it read.
LEMMA AnnouncementArrives ==
  ASSUME HoldsType, NEW c \in User, socket[c] = "open", UNCHANGED at,
         NEW o \in {"confirmed", "cancelled"}, NEW u, Event(o, at[c], {}, u)
  PROVE  AboutToRead(c)'
<1>. DEFINE e == [op |-> o, place |-> at[c], slots |-> {}, by |-> u]
<1>1. inbox[c] \in Seq(EventType) /\ inbox'[c] = Append(inbox[c], e)
  BY DEF Event, HoldsType, WireType
<1>2. inbox'[c][Len(inbox[c]) + 1] = e /\ Len(inbox'[c]) = Len(inbox[c]) + 1
        /\ Len(inbox[c]) \in Nat
  BY <1>1
<1>3. e.op = o /\ e.place = at[c]
  OBVIOUS
<1>. HIDE DEF e
<1>. QED  BY <1>2, <1>3 DEF AboutToRead

\* A change to the bookings of the place browser c shows is announced to it, or it has
\* an excuse.
LEMMA AnnouncedOrMisled ==
  ASSUME HoldsType, NEW c \in User, socket[c] = "open", ~ AboutToRead(c), UNCHANGED at,
         c \notin misled', NEW o \in {"confirmed", "cancelled"}, NEW p, NEW u, Announce(o, p, u)
  PROVE  p # at[c] \/ AboutToRead(c)'
<1>1. Event(o, p, {}, u) \/ misled' = misled \cup Unaware(p)
  BY DEF Announce
<1>. QED  BY <1>1, AnnouncementArrives DEF Unaware

\* Faithful readings stay so while bookings come and go, or their end is announced.
LEMMA ReadingStaysFaithful ==
  ASSUME HoldsType, NEW c \in User, c \notin misled', socket[c] = "open", ~ AboutToRead(c),
         NEW R, Reads(c, R), Faithful(R, at[c]),
         \/ DeleteBooking \/ RecoveryWrites
         \/ \E d \in User : Served(d) \/ Confirm(d)
  PROVE  Faithful(R, at[c])' \/ AboutToRead(c)'
<1>. DEFINE p == at[c]
<1>0. at' = at /\ SelectionType
  <2>1. at' = at
    BY DEF DeleteBooking, RecoveryWrites, Served, BookingInserted, BookingConfirmed,
           BookingAnnounced, BookingAnswered, BookingFailed, BookingRefused, Confirm, screen, view
  <2>. QED  BY <2>1 DEF HoldsType
<1>1. ASSUME NEW d \in User, BookingInserted(d) \/ BookingConfirmed(d)
      PROVE  Faithful(R, p)'
  <2>1. /\ booked' = booked \cup {Asked(d)} /\ booking[d] # NoBooking
        /\ \E st \in {"pending", "confirmed"} : booking' = [booking EXCEPT ![d].stage = st]
    BY <1>1 DEF BookingInserted, BookingConfirmed, NoBooking
  <2>2. Asked(d) \in Pending' /\ Pending \subseteq Pending' \cup {Asked(d)}
    BY <1>0, <2>1, PendingHere
  <2>. QED  BY <1>0, <2>1, <2>2, FaithfulStep
<1>2. ASSUME NEW d \in User, BookingAnnounced(d)
      PROVE  Faithful(R, p)' \/ AboutToRead(c)'
  <2>1. /\ booked' = booked /\ Announce("confirmed", booking[d].place, d)
        /\ booking' = [booking EXCEPT ![d] = [booking[d] EXCEPT !.stage = "announced"]]
    BY <1>2 DEF BookingAnnounced, rows
  <2>2. Asked(d).place # p \/ AboutToRead(c)'
    BY <1>0, <2>1, AnnouncedOrMisled DEF Asked
  <2>3. Pending \subseteq Pending' \cup {Asked(d)}
    BY <1>0, <2>1, PendingElsewhere
  <2>. QED  BY <1>0, <2>1, <2>2, <2>3, FaithfulStep
<1>3. ASSUME NEW d \in User, NEW B, booking' = [booking EXCEPT ![d] = B], booked' = booked,
             booking[d].stage \notin {"pending", "confirmed"}
      PROVE  Faithful(R, p)'
  BY <1>0, <1>3, PendingElsewhere, FaithfulStep
<1>4. ASSUME NEW d \in User, BookingAnswered(d) \/ Confirm(d)
      PROVE  Faithful(R, p)'
  <2>1. /\ booked' = booked /\ booking[d].stage \notin {"pending", "confirmed"}
        /\ \E B : booking' = [booking EXCEPT ![d] = B]
    BY <1>4 DEF BookingAnswered, Confirm, NoBooking, rows
  <2>. QED  BY <1>3, <2>1
<1>5. ASSUME NEW d \in User, BookingFailed(d)
      PROVE  Faithful(R, p)'
  <2>1. /\ booked' = booked \ {Asked(d)}
        /\ booking' = [booking EXCEPT ![d] = NoBooking]
        /\ misled' = misled \cup {e \in Unaware(booking[d].place) : HasRead(e, Asked(d))}
    BY <1>5 DEF BookingFailed, GiveUp
  <2>2. Asked(d).place # p \/ Asked(d) \notin R
    <3>1. Asked(d).place = p => c \in Unaware(booking[d].place)
      BY DEF Unaware, Asked
    <3>. QED  BY <2>1, <3>1 DEF Reads, HasRead
  <2>3. Pending \subseteq Pending' \cup {Asked(d)}
    BY <1>0, <2>1, PendingElsewhere
  <2>. QED  BY <1>0, <2>1, <2>2, <2>3, FaithfulStep
<1>6. ASSUME NEW d \in User, BookingRefused(d)
      PROVE  Faithful(R, p)'
  <2>1. booked' = booked /\ booking' = [booking EXCEPT ![d] = NoBooking]
    BY <1>6 DEF BookingRefused, GiveUp, rows
  <2>2. CASE booking[d].stage \in {"pending", "confirmed"}
    <3>1. misled' = misled \cup Unaware(booking[d].place)
      BY <1>6, <2>2 DEF BookingRefused
    <3>2. Asked(d).place # p
      BY <3>1 DEF Unaware, Asked
    <3>3. Pending \subseteq Pending' \cup {Asked(d)}
      BY <1>0, <2>1, PendingElsewhere
    <3>. QED  BY <1>0, <2>1, <3>2, <3>3, FaithfulStep
  <2>. QED  BY <1>3, <2>1, <2>2
<1>7. ASSUME UNCHANGED booking, NEW b, b.place # p, booked' \in {booked \cup {b}, booked \ {b}}
      PROVE  Faithful(R, p)'
  <2>1. Pending' = Pending
    BY <1>7 DEF Pending, Asked
  <2>. QED  BY <1>0, <1>7, <2>1, FaithfulStep
<1>8. CASE DeleteBooking
  <2>1. PICK b : booked' = booked \ {b} /\ Announce("cancelled", b.place, Free)
    BY <1>8 DEF DeleteBooking
  <2>2. UNCHANGED booking
    BY <1>8 DEF DeleteBooking
  <2>3. b.place # p \/ AboutToRead(c)'
    BY <1>0, <2>1, AnnouncedOrMisled
  <2>. QED  BY <1>7, <2>1, <2>2, <2>3
<1>9. CASE RecoveryWrites
  <2>1. PICK b : /\ booked' \in {booked \cup {b}, booked \ {b}}
                 /\ misled' = misled \cup Unaware(b.place)
    BY <1>9 DEF RecoveryWrites
  <2>2. UNCHANGED booking
    BY <1>9 DEF RecoveryWrites
  <2>3. b.place # p
    BY <2>1 DEF Unaware
  <2>. QED  BY <1>7, <2>1, <2>2, <2>3
<1>. QED  BY <1>1, <1>2, <1>4, <1>5, <1>6, <1>8, <1>9 DEF Served

\* An announcement on its way stays there, and so does a redraw that has yet to read.
LEMMA AboutToReadStays ==
  ASSUME HoldsType, NEW c \in User, at'[c] = at[c], answers'[c] = answers[c], AboutToRead(c),
         inbox'[c] = inbox[c] \/ \E e : inbox'[c] = Append(inbox[c], e)
  PROVE  AboutToRead(c)'
<1>1. inbox[c] \in Seq(EventType)
  BY DEF HoldsType, WireType
<1>2. \A i \in 1 .. Len(inbox[c]) : i \in 1 .. Len(inbox'[c]) /\ inbox'[c][i] = inbox[c][i]
  <2>1. CASE inbox'[c] = inbox[c]
    BY <2>1
  <2>2. ASSUME NEW e, inbox'[c] = Append(inbox[c], e)
        PROVE  \A i \in 1 .. Len(inbox[c]) : i \in 1 .. Len(inbox'[c]) /\ inbox'[c][i] = inbox[c][i]
    BY <1>1, <2>2
  <2>. QED  BY <2>1, <2>2
<1>. QED  BY <1>2 DEF AboutToRead

\* What is current stays current while nothing happens to browser c but that events
\* reach its queue.
LEMMA StaysCurrent ==
  ASSUME HoldsType, NEW c \in User, Current(c),
         at'[c] = at[c], known'[c] = known[c], answers'[c] = answers[c],
         inbox'[c] = inbox[c] \/ \E e : inbox'[c] = Append(inbox[c], e),
         ~ AboutToRead(c) => \A R : Reads(c, R) /\ Faithful(R, at[c]) =>
                               Faithful(R, at[c])' \/ AboutToRead(c)'
  PROVE  Current(c)'
<1>1. CASE AboutToRead(c)
  BY <1>1, AboutToReadStays DEF Current
<1>2. ASSUME ~ AboutToRead(c), answers[c] = <<>>, Faithful(known[c], at[c])
      PROVE  Current(c)'
  <2>1. Reads(c, known[c])
    BY DEF Reads
  <2>2. \A R : R = known[c] => Faithful(R, at[c])' \/ AboutToRead(c)'
    BY <1>2, <2>1
  <2>3. Faithful(known[c], at[c])' \/ AboutToRead(c)'
    BY <2>2 DEF Faithful
  <2>. QED  BY <1>2, <2>3 DEF Current, Faithful
<1>3. ASSUME ~ AboutToRead(c), NEW i \in 1 .. Len(answers[c]), i = Len(answers[c]),
             answers[c][i].stage = "bookings", answers[c][i].place = at[c],
             Faithful(answers[c][i].read, at[c])
      PROVE  Current(c)'
  <2>1. Reads(c, answers[c][i].read)
    BY <1>3 DEF Reads
  <2>2. \A R : R = answers[c][i].read => Faithful(R, at[c])' \/ AboutToRead(c)'
    BY <1>3, <2>1
  <2>. QED  BY <1>3, <2>2 DEF Current, Faithful
<1>. QED  BY <1>1, <1>2, <1>3 DEF Current

\* A redraw that begins is a reason.
LEMMA RenderIsCurrent ==
  ASSUME HoldsType, NEW c \in User, NEW p \in Place, NEW sh, Render(c, p, sh)
  PROVE  Current(c)'
<1>. DEFINE a == [stage |-> "holds", place |-> p, read |-> hold[p]]
<1>1. answers'[c] = Append(answers[c], a) /\ answers[c] \in Seq(Answer)
  BY DEF Render, HoldsType, ScreenType
<1>2. a.stage = "holds"
  OBVIOUS
<1>. HIDE DEF a
<1>3. Len(answers'[c]) = Len(answers[c]) + 1 /\ answers'[c][Len(answers[c]) + 1] = a
        /\ Len(answers[c]) \in Nat
  BY <1>1
<1>4. \E i \in 1 .. Len(answers'[c]) : answers'[c][i].stage = "holds"
  BY <1>2, <1>3
<1>. QED  BY <1>4 DEF Current, AboutToRead

\* A redraw does nothing to the other browsers.
LEMMA RenderElsewhere ==
  ASSUME HoldsType, NEW c \in User, NEW d \in User, d # c, NEW p, NEW sh, Render(d, p, sh)
  PROVE  answers'[c] = answers[c]
BY DEF Render, HoldsType, ScreenType

\* The answers a browser gets leave it current, unless it has an excuse then.
LEMMA AnswersKeepCurrent ==
  ASSUME HoldsType, NEW c \in User, Current(c), c \notin misled',
         ServerReads(c) \/ DrawHolds(c) \/ DrawBookings(c) \/ DrawFails(c)
  PROVE  Current(c)'
<1>. DEFINE as == answers[c]
            n == Len(as)
<1>0. as \in Seq(Answer) /\ n \in Nat /\ at' = at /\ booked' = booked /\ inbox' = inbox
        /\ booking' = booking
  BY DEF HoldsType, ScreenType, ServerReads, DrawHolds, DrawBookings, DrawFails, request, rows,
         view, wire
<1>9. Pending' = Pending
  BY <1>0 DEF Pending, Asked
<1>1. ASSUME NEW R, Faithful(R, at[c]), answers'[c] = <<>>, known'[c] = R
      PROVE  Current(c)'
  <2>1. Faithful(known[c], at[c])'
    BY <1>0, <1>1, <1>9 DEF Faithful
  <2>. QED  BY <1>1, <2>1 DEF Current
<1>7. ASSUME NEW R, Faithful(R, at[c]), NEW i \in 1 .. Len(answers'[c]), i = Len(answers'[c]),
             answers'[c][i].stage = "bookings", answers'[c][i].place = at[c],
             answers'[c][i].read = R
      PROVE  Current(c)'
  <2>1. Faithful(answers[c][i].read, at[c])'
    BY <1>0, <1>7, <1>9 DEF Faithful
  <2>. QED  BY <1>0, <1>7, <2>1 DEF Current
<1>8. Faithful(BookingsAt(at[c]), at[c])
  BY DEF Faithful, BookingsAt
<1>2. CASE \E i \in 1 .. Len(inbox[c]) :
             inbox[c][i].op \in {"confirmed", "cancelled"} /\ inbox[c][i].place = at[c]
  BY <1>0, <1>2 DEF Current, AboutToRead
<1>3. CASE ServerReads(c)
  <2>1. PICK i \in 1 .. n :
          answers' = [answers EXCEPT ![c][i].read =
            IF as[i].stage = "holds" THEN hold[as[i].place] ELSE BookingsAt(as[i].place)]
    BY <1>3, Zenon DEF ServerReads
  <2>2. /\ Len(answers'[c]) = n
        /\ \A j \in 1 .. n : /\ answers'[c][j].stage = as[j].stage
                             /\ answers'[c][j].place = as[j].place
                             /\ j # i => answers'[c][j] = as[j]
        /\ as[i].stage = "bookings" => answers'[c][i].read = BookingsAt(as[i].place)
    BY <1>0, <2>1 DEF HoldsType, ScreenType, Answer
  <2>4. CASE \E j \in 1 .. n : as[j].stage = "holds"
    BY <2>2, <2>4 DEF Current, AboutToRead
  <2>5. CASE n > 0 /\ as[n].stage = "bookings" /\ as[n].place = at[c] /\ Faithful(as[n].read, at[c])
    <3>1. Faithful(answers'[c][n].read, at[c])
      BY <2>2, <2>5, <1>8
    <3>. QED  BY <2>2, <2>5, <3>1, <1>7
  <2>6. as # <<>>
    BY <1>0
  <2>. QED  BY <1>2, <2>4, <2>5, <2>6 DEF Current, AboutToRead
<1>4. CASE DrawHolds(c)
  <2>. DEFINE new == [stage |-> "bookings", place |-> at[c], read |-> BookingsAt(at[c])]
  <2>1. PICK i \in 1 .. n : answers' = [answers EXCEPT ![c] = Append(RemoveAt(@, i), new)]
    BY <1>4 DEF DrawHolds
  <2>2. answers'[c] = Append(RemoveAt(as, i), new)
    BY <2>1 DEF HoldsType, ScreenType
  <2>3. RemoveAt(as, i) \in Seq(Answer)
    BY <1>0, RemoveIsTyped
  <2>4. /\ Len(answers'[c]) \in 1 .. Len(answers'[c])
        /\ answers'[c][Len(answers'[c])] = new
    BY <2>2, <2>3
  <2>5. new.stage = "bookings" /\ new.place = at[c] /\ new.read = BookingsAt(at[c])
    OBVIOUS
  <2>. HIDE DEF new
  <2>. QED  BY <2>4, <2>5, <1>7, <1>8
<1>5. CASE DrawBookings(c)
  <2>1. PICK i \in 1 .. n :
          /\ as[i].stage = "bookings"
          /\ known' = [known EXCEPT ![c] = as[i].read]
          /\ misled' = IF \E j \in 1 .. i - 1 : as[j].stage = "bookings"
                         THEN misled \cup {c} ELSE misled
          /\ answers' = [answers EXCEPT ![c] = RemoveAt(@, i)]
    BY <1>5 DEF DrawBookings
  <2>2. \A j \in 1 .. i - 1 : as[j].stage # "bookings"
    BY <2>1
  <2>3. answers'[c] = RemoveAt(as, i) /\ known'[c] = as[i].read
    BY <2>1 DEF HoldsType, ScreenType
  <2>4. /\ Len(answers'[c]) = n - 1
        /\ answers'[c] \in Seq(Answer)
        /\ \A j \in 1 .. n - 1 : answers'[c][j] = as[IF j < i THEN j ELSE j + 1]
    BY <1>0, <2>3, RemoveIsTyped
  <2>5. CASE \E j \in 1 .. n : as[j].stage = "holds"
    <3>1. PICK j \in 1 .. n : as[j].stage = "holds"
      BY <2>5
    <3>2. j # i
      BY <2>1, <3>1
    <3>3. CASE j < i
      <4>1. j \in 1 .. n - 1 /\ answers'[c][j] = as[j]
        BY <1>0, <2>4, <3>3
      <4>. QED  BY <2>4, <3>1, <4>1 DEF Current, AboutToRead
    <3>4. CASE j > i
      <4>1. j - 1 \in 1 .. n - 1 /\ answers'[c][j - 1] = as[j]
        BY <1>0, <2>4, <3>4
      <4>. QED  BY <2>4, <3>1, <4>1 DEF Current, AboutToRead
    <3>. QED  BY <3>2, <3>3, <3>4
  <2>6. CASE /\ \A j \in 1 .. n : as[j].stage # "holds"
             /\ n > 0 /\ as[n].stage = "bookings" /\ as[n].place = at[c]
             /\ Faithful(as[n].read, at[c])
    <3>1. \A j \in 1 .. n : as[j].stage = "bookings"
      BY <1>0, <2>6 DEF Answer
    <3>2. i = 1
      BY <2>2, <3>1
    <3>3. CASE n = 1
      <4>1. answers'[c] = <<>>
        BY <2>4, <3>3
      <4>. QED  BY <2>3, <2>6, <3>2, <3>3, <4>1, <1>1
    <3>4. CASE n # 1
      <4>1. n - 1 \in 1 .. Len(answers'[c]) /\ answers'[c][n - 1] = as[n]
        <5>. HIDE DEF n
        <5>1. n - 1 \in 1 .. n - 1 /\ ~ (n - 1 < 1) /\ (n - 1) + 1 = n
          <6>1. n \in Nat /\ n > 0 /\ n # 1
            BY <1>0, <2>6, <3>4
          <6>. QED  BY <6>1
        <5>2. answers'[c][n - 1] = as[(n - 1) + 1]
          BY <2>4, <3>2, <5>1
        <5>. QED  BY <2>4, <5>1, <5>2
      <4>. QED  BY <2>4, <2>6, <4>1, <1>7
    <3>. QED  BY <3>3, <3>4
  <2>7. as # <<>>
    BY <1>0
  <2>. QED  BY <1>2, <2>5, <2>6, <2>7 DEF Current, AboutToRead
<1>6. CASE DrawFails(c)
  BY <1>6 DEF DrawFails
<1>. QED  BY <1>3, <1>4, <1>5, <1>6

\* Steps that leave browser c and the bookings alone, but for its queue.
LEMMA BystanderStaysCurrent ==
  ASSUME HoldsType, NEW c \in User, Current(c),
         at'[c] = at[c], known'[c] = known[c], answers'[c] = answers[c],
         UNCHANGED <<booked, booking>>,
         inbox'[c] = inbox[c] \/ \E e : inbox'[c] = Append(inbox[c], e)
  PROVE  Current(c)'
<1>1. Pending' = Pending
  BY DEF Pending, Asked
<1>2. ASSUME NEW R, Faithful(R, at[c])
      PROVE  Faithful(R, at[c])'
  BY <1>1, <1>2 DEF Faithful
<1>. QED  BY <1>2, StaysCurrent

\* An event that is received is an announcement, which starts a redraw, or none.
LEMMA ReceiverStaysCurrent ==
  ASSUME HoldsType, NEW c \in User, Current(c), Receive(c)
  PROVE  Current(c)'
<1>. DEFINE e == Head(inbox[c])
            Announces(m) == m.op \in {"confirmed", "cancelled"} /\ m.place = at[c]
<1>0. /\ inbox[c] \in Seq(EventType) /\ inbox[c] # <<>> /\ at[c] \in Place
      /\ UNCHANGED <<at, known, booked, booking>>
      /\ inbox'[c] = Tail(inbox[c])
  BY DEF HoldsType, WireType, SelectionType, Receive, request, rows
<1>1. CASE Redraw(c, e)
  BY <1>0, <1>1, RenderIsCurrent DEF Redraw
<1>2. CASE Ignore(c, e) \/ Mark(c, e)
  <2>1. ~ Announces(inbox[c][1])
    BY <1>0, <1>2 DEF Ignore, Mark
  <2>2. answers' = answers
    BY <1>2 DEF Ignore, Mark, fetches
  <2>3. CASE \E i \in 1 .. Len(inbox[c]) : Announces(inbox[c][i])
    <3>1. PICK i \in 1 .. Len(inbox[c]) : Announces(inbox[c][i])
      BY <2>3
    <3>2. i # 1
      BY <2>1, <3>1
    <3>3. i - 1 \in 1 .. Len(inbox'[c]) /\ inbox'[c][i - 1] = inbox[c][i]
      BY <1>0, <3>2
    <3>. QED  BY <1>0, <3>1, <3>3 DEF Current, AboutToRead
  <2>4. CASE ~ \E i \in 1 .. Len(inbox[c]) : Announces(inbox[c][i])
    <3>1. Pending' = Pending
      BY <1>0 DEF Pending, Asked
    <3>. QED  BY <1>0, <2>2, <2>4, <3>1 DEF Current, AboutToRead, Faithful
  <2>. QED  BY <2>3, <2>4
<1>. QED  BY <1>1, <1>2 DEF Receive

\* An excuse ends with a redraw of that browser over an open connection, and only so.
LEMMA ExcusesEnd ==
  ASSUME HoldsType, NEW c \in User, c \in misled, c \notin misled', [Next]_vars
  PROVE  /\ socket[c] = "open" /\ UNCHANGED socket
         /\ \E p \in Place : \E sh : Render(c, p, sh)
<1>1. ASSUME NEW d \in User, NEW p \in Place, NEW sh, Render(d, p, sh), UNCHANGED socket
      PROVE  /\ socket[c] = "open" /\ UNCHANGED socket
             /\ \E q \in Place : \E z : Render(c, q, z)
  BY <1>1 DEF Render
<1>2. ASSUME NEW d \in User, ChangePlace(d) \/ Settle(d)
      PROVE  /\ socket[c] = "open" /\ UNCHANGED socket
             /\ \E q \in Place : \E z : Render(c, q, z)
  <2>1. \E p \in Place : \E sh : Render(d, p, sh)
    BY <1>2 DEF ChangePlace, Settle, HoldsType, SelectionType
  <2>2. UNCHANGED socket
    BY <1>2 DEF ChangePlace, Settle, wire
  <2>. QED  BY <1>1, <2>1, <2>2
<1>3. ASSUME NEW d \in User, Receive(d)
      PROVE  /\ socket[c] = "open" /\ UNCHANGED socket
             /\ \E q \in Place : \E z : Render(c, q, z)
  <2>1. at[d] \in Place /\ UNCHANGED socket
    BY <1>3 DEF Receive, HoldsType, SelectionType
  <2>2. UNCHANGED misled \/ \E sh : Render(d, at[d], sh)
    BY <1>3 DEF Receive, Ignore, Redraw, Mark, fetches
  <2>. QED  BY <1>1, <2>1, <2>2
<1>4. ASSUME NEW d \in User,
             TimerFires(d) \/ LocalTimerFires(d) \/ ServerReads(d) \/ Relayed(d) \/ Fetched(d)
      PROVE  misled \subseteq misled'
  BY <1>4 DEF TimerFires, LocalTimerFires, ServerReads, Relayed, NextSlot, PublishHolds, Fetched,
              DrawHolds, DrawBookings, DrawFails, screen, fetches
<1>5. ASSUME NEW d \in User, Served(d)
      PROVE  misled \subseteq misled'
  BY <1>5 DEF Served, BookingInserted, BookingConfirmed, BookingAnnounced, Announce,
              BookingAnswered, BookingFailed, BookingRefused, screen, fetches
<1>6. ASSUME NEW d \in User,
             Confirm(d) \/ LeavePage(d) \/ Drop(d) \/ SubscriptionDies(d) \/ Reconnect(d)
               \/ \E s \in Calendar : Click(d, s)
      PROVE  misled \subseteq misled'
  BY <1>6 DEF Confirm, LeavePage, Drop, SubscriptionDies, Reconnect, Click, screen, fetches
<1>7. ASSUME \/ DeleteBooking \/ RecoveryWrites \/ UNCHANGED vars
             \/ \E p \in Place, s \in Calendar : HoldExpires(p, s)
      PROVE  misled \subseteq misled'
  BY <1>7 DEF DeleteBooking, Announce, RecoveryWrites, HoldExpires, vars, screen, fetches
<1>. QED  BY <1>2, <1>3, <1>4, <1>5, <1>6, <1>7 DEF Next, Automatic

\* A browser without an excuse has an open connection, and stays current.
LEMMA CalendarStep ==
  ASSUME HoldsType, CalendarInvariant, [Next]_vars
  PROVE  CalendarInvariant'
<1>. SUFFICES ASSUME NEW c \in User, c \notin misled'
              PROVE  socket'[c] = "open" /\ Current(c)'
  BY DEF CalendarInvariant
<1>3. CASE c \in misled
  BY <1>3, ExcusesEnd, RenderIsCurrent
<1>. SUFFICES ASSUME c \notin misled
              PROVE  socket'[c] = "open" /\ Current(c)'
  BY <1>3
<1>0. /\ c \notin misled /\ socket[c] = "open" /\ Current(c)
      /\ socket \in [User -> {"open", "deaf", "closed", "gone"}]
      /\ inbox \in [User -> Seq(EventType)]
  BY DEF CalendarInvariant, HoldsType, WireType
<1>. DEFINE Listens == inbox'[c] = inbox[c] \/ \E e : inbox'[c] = Append(inbox[c], e)
<1>1. /\ \A o, p, slots, u : Event(o, p, slots, u) => Listens
      /\ \A o, p, u : Announce(o, p, u) => Listens
  BY <1>0 DEF Event, Announce
<1>2. ASSUME \/ DeleteBooking \/ RecoveryWrites
             \/ \E d \in User : Served(d) \/ Confirm(d)
      PROVE  socket'[c] = "open" /\ Current(c)'
  <2>1. UNCHANGED <<at, known, answers, socket>> /\ Listens
    <3>1. CASE DeleteBooking \/ RecoveryWrites
      BY <1>1, <3>1 DEF DeleteBooking, RecoveryWrites, view, wire
    <3>2. CASE \E d \in User : Served(d) \/ Confirm(d)
      BY <1>1, <3>2 DEF Served, BookingInserted, BookingConfirmed, BookingAnnounced,
                  BookingAnswered, BookingFailed, BookingRefused, Confirm, screen, view, fetches,
                  wire
    <3>. QED  BY <1>2, <3>1, <3>2
  <2>2. ~ AboutToRead(c) => \A R : Reads(c, R) /\ Faithful(R, at[c]) =>
                              Faithful(R, at[c])' \/ AboutToRead(c)'
    <3>. SUFFICES ASSUME ~ AboutToRead(c), NEW R, Reads(c, R), Faithful(R, at[c])
                  PROVE  Faithful(R, at[c])' \/ AboutToRead(c)'
      BY <2>1 DEF Faithful
    <3>. QED  BY <1>0, <1>2, ReadingStaysFaithful
  <2>. QED  BY <1>0, <2>1, <2>2, StaysCurrent
<1>4. ASSUME NEW d \in User,
             \/ TimerFires(d) \/ LocalTimerFires(d) \/ Relayed(d)
             \/ \E s \in Calendar : Click(d, s)
      PROVE  socket'[c] = "open" /\ Current(c)'
  <2>1. UNCHANGED <<at, known, answers, socket, booked, booking>> /\ Listens
    <3>1. CASE TimerFires(d) \/ \E s \in Calendar : Click(d, s)
      BY <3>1 DEF TimerFires, Click, fetches, request, rows
    <3>2. CASE LocalTimerFires(d) \/ NextSlot(d)
      BY <3>2 DEF LocalTimerFires, NextSlot, screen, view, fetches, request, rows, wire
    <3>3. CASE PublishHolds(d)
      BY <1>1, <3>3 DEF PublishHolds, screen, view, fetches, request, rows
    <3>. QED  BY <1>4, <3>1, <3>2, <3>3 DEF Relayed
  <2>. QED  BY <1>0, <2>1, BystanderStaysCurrent
<1>5. ASSUME (\E p \in Place, s \in Calendar : HoldExpires(p, s)) \/ UNCHANGED vars
      PROVE  socket'[c] = "open" /\ Current(c)'
  <2>1. UNCHANGED <<at, known, answers, socket, booked, booking, inbox>>
    BY <1>5 DEF HoldExpires, vars, screen, view, fetches, request, rows, wire
  <2>. QED  BY <1>0, <2>1, BystanderStaysCurrent
<1>6. CASE ChangePlace(c) \/ Settle(c)
  <2>1. \E p \in Place : \E sh : Render(c, p, sh)
    BY <1>6 DEF ChangePlace, Settle, HoldsType, SelectionType
  <2>2. socket' = socket
    BY <1>6 DEF ChangePlace, Settle, wire
  <2>. QED  BY <1>0, <2>1, <2>2, RenderIsCurrent
<1>7. CASE Receive(c)
  BY <1>0, <1>7, ReceiverStaysCurrent DEF Receive
<1>8. CASE Fetched(c) \/ ServerReads(c)
  <2>1. socket' = socket
    BY <1>8 DEF Fetched, DrawHolds, DrawBookings, DrawFails, ServerReads, wire
  <2>. QED  BY <1>0, <1>8, <2>1, AnswersKeepCurrent DEF Fetched
<1>9. CASE LeavePage(c) \/ Drop(c) \/ SubscriptionDies(c)
  BY <1>9 DEF LeavePage, Drop, SubscriptionDies
<1>10. ASSUME NEW d \in User, d # c,
              \/ ChangePlace(d) \/ Settle(d) \/ Receive(d) \/ Fetched(d) \/ ServerReads(d)
              \/ LeavePage(d) \/ Drop(d) \/ SubscriptionDies(d)
       PROVE  socket'[c] = "open" /\ Current(c)'
  <2>. DEFINE Elsewhere == /\ at'[c] = at[c] /\ known'[c] = known[c] /\ answers'[c] = answers[c]
                           /\ inbox'[c] = inbox[c] /\ socket'[c] = socket[c]
                           /\ UNCHANGED <<booked, booking>>
  <2>0. /\ at \in [User -> Place] /\ known \in [User -> SUBSET Window]
        /\ answers \in [User -> Seq(Answer)]
    BY DEF HoldsType, SelectionType, ScreenType
  <2>1. CASE ChangePlace(d) \/ Settle(d)
    <3>1. \E p, sh : Render(d, p, sh)
      BY <2>1 DEF ChangePlace, Settle
    <3>2. Elsewhere
      BY <1>0, <2>0, <1>10, <2>1, <3>1, RenderElsewhere
      DEF ChangePlace, Settle, request, rows, wire
    <3>. QED  BY <1>0, <3>2, BystanderStaysCurrent
  <2>2. CASE Receive(d)
    <3>1. answers'[c] = answers[c]
      BY <1>10, <2>2, RenderElsewhere DEF Receive, Redraw, Ignore, Mark, fetches
    <3>2. Elsewhere
      BY <1>0, <1>10, <2>2, <3>1 DEF Receive, request, rows
    <3>. QED  BY <1>0, <3>2, BystanderStaysCurrent
  <2>3. CASE Fetched(d) \/ ServerReads(d)
    <3>1. Elsewhere
      BY <2>0, <1>10, <2>3 DEF Fetched, DrawHolds, DrawBookings, DrawFails, ServerReads, request,
                                   rows, view, wire
    <3>. QED  BY <1>0, <3>1, BystanderStaysCurrent
  <2>4. CASE LeavePage(d) \/ Drop(d) \/ SubscriptionDies(d)
    <3>1. Elsewhere
      BY <1>0, <2>0, <1>10, <2>4 DEF LeavePage, Drop, SubscriptionDies, view, request, rows
    <3>. QED  BY <1>0, <3>1, BystanderStaysCurrent
  <2>. QED  BY <1>10, <2>1, <2>2, <2>3, <2>4
<1>11. ASSUME NEW d \in User, Reconnect(d)
       PROVE  socket'[c] = "open" /\ Current(c)'
  <2>1. socket'[c] = "open" /\ UNCHANGED <<at, known, answers, booked, booking, inbox>>
    BY <1>0, <1>11 DEF Reconnect, screen, view, fetches, request, rows
  <2>. QED  BY <1>0, <2>1, BystanderStaysCurrent
<1>. QED  BY <1>2, <1>4, <1>5, <1>6, <1>7, <1>8, <1>9, <1>10, <1>11 DEF Next, Automatic

LEMMA CalendarInit ==
  ASSUME Init
  PROVE  CalendarInvariant
<1>1. ASSUME NEW c \in User
      PROVE  socket[c] = "open" /\ answers[c] = <<>> /\ Faithful(known[c], at[c])
  BY DEF Init, Faithful, BookingsAt
<1>. QED  BY <1>1 DEF CalendarInvariant, Current

\* A browser without an excuse is connected, and what it will have read in the end, from
\* an answer on its way or after an announcement, is what is booked, give or take the rows
\* not announced yet.
THEOREM CalendarInvariantHolds == Spec => []CalendarInvariant
<1>1. Init => CalendarInvariant
  BY CalendarInit
<1>2. HoldsType /\ CalendarInvariant /\ [Next]_vars => CalendarInvariant'
  BY CalendarStep
<1>. QED  BY <1>1, <1>2, HoldsTypeHolds, PTL DEF Spec

\* A browser without an excuse that waits neither for an announcement nor for an answer
\* shows as taken what the announced bookings take, and nothing that no booking takes: for
\* any users, places, bookings, grid and faults.
THEOREM CalendarsAreCurrent == Spec => []CalendarIsCurrent
<1>1. CalendarInvariant => CalendarIsCurrent
  <2>. SUFFICES ASSUME CalendarInvariant, NEW c \in User \ misled,
                       ~ AboutToRead(c), answers[c] = <<>>
                PROVE  /\ TakenBy(booked \ Pending, at[c]) \subseteq TakenSlots(c)
                       /\ TakenSlots(c) \subseteq TakenBy(booked, at[c])
    BY DEF CalendarIsCurrent
  <2>1. Faithful(known[c], at[c])
    BY DEF CalendarInvariant, Current
  <2>. QED  BY <2>1 DEF Faithful, TakenSlots, TakenBy
<1>. QED  BY <1>1, CalendarInvariantHolds, PTL

-----------------------------------------------------------------------------
(* Holds end.                                                              *)

\* A release of slot s comes after position i of a queue.
ReleaseFollows(msgs, i, s) ==
  \E j \in 1 .. Len(msgs) : j > i /\ msgs[j].op = "release" /\ s \in msgs[j].slots

\* The timer armed last is that of the selection, if there is one.
LatestTimer ==
  \A c \in User : \A t \in timers[c] :
    selected[c] # <<>> /\ t.id = handle[c] => t.slots = Covered(selected[c])

\* Of a queue, only the first message may be done in part.
QueuesWhole ==
  \A c \in User : \A i \in 1 .. Len(outbox[c]) :
    /\ outbox[c][i].todo \subseteq outbox[c][i].slots
    /\ i > 1 => outbox[c][i].todo = outbox[c][i].slots

\* Each hold on its way to the server, from there to a browser, or on a screen has
\* something behind it that will end it.
MessagesAnswered ==
  \A u \in User : \A i \in 1 .. Len(outbox[u]) : \A s \in outbox[u][i].slots :
    outbox[u][i].op = "hold" => ReleaseFollows(outbox[u], i, s) \/ Answerable(u, s)

EventsAnswered ==
  \A c, u \in User : \A i \in 1 .. Len(inbox[c]) : \A s \in inbox[c][i].slots :
    inbox[c][i].op = "hold" /\ inbox[c][i].by = u =>
      \/ ReleaseFollows(inbox[c], i, s)
      \/ ReleaseFollows(outbox[u], 0, s)
      \/ Answerable(u, s)

ScreensAnswered ==
  \A c, u \in User, s \in Calendar :
    shown[c][s] = u =>
      \/ <<at[c], s, u>> \in local[c]
      \/ ReleaseFollows(inbox[c], 0, s)
      \/ ReleaseFollows(outbox[u], 0, s)
      \/ Answerable(u, s)

Answered ==
  /\ QueuesWhole /\ NoHoldIsForgotten
  /\ MessagesAnswered /\ EventsAnswered /\ ScreensAnswered

HoldsInvariant == (\A c \in User : socket[c] = "open") /\ LatestTimer /\ Answered

\* Connections last, no page is left, and there is one place only.
Undisturbed == Place = {First} /\ Faults \cap {"page", "socket"} = {}

\* What user u does: new messages go behind the others, a hold among them is answered
\* for, and what was answered for still is, or is released.
Answers(u) ==
  /\ Len(outbox[u]) <= Len(outbox'[u])
  /\ \A i \in 1 .. Len(outbox[u]) : outbox'[u][i] = outbox[u][i]
  /\ \A i \in Len(outbox[u]) + 1 .. Len(outbox'[u]) :
       /\ outbox'[u][i].todo = outbox'[u][i].slots
       /\ outbox'[u][i].op = "hold" => \A s \in outbox'[u][i].slots : Answerable(u, s)'
  /\ \A s \in Calendar : Answerable(u, s) =>
       \/ Answerable(u, s)'
       \/ \E i \in Len(outbox[u]) + 1 .. Len(outbox'[u]) :
            outbox'[u][i].op = "release" /\ s \in outbox'[u][i].slots

\* What reaches browser c: events that hold nothing, and holds with a timer of its own.
Harmless(c) ==
  /\ Len(inbox[c]) <= Len(inbox'[c])
  /\ \A i \in 1 .. Len(inbox[c]) : inbox'[c][i] = inbox[c][i]
  /\ \A i \in Len(inbox[c]) + 1 .. Len(inbox'[c]) : inbox'[c][i].op # "hold"
  /\ \A u \in User, s \in Calendar : shown'[c][s] = u =>
       \/ <<at'[c], s, u>> \in local'[c]
       \/ /\ shown[c][s] = u
          /\ <<at[c], s, u>> \in local[c] => <<at'[c], s, u>> \in local'[c]

\* Lengths of well-formed queues are numbers, their slots are slots.
LEMMA QueuesAreTyped ==
  ASSUME HoldsType, NEW c \in User
  PROVE  /\ Len(outbox[c]) \in Nat /\ \A i \in 1 .. Len(outbox[c]) : outbox[c][i] \in MessageType
         /\ Len(inbox[c]) \in Nat /\ \A i \in 1 .. Len(inbox[c]) : inbox[c][i] \in EventType
<1>1. outbox[c] \in Seq(MessageType) /\ inbox[c] \in Seq(EventType)
  BY DEF HoldsType, WireType
<1>. QED  BY <1>1

\* Steps of users that answer for what they do, seen by browsers that take no harm.
LEMMA AnsweredStays ==
  ASSUME HoldsType, HoldsType', Answered,
         \A u \in User : Answers(u) /\ Harmless(u),
         \A p \in Place, s \in Calendar, u \in User : hold'[p][s] = u => hold[p][s] = u,
         Place = {First}
  PROVE  Answered'
<1>1. \A c \in User :
        /\ Len(outbox[c]) \in Nat /\ Len(outbox'[c]) \in Nat
        /\ Len(inbox[c]) \in Nat /\ Len(inbox'[c]) \in Nat
  BY QueuesAreTyped DEF HoldsType, WireType
<1>2. ASSUME NEW u \in User, NEW s \in Calendar,
             NEW i \in 0 .. Len(outbox[u]),
             ReleaseFollows(outbox[u], i, s) \/ Answerable(u, s)
      PROVE  ReleaseFollows(outbox'[u], i, s) \/ Answerable(u, s)'
  <2>1. CASE ReleaseFollows(outbox[u], i, s)
    BY <1>1, <2>1 DEF ReleaseFollows, Answers
  <2>2. CASE Answerable(u, s)
    <3>1. CASE \E j \in Len(outbox[u]) + 1 .. Len(outbox'[u]) :
                 outbox'[u][j].op = "release" /\ s \in outbox'[u][j].slots
      BY <1>1, <3>1 DEF ReleaseFollows
    <3>. QED  BY <2>2, <3>1 DEF Answers
  <2>. QED  BY <1>2, <2>1, <2>2
<1>3. QueuesWhole'
  <2>. SUFFICES ASSUME NEW c \in User, NEW i \in 1 .. Len(outbox'[c])
                PROVE  /\ outbox'[c][i].todo \subseteq outbox'[c][i].slots
                       /\ i > 1 => outbox'[c][i].todo = outbox'[c][i].slots
    BY DEF QueuesWhole
  <2>1. CASE i <= Len(outbox[c])
    BY <1>1, <2>1 DEF Answers, Answered, QueuesWhole
  <2>2. CASE ~ (i <= Len(outbox[c]))
    BY <1>1, <2>2 DEF Answers
  <2>. QED  BY <2>1, <2>2
<1>4. NoHoldIsForgotten'
  <2>. SUFFICES ASSUME NEW p \in Place, NEW s \in Calendar, NEW u \in User, hold'[p][s] = u
                PROVE  Releasing(u, p, s)' \/ Answerable(u, s)'
    BY DEF NoHoldIsForgotten
  <2>1. Releasing(u, p, s) \/ Answerable(u, s)
    BY DEF Answered, NoHoldIsForgotten
  <2>2. CASE Releasing(u, p, s)
    BY <1>1, <2>2 DEF Releasing, Answers
  <2>3. CASE \E j \in Len(outbox[u]) + 1 .. Len(outbox'[u]) :
               outbox'[u][j].op = "release" /\ s \in outbox'[u][j].slots
    <3>1. PICK j \in Len(outbox[u]) + 1 .. Len(outbox'[u]) :
            outbox'[u][j].op = "release" /\ s \in outbox'[u][j].slots
      BY <2>3
    <3>2. j \in 1 .. Len(outbox'[u])
      BY <1>1
    <3>3. outbox'[u][j] \in MessageType
      BY <3>2 DEF HoldsType, WireType
    <3>4. outbox'[u][j].place = p /\ s \in outbox'[u][j].todo
      BY <3>1, <3>3 DEF MessageType, Answers
    <3>. QED  BY <3>1, <3>2, <3>4 DEF Releasing
  <2>. QED  BY <2>1, <2>2, <2>3 DEF Answers
<1>5. MessagesAnswered'
  <2>. SUFFICES ASSUME NEW u \in User, NEW i \in 1 .. Len(outbox'[u]),
                       NEW s \in outbox'[u][i].slots, outbox'[u][i].op = "hold"
                PROVE  ReleaseFollows(outbox'[u], i, s) \/ Answerable(u, s)'
    BY DEF MessagesAnswered, ReleaseFollows
  <2>0. s \in Calendar
    <3>1. outbox'[u][i] \in MessageType
      BY DEF HoldsType, WireType
    <3>. QED  BY <3>1 DEF MessageType
  <2>1. CASE i <= Len(outbox[u])
    <3>1. i \in 1 .. Len(outbox[u]) /\ outbox'[u][i] = outbox[u][i]
      BY <1>1, <2>1 DEF Answers
    <3>2. ReleaseFollows(outbox[u], i, s) \/ Answerable(u, s)
      BY <3>1 DEF Answered, MessagesAnswered
    <3>. QED  BY <1>2, <2>0, <3>1, <3>2
  <2>2. CASE ~ (i <= Len(outbox[u]))
    BY <1>1, <2>2 DEF Answers
  <2>. QED  BY <2>1, <2>2
<1>6. EventsAnswered'
  <2>. SUFFICES ASSUME NEW c \in User, NEW u \in User, NEW i \in 1 .. Len(inbox'[c]),
                       NEW s \in inbox'[c][i].slots, inbox'[c][i].op = "hold", inbox'[c][i].by = u
                PROVE  \/ ReleaseFollows(inbox'[c], i, s)
                       \/ ReleaseFollows(outbox'[u], 0, s)
                       \/ Answerable(u, s)'
    BY DEF EventsAnswered, ReleaseFollows
  <2>0. s \in Calendar
    <3>1. inbox'[c][i] \in EventType
      BY DEF HoldsType, WireType
    <3>. QED  BY <3>1 DEF EventType
  <2>1. i \in 1 .. Len(inbox[c]) /\ inbox'[c][i] = inbox[c][i]
    BY <1>1 DEF Harmless
  <2>2. \/ ReleaseFollows(inbox[c], i, s)
        \/ ReleaseFollows(outbox[u], 0, s) \/ Answerable(u, s)
    BY <2>1 DEF Answered, EventsAnswered
  <2>3. ReleaseFollows(inbox[c], i, s) => ReleaseFollows(inbox'[c], i, s)
    BY <1>1 DEF ReleaseFollows, Harmless
  <2>4. 0 \in 0 .. Len(outbox[u])
    BY <1>1
  <2>. QED  BY <1>2, <2>0, <2>2, <2>3, <2>4
<1>7. ScreensAnswered'
  <2>. SUFFICES ASSUME NEW c \in User, NEW u \in User, NEW s \in Calendar, shown'[c][s] = u,
                       <<at'[c], s, u>> \notin local'[c]
                PROVE  \/ ReleaseFollows(inbox'[c], 0, s)
                       \/ ReleaseFollows(outbox'[u], 0, s)
                       \/ Answerable(u, s)'
    BY DEF ScreensAnswered, ReleaseFollows
  <2>1. shown[c][s] = u /\ <<at[c], s, u>> \notin local[c]
    BY DEF Harmless
  <2>2. \/ ReleaseFollows(inbox[c], 0, s)
        \/ ReleaseFollows(outbox[u], 0, s) \/ Answerable(u, s)
    BY <2>1 DEF Answered, ScreensAnswered
  <2>3. ReleaseFollows(inbox[c], 0, s) => ReleaseFollows(inbox'[c], 0, s)
    <3>1. /\ Len(inbox[c]) <= Len(inbox'[c])
          /\ \A i \in 1 .. Len(inbox[c]) : inbox'[c][i] = inbox[c][i]
      BY DEF Harmless
    <3>. QED  BY <1>1, <3>1 DEF ReleaseFollows
  <2>4. 0 \in 0 .. Len(outbox[u])
    BY <1>1
  <2>. QED  BY <1>2, <2>2, <2>3, <2>4
<1>. QED  BY <1>3, <1>4, <1>5, <1>6, <1>7 DEF Answered

\* z is numbered as a, of length n, followed by b, of length m.
Numbered(z, a, n, b, m) ==
  Len(z) = n + m /\ \A k \in 1 .. n + m : z[k] = IF k <= n THEN a[k] ELSE b[k - n]

\* z starts as q, and r and h come after it.
Arranged(z, q, nq, r, nr, h, nh) ==
  /\ Len(z) = nq + (nr + nh)
  /\ \A k \in 1 .. nq : z[k] = q[k]
  /\ \A k \in nq + 1 .. nq + (nr + nh) :
       (\E m \in 1 .. nr : z[k] = r[m]) \/ (\E m \in 1 .. nh : z[k] = h[m])
  /\ \A m \in 1 .. nr : z[nq + m] = r[m]

\* What stands where when r and h are put behind q.
LEMMA Positions ==
  ASSUME NEW q, NEW r, NEW h, NEW x, NEW z, NEW nq \in Nat, NEW nr \in Nat, NEW nh \in Nat,
         Numbered(x, r, nr, h, nh), Numbered(z, q, nq, x, nr + nh)
  PROVE  Arranged(z, q, nq, r, nr, h, nh)
<1>. USE DEF Numbered
<1>1. ASSUME NEW k \in 1 .. nq
      PROVE  z[k] = q[k]
  <2>1. k \in 1 .. nq + (nr + nh) /\ k <= nq
    OBVIOUS
  <2>. QED  BY <2>1
<1>2. ASSUME NEW m \in 1 .. nr
      PROVE  z[nq + m] = r[m]
  <2>1. /\ nq + m \in 1 .. nq + (nr + nh) /\ ~ (nq + m <= nq)
        /\ m \in 1 .. nr + nh /\ m <= nr /\ (nq + m) - nq = m
    OBVIOUS
  <2>2. z[nq + m] = x[(nq + m) - nq]
    BY <2>1
  <2>3. x[m] = r[m]
    BY <2>1
  <2>. QED  BY <2>1, <2>2, <2>3
<1>3. ASSUME NEW k \in nq + 1 .. nq + (nr + nh)
      PROVE  (\E m \in 1 .. nr : z[k] = r[m]) \/ (\E m \in 1 .. nh : z[k] = h[m])
  <2>1. k \in 1 .. nq + (nr + nh) /\ ~ (k <= nq) /\ k - nq \in 1 .. nr + nh
    OBVIOUS
  <2>2. z[k] = x[k - nq]
    BY <2>1
  <2>3. CASE k - nq <= nr
    <3>1. k - nq \in 1 .. nr
      BY <2>1, <2>3
    <3>. QED  BY <2>1, <2>2, <2>3, <3>1
  <2>4. CASE ~ (k - nq <= nr)
    <3>1. (k - nq) - nr \in 1 .. nh
      BY <2>1, <2>4
    <3>2. x[k - nq] = h[(k - nq) - nr]
      BY <2>1, <2>4
    <3>. QED  BY <2>2, <3>1, <3>2
  <2>. QED  BY <2>3, <2>4
<1>4. Len(z) = nq + (nr + nh)
  OBVIOUS
<1>. QED  BY <1>1, <1>2, <1>3, <1>4 DEF Arranged

Concats(z, q, r, h) == z = q \o (r \o h)

LEMMA NumberedAsJoined ==
  ASSUME NEW T, NEW a \in Seq(T), NEW b \in Seq(T)
  PROVE  Numbered(a \o b, a, Len(a), b, Len(b))
BY DEF Numbered

LEMMA PutBehind ==
  ASSUME NEW T, NEW q \in Seq(T), NEW r \in Seq(T), NEW h \in Seq(T), NEW z, Concats(z, q, r, h)
  PROVE  Arranged(z, q, Len(q), r, Len(r), h, Len(h))
<1>1. Len(q) \in Nat /\ Len(r) \in Nat /\ Len(h) \in Nat
  OBVIOUS
<1>2. PICK x \in Seq(T) : x = r \o h
  BY Joined
<1>3. Numbered(x, r, Len(r), h, Len(h))
  BY <1>2, NumberedAsJoined
<1>4. Len(x) = Len(r) + Len(h)
  BY <1>3 DEF Numbered
<1>5. z = q \o x
  BY <1>2 DEF Concats
<1>6. Numbered(z, q, Len(q), x, Len(x))
  BY <1>5, NumberedAsJoined
<1>7. Numbered(z, q, Len(q), x, Len(r) + Len(h))
  BY <1>4, <1>6, Zenon
<1>. QED  BY <1>1, <1>3, <1>7, Positions

\* What stands where when a release and a hold are put behind the other messages.
LEMMA PutMessages ==
  ASSUME NEW q \in Seq(MessageType), NEW z, NEW p \in Place,
         NEW X \in SUBSET Calendar, NEW Y \in SUBSET Calendar,
         Concats(z, q, Message("release", p, X), Message("hold", p, Y))
  PROVE  /\ Len(q) <= Len(z)
         /\ \A k \in 1 .. Len(q) : z[k] = q[k]
         /\ \A k \in Len(q) + 1 .. Len(z) :
              z[k].todo = z[k].slots /\ (z[k].op = "hold" => z[k].slots = Y)
         /\ \A s \in X : \E k \in Len(q) + 1 .. Len(z) : z[k].op = "release" /\ s \in z[k].slots
<1>1. PICK r \in Seq(MessageType), h \in Seq(MessageType) :
        /\ r = Message("release", p, X) /\ h = Message("hold", p, Y)
  BY MessageIsTyped DEF Operation
<1>2. /\ \A k \in 1 .. Len(r) : r[k].op = "release" /\ r[k].slots = X /\ r[k].todo = X
      /\ X # {} => Len(r) = 1
      /\ \A k \in 1 .. Len(h) : h[k].op = "hold" /\ h[k].slots = Y /\ h[k].todo = Y
  BY <1>1 DEF Message
<1>3. PICK nq \in Nat, nr \in Nat, nh \in Nat : nq = Len(q) /\ nr = Len(r) /\ nh = Len(h)
  OBVIOUS
<1>4. Concats(z, q, r, h)
  BY <1>1
<1>5. /\ Len(z) = nq + (nr + nh)
      /\ \A k \in 1 .. nq : z[k] = q[k]
      /\ \A k \in nq + 1 .. nq + (nr + nh) :
           (\E m \in 1 .. nr : z[k] = r[m]) \/ (\E m \in 1 .. nh : z[k] = h[m])
      /\ \A m \in 1 .. nr : z[nq + m] = r[m]
  <2>1. Arranged(z, q, nq, r, nr, h, nh)
    BY <1>3, <1>4, PutBehind
  <2>. QED  BY <2>1 DEF Arranged
<1>6. ASSUME NEW s \in X
      PROVE  \E k \in Len(q) + 1 .. Len(z) : z[k].op = "release" /\ s \in z[k].slots
  <2>1. nr = 1
    BY <1>2, <1>3
  <2>2. 1 \in 1 .. nr /\ nq + 1 \in nq + 1 .. nq + (nr + nh)
    BY <2>1
  <2>3. z[nq + 1] = r[1]
    BY <1>5, <2>2
  <2>4. r[1].op = "release" /\ r[1].slots = X
    BY <1>2, <1>3, <2>2
  <2>. QED  BY <1>3, <1>5, <2>2, <2>3, <2>4
<1>7. ASSUME NEW k \in nq + 1 .. nq + (nr + nh)
      PROVE  z[k].todo = z[k].slots /\ (z[k].op = "hold" => z[k].slots = Y)
  <2>1. ASSUME NEW m \in 1 .. nr, z[k] = r[m]
        PROVE  z[k].todo = z[k].slots /\ z[k].op = "release"
    BY <1>2, <1>3, <2>1
  <2>2. ASSUME NEW m \in 1 .. nh, z[k] = h[m]
        PROVE  z[k].todo = z[k].slots /\ z[k].slots = Y
    BY <1>2, <1>3, <2>2
  <2>. QED  BY <1>5, <2>1, <2>2
<1>8. nq <= nq + (nr + nh)
  BY <1>3
<1>. QED  BY <1>3, <1>5, <1>6, <1>7, <1>8

\* Such messages are answered for when the slots held are, and no others than those
\* released cease to be.
LEMMA SendersAnswer ==
  ASSUME HoldsType, NEW c \in User, NEW X \in SUBSET Calendar, NEW Y \in SUBSET Calendar,
         Concats(outbox'[c], outbox[c], Message("release", at[c], X), Message("hold", at[c], Y)),
         \A s \in Y : Answerable(c, s)',
         \A s \in Calendar : Answerable(c, s) => Answerable(c, s)' \/ s \in X
  PROVE  Answers(c)
<1>0. PICK q \in Seq(MessageType) : q = outbox[c]
  BY DEF HoldsType, WireType
<1>1. PICK z : q = outbox[c] /\ z = outbox'[c]
  BY <1>0
<1>2. /\ Len(q) <= Len(z)
      /\ \A k \in 1 .. Len(q) : z[k] = q[k]
      /\ \A k \in Len(q) + 1 .. Len(z) :
           z[k].todo = z[k].slots /\ (z[k].op = "hold" => z[k].slots = Y)
      /\ \A s \in X : \E k \in Len(q) + 1 .. Len(z) : z[k].op = "release" /\ s \in z[k].slots
  <2>1. at[c] \in Place
    BY DEF HoldsType, SelectionType
  <2>. QED  BY <1>1, <2>1, PutMessages
<1>. QED  BY <1>1, <1>2 DEF Answers

\* The same for a release alone.
LEMMA ReleasersAnswer ==
  ASSUME HoldsType, NEW c \in User, NEW X \in SUBSET Calendar,
         outbox'[c] = outbox[c] \o Message("release", at[c], X),
         \A s \in Calendar : Answerable(c, s) => Answerable(c, s)' \/ s \in X
  PROVE  Answers(c)
<1>1. Message("release", at[c], X) \in Seq(MessageType)
  BY MessageIsTyped DEF HoldsType, SelectionType, Operation
<1>2. Message("hold", at[c], {}) = <<>>
  BY DEF Message
<1>3. Message("release", at[c], X) = Message("release", at[c], X) \o Message("hold", at[c], {})
  BY <1>1, <1>2
<1>4. Concats(outbox'[c], outbox[c], Message("release", at[c], X), Message("hold", at[c], {}))
  BY <1>3 DEF Concats
<1>. QED  BY <1>4, SendersAnswer, {} \in SUBSET Calendar

\* Users that send nothing answer for what they did when they still answer for as much.
LEMMA SilentAnswer ==
  ASSUME HoldsType, NEW c \in User, outbox'[c] = outbox[c],
         \A s \in Calendar : Answerable(c, s) => Answerable(c, s)'
  PROVE  Answers(c)
<1>1. Len(outbox[c]) \in Nat
  BY QueuesAreTyped
<1>2. ~ \E i \in Len(outbox[c]) + 1 .. Len(outbox'[c]) : TRUE
  BY <1>1
<1>. QED  BY <1>1, <1>2 DEF Answers

LEMMA IdleAnswer ==
  ASSUME HoldsType, NEW c \in User,
         outbox'[c] = outbox[c], timers'[c] = timers[c], booking'[c] = booking[c],
         refused[c] \subseteq refused'[c]
  PROVE  Answers(c)
<1>1. \A s \in Calendar : Answerable(c, s) => Answerable(c, s)'
  BY DEF Answerable
<1>. QED  BY <1>1, SilentAnswer

\* Nothing that holds anything reaches the browser, and its screen is as before or blank.
LEMMA QuietIsHarmless ==
  ASSUME HoldsType, NEW c \in User,
         inbox'[c] = inbox[c] \/ \E e : inbox'[c] = Append(inbox[c], e) /\ e.op # "hold",
         at'[c] = at[c], local'[c] = local[c], shown'[c] \in {shown[c], Blank}
  PROVE  Harmless(c)
<1>1. inbox[c] \in Seq(EventType) /\ Len(inbox[c]) \in Nat
  BY DEF HoldsType, WireType
<1>2. /\ Len(inbox[c]) <= Len(inbox'[c])
      /\ \A i \in 1 .. Len(inbox[c]) : inbox'[c][i] = inbox[c][i]
      /\ \A i \in Len(inbox[c]) + 1 .. Len(inbox'[c]) : inbox'[c][i].op # "hold"
  <2>1. CASE inbox'[c] = inbox[c]
    BY <1>1, <2>1
  <2>2. ASSUME NEW e, inbox'[c] = Append(inbox[c], e), e.op # "hold"
        PROVE  /\ Len(inbox[c]) <= Len(inbox'[c])
               /\ \A i \in 1 .. Len(inbox[c]) : inbox'[c][i] = inbox[c][i]
               /\ \A i \in Len(inbox[c]) + 1 .. Len(inbox'[c]) : inbox'[c][i].op # "hold"
    BY <1>1, <2>2
  <2>. QED  BY <2>1, <2>2
<1>3. \A u \in User, s \in Calendar : shown'[c][s] = u => shown[c][s] = u
  BY HoldsAssumption DEF Blank
<1>. QED  BY <1>2, <1>3 DEF Harmless

\* What is announced, if anything arrives, holds nothing.
LEMMA AnnouncementIsHarmless ==
  ASSUME HoldsType, NEW d \in User, NEW o, NEW p, NEW u, Announce(o, p, u)
  PROVE  \E e : e.op = o /\ (inbox'[d] = inbox[d] \/ inbox'[d] = Append(inbox[d], e))
<1>. DEFINE e == [op |-> o, place |-> p, slots |-> {}, by |-> u]
<1>1. e.op = o
  OBVIOUS
<1>2. inbox'[d] = inbox[d] \/ inbox'[d] = Append(inbox[d], e)
  BY DEF Announce, Event
<1>. QED  BY <1>1, <1>2

\* Only a click selects anything, and it arms the timer that goes with that.
LEMMA LatestTimerStep ==
  ASSUME HoldsType, LatestTimer, [Next]_vars
  PROVE  LatestTimer'
<1>. DEFINE Kept == /\ handle' = handle
                    /\ \A d \in User : timers'[d] \subseteq timers[d]
                    /\ \A d \in User : selected'[d] \in {<<>>, selected[d]}
<1>0. /\ timers \in [User -> SUBSET [id : Nat \ {0}, slots : SUBSET Calendar]]
      /\ selected \in [User -> Selections] /\ handle \in [User -> Nat]
      /\ \A d \in User : \A t \in timers[d] : t.id <= handle[d]
  BY DEF HoldsType, TimersType, SelectionType
<1>1. Kept => LatestTimer'
  BY DEF LatestTimer
<1>2. ASSUME NEW c \in User, NEW s \in Calendar, Click(c, s)
      PROVE  LatestTimer'
  <2>. DEFINE new == Selection(c, s)
              t0 == [id |-> handle[c] + 1, slots |-> Covered(new)]
  <2>1. /\ selected'[c] = new /\ handle'[c] = handle[c] + 1
        /\ \A t \in timers'[c] : t \in timers[c] \/ t = t0
    BY <1>0, <1>2 DEF Click
  <2>2. \A d \in User \ {c} : selected'[d] = selected[d] /\ handle'[d] = handle[d]
                              /\ timers'[d] = timers[d]
    BY <1>0, <1>2 DEF Click
  <2>3. \A t \in timers[c] : t.id # handle[c] + 1
    BY <1>0
  <2>4. t0.slots = Covered(new)
    OBVIOUS
  <2>. HIDE DEF new, t0
  <2>. QED  BY <2>1, <2>2, <2>3, <2>4 DEF LatestTimer
<1>3. ASSUME NEW c \in User, TimerFires(c) \/ ChangePlace(c) \/ LeavePage(c) \/ Confirm(c)
                               \/ Drop(c) \/ SubscriptionDies(c)
      PROVE  Kept
  <2>1. \A d \in User : timers'[d] \subseteq timers[d]
    BY <1>0, <1>3, FewerTimers DEF HoldsType
  <2>2. UNCHANGED handle
    BY <1>3 DEF TimerFires, ChangePlace, LeavePage, Confirm, Drop, SubscriptionDies, alarm
  <2>3. selected' = selected \/ selected' = [selected EXCEPT ![c] = <<>>]
    BY <1>3 DEF TimerFires, ChangePlace, Render, LeavePage, Confirm, Drop, SubscriptionDies,
                screen, view
  <2>. QED  BY <1>0, <2>1, <2>2, <2>3
<1>4. ASSUME NEW c \in User,
             Fetched(c) \/ Served(c) \/ Relayed(c) \/ LocalTimerFires(c) \/ Receive(c)
               \/ Settle(c) \/ ServerReads(c) \/ Reconnect(c)
      PROVE  Kept
  <2>1. UNCHANGED <<timers, handle>>
    BY <1>4 DEF Fetched, DrawHolds, DrawBookings, DrawFails, Served, BookingInserted,
                BookingConfirmed, BookingAnnounced, BookingAnswered, BookingFailed,
                BookingRefused, Relayed, NextSlot, PublishHolds, LocalTimerFires, Receive,
                Settle, ServerReads, Reconnect, alarm
  <2>2. selected' = selected \/ selected' = [selected EXCEPT ![c] = <<>>]
    BY <1>4 DEF Fetched, DrawHolds, DrawBookings, DrawFails, Served, BookingInserted,
                BookingConfirmed, BookingAnnounced, BookingAnswered, BookingFailed,
                BookingRefused, Relayed, NextSlot, PublishHolds, LocalTimerFires, Receive,
                Ignore, Redraw, Mark, Render, Settle, ServerReads, Reconnect, screen, view
  <2>. QED  BY <1>0, <2>1, <2>2
<1>5. ASSUME (\E p \in Place, s \in Calendar : HoldExpires(p, s)) \/ DeleteBooking
               \/ RecoveryWrites \/ UNCHANGED vars
      PROVE  Kept
  BY <1>5 DEF HoldExpires, DeleteBooking, RecoveryWrites, vars, alarm, screen, view
<1>. HIDE DEF Kept
<1>. QED  BY <1>1, <1>2, <1>3, <1>4, <1>5 DEF Next, Automatic

\* A click releases what it takes a timer from, and arms one for what it holds.
LEMMA ClickAnswers ==
  ASSUME HoldsType, LatestTimer, NEW c \in User, NEW s \in Calendar, Click(c, s),
         socket[c] = "open"
  PROVE  Answers(c)
<1>. DEFINE X == Covered(selected[c])
            Y == Covered(Selection(c, s))
            t0 == [id |-> handle[c] + 1, slots |-> Y]
            kept == IF selected[c] = <<>> THEN timers[c] ELSE {t \in timers[c] : t.id # handle[c]}
<1>1. X \in SUBSET Calendar /\ Y \in SUBSET Calendar
  BY SelectionIsSelection, CoveredSlots DEF HoldsType, SelectionType
<1>2. /\ timers \in [User -> SUBSET [id : Nat \ {0}, slots : SUBSET Calendar]]
      /\ outbox \in [User -> Seq(MessageType)]
  BY DEF HoldsType, TimersType, WireType
<1>3. Concats(outbox'[c], outbox[c], Message("release", at[c], X), Message("hold", at[c], Y))
  BY <1>2 DEF Click, Send, Concats
<1>4. t0.slots = Y /\ (Selection(c, s) # <<>> => t0 \in timers'[c])
  BY <1>2 DEF Click
<1>5. Selection(c, s) = <<>> => Y = {}
  BY DEF Covered
<1>6. \A t \in timers[c] : t \in timers'[c] \/ (selected[c] # <<>> /\ t.id = handle[c])
  <2>1. /\ Selection(c, s) = <<>> => timers'[c] = kept
        /\ Selection(c, s) # <<>> => timers'[c] = kept \cup {t0}
    BY <1>2 DEF Click
  <2>2. ASSUME NEW t \in timers[c]
        PROVE  t \in kept \/ (selected[c] # <<>> /\ t.id = handle[c])
    <3>1. CASE selected[c] = <<>>
      BY <3>1
    <3>2. CASE selected[c] # <<>> /\ t.id # handle[c]
      <4>1. kept = {z \in timers[c] : z.id # handle[c]}
        BY <3>2
      <4>. QED  BY <3>2, <4>1
    <3>. QED  BY <3>1, <3>2
  <2>. HIDE DEF kept, t0
  <2>. QED  BY <2>1, <2>2
<1>7. UNCHANGED <<booking, refused>>
  BY DEF Click, request
<1>. HIDE DEF X, Y, t0, kept
<1>8. \A z \in Y : Answerable(c, z)'
  BY <1>4, <1>5 DEF Answerable
<1>9. \A t \in timers[c] : t \in timers'[c] \/ t.slots = X
  BY <1>6 DEF LatestTimer, X
<1>10. \A z \in Calendar : Answerable(c, z) => Answerable(c, z)' \/ z \in X
  BY <1>7, <1>9 DEF Answerable
<1>. QED  BY <1>1, <1>3, <1>8, <1>10, SendersAnswer

\* A timer that fires, and a booking that is answered, release what they answered for.
LEMMA TimerAnswers ==
  ASSUME HoldsType, NEW c \in User, TimerFires(c), socket[c] = "open"
  PROVE  Answers(c)
<1>1. PICK t \in timers[c] : /\ timers' = [timers EXCEPT ![c] = @ \ {t}]
                             /\ Send(c, Message("release", at[c], t.slots))
  BY DEF TimerFires
<1>2. /\ timers \in [User -> SUBSET [id : Nat \ {0}, slots : SUBSET Calendar]]
      /\ outbox \in [User -> Seq(MessageType)]
  BY DEF HoldsType, TimersType, WireType
<1>3. t.slots \in SUBSET Calendar
  BY <1>2
<1>4. outbox'[c] = outbox[c] \o Message("release", at[c], t.slots)
  BY <1>1, <1>2 DEF Send
<1>5. timers'[c] = timers[c] \ {t} /\ UNCHANGED <<booking, refused>>
  BY <1>1, <1>2 DEF TimerFires, request
<1>6. \A s \in Calendar : Answerable(c, s) => Answerable(c, s)' \/ s \in t.slots
  BY <1>5 DEF Answerable
<1>. QED  BY <1>3, <1>4, <1>6, ReleasersAnswer

LEMMA BookingAnswers ==
  ASSUME HoldsType, NEW c \in User, BookingAnswered(c), socket[c] = "open"
  PROVE  Answers(c)
<1>1. outbox \in [User -> Seq(MessageType)]
  BY DEF HoldsType, WireType
<1>2. outbox'[c] = outbox[c] \o Message("release", at[c], Covered(booking[c].range))
  BY <1>1 DEF BookingAnswered, Send
<1>3. UNCHANGED <<timers, refused>>
  BY DEF BookingAnswered, alarm
<1>4. \A s \in Calendar :
        Answerable(c, s) => Answerable(c, s)' \/ s \in Covered(booking[c].range)
  BY <1>3 DEF Answerable
<1>5. Covered(booking[c].range) \in SUBSET Calendar
  BY BookedSlots DEF HoldsType
<1>. QED  BY <1>2, <1>4, <1>5, ReleasersAnswer

\* A booking takes over from the timer of the selection, and is remembered when refused.
LEMMA RequestAnswers ==
  ASSUME HoldsType, LatestTimer, NEW c \in User,
         Confirm(c) \/ BookingInserted(c) \/ BookingConfirmed(c) \/ BookingAnnounced(c)
           \/ BookingFailed(c) \/ BookingRefused(c)
  PROVE  Answers(c)
<1>0. /\ timers \in [User -> SUBSET [id : Nat \ {0}, slots : SUBSET Calendar]]
      /\ booking \in [User -> BookingType \cup {NoBooking}]
      /\ refused \in [User -> SUBSET Calendar]
  BY DEF HoldsType, TimersType, SelectionType, ScreenType
<1>1. UNCHANGED outbox
  BY DEF Confirm, BookingInserted, BookingConfirmed, BookingAnnounced, BookingFailed,
         BookingRefused, wire
<1>2. CASE Confirm(c)
  <2>1. /\ booking[c] = NoBooking /\ booking'[c].range = selected[c] /\ selected[c] # <<>>
        /\ UNCHANGED refused
    BY <1>0, <1>2 DEF Confirm
  <2>2. \A t \in timers[c] : t \in timers'[c] \/ t.slots = Covered(selected[c])
    BY <1>0, <1>2, <2>1 DEF Confirm, LatestTimer
  <2>3. Covered(NoBooking.range) = {}
    BY DEF Covered, NoBooking
  <2>4. \A s \in Calendar : Answerable(c, s) => Answerable(c, s)'
    BY <2>1, <2>2, <2>3 DEF Answerable
  <2>. QED  BY <1>1, <2>4, SilentAnswer
<1>3. CASE BookingInserted(c) \/ BookingConfirmed(c) \/ BookingAnnounced(c)
  <2>1. booking'[c].range = booking[c].range /\ UNCHANGED <<timers, refused>>
    BY <1>0, <1>3 DEF BookingInserted, BookingConfirmed, BookingAnnounced, alarm, BookingType,
                      NoBooking
  <2>2. \A s \in Calendar : Answerable(c, s) => Answerable(c, s)'
    BY <2>1 DEF Answerable
  <2>. QED  BY <1>1, <2>2, SilentAnswer
<1>4. CASE BookingFailed(c) \/ BookingRefused(c)
  <2>1. refused'[c] = refused[c] \cup Covered(booking[c].range) /\ UNCHANGED timers
    BY <1>0, <1>4 DEF BookingFailed, BookingRefused, GiveUp, alarm
  <2>2. \A s \in Calendar : Answerable(c, s) => Answerable(c, s)'
    BY <2>1 DEF Answerable
  <2>. QED  BY <1>1, <2>2, SilentAnswer
<1>. QED  BY <1>2, <1>3, <1>4

\* While connections last, everybody answers for what a browser or the server does at a
\* step that works off no queue.
LEMMA AllAnswer ==
  ASSUME HoldsType, LatestTimer, \A d \in User : socket[d] = "open", NEW c \in User,
         \/ \E s \in Calendar : Click(c, s)
         \/ TimerFires(c) \/ Served(c) \/ Confirm(c) \/ Settle(c) \/ Fetched(c)
         \/ ServerReads(c) \/ LocalTimerFires(c),
         NEW u \in User
  PROVE  Answers(u)
<1>0. /\ timers \in [User -> SUBSET [id : Nat \ {0}, slots : SUBSET Calendar]]
      /\ booking \in [User -> BookingType \cup {NoBooking}]
      /\ refused \in [User -> SUBSET Calendar]
      /\ outbox \in [User -> Seq(MessageType)]
  BY DEF HoldsType, TimersType, SelectionType, ScreenType, WireType
<1>1. CASE Settle(c) \/ Fetched(c) \/ ServerReads(c) \/ LocalTimerFires(c)
  <2>1. UNCHANGED <<outbox, timers, booking, refused>>
    BY <1>1 DEF Settle, Fetched, DrawHolds, DrawBookings, DrawFails, ServerReads,
                LocalTimerFires, wire, alarm, request
  <2>. QED  BY <2>1, IdleAnswer
<1>2. CASE u # c /\ \E s \in Calendar : Click(c, s)
  <2>1. outbox'[u] = outbox[u] /\ timers'[u] = timers[u] /\ UNCHANGED <<booking, refused>>
    BY <1>0, <1>2 DEF Click, Send, request
  <2>. QED  BY <2>1, IdleAnswer
<1>3. CASE u # c /\ (TimerFires(c) \/ Confirm(c) \/ Served(c))
  <2>1. outbox'[u] = outbox[u]
    BY <1>0, <1>3 DEF TimerFires, Confirm, Served, BookingInserted, BookingConfirmed,
                      BookingAnnounced, BookingAnswered, BookingFailed, BookingRefused, Send, wire
  <2>2. timers'[u] = timers[u]
    BY <1>0, <1>3 DEF TimerFires, Confirm, Served, BookingInserted, BookingConfirmed,
                      BookingAnnounced, BookingAnswered, BookingFailed, BookingRefused, alarm
  <2>3. booking'[u] = booking[u] /\ refused'[u] = refused[u]
    BY <1>0, <1>3 DEF TimerFires, Confirm, Served, BookingInserted, BookingConfirmed,
                      BookingAnnounced, BookingAnswered, BookingFailed, BookingRefused, GiveUp,
                      request
  <2>. QED  BY <2>1, <2>2, <2>3, IdleAnswer
<1>. QED  BY <1>1, <1>2, <1>3, ClickAnswers, TimerAnswers, BookingAnswers, RequestAnswers DEF Served

\* Nor does any of these steps put a hold on a screen without a timer of its own.
LEMMA AllHarmless ==
  ASSUME HoldsType, Place = {First}, NEW c \in User,
         \/ \E s \in Calendar : Click(c, s)
         \/ TimerFires(c) \/ Served(c) \/ Confirm(c) \/ Settle(c) \/ Fetched(c)
         \/ ServerReads(c) \/ LocalTimerFires(c),
         NEW d \in User
  PROVE  Harmless(d)
<1>0. /\ at \in [User -> Place] /\ shown \in [User -> Holding]
      /\ local \in [User -> SUBSET (Place \X Calendar \X User)]
      /\ inbox \in [User -> Seq(EventType)]
  BY DEF HoldsType, SelectionType, ScreenType, WireType
<1>. DEFINE Listens == inbox'[d] = inbox[d] \/ \E e : inbox'[d] = Append(inbox[d], e) /\ e.op # "hold"
<1>1. CASE \/ \E s \in Calendar : Click(c, s)
           \/ TimerFires(c) \/ Confirm(c) \/ ServerReads(c) \/ DrawBookings(c) \/ DrawFails(c)
           \/ BookingInserted(c) \/ BookingConfirmed(c) \/ BookingAnswered(c)
           \/ BookingFailed(c) \/ BookingRefused(c)
  <2>1. UNCHANGED <<inbox, at, local, shown>>
    BY <1>1 DEF Click, TimerFires, Confirm, ServerReads, DrawBookings, DrawFails,
                BookingInserted, BookingConfirmed, BookingAnswered, BookingFailed,
                BookingRefused, wire, screen, view
  <2>. QED  BY <2>1, QuietIsHarmless
<1>2. CASE BookingAnnounced(c)
  <2>1. UNCHANGED <<at, local, shown>>
    BY <1>2 DEF BookingAnnounced, view
  <2>2. PICK e : e.op = "confirmed" /\ (inbox'[d] = inbox[d] \/ inbox'[d] = Append(inbox[d], e))
    BY <1>2, AnnouncementIsHarmless DEF BookingAnnounced
  <2>. QED  BY <2>1, <2>2, QuietIsHarmless
<1>3. CASE Settle(c)
  <2>1. /\ UNCHANGED <<at, local, inbox>>
        /\ shown' = [shown EXCEPT ![c] = Blank]
    BY <1>3 DEF Settle, Render, wire
  <2>2. shown'[d] \in {shown[d], Blank}
    BY <1>0, <2>1
  <2>. QED  BY <2>1, <2>2, QuietIsHarmless
<1>4. ASSUME UNCHANGED <<inbox, at>>,
             \A u \in User, s \in Calendar : shown'[d][s] = u =>
               \/ <<at'[d], s, u>> \in local'[d]
               \/ /\ shown[d][s] = u
                  /\ <<at[d], s, u>> \in local[d] => <<at'[d], s, u>> \in local'[d]
      PROVE  Harmless(d)
  <2>1. Len(inbox[d]) \in Nat
    BY QueuesAreTyped
  <2>2. ~ \E i \in Len(inbox[d]) + 1 .. Len(inbox'[d]) : TRUE
    BY <1>4, <2>1
  <2>. QED  BY <1>4, <2>1, <2>2 DEF Harmless
<1>5. CASE DrawHolds(c)
  <2>. DEFINE p == at[c]
  <2>1. PICK i \in 1 .. Len(answers[c]) :
          \E held \in {answers[c][i].read} \cup (IF "fetch" \in Faults THEN {Blank} ELSE {}) :
               /\ shown' = [shown EXCEPT ![c] =
                              [s \in Calendar |-> IF held[s] = Free THEN @[s] ELSE held[s]]]
               /\ local' = [local EXCEPT ![c] =
                              @ \cup {<<p, s, held[s]>> : s \in {z \in Calendar : held[z] # Free}}]
    BY <1>5 DEF DrawHolds
  <2>2. PICK held \in {answers[c][i].read} \cup (IF "fetch" \in Faults THEN {Blank} ELSE {}) :
               /\ shown' = [shown EXCEPT ![c] =
                              [s \in Calendar |-> IF held[s] = Free THEN @[s] ELSE held[s]]]
               /\ local' = [local EXCEPT ![c] =
                              @ \cup {<<p, s, held[s]>> : s \in {z \in Calendar : held[z] # Free}}]
    BY <2>1
  <2>3. UNCHANGED <<inbox, at>>
    BY <1>5 DEF DrawHolds, wire
  <2>4. ASSUME NEW u \in User, NEW s \in Calendar, shown'[d][s] = u
        PROVE  \/ <<at'[d], s, u>> \in local'[d]
               \/ /\ shown[d][s] = u
                  /\ <<at[d], s, u>> \in local[d] => <<at'[d], s, u>> \in local'[d]
    <3>1. CASE d # c
      <4>1. shown'[d] = shown[d] /\ local'[d] = local[d]
        BY <1>0, <2>2, <3>1
      <4>. QED  BY <2>3, <2>4, <4>1
    <3>2. CASE d = c
      <4>1. /\ shown'[c][s] = IF held[s] = Free THEN shown[c][s] ELSE held[s]
            /\ local'[c] = local[c]
                 \cup {<<p, z, held[z]>> : z \in {y \in Calendar : held[y] # Free}}
        BY <1>0, <2>2
      <4>2. CASE held[s] = Free
        BY <2>3, <2>4, <3>2, <4>1, <4>2
      <4>3. CASE held[s] # Free
        BY <2>3, <2>4, <3>2, <4>1, <4>3
      <4>. QED  BY <4>2, <4>3
    <3>. QED  BY <3>1, <3>2
  <2>. QED  BY <1>4, <2>3, <2>4
<1>6. CASE LocalTimerFires(c)
  <2>1. PICK t \in local[c] :
          /\ local' = [local EXCEPT ![c] = @ \ {t}]
          /\ shown' = IF t[1] = at[c] /\ shown[c][t[2]] = t[3]
                        THEN [shown EXCEPT ![c][t[2]] = Free] ELSE shown
    BY <1>6 DEF LocalTimerFires
  <2>2. UNCHANGED <<inbox, at>>
    BY <1>6 DEF LocalTimerFires, wire, view
  <2>3. t \in Place \X Calendar \X User /\ t[1] = at[c] /\ t = <<t[1], t[2], t[3]>>
    BY <1>0
  <2>4. ASSUME NEW u \in User, NEW s \in Calendar, shown'[d][s] = u
        PROVE  \/ <<at'[d], s, u>> \in local'[d]
               \/ /\ shown[d][s] = u
                  /\ <<at[d], s, u>> \in local[d] => <<at'[d], s, u>> \in local'[d]
    <3>1. CASE d # c
      <4>1. shown'[d] = shown[d] /\ local'[d] = local[d]
        BY <1>0, <2>1, <3>1
      <4>. QED  BY <2>2, <2>4, <4>1
    <3>2. CASE d = c
      <4>1. shown[c][s] = u /\ ~ (s = t[2] /\ u = t[3])
        BY <1>0, <2>1, <2>3, <2>4, <3>2, HoldsAssumption DEF Holding
      <4>2. local'[c] = local[c] \ {t}
        BY <1>0, <2>1
      <4>3. <<at[c], s, u>> # t
        BY <4>1
      <4>. QED  BY <2>2, <3>2, <4>1, <4>2, <4>3
    <3>. QED  BY <3>1, <3>2
  <2>. QED  BY <1>4, <2>2, <2>4
<1>. QED  BY <1>1, <1>2, <1>3, <1>5, <1>6 DEF Fetched, Served

\* What follows the second message of a queue follows the first of the rest.
LEMMA AfterTail ==
  ASSUME NEW T, NEW q \in Seq(T), q # <<>>
  PROVE  /\ Len(q) \in Nat \ {0} /\ Len(Tail(q)) = Len(q) - 1
         /\ \A i \in 1 .. Len(q) - 1 : Tail(q)[i] = q[i + 1]
         /\ \A i \in Nat : \A s : ReleaseFollows(q, i + 1, s) => ReleaseFollows(Tail(q), i, s)
<1>0. /\ Len(q) \in Nat \ {0} /\ Tail(q) \in Seq(T) /\ Len(Tail(q)) = Len(q) - 1
      /\ \A i \in 1 .. Len(q) - 1 : Tail(q)[i] = q[i + 1]
  OBVIOUS
<1>1. PICK n \in Nat \ {0}, r \in Seq(T) :
        n = Len(q) /\ r = Tail(q) /\ Len(r) = n - 1 /\ \A i \in 1 .. n - 1 : r[i] = q[i + 1]
  BY <1>0, Zenon
<1>2. ASSUME NEW i \in Nat, NEW s, ReleaseFollows(q, i + 1, s)
      PROVE  ReleaseFollows(r, i, s)
  <2>1. PICK j \in 1 .. n : j > i + 1 /\ q[j].op = "release" /\ s \in q[j].slots
    BY <1>1, <1>2 DEF ReleaseFollows
  <2>2. j - 1 \in 1 .. n - 1 /\ j - 1 > i /\ r[j - 1] = q[j]
    BY <1>1, <2>1
  <2>. QED  BY <1>1, <2>1, <2>2 DEF ReleaseFollows
<1>. QED  BY <1>1, <1>2

\* A release behind a message stays behind it, and one that arrives is behind them all.
LEMMA AfterAppend ==
  ASSUME NEW T, NEW q \in Seq(T), NEW e \in T
  PROVE  /\ Len(q) \in Nat /\ Len(Append(q, e)) = Len(q) + 1
         /\ \A i \in 1 .. Len(q) : Append(q, e)[i] = q[i]
         /\ Append(q, e)[Len(q) + 1] = e
         /\ \A i \in Nat : \A s : ReleaseFollows(q, i, s) => ReleaseFollows(Append(q, e), i, s)
         /\ \A i \in 0 .. Len(q) : \A s :
              e.op = "release" /\ s \in e.slots => ReleaseFollows(Append(q, e), i, s)
<1>0. /\ Len(q) \in Nat /\ Append(q, e) \in Seq(T) /\ Len(Append(q, e)) = Len(q) + 1
      /\ Append(q, e)[Len(q) + 1] = e /\ \A i \in 1 .. Len(q) : Append(q, e)[i] = q[i]
  OBVIOUS
<1>1. PICK n \in Nat, r \in Seq(T) :
        /\ n = Len(q) /\ r = Append(q, e) /\ Len(r) = n + 1
        /\ r[n + 1] = e /\ \A i \in 1 .. n : r[i] = q[i]
  BY <1>0, Zenon
<1>2. ASSUME NEW i \in Nat, NEW s, ReleaseFollows(q, i, s)
      PROVE  ReleaseFollows(r, i, s)
  <2>1. PICK j \in 1 .. n : j > i /\ q[j].op = "release" /\ s \in q[j].slots
    BY <1>1, <1>2 DEF ReleaseFollows
  <2>2. j \in 1 .. Len(r) /\ r[j] = q[j]
    BY <1>1, <2>1
  <2>. QED  BY <2>1, <2>2 DEF ReleaseFollows
<1>3. ASSUME NEW i \in 0 .. n, NEW s, e.op = "release", s \in e.slots
      PROVE  ReleaseFollows(r, i, s)
  <2>1. n + 1 \in 1 .. Len(r) /\ n + 1 > i
    BY <1>1
  <2>. QED  BY <1>1, <1>3, <2>1 DEF ReleaseFollows
<1>. QED  BY <1>1, <1>2, <1>3

\* A hold that is set is answered for as its message was; the others stay as they are.
LEMMA NextSlotAnswered ==
  ASSUME HoldsType, Answered, Place = {First}, NEW c \in User, NextSlot(c)
  PROVE  Answered'
<1>0. /\ hold \in [Place -> Holding] /\ outbox \in [User -> Seq(MessageType)]
      /\ \A u \in User : Len(outbox[u]) \in Nat
      /\ \A u \in User : \A i \in 1 .. Len(outbox[u]) : outbox[u][i] \in MessageType
  BY QueuesAreTyped DEF HoldsType, WireType
<1>1. PICK s0 \in outbox[c][1].todo :
        /\ hold' = [hold EXCEPT ![outbox[c][1].place][s0] =
                      IF outbox[c][1].op = "hold" THEN c ELSE Free]
        /\ outbox' = [outbox EXCEPT ![c][1].todo = @ \ {s0}]
  BY DEF NextSlot
<1>2. 1 \in 1 .. Len(outbox[c]) /\ outbox[c][1] \in MessageType /\ outbox[c][1].place = First
  <2>1. outbox[c] # <<>> /\ outbox[c] \in Seq(MessageType)
    BY <1>0 DEF NextSlot
  <2>2. 1 \in 1 .. Len(outbox[c])
    BY <2>1
  <2>. QED  BY <1>0, <2>2 DEF MessageType
<1>3. s0 \in outbox[c][1].slots
  BY <1>2 DEF Answered, QueuesWhole
<1>4. \A u \in User : Len(outbox'[u]) = Len(outbox[u])
  BY <1>0, <1>1
<1>5. ASSUME NEW u \in User, NEW i \in 1 .. Len(outbox[u])
      PROVE  /\ outbox'[u][i].op = outbox[u][i].op
             /\ outbox'[u][i].place = outbox[u][i].place
             /\ outbox'[u][i].slots = outbox[u][i].slots
             /\ outbox'[u][i].todo \subseteq outbox[u][i].todo
             /\ outbox[u][i].todo \ {s0} \subseteq outbox'[u][i].todo
             /\ u # c \/ i > 1 => outbox'[u][i].todo = outbox[u][i].todo
  <2>1. CASE u = c /\ i = 1
    <3>0. outbox'[c] = [outbox[c] EXCEPT ![1].todo = @ \ {s0}]
      BY <1>0, <1>1
    <3>1. outbox'[c][1] = [outbox[c][1] EXCEPT !.todo = @ \ {s0}]
      <4>1. 1 \in DOMAIN outbox[c]
        BY <1>0, <1>2
      <4>. QED  BY <3>0, <4>1
    <3>. QED  BY <1>2, <2>1, <3>1 DEF MessageType
  <2>2. CASE ~ (u = c /\ i = 1)
    <3>1. outbox'[u][i] = outbox[u][i]
      BY <1>0, <1>1, <2>2
    <3>. QED  BY <3>1
  <2>. QED  BY <2>1, <2>2
<1>6. \A u \in User, i \in Nat : \A s : ReleaseFollows(outbox[u], i, s) => ReleaseFollows(outbox'[u], i, s)
  BY <1>4, <1>5 DEF ReleaseFollows
<1>7. UNCHANGED <<inbox, at, local, shown, timers, booking, refused>>
  BY DEF NextSlot, screen, view, alarm, request
<1>8. \A u \in User, s \in Calendar : Answerable(u, s) => Answerable(u, s)'
  BY <1>7 DEF Answerable
<1>9. QueuesWhole'
  BY <1>4, <1>5 DEF Answered, QueuesWhole
<1>10. NoHoldIsForgotten'
  <2>. SUFFICES ASSUME NEW p \in Place, NEW s \in Calendar, NEW u \in User, hold'[p][s] = u
                PROVE  Releasing(u, p, s)' \/ Answerable(u, s)'
    BY DEF NoHoldIsForgotten
  <2>1. CASE s = s0
    <3>1. u = c /\ outbox[c][1].op = "hold"
      BY <1>0, <1>1, <1>2, <2>1, HoldsAssumption DEF Holding
    <3>2. ReleaseFollows(outbox[c], 1, s) \/ Answerable(c, s)
      BY <1>2, <1>3, <2>1, <3>1 DEF Answered, MessagesAnswered
    <3>3. ASSUME ReleaseFollows(outbox[c], 1, s)
          PROVE  Releasing(c, p, s)'
      <4>1. PICK j \in 1 .. Len(outbox[c]) :
              j > 1 /\ outbox[c][j].op = "release" /\ s \in outbox[c][j].slots
        BY <3>3 DEF ReleaseFollows
      <4>2. outbox[c][j].todo = outbox[c][j].slots /\ outbox[c][j].place = p
        BY <1>0, <4>1 DEF Answered, QueuesWhole, MessageType
      <4>3. outbox'[c][j].op = "release" /\ s \in outbox'[c][j].todo /\ outbox'[c][j].place = p
        BY <1>5, <4>1, <4>2
      <4>. QED  BY <1>4, <4>3 DEF Releasing
    <3>. QED  BY <1>8, <3>1, <3>2, <3>3
  <2>2. CASE s # s0
    <3>1. hold[p][s] = u
      BY <1>0, <1>1, <1>2, <2>2 DEF Holding
    <3>2. Releasing(u, p, s) \/ Answerable(u, s)
      BY <3>1 DEF Answered, NoHoldIsForgotten
    <3>3. Releasing(u, p, s) => Releasing(u, p, s)'
      BY <1>4, <1>5, <2>2 DEF Releasing
    <3>. QED  BY <1>8, <3>2, <3>3
  <2>. QED  BY <2>1, <2>2
<1>11. MessagesAnswered'
  <2>. SUFFICES ASSUME NEW u \in User, NEW i \in 1 .. Len(outbox'[u]),
                       NEW s \in outbox'[u][i].slots, outbox'[u][i].op = "hold"
                PROVE  ReleaseFollows(outbox'[u], i, s) \/ Answerable(u, s)'
    BY DEF MessagesAnswered, ReleaseFollows
  <2>1. /\ i \in 1 .. Len(outbox[u]) /\ s \in outbox[u][i].slots /\ outbox[u][i].op = "hold"
        /\ i \in Nat
    BY <1>4, <1>5
  <2>2. s \in Calendar
    BY <1>0, <2>1 DEF MessageType
  <2>3. ReleaseFollows(outbox[u], i, s) \/ Answerable(u, s)
    BY <2>1 DEF Answered, MessagesAnswered
  <2>. QED  BY <1>6, <1>8, <2>1, <2>2, <2>3
<1>12. EventsAnswered'
  <2>. SUFFICES ASSUME NEW d \in User, NEW u \in User, NEW i \in 1 .. Len(inbox[d]),
                       NEW s \in inbox[d][i].slots, inbox[d][i].op = "hold", inbox[d][i].by = u
                PROVE  \/ ReleaseFollows(inbox[d], i, s)
                       \/ ReleaseFollows(outbox'[u], 0, s)
                       \/ Answerable(u, s)'
    BY <1>7 DEF EventsAnswered, ReleaseFollows
  <2>1. s \in Calendar
    BY QueuesAreTyped DEF EventType
  <2>2. ReleaseFollows(inbox[d], i, s) \/ ReleaseFollows(outbox[u], 0, s) \/ Answerable(u, s)
    BY DEF Answered, EventsAnswered
  <2>. QED  BY <1>6, <1>8, <2>1, <2>2
<1>13. ScreensAnswered'
  <2>. SUFFICES ASSUME NEW d \in User, NEW u \in User, NEW s \in Calendar, shown[d][s] = u
                PROVE  \/ <<at[d], s, u>> \in local[d]
                       \/ ReleaseFollows(inbox[d], 0, s)
                       \/ ReleaseFollows(outbox'[u], 0, s)
                       \/ Answerable(u, s)'
    BY <1>7 DEF ScreensAnswered, ReleaseFollows
  <2>. QED  BY <1>6, <1>8 DEF Answered, ScreensAnswered
<1>. QED  BY <1>9, <1>10, <1>11, <1>12, <1>13 DEF Answered

\* What a message answered for, its event answers for at every browser.
LEMMA PublishAnswered ==
  ASSUME HoldsType, Answered, \A d \in User : socket[d] = "open", NEW c \in User, PublishHolds(c)
  PROVE  Answered'
<1>. DEFINE m == outbox[c][1]
            e == [op |-> m.op, place |-> m.place, slots |-> m.slots, by |-> c]
<1>0. /\ outbox \in [User -> Seq(MessageType)] /\ inbox \in [User -> Seq(EventType)]
      /\ \A u \in User : \A i \in 1 .. Len(outbox[u]) : outbox[u][i] \in MessageType
      /\ \A d \in User : \A i \in 1 .. Len(inbox[d]) : inbox[d][i] \in EventType
      /\ \A u \in User : Len(outbox[u]) \in Nat /\ Len(inbox[u]) \in Nat
  BY QueuesAreTyped DEF HoldsType, WireType
<1>1. outbox[c] # <<>> /\ outbox[c] \in Seq(MessageType) /\ m.todo = {}
  BY <1>0 DEF PublishHolds
<1>2. 1 \in 1 .. Len(outbox[c]) /\ m \in MessageType
  <2>1. 1 \in 1 .. Len(outbox[c])
    BY <1>1
  <2>. QED  BY <1>0, <2>1
<1>3. /\ outbox'[c] = Tail(outbox[c])
      /\ \A u \in User \ {c} : outbox'[u] = outbox[u]
      /\ \A d \in User : inbox'[d] = Append(inbox[d], e)
  BY <1>0 DEF PublishHolds, Event
<1>4. e \in EventType /\ e.op = m.op /\ e.slots = m.slots /\ e.by = c
  BY <1>2 DEF MessageType, EventType, Operation
<1>5. UNCHANGED <<hold, at, local, shown, timers, booking, refused>>
  BY DEF PublishHolds, screen, view, alarm, request
<1>. HIDE DEF m, e
<1>6. \A u \in User, s \in Calendar : Answerable(u, s) => Answerable(u, s)'
  BY <1>5 DEF Answerable
<1>7. PICK n \in Nat \ {0}, r \in Seq(MessageType) :
        /\ outbox'[c] = r /\ n = Len(outbox[c]) /\ Len(r) = n - 1
        /\ \A i \in 1 .. n - 1 : r[i] = outbox[c][i + 1]
        /\ \A i \in Nat : \A s : ReleaseFollows(outbox[c], i + 1, s) => ReleaseFollows(r, i, s)
  <2>1. /\ Tail(outbox[c]) \in Seq(MessageType)
        /\ outbox[c] # <<>> /\ outbox[c] \in Seq(MessageType)
    BY <1>1
  <2>2. outbox'[c] = Tail(outbox[c])
    BY <1>3
  <2>. QED  BY <2>1, <2>2, AfterTail, Zenon
<1>8. \A d \in User :
        /\ Len(inbox'[d]) = Len(inbox[d]) + 1
        /\ \A i \in 1 .. Len(inbox[d]) : inbox'[d][i] = inbox[d][i]
        /\ inbox'[d][Len(inbox[d]) + 1] = e
        /\ \A i \in Nat : \A s : ReleaseFollows(inbox[d], i, s) => ReleaseFollows(inbox'[d], i, s)
        /\ \A i \in 0 .. Len(inbox[d]) : \A s :
             e.op = "release" /\ s \in e.slots => ReleaseFollows(inbox'[d], i, s)
  <2>. SUFFICES ASSUME NEW d \in User
                PROVE  /\ Len(inbox'[d]) = Len(inbox[d]) + 1
                       /\ \A i \in 1 .. Len(inbox[d]) : inbox'[d][i] = inbox[d][i]
                       /\ inbox'[d][Len(inbox[d]) + 1] = e
                       /\ \A i \in Nat : \A s :
                            ReleaseFollows(inbox[d], i, s) => ReleaseFollows(inbox'[d], i, s)
                       /\ \A i \in 0 .. Len(inbox[d]) : \A s :
                            e.op = "release" /\ s \in e.slots => ReleaseFollows(inbox'[d], i, s)
    BY Zenon
  <2>1. inbox[d] \in Seq(EventType) /\ e \in EventType
    BY <1>0, <1>4
  <2>2. inbox'[d] = Append(inbox[d], e)
    BY <1>3
  <2>3. PICK q, v : q = inbox[d] /\ v = e
    OBVIOUS
  <2>4. q \in Seq(EventType) /\ v \in EventType
    BY <2>1, <2>3
  <2>5. /\ Len(Append(q, v)) = Len(q) + 1
        /\ \A i \in 1 .. Len(q) : Append(q, v)[i] = q[i]
        /\ Append(q, v)[Len(q) + 1] = v
        /\ \A i \in Nat : \A s : ReleaseFollows(q, i, s) => ReleaseFollows(Append(q, v), i, s)
        /\ \A i \in 0 .. Len(q) : \A s :
             v.op = "release" /\ s \in v.slots => ReleaseFollows(Append(q, v), i, s)
    BY <2>4, AfterAppend
  <2>. QED  BY <2>2, <2>3, <2>5, Zenon
\* A release that follows nothing is the first message, and its event, or still there.
<1>9. ASSUME NEW u \in User, NEW s, ReleaseFollows(outbox[u], 0, s), NEW d \in User,
             NEW i \in 0 .. Len(inbox[d])
      PROVE  ReleaseFollows(outbox'[u], 0, s) \/ ReleaseFollows(inbox'[d], i, s)
  <2>1. CASE u # c
    BY <1>3, <1>9, <2>1
  <2>2. CASE u = c
    <3>1. PICK j \in 1 .. n : outbox[c][j].op = "release" /\ s \in outbox[c][j].slots
      BY <1>7, <1>9, <2>2 DEF ReleaseFollows
    <3>2. CASE j = 1
      BY <1>4, <1>8, <3>1, <3>2 DEF m
    <3>3. CASE j # 1
      <4>1. ReleaseFollows(outbox[c], 0 + 1, s)
        BY <1>7, <3>1, <3>3 DEF ReleaseFollows
      <4>. QED  BY <1>7, <2>2, <4>1
    <3>. QED  BY <3>2, <3>3
  <2>. QED  BY <2>1, <2>2
<1>10. QueuesWhole'
  <2>. SUFFICES ASSUME NEW u \in User, NEW i \in 1 .. Len(outbox'[u])
                PROVE  /\ outbox'[u][i].todo \subseteq outbox'[u][i].slots
                       /\ i > 1 => outbox'[u][i].todo = outbox'[u][i].slots
    BY DEF QueuesWhole
  <2>1. CASE u # c
    BY <1>3, <2>1 DEF Answered, QueuesWhole
  <2>2. CASE u = c
    <3>1. i + 1 \in 1 .. Len(outbox[c]) /\ i + 1 > 1 /\ outbox'[u][i] = outbox[c][i + 1]
      BY <1>7, <2>2
    <3>. QED  BY <3>1 DEF Answered, QueuesWhole
  <2>. QED  BY <2>1, <2>2
<1>11. NoHoldIsForgotten'
  <2>. SUFFICES ASSUME NEW p \in Place, NEW s \in Calendar, NEW u \in User, hold[p][s] = u,
                       Releasing(u, p, s)
                PROVE  Releasing(u, p, s)'
    BY <1>5, <1>6 DEF Answered, NoHoldIsForgotten
  <2>1. CASE u # c
    BY <1>3, <2>1 DEF Releasing
  <2>2. CASE u = c
    <3>1. PICK j \in 1 .. n : /\ outbox[c][j].op = "release" /\ outbox[c][j].place = p
                              /\ s \in outbox[c][j].todo
      BY <1>7, <2>2 DEF Releasing
    <3>2. j # 1
      BY <1>1, <3>1 DEF m
    <3>3. j - 1 \in 1 .. Len(r) /\ r[j - 1] = outbox[c][j]
      BY <1>7, <3>1, <3>2
    <3>. QED  BY <1>7, <2>2, <3>1, <3>3 DEF Releasing
  <2>. QED  BY <2>1, <2>2
<1>12. MessagesAnswered'
  <2>. SUFFICES ASSUME NEW u \in User, NEW i \in 1 .. Len(outbox'[u]),
                       NEW s \in outbox'[u][i].slots, outbox'[u][i].op = "hold"
                PROVE  ReleaseFollows(outbox'[u], i, s) \/ Answerable(u, s)'
    BY DEF MessagesAnswered, ReleaseFollows
  <2>1. CASE u # c
    <3>1. i \in 1 .. Len(outbox[u]) /\ outbox'[u] = outbox[u]
      BY <1>3, <2>1
    <3>2. s \in Calendar
      BY <1>0, <3>1 DEF MessageType
    <3>. QED  BY <1>6, <3>1, <3>2 DEF Answered, MessagesAnswered
  <2>2. CASE u = c
    <3>1. i + 1 \in 1 .. Len(outbox[c]) /\ outbox'[u][i] = outbox[c][i + 1] /\ i \in Nat
      BY <1>7, <2>2
    <3>2. s \in Calendar
      BY <1>0, <3>1 DEF MessageType
    <3>3. ReleaseFollows(outbox[c], i + 1, s) \/ Answerable(c, s)
      BY <3>1 DEF Answered, MessagesAnswered
    <3>. QED  BY <1>6, <1>7, <2>2, <3>1, <3>2, <3>3
  <2>. QED  BY <2>1, <2>2
<1>13. EventsAnswered'
  <2>. SUFFICES ASSUME NEW d \in User, NEW u \in User, NEW i \in 1 .. Len(inbox'[d]),
                       NEW s \in inbox'[d][i].slots, inbox'[d][i].op = "hold", inbox'[d][i].by = u
                PROVE  \/ ReleaseFollows(inbox'[d], i, s)
                       \/ ReleaseFollows(outbox'[u], 0, s)
                       \/ Answerable(u, s)'
    BY DEF EventsAnswered, ReleaseFollows
  <2>1. CASE i \in 1 .. Len(inbox[d])
    <3>1. inbox'[d][i] = inbox[d][i] /\ i \in Nat /\ i \in 0 .. Len(inbox[d])
      BY <1>8, <2>1
    <3>2. s \in Calendar
      BY <1>0, <2>1, <3>1 DEF EventType
    <3>3. ReleaseFollows(inbox[d], i, s) \/ ReleaseFollows(outbox[u], 0, s) \/ Answerable(u, s)
      BY <2>1, <3>1 DEF Answered, EventsAnswered
    <3>. QED  BY <1>6, <1>8, <1>9, <3>1, <3>2, <3>3
  <2>2. CASE i \notin 1 .. Len(inbox[d])
    <3>1. i = Len(inbox[d]) + 1
      BY <1>0, <1>8, <2>2
    <3>2. u = c /\ m.op = "hold" /\ s \in m.slots
      BY <1>4, <1>8, <3>1
    <3>3. s \in Calendar
      BY <1>2, <3>2 DEF MessageType
    <3>4. ReleaseFollows(outbox[c], 0 + 1, s) \/ Answerable(c, s)
      BY <1>2, <3>2 DEF Answered, MessagesAnswered, m
    <3>. QED  BY <1>6, <1>7, <3>2, <3>3, <3>4
  <2>. QED  BY <2>1, <2>2
<1>14. ScreensAnswered'
  <2>. SUFFICES ASSUME NEW d \in User, NEW u \in User, NEW s \in Calendar, shown[d][s] = u,
                       <<at[d], s, u>> \notin local[d]
                PROVE  \/ ReleaseFollows(inbox'[d], 0, s)
                       \/ ReleaseFollows(outbox'[u], 0, s)
                       \/ Answerable(u, s)'
    BY <1>5 DEF ScreensAnswered, ReleaseFollows
  <2>1. ReleaseFollows(inbox[d], 0, s) \/ ReleaseFollows(outbox[u], 0, s) \/ Answerable(u, s)
    BY DEF Answered, ScreensAnswered
  <2>2. 0 \in Nat /\ 0 \in 0 .. Len(inbox[d])
    BY <1>0
  <2>. QED  BY <1>6, <1>8, <1>9, <2>1, <2>2
<1>. QED  BY <1>10, <1>11, <1>12, <1>13, <1>14 DEF Answered

\* An event hands over what it answered for to the screen.
LEMMA ReceiveAnswered ==
  ASSUME HoldsType, Answered, Place = {First}, NEW c \in User, Receive(c)
  PROVE  Answered'
<1>. DEFINE e == inbox[c][1]
<1>0. /\ inbox \in [User -> Seq(EventType)] /\ shown \in [User -> Holding]
      /\ \A d \in User : \A i \in 1 .. Len(inbox[d]) : inbox[d][i] \in EventType
  BY QueuesAreTyped DEF HoldsType, WireType, ScreenType
<1>1. inbox[c] # <<>> /\ inbox[c] \in Seq(EventType) /\ e = Head(inbox[c])
  BY <1>0 DEF Receive
<1>2. 1 \in 1 .. Len(inbox[c]) /\ e \in EventType
  <2>1. 1 \in 1 .. Len(inbox[c])
    BY <1>1
  <2>. QED  BY <1>0, <2>1
<1>3. inbox'[c] = Tail(inbox[c]) /\ \A d \in User \ {c} : inbox'[d] = inbox[d]
  BY <1>0 DEF Receive
<1>4. UNCHANGED <<hold, outbox, at, local, timers, booking, refused>>
  BY DEF Receive, alarm, request
<1>5. e.place = at[c]
  BY <1>2 DEF HoldsType, SelectionType, EventType
<1>. HIDE DEF e
<1>6. \A d \in User \ {c} : shown'[d] = shown[d]
  BY <1>0, <1>1 DEF Receive, Ignore, Redraw, Mark, Render
<1>7. ASSUME NEW s \in Calendar, NEW u \in User, shown'[c][s] = u
      PROVE  \/ shown[c][s] = u /\ ~ (e.op = "release" /\ s \in e.slots)
             \/ e.op = "hold" /\ e.by = u /\ s \in e.slots
  <2>1. CASE Redraw(c, e)
    <3>1. shown'[c] \in {shown[c], Blank} /\ e.op # "release"
      BY <1>0, <2>1 DEF Redraw, Render
    <3>. QED  BY <1>7, <3>1, HoldsAssumption DEF Blank
  <2>2. CASE Mark(c, e)
    <3>1. shown'[c][s] = IF s \notin e.slots \/ (e.op = "hold" /\ e.by = c) THEN shown[c][s]
                         ELSE IF e.op = "hold" THEN e.by ELSE Free
      BY <1>0, <2>2 DEF Mark
    <3>. QED  BY <1>7, <3>1, HoldsAssumption
  <2>. QED  BY <1>1, <1>5, <2>1, <2>2 DEF Receive, Ignore
<1>8. PICK n \in Nat \ {0}, r \in Seq(EventType) :
        /\ inbox'[c] = r /\ n = Len(inbox[c]) /\ Len(r) = n - 1
        /\ \A i \in 1 .. n - 1 : r[i] = inbox[c][i + 1]
        /\ \A i \in Nat : \A s : ReleaseFollows(inbox[c], i + 1, s) => ReleaseFollows(r, i, s)
  <2>1. Tail(inbox[c]) \in Seq(EventType)
    BY <1>1
  <2>. QED  BY <1>1, <1>3, <2>1, AfterTail, Zenon
<1>9. QueuesWhole' /\ NoHoldIsForgotten' /\ MessagesAnswered'
  BY <1>4 DEF Answered, QueuesWhole, NoHoldIsForgotten, MessagesAnswered, Releasing, Answerable,
              ReleaseFollows
<1>10. EventsAnswered'
  <2>. SUFFICES ASSUME NEW d \in User, NEW u \in User, NEW i \in 1 .. Len(inbox'[d]),
                       NEW s \in inbox'[d][i].slots, inbox'[d][i].op = "hold", inbox'[d][i].by = u
                PROVE  \/ ReleaseFollows(inbox'[d], i, s)
                       \/ ReleaseFollows(outbox[u], 0, s)
                       \/ Answerable(u, s)
    BY <1>4 DEF EventsAnswered, ReleaseFollows, Answerable
  <2>1. CASE d # c
    BY <1>3, <2>1 DEF Answered, EventsAnswered
  <2>2. CASE d = c
    <3>1. i + 1 \in 1 .. Len(inbox[c]) /\ inbox'[d][i] = inbox[c][i + 1] /\ i \in Nat
      BY <1>8, <2>2
    <3>2. \/ ReleaseFollows(inbox[c], i + 1, s)
          \/ ReleaseFollows(outbox[u], 0, s) \/ Answerable(u, s)
      BY <3>1 DEF Answered, EventsAnswered
    <3>. QED  BY <1>8, <2>2, <3>1, <3>2
  <2>. QED  BY <2>1, <2>2
<1>11. ScreensAnswered'
  <2>. SUFFICES ASSUME NEW d \in User, NEW u \in User, NEW s \in Calendar, shown'[d][s] = u,
                       <<at[d], s, u>> \notin local[d]
                PROVE  \/ ReleaseFollows(inbox'[d], 0, s)
                       \/ ReleaseFollows(outbox[u], 0, s)
                       \/ Answerable(u, s)
    BY <1>4 DEF ScreensAnswered, ReleaseFollows, Answerable
  <2>1. CASE d # c
    BY <1>3, <1>6, <2>1 DEF Answered, ScreensAnswered
  <2>2. CASE d = c /\ e.op = "hold" /\ e.by = u /\ s \in e.slots
    <3>1. \/ ReleaseFollows(inbox[c], 0 + 1, s)
          \/ ReleaseFollows(outbox[u], 0, s) \/ Answerable(u, s)
      BY <1>2, <2>2 DEF Answered, EventsAnswered, e
    <3>. QED  BY <1>8, <2>2, <3>1
  <2>3. CASE d = c /\ shown[c][s] = u /\ ~ (e.op = "release" /\ s \in e.slots)
    <3>1. \/ ReleaseFollows(inbox[c], 0, s)
          \/ ReleaseFollows(outbox[u], 0, s) \/ Answerable(u, s)
      BY <2>3 DEF Answered, ScreensAnswered
    <3>2. ReleaseFollows(inbox[c], 0, s) => ReleaseFollows(inbox[c], 0 + 1, s)
      <4>. SUFFICES ASSUME NEW j \in 1 .. Len(inbox[c]),
                           inbox[c][j].op = "release" /\ s \in inbox[c][j].slots
                    PROVE  j > 1
        BY DEF ReleaseFollows
      <4>. QED  BY <2>3 DEF e
    <3>. QED  BY <1>8, <2>3, <3>1, <3>2
  <2>. QED  BY <1>7, <2>1, <2>2, <2>3
<1>. QED  BY <1>9, <1>10, <1>11 DEF Answered

\* While connections last, every step keeps a way to end each hold.
LEMMA HoldsStep ==
  ASSUME Undisturbed, HoldsType, HoldsType', HoldsInvariant, [Next]_vars
  PROVE  HoldsInvariant'
<1>0. /\ Place = {First} /\ LatestTimer /\ Answered
      /\ \A d \in User : socket[d] = "open"
      /\ hold \in [Place -> Holding] /\ at \in [User -> Place]
      /\ inbox \in [User -> Seq(EventType)]
  BY DEF Undisturbed, HoldsInvariant, HoldsType, WireType, SelectionType
<1>1. \A c \in User : ~ (ChangePlace(c) \/ LeavePage(c) \/ Drop(c) \/ SubscriptionDies(c)
                           \/ Reconnect(c))
  <2>1. \A c \in User : ~ ChangePlace(c)
    BY <1>0 DEF ChangePlace
  <2>. QED  BY <1>0, <2>1 DEF Undisturbed, LeavePage, Drop, SubscriptionDies, Reconnect
<1>2. LatestTimer'
  BY <1>0, LatestTimerStep
<1>3. ASSUME UNCHANGED hold, \A u \in User : Answers(u) /\ Harmless(u)
      PROVE  Answered'
  BY <1>0, <1>3, AnsweredStays
<1>4. ASSUME NEW c \in User,
             \/ \E s \in Calendar : Click(c, s)
             \/ TimerFires(c) \/ Served(c) \/ Confirm(c) \/ Settle(c) \/ Fetched(c)
             \/ ServerReads(c) \/ LocalTimerFires(c)
      PROVE  Answered' /\ UNCHANGED socket
  <2>1. UNCHANGED <<hold, socket>>
    BY <1>4 DEF Click, TimerFires, Served, BookingInserted, BookingConfirmed, BookingAnnounced,
                BookingAnswered, BookingFailed, BookingRefused, Confirm, Settle, Fetched,
                DrawHolds, DrawBookings, DrawFails, ServerReads, LocalTimerFires, wire
  <2>2. \A u \in User : Answers(u)
    BY <1>0, <1>4, AllAnswer
  <2>3. \A d \in User : Harmless(d)
    BY <1>0, <1>4, AllHarmless
  <2>. QED  BY <1>3, <2>1, <2>2, <2>3
<1>5. ASSUME NEW c \in User, Relayed(c) \/ Receive(c)
      PROVE  Answered' /\ UNCHANGED socket
  <2>1. UNCHANGED socket
    BY <1>5 DEF Relayed, NextSlot, PublishHolds, Receive
  <2>. QED  BY <1>0, <1>5, <2>1, NextSlotAnswered, PublishAnswered, ReceiveAnswered DEF Relayed
<1>6. ASSUME NEW p \in Place, NEW s \in Calendar, HoldExpires(p, s)
      PROVE  Answered' /\ UNCHANGED socket
  <2>1. UNCHANGED <<outbox, inbox, socket, at, local, shown, timers, booking, refused>>
    BY <1>6 DEF HoldExpires, wire, screen, view, alarm, request
  <2>2. \A u \in User : Answers(u) /\ Harmless(u)
    BY <2>1, IdleAnswer, QuietIsHarmless
  <2>3. \A q \in Place, z \in Calendar, u \in User : hold'[q][z] = u => hold[q][z] = u
    BY <1>0, <1>6, HoldsAssumption DEF HoldExpires, Holding
  <2>. QED  BY <1>0, <2>1, <2>2, <2>3, AnsweredStays
<1>7. ASSUME DeleteBooking \/ RecoveryWrites
      PROVE  Answered' /\ UNCHANGED socket
  <2>1. UNCHANGED <<hold, outbox, socket, at, local, shown, timers, booking, refused>>
    BY <1>7 DEF DeleteBooking, RecoveryWrites, wire, view, alarm
  <2>2. ASSUME NEW d \in User
        PROVE  inbox'[d] = inbox[d] \/ \E e : inbox'[d] = Append(inbox[d], e) /\ e.op # "hold"
    <3>1. CASE DeleteBooking
      <4>1. PICK e : e.op = "cancelled" /\ (inbox'[d] = inbox[d] \/ inbox'[d] = Append(inbox[d], e))
        BY <3>1, AnnouncementIsHarmless DEF DeleteBooking
      <4>. QED  BY <4>1
    <3>2. CASE RecoveryWrites
      BY <3>2 DEF RecoveryWrites, wire
    <3>. QED  BY <1>7, <3>1, <3>2
  <2>3. \A u \in User : Answers(u)
    BY <2>1, IdleAnswer
  <2>4. \A u \in User : Harmless(u)
    BY <2>1, <2>2, QuietIsHarmless
  <2>. QED  BY <1>3, <2>1, <2>3, <2>4
<1>8. ASSUME UNCHANGED vars
      PROVE  Answered' /\ UNCHANGED socket
  <2>1. UNCHANGED <<hold, outbox, inbox, socket, at, local, shown, timers, booking, refused>>
    BY <1>8 DEF vars, wire, screen, view, alarm, request
  <2>2. \A u \in User : Answers(u) /\ Harmless(u)
    BY <2>1, IdleAnswer, QuietIsHarmless
  <2>. QED  BY <1>3, <2>1, <2>2
<1>9. Answered' /\ UNCHANGED socket
  BY <1>1, <1>4, <1>5, <1>6, <1>7, <1>8 DEF Next, Automatic
<1>. QED  BY <1>0, <1>2, <1>9 DEF HoldsInvariant

\* While connections last, whatever holds a slot has something behind it that ends it.
THEOREM HoldsInvariantHolds ==
  ASSUME Undisturbed
  PROVE  Spec => []HoldsInvariant
<1>1. Init => HoldsInvariant
  <2>. SUFFICES ASSUME Init
                PROVE  HoldsInvariant
    OBVIOUS
  <2>1. \A c \in User : outbox[c] = <<>> /\ inbox[c] = <<>> /\ timers[c] = {}
    BY DEF Init
  <2>2. \A c, u \in User, s \in Calendar : shown[c][s] # u
    BY HoldsAssumption DEF Init, Blank
  <2>3. \A p \in Place, s \in Calendar, u \in User : hold[p][s] # u
    BY HoldsAssumption DEF Init, Blank
  <2>4. \A c \in User : socket[c] = "open"
    BY DEF Init
  <2>. QED  BY <2>1, <2>2, <2>3, <2>4 DEF HoldsInvariant, LatestTimer, Answered, QueuesWhole,
               NoHoldIsForgotten, MessagesAnswered, EventsAnswered, ScreensAnswered
<1>2. HoldsType /\ HoldsType' /\ HoldsInvariant /\ [Next]_vars => HoldsInvariant'
  BY HoldsStep
<1>. QED  BY <1>1, <1>2, HoldsTypeHolds, PTL DEF Spec

\* While connections last, nobody's hold is forgotten, however many browsers click, let
\* timers run out, redraw and book at the same time, whatever fetches and bookings fail.
THEOREM NobodyForgets ==
  ASSUME Undisturbed
  PROVE  Spec => []NoHoldIsForgotten
<1>1. HoldsInvariant => NoHoldIsForgotten
  BY DEF HoldsInvariant, Answered
<1>. QED  BY <1>1, HoldsInvariantHolds, PTL

\* Nor does a hold stay on a screen, in whatever order events, redraws and timers get
\* there.
THEOREM ShownHoldsEnd ==
  ASSUME Undisturbed
  PROVE  Spec => []ShownHoldEnds
<1>1. HoldsInvariant => ShownHoldEnds
  BY DEF HoldsInvariant, Answered, ScreensAnswered, ShownHoldEnds, ReleaseFollows
<1>. QED  BY <1>1, HoldsInvariantHolds, PTL

=============================================================================
