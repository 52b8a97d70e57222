---------------------------- MODULE TemporaryHolds ----------------------------
(***************************************************************************)
(* Temporary reservation of slots: the browsers (app.js), the WebSocket    *)
(* endpoint of the field node that serves each of them, the hold:* keys in *)
(* Redis, the availability channel that carries events back to every       *)
(* browser, and the bookings the calendars are drawn from.                 *)
(*                                                                         *)
(* A place is a field on a date: app.js never looks at one of the two      *)
(* without the other.  Each browser has a user of its own.                 *)
(***************************************************************************)
EXTENDS SlotGrid, FiniteSets
LOCAL INSTANCE SequencesExt

CONSTANTS
  User,        \* the browsers
  Place,       \* the fields and dates a browser can show
  First,       \* the one every browser shows at first
  Booked,      \* the bookings that exist from the start
  Free,        \* "no such key"
  MaxMoves,    \* bound on the moves of users and network: clicks on slots, changes
               \* of place, booking requests, bookings deleted, pages left,
               \* connections broken, rows rewritten by recovery
  Faults       \* what may happen: "page" (is left), "socket" (breaks), "fetch",
               \* "booking" and "publish" (fail), "recovery" (rewrites a row)

\* The windows of bookings, those over midnight included.
Window == [place : Place, start : 0 .. DayLength - 1, end : 1 .. 2 * DayLength - 1]

ASSUME HoldsAssumption ==
  /\ Free \notin User
  /\ First \in Place /\ Booked \subseteq Window
  /\ Closing <= DayLength /\ Duration < DayLength
  /\ MaxMoves \in Nat
  /\ Faults \subseteq {"page", "socket", "fetch", "booking", "publish", "recovery"}

VARIABLES
  hold,      \* Redis: hold[p][s] is the user stored under the key of slot s
  socket,    \* socket[c]: "open"; "deaf" when the server's subscription has died
             \* under an open connection; "closed"; "gone" when the page was left
  outbox,    \* outbox[c]: messages from browser c, the one its server loop is
             \* working on first, each with the slots still to do
  inbox,     \* inbox[c]: events on their way to browser c
  booked,    \* the bookings that are pending or confirmed
  dead,      \* those that have failed or been cancelled
  at,        \* at[c]: the field and date selected in browser c
  selected,  \* selected[c]: no slot, one slot, or the first and last of a range
  shown,     \* shown[c][s]: the user browser c believes to hold s there
  known,     \* known[c]: state.bookings, pending and confirmed ones
  visible,   \* browsers whose calendar can be clicked on
  unmarked,  \* unmarked[c]: slots learnt to be held since c last marked its slots
  timers,    \* timers[c]: armed hold timers, with the slots each will release
  handle,    \* handle[c]: the timer the variable holdTimer refers to
  local,     \* local[c]: armed timers that will forget a hold read at a redraw
  answers,   \* answers[c]: fetches of redraws under way, in the order of the
             \* requests, each with what the server has read for it
  misled,    \* browsers with an excuse for showing old bookings until their next
             \* redraw (CalendarIsCurrent); nothing else looks at it
  booking,   \* booking[c]: the range being booked, and how far that has got
  settling,  \* browsers within the 2.5 s after a successful booking
  refused,   \* refused[c]: slots of bookings refused to browser c, for the properties
             \* of holds; nothing else looks at it
  moves      \* moves left

wire    == <<outbox, inbox, socket>>
fetches == <<answers, misled>>
view    == <<at, selected, shown, known, visible, unmarked, local>>
screen  == <<view, fetches>>
alarm   == <<timers, handle>>
rows    == <<booked, dead>>
request == <<booking, settling, rows, refused>>

vars == <<hold, wire, screen, alarm, request, moves>>

Blank == [s \in Calendar |-> Free]

BookingsAt(p) == {b \in booked : b.place = p}

NoBooking == [stage |-> "none", range |-> <<>>]

Init ==
  /\ hold      = [p \in Place |-> Blank]
  /\ socket    = [c \in User |-> "open"]
  /\ outbox    = [c \in User |-> <<>>]
  /\ inbox     = [c \in User |-> <<>>]
  /\ booked    = Booked
  /\ dead      = {}
  /\ at        = [c \in User |-> First]
  /\ selected  = [c \in User |-> <<>>]
  /\ shown     = [c \in User |-> Blank]
  /\ known     = [c \in User |-> BookingsAt(at[c])]
  /\ visible   = User
  /\ unmarked  = [c \in User |-> {}]
  /\ timers    = [c \in User |-> {}]
  /\ handle    = [c \in User |-> 0]
  /\ local     = [c \in User |-> {}]
  /\ answers   = [c \in User |-> <<>>]
  /\ misled    = {}
  /\ booking   = [c \in User |-> NoBooking]
  /\ settling  = {}
  /\ refused   = [c \in User |-> {}]
  /\ moves     = MaxMoves

MakeMove == moves > 0 /\ moves' = moves - 1

-----------------------------------------------------------------------------
\* Slip: of a range, only the first slot is released.
MessageFirstSlot(o, p, slots) ==
  IF slots = {} THEN <<>>
  ELSE <<[op |-> o, place |-> p, slots |-> slots,
          todo |-> IF o = "hold" THEN slots
                   ELSE {s \in slots : \A z \in slots : s <= z}]>>

\* A message without slots is never built.
Message(o, p, slots) ==
  IF slots = {} THEN <<>>
  ELSE <<[op |-> o, place |-> p, slots |-> slots, todo |-> slots]>>

\* sendWsAction: the message names the field and date selected at this moment;
\* nothing is sent, and nothing remembered, when the socket is closed.
Send(c, msgs) ==
  outbox' = IF socket[c] \in {"open", "deaf"}
              THEN [outbox EXCEPT ![c] = @ \o msgs] ELSE outbox

\* Slip: the sender is left out.
EventToOthers(o, p, slots, u) ==
  inbox' = [c \in User |->
    IF socket[c] = "open" /\ c # u
      THEN Append(inbox[c], [op |-> o, place |-> p, slots |-> slots, by |-> u])
      ELSE inbox[c]]

\* _listen of every socket passes the event on, until an exception ends it.
Event(o, p, slots, u) ==
  inbox' = [c \in User |->
    IF socket[c] = "open"
      THEN Append(inbox[c], [op |-> o, place |-> p, slots |-> slots, by |-> u])
      ELSE inbox[c]]

\* Browser c will ask for the bookings of its place: it has an announcement to read,
\* or a redraw under way that has not got so far.
AboutToRead(c) ==
  \/ \E i \in 1 .. Len(inbox[c]) :
       inbox[c][i].op \in {"confirmed", "cancelled"} /\ inbox[c][i].place = at[c]
  \/ \E i \in 1 .. Len(answers[c]) : answers[c][i].stage = "holds"

\* The browsers that a change to the bookings of p escapes if nobody announces it.
Unaware(p) == {c \in User : at[c] = p /\ ~ AboutToRead(c)}

\* publish_booking_event of user u's booking: a failure to publish is swallowed.
Announce(o, p, u) ==
  \/ Event(o, p, {}, u) /\ misled' = misled
  \/ "publish" \in Faults /\ inbox' = inbox /\ misled' = misled \cup Unaware(p)

\* The slots that isSlotTaken makes taken of bookings R, in a calendar of p.
TakenBy(R, p) == {s \in Calendar : \E b \in R : b.place = p /\ IsSlotTaken(s, b)}

TakenSlots(c) == TakenBy(known[c], at[c])

\* updateSlotHighlights: what browser c believes of holds is on its slots.
MarkSlots(c) == unmarked' = [unmarked EXCEPT ![c] = {}]

\* Start of renderSlots: the calendar is hidden and the selection dropped, its
\* hold and timer are not; the holds are asked for.
Render(c, p, sh) ==
  /\ visible' = visible \ {c}
  /\ MarkSlots(c)
  /\ selected' = [selected EXCEPT ![c] = <<>>]
  /\ shown' = [shown EXCEPT ![c] = sh]
  /\ answers' = [answers EXCEPT ![c] =
                   Append(@, [stage |-> "holds", place |-> p, read |-> hold[p]])]
  /\ misled' = IF socket[c] = "open" THEN misled \ {c} ELSE misled

-----------------------------------------------------------------------------
(* The browser.                                                            *)

\* The selection after a click on slot s: a range is only searched for bookings.
Selection(c, s) ==
  LET old == selected[c]
      range == IF old[1] <= s THEN <<old[1], s>> ELSE <<s, old[1]>>
  IN  IF Len(old) # 1 THEN <<s>>
      ELSE IF old[1] = s \/ Covered(range) \cap TakenSlots(c) # {} THEN <<>>
      ELSE range

\* handleSlotClick, of a slot that is neither taken nor marked as held.
Click(c, s) ==
  LET old == selected[c]
      new == Selection(c, s)
      kept == IF old = <<>> THEN timers[c] ELSE {t \in timers[c] : t.id # handle[c]}
  IN
  /\ MakeMove
  /\ c \in visible
  /\ s \notin TakenSlots(c)
  /\ shown[c][s] = Free \/ s \in Covered(old) \cup unmarked[c]
  /\ selected' = [selected EXCEPT ![c] = new]
  /\ MarkSlots(c)
  /\ Send(c, Message("release", at[c], Covered(old)) \o Message("hold", at[c], Covered(new)))
  /\ handle' = [handle EXCEPT ![c] = @ + 1]
  /\ timers' = [timers EXCEPT ![c] =
                  IF new = <<>> THEN kept
                  ELSE kept \cup {[id |-> handle[c] + 1, slots |-> Covered(new)]}]
  /\ UNCHANGED <<hold, inbox, socket, at, shown, known, visible, local, fetches, request>>

\* "Time's up!": the slots captured when the timer was armed are released, under
\* the field and date selected now.
TimerFires(c) ==
  /\ \E t \in timers[c] :
       /\ timers' = [timers EXCEPT ![c] = @ \ {t}]
       /\ Send(c, Message("release", at[c], t.slots))
  /\ selected' = [selected EXCEPT ![c] = <<>>]
  /\ MarkSlots(c)
  /\ UNCHANGED <<hold, inbox, socket, at, shown, known, visible, local, fetches,
                 handle, request, moves>>

\* Another field or date is chosen: releaseActiveHolds, then renderSlots.
ChangePlace(c) ==
  /\ MakeMove
  /\ socket[c] # "gone"
  /\ Send(c, Message("release", at[c], Covered(selected[c])))
  /\ timers' = [timers EXCEPT ![c] =
                  IF selected[c] = <<>> THEN @ ELSE {t \in @ : t.id # handle[c]}]
  /\ \E p \in Place \ {at[c]} :
       /\ at' = [at EXCEPT ![c] = p]
       /\ Render(c, p, Blank)
  /\ UNCHANGED <<hold, inbox, socket, known, local, handle, request>>

\* The server answers with what it reads at any time between request and answer:
\* the last reading counts.
ServerReads(c) ==
  /\ \E i \in 1 .. Len(answers[c]) :
       LET a == answers[c][i] IN
       answers' = [answers EXCEPT ![c][i].read =
                     IF a.stage = "holds" THEN hold[a.place] ELSE BookingsAt(a.place)]
  /\ UNCHANGED <<hold, wire, view, misled, alarm, request, moves>>

\* Slip: the timer is noted under slot and place the other way round.
DrawHoldsSwapped(c) ==
  /\ \E i \in 1 .. Len(answers[c]) :
       LET a == answers[c][i]
           p == at[c]
       IN
       /\ a.stage = "holds"
       /\ shown' = [shown EXCEPT ![c] =
                      [s \in Calendar |-> IF a.read[s] = Free THEN @[s] ELSE a.read[s]]]
       /\ local' = [local EXCEPT ![c] =
                      @ \cup {<<s, p, a.read[s]>> : s \in {z \in Calendar : a.read[z] # Free}}]
       /\ answers' = [answers EXCEPT ![c] =
            Append(RemoveAt(@, i), [stage |-> "bookings", place |-> p, read |-> BookingsAt(p)])]
  /\ UNCHANGED <<hold, wire, at, selected, known, visible, unmarked, misled, alarm, request,
                 moves>>

\* Slip: the holds get no timer.
DrawHoldsWithoutTimer(c) ==
  /\ \E i \in 1 .. Len(answers[c]) :
       LET a == answers[c][i]
           p == at[c]
       IN
       /\ a.stage = "holds"
       /\ shown' = [shown EXCEPT ![c] =
                      [s \in Calendar |-> IF a.read[s] = Free THEN @[s] ELSE a.read[s]]]
       /\ answers' = [answers EXCEPT ![c] =
            Append(RemoveAt(@, i), [stage |-> "bookings", place |-> p, read |-> BookingsAt(p)])]
  /\ UNCHANGED <<hold, wire, at, selected, known, visible, unmarked, local, misled, alarm,
                 request, moves>>

\* The answer of /bookings/holds is merged in, whosever the holds are, under the
\* field and date selected now, and each hold gets a local timer; then the bookings
\* are asked for.  Slots that are on the screen, drawn by another redraw, are not marked.
\* An error answer (500) names no slot.
DrawHolds(c) ==
  /\ \E i \in 1 .. Len(answers[c]) :
       LET a == answers[c][i]
           p == at[c]
       IN
       /\ a.stage = "holds"
       /\ \E held \in {a.read} \cup (IF "fetch" \in Faults THEN {Blank} ELSE {}) :
            /\ shown' = [shown EXCEPT ![c] =
                           [s \in Calendar |-> IF held[s] = Free THEN @[s] ELSE held[s]]]
            /\ local' = [local EXCEPT ![c] =
                           @ \cup {<<p, s, held[s]>> : s \in {z \in Calendar : held[z] # Free}}]
            /\ unmarked' = IF c \notin visible THEN unmarked
                 ELSE [unmarked EXCEPT ![c] =
                         @ \cup {s \in Calendar : shown[c][s] = Free /\ held[s] # Free}]
       /\ answers' = [answers EXCEPT ![c] =
            Append(RemoveAt(@, i), [stage |-> "bookings", place |-> p, read |-> BookingsAt(p)])]
  /\ UNCHANGED <<hold, wire, at, selected, known, visible, misled, alarm, request, moves>>

\* Slip: the bookings are kept only when there are some.
DrawBookingsUnlessNone(c) ==
  /\ \E i \in 1 .. Len(answers[c]) :
       LET a == answers[c][i] IN
       /\ a.stage = "bookings"
       /\ known' = [known EXCEPT ![c] = IF a.read = {} THEN @ ELSE a.read]
       /\ misled' = IF \E j \in 1 .. i - 1 : answers[c][j].stage = "bookings"
                         THEN misled \cup {c} ELSE misled
       /\ answers' = [answers EXCEPT ![c] = RemoveAt(@, i)]
  /\ visible' = visible \cup {c}
  /\ MarkSlots(c)
  /\ UNCHANGED <<hold, wire, at, selected, shown, local, alarm, request, moves>>

\* Slip: the bookings that were known are kept.
DrawBookingsAdded(c) ==
  /\ \E i \in 1 .. Len(answers[c]) :
       LET a == answers[c][i] IN
       /\ a.stage = "bookings"
       /\ known' = [known EXCEPT ![c] = @ \cup a.read]
       /\ misled' = IF \E j \in 1 .. i - 1 : answers[c][j].stage = "bookings"
                         THEN misled \cup {c} ELSE misled
       /\ answers' = [answers EXCEPT ![c] = RemoveAt(@, i)]
  /\ visible' = visible \cup {c}
  /\ MarkSlots(c)
  /\ UNCHANGED <<hold, wire, at, selected, shown, local, alarm, request, moves>>

\* Then the bookings are remembered and the calendar is shown, whatever other
\* redraw is under way.
DrawBookings(c) ==
  /\ \E i \in 1 .. Len(answers[c]) :
       LET a == answers[c][i] IN
       /\ a.stage = "bookings"
       /\ known' = [known EXCEPT ![c] = a.read]
       /\ misled' = IF \E j \in 1 .. i - 1 : answers[c][j].stage = "bookings"
                         THEN misled \cup {c} ELSE misled
       /\ answers' = [answers EXCEPT ![c] = RemoveAt(@, i)]
  /\ visible' = visible \cup {c}
  /\ MarkSlots(c)
  /\ UNCHANGED <<hold, wire, at, selected, shown, local, alarm, request, moves>>

\* catch of renderSlots: no bookings, and a message instead of the calendar.
DrawFails(c) ==
  /\ "fetch" \in Faults
  /\ \E i \in 1 .. Len(answers[c]) : answers' = [answers EXCEPT ![c] = RemoveAt(@, i)]
  /\ known' = [known EXCEPT ![c] = {}]
  /\ visible' = visible \ {c}
  /\ MarkSlots(c)
  /\ misled' = misled \cup {c}
  /\ UNCHANGED <<hold, wire, at, selected, shown, local, alarm, request, moves>>

\* Slip: the timer forgets nothing.
LocalTimerForgets(c) ==
  /\ \E t \in local[c] : local' = [local EXCEPT ![c] = @ \ {t}]
  /\ UNCHANGED <<hold, wire, at, selected, shown, known, visible, unmarked, fetches, alarm,
                 request, moves>>

\* The hold that was read is forgotten, unless it is another user's by now.
LocalTimerFires(c) ==
  /\ \E t \in local[c] :
       /\ local' = [local EXCEPT ![c] = @ \ {t}]
       /\ IF t[1] = at[c] /\ shown[c][t[2]] = t[3]
            THEN shown' = [shown EXCEPT ![c][t[2]] = Free] /\ MarkSlots(c)
            ELSE UNCHANGED <<shown, unmarked>>
  /\ UNCHANGED <<hold, wire, at, selected, known, visible, fetches, alarm, request, moves>>

\* handleWsEvent, for another place than the one shown.
Ignore(c, e) ==
  /\ e.place # at[c]
  /\ UNCHANGED <<selected, shown, visible, unmarked, fetches>>

\* A confirmed booking redraws the calendar over what is shown, a cancelled one
\* from scratch.
Redraw(c, e) ==
  /\ e.place = at[c]
  /\ e.op \in {"confirmed", "cancelled"}
  /\ Render(c, at[c], IF e.op = "confirmed" THEN shown[c] ELSE Blank)

\* A hold is believed when somebody else's, a release whoever sent it.
Mark(c, e) ==
  /\ e.place = at[c]
  /\ e.op \in {"hold", "release"}
  /\ shown' = [shown EXCEPT ![c] = [s \in Calendar |->
                 IF s \notin e.slots \/ (e.op = "hold" /\ e.by = c) THEN @[s]
                 ELSE IF e.op = "hold" THEN e.by ELSE Free]]
  /\ IF e.op = "hold" /\ e.by = c THEN UNCHANGED unmarked ELSE MarkSlots(c)
  /\ UNCHANGED <<selected, visible, fetches>>

Receive(c) ==
  /\ inbox[c] # <<>>
  /\ inbox' = [inbox EXCEPT ![c] = Tail(@)]
  /\ LET e == Head(inbox[c]) IN Ignore(c, e) \/ Redraw(c, e) \/ Mark(c, e)
  /\ UNCHANGED <<hold, outbox, socket, at, known, local, alarm, request, moves>>

\* beforeunload: the selection is released on the way out; timers and fetches die
\* with the page, a booking request under way goes on without it.
LeavePage(c) ==
  /\ "page" \in Faults /\ MakeMove
  /\ socket[c] # "gone"
  /\ Send(c, Message("release", at[c], Covered(selected[c])))
  /\ socket' = [socket EXCEPT ![c] = "gone"]
  /\ inbox' = [inbox EXCEPT ![c] = <<>>]
  /\ selected' = [selected EXCEPT ![c] = <<>>]
  /\ shown' = [shown EXCEPT ![c] = Blank]
  /\ known' = [known EXCEPT ![c] = {}]
  /\ visible' = visible \ {c}
  /\ MarkSlots(c)
  /\ timers' = [timers EXCEPT ![c] = {}]
  /\ local' = [local EXCEPT ![c] = {}]
  /\ answers' = [answers EXCEPT ![c] = <<>>]
  /\ settling' = settling \ {c}
  /\ misled' = misled \cup {c}
  /\ UNCHANGED <<hold, at, handle, booking, rows, refused>>

-----------------------------------------------------------------------------
(* A booking request, and the cancellation of a booking.                   *)

Asked(c) ==
  LET w == WindowOf(booking[c].range) IN
  [place |-> booking[c].place, start |-> w.start, end |-> w.end]

IsFree(w) == ~ \E b \in booked : b.place = w.place /\ Overlap(b, w)

\* Browser c draws booking b, or is about to.
HasRead(c, b) ==
  \/ b \in known[c]
  \/ \E i \in 1 .. Len(answers[c]) : answers[c][i].stage = "bookings" /\ b \in answers[c][i].read

\* confirmBooking clears holdTimer and posts the range.
Confirm(c) ==
  /\ MakeMove
  /\ Len(selected[c]) = 2
  /\ booking[c] = NoBooking /\ c \notin settling
  /\ booking' = [booking EXCEPT ![c] =
                   [stage |-> "posted", place |-> at[c], range |-> selected[c]]]
  /\ timers' = [timers EXCEPT ![c] = {t \in @ : t.id # handle[c]}]
  /\ UNCHANGED <<hold, wire, screen, handle, settling, rows, refused>>

\* The rows that are not announced yet.
Pending == {Asked(c) : c \in {d \in User : booking[d].stage \in {"pending", "confirmed"}}}

\* The field node inserts a pending row, which redraws from now on see as taken.
BookingInserted(c) ==
  /\ booking[c].stage = "posted"
  /\ IsFree(Asked(c))
  /\ booked' = booked \cup {Asked(c)}
  /\ dead' = dead \ {Asked(c)}
  /\ booking' = [booking EXCEPT ![c].stage = "pending"]
  /\ UNCHANGED <<hold, wire, screen, alarm, settling, refused, moves>>

\* All have voted: CONFIRMED is written over whatever the row says by now.
BookingConfirmed(c) ==
  /\ booking[c].stage = "pending"
  /\ booked' = booked \cup {Asked(c)}
  /\ dead' = dead \ {Asked(c)}
  /\ booking' = [booking EXCEPT ![c].stage = "confirmed"]
  /\ UNCHANGED <<hold, wire, screen, alarm, settling, refused, moves>>

BookingAnnounced(c) ==
  /\ booking[c].stage = "confirmed"
  /\ Announce("confirmed", booking[c].place, c)
  /\ booking' = [booking EXCEPT ![c].stage = "announced"]
  /\ UNCHANGED <<hold, outbox, socket, view, answers, alarm, settling, rows, refused, moves>>

\* Slip: the slots selected by then are released.
BookingAnsweredSelection(c) ==
  /\ booking[c].stage = "announced"
  /\ Send(c, Message("release", at[c], Covered(selected[c])))
  /\ booking' = [booking EXCEPT ![c] = NoBooking]
  /\ settling' = IF socket[c] = "gone" THEN settling ELSE settling \cup {c}
  /\ UNCHANGED <<hold, inbox, socket, screen, alarm, rows, refused, moves>>

\* The browser reads the answer and releases the range, under the field and date
\* selected now.
BookingAnswered(c) ==
  /\ booking[c].stage = "announced"
  /\ Send(c, Message("release", at[c], Covered(booking[c].range)))
  /\ booking' = [booking EXCEPT ![c] = NoBooking]
  /\ settling' = IF socket[c] = "gone" THEN settling ELSE settling \cup {c}
  /\ UNCHANGED <<hold, inbox, socket, screen, alarm, rows, refused, moves>>

Settle(c) ==
  /\ c \in settling
  /\ settling' = settling \ {c}
  /\ Render(c, at[c], Blank)
  /\ UNCHANGED <<hold, wire, at, known, local, alarm, booking, rows, refused, moves>>

\* catch of confirmBooking, after an error answer or none: an alert, and neither a
\* release nor a timer.
GiveUp(c) ==
  /\ booking' = [booking EXCEPT ![c] = NoBooking]
  /\ refused' = [refused EXCEPT ![c] = @ \cup Covered(booking[c].range)]

\* A vote or a call fails and the row is marked FAILED; nobody redraws for that.
BookingFailed(c) ==
  /\ "booking" \in Faults
  /\ booking[c].stage \in {"pending", "confirmed"}
  /\ booked' = booked \ {Asked(c)}
  /\ dead' = dead \cup {Asked(c)}
  /\ misled' = misled \cup {d \in Unaware(booking[c].place) : HasRead(d, Asked(c))}
  /\ GiveUp(c)
  /\ UNCHANGED <<hold, wire, view, answers, alarm, settling, moves>>

\* The slot is taken; or something fails that leaves the row as it is, if there is one:
\* the lock, the query, the database that should mark it FAILED, the process, the
\* reading back of the booking, the connection the answer should come by.
BookingRefused(c) ==
  /\ \/ "booking" \in Faults /\ booking[c] # NoBooking
     \/ booking[c].stage = "posted" /\ ~ IsFree(Asked(c))
  /\ misled' = IF booking[c].stage \in {"pending", "confirmed"}
                  THEN misled \cup Unaware(booking[c].place) ELSE misled
  /\ GiveUp(c)
  /\ UNCHANGED <<hold, wire, view, answers, alarm, rows, settling, moves>>

\* deleteBooking of some user, which the feed offers for a booking it has seen
\* confirmed; whatever has become of the row since, it is cancelled and announced.
DeleteBooking ==
  /\ MakeMove
  /\ \E b \in booked \cup dead :
       /\ \A c \in User : booking[c].stage = "pending" => b # Asked(c)
       /\ booked' = booked \ {b}
       /\ dead' = dead \cup {b}
       /\ Announce("cancelled", b.place, Free)
  /\ UNCHANGED <<hold, outbox, socket, view, answers, alarm, booking, settling, refused>>

\* _recover_one gives a row the status the utility node's answer asks for, whatever it
\* has now, and tells nobody.
RecoveryWrites ==
  /\ "recovery" \in Faults /\ MakeMove
  /\ \E b \in booked \cup dead :
       /\ IF b \in dead THEN booked' = booked \cup {b} /\ dead' = dead \ {b}
                        ELSE booked' = booked \ {b} /\ dead' = dead \cup {b}
       /\ misled' = misled \cup Unaware(b.place)
  /\ UNCHANGED <<hold, wire, view, answers, alarm, booking, settling, refused>>

-----------------------------------------------------------------------------
(* The field node: one loop per WebSocket, one await per slot.             *)

\* redis.set without NX, or redis.delete without asking who holds the slot.
NextSlot(c) ==
  /\ outbox[c] # <<>>
  /\ LET m == outbox[c][1] IN
     \E s \in m.todo :
       /\ \A z \in m.todo : s <= z
       /\ hold' = [hold EXCEPT ![m.place][s] = IF m.op = "hold" THEN c ELSE Free]
       /\ outbox' = [outbox EXCEPT ![c][1].todo = @ \ {s}]
  /\ UNCHANGED <<inbox, socket, screen, alarm, request, moves>>

\* All slots done: the event goes to every open socket, the sender's included.
PublishHolds(c) ==
  /\ outbox[c] # <<>>
  /\ LET m == outbox[c][1] IN
       /\ m.todo = {}
       /\ Event(m.op, m.place, m.slots, c)
  /\ outbox' = [outbox EXCEPT ![c] = Tail(@)]
  /\ UNCHANGED <<hold, socket, screen, alarm, request, moves>>

\* ex=60 runs out.  Nobody is told.
HoldExpires(p, s) ==
  /\ hold[p][s] # Free
  /\ hold' = [hold EXCEPT ![p][s] = Free]
  /\ UNCHANGED <<wire, screen, alarm, request, moves>>

\* A socket breaks; what was under way in either direction is lost, and the
\* server's loop stops where it is.
Drop(c) ==
  /\ "socket" \in Faults /\ MakeMove
  /\ socket[c] \in {"open", "deaf"}
  /\ socket' = [socket EXCEPT ![c] = "closed"]
  /\ outbox' = [outbox EXCEPT ![c] = <<>>]
  /\ inbox' = [inbox EXCEPT ![c] = <<>>]
  /\ misled' = misled \cup {c}
  /\ UNCHANGED <<hold, view, answers, alarm, request>>

\* _listen ends in an exception it swallows; the loop that reads goes on.
SubscriptionDies(c) ==
  /\ "socket" \in Faults /\ MakeMove
  /\ socket[c] = "open"
  /\ socket' = [socket EXCEPT ![c] = "deaf"]
  /\ misled' = misled \cup {c}
  /\ UNCHANGED <<hold, outbox, inbox, view, answers, alarm, request>>

\* scheduleWsReconnect; the calendar is not redrawn.
Reconnect(c) ==
  /\ socket[c] = "closed"
  /\ socket' = [socket EXCEPT ![c] = "open"]
  /\ UNCHANGED <<hold, outbox, inbox, screen, alarm, request, moves>>

-----------------------------------------------------------------------------
Fetched(c) == DrawHolds(c) \/ DrawBookings(c) \/ DrawFails(c)

Served(c) ==
  \/ BookingInserted(c) \/ BookingConfirmed(c) \/ BookingAnnounced(c) \/ BookingAnswered(c)
  \/ BookingFailed(c) \/ BookingRefused(c)

Relayed(c) == NextSlot(c) \/ PublishHolds(c)

\* What happens without the user's doing, sooner or later.
Automatic(c) ==
  \/ TimerFires(c) \/ LocalTimerFires(c) \/ Receive(c) \/ Settle(c)
  \/ Fetched(c) \/ Served(c) \/ Relayed(c)

Next ==
  \/ \E c \in User : \/ Automatic(c) \/ ServerReads(c)
                     \/ ChangePlace(c) \/ Confirm(c) \/ LeavePage(c)
                     \/ Drop(c) \/ SubscriptionDies(c) \/ Reconnect(c)
                     \/ \E s \in Calendar : Click(c, s)
  \/ \E p \in Place, s \in Calendar : HoldExpires(p, s)
  \/ DeleteBooking
  \/ RecoveryWrites

\* Timers fire, fetches and requests end, loops read on, Redis expires: something of
\* a browser that can happen by itself does.  Nothing is said of Reconnect, since
\* scheduleWsReconnect gives up after WS_MAX_RETRIES.
Fairness ==
  /\ \A c \in User : WF_vars(Automatic(c))
  /\ WF_vars(\E p \in Place, s \in Calendar : HoldExpires(p, s))

Spec == Init /\ [][Next]_vars /\ Fairness

-----------------------------------------------------------------------------
Operation == {"hold", "release"}

Holding == [Calendar -> User \cup {Free}]

MessageType ==
  [op : Operation, place : Place, slots : SUBSET Calendar, todo : SUBSET Calendar]

EventType ==
  [op : Operation \cup {"confirmed", "cancelled"}, place : Place,
   slots : SUBSET Calendar, by : User \cup {Free}]

BookingType ==
  [stage : {"posted", "pending", "confirmed", "announced"}, place : Place, range : Ranges]

\* What a browser selects, and what it makes of that: ranges in the order of the day.
SelectionType ==
  /\ at \in [User -> Place]
  /\ selected \in [User -> Selections]
  /\ booking \in [User -> BookingType \cup {NoBooking}]

AnswerType(a) ==
  /\ a.place \in Place
  /\ \/ a.stage = "holds" /\ a.read \in Holding
     \/ a.stage = "bookings" /\ a.read \subseteq Window

TypeOK ==
  /\ hold \in [Place -> Holding]
  /\ socket \in [User -> {"open", "deaf", "closed", "gone"}]
  /\ SelectionType
  /\ booked \subseteq Window /\ dead \subseteq Window
  /\ \A c \in User :
       /\ outbox[c] \in Seq(MessageType)
       /\ inbox[c] \in Seq(EventType)
       /\ shown[c] \in Holding
       /\ known[c] \subseteq Window
       /\ timers[c] \subseteq [id : 1 .. MaxMoves, slots : SUBSET Calendar]
       /\ handle[c] \in 0 .. MaxMoves
       /\ local[c] \subseteq Place \X Calendar \X User
       /\ \A i \in 1 .. Len(answers[c]) : AnswerType(answers[c][i])
       /\ unmarked[c] \subseteq Calendar /\ refused[c] \subseteq Calendar
  /\ {settling, visible, misled} \subseteq SUBSET User

\* A release of slot s is on its way from browser c.
Releasing(c, p, s) ==
  \E i \in 1 .. Len(outbox[c]) :
    outbox[c][i].op = "release" /\ outbox[c][i].place = p /\ s \in outbox[c][i].todo

\* Browser u has a timer or a booking under way that will release slot s, or is
\* excused because it was refused a booking of s, which releases nothing.
Answerable(u, s) ==
  \/ \E t \in timers[u] : s \in t.slots
  \/ s \in Covered(booking[u].range)
  \/ s \in refused[u]

\* While sockets stay up and the place stays the same, nobody's hold is forgotten: a
\* key in Redis is backed by a timer of its owner that will release it, by a release
\* on its way, or by a booking request that will end in one or be refused - although
\* redraws drop selections, timers armed for one selection fire into the next, clicks go
\* on during a booking and two users hold and release the same slots.
NoHoldIsForgotten ==
  \A p \in Place, s \in Calendar, c \in User :
    hold[p][s] = c => Releasing(c, p, s) \/ Answerable(c, s)

\* Nor is a hold on a screen: whatever the order in which events, redraws and timers
\* reach a browser, the hold it shows of a user is backed by a timer of its own that
\* will forget it, by a release on its way to it, or by one its user will still send,
\* unless a booking of that slot was refused to that user.
ShownHoldEnds ==
  \A c, u \in User, s \in Calendar :
    shown[c][s] = u =>
      \/ <<at[c], s, u>> \in local[c]
      \/ \E i \in 1 .. Len(inbox[c]) : inbox[c][i].op = "release" /\ s \in inbox[c][i].slots
      \/ \E i \in 1 .. Len(outbox[u]) : outbox[u][i].op = "release" /\ s \in outbox[u][i].slots
      \/ Answerable(u, s)

\* Whatever breaks - a connection lost between a hold and its release, a refused
\* booking that releases nothing, a timer or a booking that releases its slots under
\* the field selected since - no key outlives the use made of it, and a user who is
\* alone is not shut out for ever by holds of his own.
AllFreeInTheEnd ==
  <>[](\A c \in User, s \in Calendar : shown[c][s] = Free /\ \A p \in Place : hold[p][s] = Free)

\* A calendar shows what a fresh one would, give or take the rows not announced yet,
\* unless an announcement or the answer to a redraw is still to come - however events,
\* redraws and their answers interleave, and whoever books and cancels meanwhile.
\* Nothing in the code mends the following, which are excuses until the calendar is
\* next redrawn over an open connection, and then no longer: the connection or its
\* subscription was lost; a redraw failed, or was overtaken by the answer to a newer one;
\* a change escaped the browser because its publication failed, because a refused request
\* left its row live or had it marked FAILED after it was drawn, or because recovery made it.
CalendarIsCurrent ==
  \A c \in User \ misled :
    \/ AboutToRead(c)
    \/ answers[c] # <<>>
    \/ /\ TakenBy(booked \ Pending, at[c]) \subseteq TakenSlots(c)
       /\ TakenSlots(c) \subseteq TakenBy(booked, at[c])

\* checkRangeConflict, slot by slot and to the minute, and check_availability, on the
\* whole window and to the second, against every same-day booking the browser knows,
\* on or off the grid: the browser refuses no range that the server would accept, and
\* lets through none that the server refuses because of that booking, but for a booking
\* that ends in the first minute of one of the slots, whose seconds it does not read.
GridAgreesWithServer ==
  \A c \in User, i, j \in Calendar :
    \A b \in known[c] :
      i <= j /\ SameDay(b) =>
        /\ RangeIsTaken(i, j, b) => Overlap(b, WindowOf(<<i, j>>))
        /\ Overlap(b, WindowOf(<<i, j>>)) =>
             RangeIsTaken(i, j, b) \/ \E k \in i .. j : EndsInFirstMinute(k, b)

\* What confirmBooking makes of a selected range is what isSlotTaken reads back: once
\* it is booked, the slots of the range are taken and no other slot is, provided the
\* range does not reach midnight.
BookedRangeIsTaken ==
  \A c \in User, k \in Calendar :
    booking[c] # NoBooking /\ Asked(c).end < DayLength =>
      (IsSlotTaken(k, Asked(c)) <=> k \in Covered(booking[c].range))

\* What README.md says of a hold, "If not confirmed, it becomes available again", as
\* a browser sees it: no slot is shown as held for ever.
HoldTimesOut == \A c \in User, s \in Calendar : []<>(shown[c][s] = Free)

=============================================================================
