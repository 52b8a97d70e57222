# A TLA+ model of PracticeCourt

PracticeCourt books sports fields and extras (lights, heating, rooms) for them. This
directory holds TLA+ modules of the parts of it where concurrency and failure matter, the
TLC configurations that check them on small instances, and TLAPS proofs of the results that
hold for every instance. Paths below are relative to the repository.

## 1. Inventory

| Component | State it keeps | Operations | Talks to |
|---|---|---|---|
| Distributed lock, `shared/locks.py` | Redis keys `lock:field:<id>:<start>` with a token and a TTL | `acquire`, `release`, expiry | booking handlers |
| Field node, booking handlers, `field_node/app/main.py` 112-259 | what a coroutine holds between awaits: token, ids, answer, ORM session | `POST /bookings/2pc`, `POST /bookings` | lock, tables, coordinator, events |
| Field bookings table, `repositories/field_booking_repository.py` | a row per booking, pending / confirmed / cancelled / failed; InnoDB locks | `check_availability`, `create_pending`, `create`, `update_status` | handlers, recovery, cancellation |
| Coordinator, `two_pc_coordinator.py` | Redis record `2pc:txn:<id>`: state and utility booking ids, 300 s | `prepare_all`, `commit_all`, `rollback_all` | utility node by HTTP, 5 s timeout |
| Utility node, `utility_node/app/main.py` | `utility_bookings` rows | `internal_prepare`, `internal_commit`, `internal_rollback` | coordinator |
| Recovery, `recovery.py` | nothing of its own | background loop every 60 s, `POST /admin/recovery` | coordinator, table |
| Cancellation, `main.py` 343-364 | nothing | `DELETE /bookings/{id}` | table, events |
| Database connections, `shared/db.py` | a pool of 15; which sessions hold one | taken with a query, given back by a commit, taken again by the refresh after it, given back at the end | handlers, recovery |
| Temporary holds, `main.py` 81-103 and 261-334, `app.js` | Redis keys `hold:<field>:<date>:<slot>` for 60 s; in each browser selection, believed holds, timers | WebSocket messages `hold_slots`, `release_slots`, redraws, timers, `confirmBooking` | availability channel, `POST /bookings/2pc` |
| WebSocket relay, `main.py` 261-334 | a loop, a subscription and its task per socket | receive, publish, `_listen` | Redis, browsers |
| Slot arithmetic, `app.js` 56-74, 199-227, 680-683 | none | slots of a day, which of them a booking takes, the window of a range | holds, `check_availability` |
| Events, `shared/events.py` | Redis pub/sub channel | publish, best effort | every browser |
| Catalogue, settings, logging, page layout, feed, prices | rows and DOM | plain reads and inserts | |

What makes each hard, and what makes it correct:

* **Lock.** The TTL runs out under a slow owner, replies get lost, the process dies holding
  it. Correct: a holder that has not lapsed owns its key; the key is freed in the end.
* **Handlers and coordinator.** Overlapping windows use different lock keys; every await can
  fail with or without effect; the two `except` blocks run a second rollback after a refused
  vote. Correct: overlapping windows are never both live; nothing is confirmed before all
  votes; field and utilities go the same way; the answer matches what was done; every
  request is answered.
* **Connections.** A handler gives its connection up and takes one again while it holds its
  lock and its rows. Correct: nobody waits for ever.
* **Utility node.** A handler whose caller has given up still runs, late or half-way.
* **Recovery and cancellation.** They take no lock and overwrite any status, beside live
  handlers and each other.
* **Holds.** A hold is a plain SET, a release a plain DEL, one slot per await; a message names
  the field and date on the screen when it is sent, not those of the hold; events, redraws,
  answers and timers reach a browser in any order; sockets and subscriptions break. Correct:
  every hold ends, in Redis and on every screen. Announcements of bookings may fail, and rows
  change that nobody announces. Correct: apart from those, a screen is up to date, and it is
  again after its next redraw.
* **Slot arithmetic.** The browser looks at slots and minutes, the server at windows and seconds.
  Correct: they agree, but for the seconds.

`PROJECT.json` lists these hazards one by one with the property that watches each.

## 2. Modules

| Module | What it is |
|---|---|
| `BookingRequests` | what a request carries: field, half-open window, time zone; overlap test; lock key |
| `DistributedLock` | one lock table: what SET NX PX, the release script and expiry do |
| `LockClients` | requests as clients of the lock, alone |
| `FieldBookings` | the table and the row and gap locks FOR UPDATE leaves |
| `ConnectionPool` | who holds one of the pooled connections |
| `UtilityNode` | participant rows and the HTTP calls in flight |
| `TwoPhaseBooking` | composes lock, table, pool and utility node with the handlers, the coordinator, faults and crashes |
| `SlotLedger` | abstract specification: a calendar whose windows are held, sold and given back |
| `AtomicCommit` | abstract specification: an initiator and invited members that all commit or all abort |
| `BookingRecovery` | `TwoPhaseBooking` with recovery, cancellation, expiring records |
| `BookingClaims` | what documents, comments and tests claim of bookings and the code does not keep |
| `SlotGrid` | the slots of a day and what a booking takes of them, in the browser and on the server |
| `TemporaryHolds` | browsers on `SlotGrid`, their redraws and bookings, WebSocket loops, hold keys and events |
| `LockClientsProofs`, `AtomicCommitProofs`, `SlotGridProofs` | theorems on the lock, the abstract commitment and the slot arithmetic |
| `TwoPhaseBookingProofs`, `CoordinatorProofs` | theorems on the booking handlers: slots; votes, decisions and answers |
| `BookingRecoveryProofs`, `CommitmentProofs` | theorems on bookings with recovery; the refinement of `AtomicCommit` |
| `TemporaryHoldsProofs` | theorems on holds and screens |
| `MC*`, `BookingInstances` | small instances |

**How state and actions correspond.** In `TwoPhaseBooking`, `pc[r]` is the await the handler
of request `r` has reached, `resp[r]` the answer its exceptions have decided, `ids[r]` is
`utility_booking_ids`, `sess[r]` the booking's status as the ORM session caches it, `txn[r]` the
Redis record, `fb[r]` the row, `ub[r][u]` the participant's row, `conn` the requests whose
session has a connection. One action is what happens between two awaits others can tell apart;
a handler without a connection can only take one (`Refresh`). `Raise` is both `except` blocks:
the first exception decides the answer and, once the row exists, starts `rollback_all` and
`update_status(FAILED)`; a second one, inside that, is swallowed. A refused vote therefore
passes `rollback_all` and `MarkFailed` twice, as in the code. In `BookingRecovery`, `rec[w]` is
the await of one run of `run_recovery` with the record it has read.

In `TemporaryHolds`, `outbox[c]` is the message queue from browser `c` with the slots the server
loop still has to do, `inbox[c]` the events on their way back, `socket[c]` the connection
(`deaf` once `_listen` has died). `at`, `selected`, `shown` and `known` are `selectedFieldId` with
`selectedDate`, `selectedSlots`, `heldByOthers` and `bookings` of the browser's `state`; `unmarked` are
the slots it has learnt to be held while `updateSlotHighlights` has not run, which can still be
clicked on. `timers[c]` are the armed "Time's up" timers with the slots each captured, `handle[c]` the
one `holdTimer` refers to, `local[c]` the timers a redraw armed. `answers[c]` are the fetches of all
redraws under way: `DrawHolds` is what follows the first `await` of `renderSlots`, `DrawBookings` what
follows the second, `DrawFails` its `catch`. `booked` are the pending and confirmed rows, `dead` the
failed and cancelled ones.

`booking[c]` is the request of `confirmBooking`: posted, then inserted by the server (`BookingInserted`),
confirmed over whatever the row says by then (`BookingConfirmed`), announced (`BookingAnnounced`) and
answered (`BookingAnswered`), after which the browser settles and redraws (`Settle`). It may end
before: `BookingFailed` marks the row FAILED, `BookingRefused` leaves it as it is, because there is
none or because what should mark it fails itself; what the browser does then is `GiveUp`.
`Announce` is `publish_booking_event`: the event goes to every open socket, or (fault `"publish"`) to nobody,
and the caller does not notice. `RecoveryWrites` (fault `"recovery"`) is a row that the recovery job
confirms or fails, which nobody announces.

Two history variables no action reads. `refused[c]` are the slots of the bookings refused to `c`.
`misled` are the browsers that have an excuse for an old calendar: what the code does not repair has
happened since they last began to redraw over an open connection (`Render` takes them out).

**Abstractions.**
* A lock token is the request that drew it: each request calls `acquire` once, and uuid4 tokens
  differ. A transaction is named by the request whose row it belongs to.
* A database commit and the refresh after it are one step; `get_by_id` before an update is
  merged with it.
* `utility_ids` is a set, and the order of the prepare calls arbitrary.
* Two rollback calls of one caller for the same ids that have both been given up on and have
  the same work left are one element of `calls`.
* A call that its caller has given up on (timeout, broken connection, dead caller) may not have
  arrived, may stop anywhere or may run later.
* FOR UPDATE: a row or gap scanned by an open transaction cannot be written by another one;
  two inserts that wait for each other end with one deadlock error. Queries whose result
  would contain rows locked by others wait.
* SQLAlchemy: a session begins a transaction at its first statement, so `db.begin()` in `create`
  raises after the field lookup; a session writes only attributes that differ from its cache; a
  session whose transaction was invalidated refuses work.
* A failing Redis or database operation raises and may or may not have taken effect.
* Windows are wall-clock times with the offset beside them (`zone`), because MySQL's DATETIME
  drops the offset and `isoformat()` in the lock key keeps it. Nothing is assumed of the order
  of start and end, since equal instants may be stored inverted.
* Connections: the failure of a refresh after 30 s is a database failure (`"db"`), the one of the
  first query `LookupFails`. Recovery and cancellation take a connection only for the step that
  needs it. Utility node and recovery loop have room: only the field node's pool is modelled.
* Holds: a place is a field on a date. KEYS and the GETs that follow are one reading; the server
  may read at any time between a request and its answer, and what it read last counts
  (`ServerReads`). Timers for one slot, user and place are one. Every browser has its own user
  and a place selected from the start. Messages under way on a connection that breaks are lost.
  `isSlotTaken` skips rows of other statuses than pending and confirmed, so these are not in `known`.
* Bookings in `TemporaryHolds` are windows: two rows for the same window of one place are one
  element of `booked`. There are two live ones only after recovery has sold a slot twice (section 5).
* A booking whose answer gets lost on the way is a `BookingRefused` at its last stage.

## 3. Runs

| Run | Instance | What it shows |
|---|---|---|
| `LockClients` | 3 requests, one key, 2 crashes | exclusion as long as no TTL lapses; the key is always freed |
| `BookingCallFaults` | 3 requests (one simple, two for overlapping windows), two utility votes, failing calls, two connections, 1 crash | refusals free the slot; a 201 is true; decisions are final; pending bookings are decided; every request is answered |
| `BookingSlots` | 3 overlapping requests under 3 keys (one differs in its offset), two of them with two votes, one of which is NO; Redis and database failures | types; exclusive slots; nothing confirmed without all votes; utilities all confirmed or all given back; refinement of `SlotLedger` |
| `RecoveryAfterCrash` | 2 requests, one refused by a utility, and one for an inactive field; loop and administrator, 1 crash | with the utility node up, recovery keeps slots exclusive, `AtomicCommit` is implemented and every prepared transaction ends |
| `RecoveryLate` | 2 requests, loop, cancellation, expiring records, failing calls and database | recovery confirms only voted bookings; inserts only into free windows |
| `HoldsShared` | 2 browsers, 1 place, 2 slots, a booking that can be cancelled, 3 moves; bookings refused, publications failing, recovery writing | every hold in Redis and on a screen is backed by something that ends it, unless a booking of its slot was refused; screens are current or excused |
| `HoldsAlone` | 1 browser, 1 place, 4 moves, failing fetches too | the same with clicks during a booking and after redraws |
| `HoldsBroken` | 1 browser, 2 places, a booking from 08:15:00 to 08:30:30, 4 moves, pages left, connections and subscriptions lost, bookings refused | all holds end; screens are current or excused; browser and server agree but for the seconds |
| `ClaimOneReservationRecovery`, `ClaimNeverPartly`, `ClaimPreparedConfirmed`, `ClaimHoldTimesOut` | one or two requests; two browsers | counterexamples, section 5 |

The largest instances have two to three million states, the smallest a few thousand.

`NoHoldIsForgotten` and `ShownHoldEnds` excuse the slots of refused bookings (`refused`):
`confirmBooking` has cleared the timer by then and sends no release (section 5, `ClaimHoldTimesOut`).
Without the excuse both are false as soon as a booking is refused, be it by another user's booking of
the slot or by a failure (`"booking"` in `Faults`).

**Bounds and why they are enough.** `Request`, `Utility`, `Recoverer` and `User` are finite sets.
Two requests make every race for a slot; the third of `BookingSlots` overlaps both ways with
a first one, so a query can also find two rows. `early` and `same` share a lock key, `late` and
`abroad` have others. Two utilities let a vote be incomplete, a refusal come after a yes, and a
commit be carried out by half. `MaxCrashes` = 1: after a crash
requests that had not begun go on as after a restart; a second crash is a crash of fewer
requests. `PoolSize` = 2 with three requests lets two handlers stand in each other's row and gap locks (an insert,
a confirmation or a query waits, two inserts end in a deadlock error) while a third, or one of the
two that has given its connection up, waits for a connection; elsewhere the pool is larger than the
number of requests, as 15 is for the few users of a court. No run has all of `Faults` and a crash at
once: each excludes what its properties are false under, and those that hold under everything
(`ExclusiveSlots`, `ImplementsLedger`, `UnanimousCommit`, `AnswerMatchesOutcome`) are theorems without
such a hypothesis.

In `TemporaryHolds` times are half minutes (`Minute` = 2), so that bookings may begin and end within a
minute. `MaxMoves` bounds together what users, network and recovery may do: clicks, changes of place,
bookings, cancellations, pages left, connections broken, rows rewritten. Two clicks select a range, a
third move books it or lets somebody else take or free its slots; a cancellation between two clicks
makes a redraw that leaves a timer behind. A click during a booking and after it takes a fourth
move: `HoldsAlone`. Two browsers with four moves are more than 15 million states, so that two whole
ranges of two users against each other, or clicks of one during the booking of the other, are
covered by the theorems of `TemporaryHoldsProofs` only. So are grids of more than two slots, where a
range has slots it neither begins nor ends with. Timers, events, fetches and expiries are not bounded,
they run out by themselves. Deadlock is not checked because the
instances stop once every request is answered or all moves are made.

**Symmetry.** `HoldsShared` checks invariants only, its browsers are interchangeable and no
definition chooses among them, so their permutations are a symmetry.

**Fairness.** `FairSpec`: every handler runs on (`WF` of `Serve`: the event loop is fair and
awaits complete) and a call somebody waits for is served (or, under call faults, given
up on). A lock expiry is only required in `LockClients`: Redis removes expired keys.
`RecFairSpec` adds that recovery goes on: its loop never ends and the container restarts
(`restart: unless-stopped`). In `TemporaryHolds`, something of what can happen by itself in a
browser and its server loop does (timers fire, fetches and requests end, loops read on), and Redis
expires keys. Nothing is required of `Reconnect`, because `app.js` gives up after eight attempts, and no
user is ever required to do anything.

**Mutants.** Each property of a passing run is paired in `PROJECT.json` with a plausible slip
in the code (comments "Slip" in the modules): SET without NX, release without comparing the
token, a query without FOR UPDATE, PREPARED after the first yes, a commit failure ignored, an
event that leaves out its sender, holds drawn without a timer. The property must fail under it.

## 4. Proofs

*`LockClientsProofs`.* `TypeCorrect`; `HolderOwns`: `HolderOwnsOrLapsed` is inductive with the type
invariant alone; `Exclusion` follows, since two holders of one key that both own it are equal.
For any set of requests, keys and number of crashes.

*`TwoPhaseBookingProofs`.* `TypeCorrect`; `SlotExclusion`, that `ExclusiveSlots` is invariant;
`LedgerRefinement`, that every behaviour implements `SlotLedger` with a row read as an
entry of the calendar. `ExclusiveSlots` is not inductive: whether an insert is safe
depends on what was true when the query ran. `SlotInvariant` strengthens it with
*`RowFollowsHandler`* (a handler before its insert has no row, and one that is past the
decision has no live row that could come back) and *`InsertIsCovered`* (a handler at its
insert still has its FOR UPDATE transaction open and no live row overlaps its window). The lock is
not used: what excludes is the database, which is why the theorem covers a lapsed lock
and windows under different keys. It rests on the assumptions on constants
named in the modules (`SlotAssumption`: windows start and end at integers, in whatever order;
`NobodyAssumption`, `BookableAssumption`, `RequestAssumption`), nothing about their size. The
refinement's step proof classifies every action by what it does to the rows (`RowStep`).

*`CoordinatorProofs`.* Five results on votes, decisions and answers. None of the properties is
inductive, each says what must hold at the end of a path through the handler, and its invariant
says what holds on the way. All rest on `TypeCorrect` and on the lemmas of the first section: what a
step of a handler leaves alone (`OtherCalls`, `OtherHandlers`), what calls under way may become
(`EnvironmentCalls`: nothing is posted in a name by anybody else) and what they do to the rows of the
participants (`EnvironmentRows`).

* `Unanimity` (`UnanimousCommit`), under every fault. `VoteInvariant`: the ids a handler has collected
  are votes, and whatever speaks for a commitment (`Committal`: the place of the handler, a
  PREPARED record, a confirmed row, a commit call however old) means that all votes are in.
* `AnswersAreTrue` (`AnswerMatchesOutcome`), under every fault; what recovery, cancellation and expiry may
  do to such a booking afterwards is in section 5. `AnswerInvariant`: on its way to a 201 a
  handler has no call under way but the one it waits for (`OneCall`, so no late rollback can undo
  what the answer says), and each place has what the earlier ones achieved (`Earned`).
* `DecisionsAreFinal` (`DecisionIsFinal`), if Redis does not fail: `DecisionFollowsHandler`, COMMITTED is
  recorded by a handler that has only its answer left, ABORTED by one that can only go backward.
* `RefusalsFreeSlots` (`RefusalFreesSlot`), if neither Redis nor the database fails, whatever happens to
  calls and processes: `AnswerIsOpen` and `RefusalIsMarked`, a refused handler that gets to its
  `finally` block has written FAILED. It needs `AnswerIsOpen` because the refusal is decided at one await
  and written at another.
* `AllOrNothingHolds` (`AllOrNothing`), if calls to the utility node are answered: `RowsInvariant`, a
  living handler has left no call behind (`NoneLeftBehind`) and how far the participants have got
  follows from its place (`RowsFollow`).

The hypotheses exclude the faults that the runs of these properties exclude, and under which they
are false: `SetTxnStateFails` makes the exception handler record ABORTED over a COMMITTED that did
arrive; a database failure keeps `update_status(FAILED)` from being written; of a call that timed out
nobody knows what it did (`ClaimNeverPartly`).

*`BookingRecoveryProofs`.* The same service with recovery, cancellation and expiring records, under
every fault. `RecTypeCorrect`; its invariant also says that a recoverer waits for the one call it
has posted, for the transaction and the ids it holds (`RecWaiting`), without which its answer could be
that of another call. `RecUnanimity`: `VoteInvariant` still holds, since a recoverer only goes
forward with a PREPARED record (`RecVotes`). `InsertsIntoFreeSlots` (`InsertedIntoFreeSlot`): that slots
are exclusive is false here (`ClaimOneReservationRecovery`), but it is never an insert
that overlaps. `InsertsCovered` depends on the FOR UPDATE locks alone: between the query of a handler
and its insert nobody can make a row in the window live, recovery included (`TableStep`).

*`CommitmentProofs`.* `CommitmentRefinement`: bookings with recovery implement `AtomicCommit`, for
any number of requests, utilities, recoverers and crashes, when nothing else fails
and nobody cancels (`NothingFails`, the instance of `RecoveryAfterCrash`). `CommitInvariant` is
needed because the handler and several recoverers act on one transaction from stale readings: each
transaction is `OneSided`, nothing that commits it (a place, a record, a row, a call, a
recoverer at work) is there together with anything that takes it back. `AgreementHolds` below says what
the refinement is worth. `RecoveryKeepsSlots` (`ExclusiveSlots`) combines both modules: an insert
finds its window free, and what confirms a row finds it live, because a commitment that aborted
never commits (`ConfirmsLiveRows`).

*`AtomicCommitProofs`.* `AgreementHolds`: in the abstract commitment no party commits while
another aborts. `Agreement` is inductive with the types: whoever commits finds nobody aborted and
whoever aborts finds nobody committed (`MoveKeepsAgreement`). It says what the refinement that
`RecoveryAfterCrash` checks is worth. It assumes `InvitedType`, that the members of a transaction
are among the parties.

*`SlotGridProofs`.* `GridAgreement`, for every opening hour, length of slot, length of minute and
same-day booking: if a slot of a range, looked at by itself and to the minute, meets the booking, the
window of the range does, to the second; and if the window does, a slot does, or the booking ends in
the first minute of one of them (`EndsInFirstMinute`), which is what the browser cuts off. That it
also cuts off the start is harmless, because slots end on whole minutes (`GridAssumption`). One direction names the slot: the last one that starts before the booking ends, found
by a division (`Division`, `SlotOf`). `RangeRoundTrip`: a range of the calendar is read back as
exactly its slots. They rest on `GridAssumption` alone.

*`TemporaryHoldsProofs`.* `BrowserAgreesWithServer` and `BookedRangeIsReadBack` carry the two facts
to every behaviour of the browsers. The second needs an invariant, `SelectionTypeCorrect`:
whatever is clicked, redrawn, booked and refused, a selection and the range of a booking have
their ends in the order of the day (`SelectionIsSelection` for a click, `TwoSlotsAreARange` for a
booking); a range the wrong way round would ask for a window that ends before it starts.

`TypeCorrect` is the rest of the types, with timers numbered in the order in which they were armed
(`TimersType`).

`CalendarsAreCurrent` (`CalendarIsCurrent`): a browser that is not `misled`, has no announcement for its
place to read and waits for no answer shows what is booked, give or take the rows that are not
announced yet (`Pending`), for any users, places, grids, bookings and faults. `CalendarInvariant` says
what is true before that: a browser is about to read (`AboutToRead`), or the last answer to come, or
the screen itself, is `Faithful`. Each action either leaves every such reading faithful
(`ReadingStaysFaithful`, `FaithfulStep`), or announces what it changes (`AnnouncementArrives`), or gives
an excuse to exactly the browsers it escapes (`AnnouncedOrMisled`). `ExcusesEnd` is the other half:
beginning to redraw over an open connection ends every excuse.

`NobodyForgets` (`NoHoldIsForgotten`) and `ShownHoldsEnd` (`ShownHoldEnds`), for any number of browsers,
slots and moves, under failing fetches and bookings: they assume `Undisturbed`, one place and no
lost connection, as in `HoldsShared` and `HoldsAlone`; with several places the code releases under the wrong one. The
properties are not inductive, because a hold is at any time in one of three places: a message not yet
or only in part carried out, an event not yet read, a key or a screen. `HoldsInvariant` says of each
place what ends the hold (`MessagesAnswered`, `EventsAnswered`, `ScreensAnswered`: a release
further back in the same queue or in the one before it, or a user who is `Answerable`), with
`QueuesWhole` (only the first message of a queue may be done in part) and `LatestTimer` (the timer of the
last selection covers it, so that clearing an older one loses nothing).

**Only model-checked**: everything with fairness (`LockIsFreedEventually`, `EveryRequestAnswered`,
`PendingIsResolved`, `PreparedIsResolved`, `AllFreeInTheEnd`), which is out of the prover's reach. That holds
end when connections are lost and places change is thus only shown by `AllFreeInTheEnd` in `HoldsBroken`.
All other properties of the passing runs are theorems, under the hypotheses named above.

## 5. Disagreements

Four runs end in a counterexample:

* `ClaimOneReservationRecovery` (README.md:53-54). Recovery takes up the PREPARED record of a
  handler that is still between PREPARED and its local confirm, cannot reach the utility
  node, and marks the booking FAILED. Another request finds the window free and inserts. The
  first handler goes on and writes CONFIRMED over FAILED: two live bookings overlap.
* `ClaimNeverPartly` (comment in `two_pc_coordinator.py` 108-110). The commit call is carried
  out but times out, the rollback call that follows is lost and ignored: booking FAILED,
  utility confirmed.
* `ClaimPreparedConfirmed` (`tests/test_fault_tolerance.py` 56-57). `commit_all` inside recovery
  records COMMITTED before the local row is confirmed; a crash in between hides the
  transaction from every later scan and leaves the row pending.
* `ClaimHoldTimesOut` (README.md:57-58 and 120-121). One user selects a slot and books a range, the
  booking is refused. `confirmBooking` has cleared the hold timer and releases nothing, the
  key expires in Redis without a word, and the other browser, which knew of the hold from
  an event and has no timer for it, shows the slot as held until it is redrawn for
  another reason.

Also met while modelling, visible in the actions and not runs of their own:

* no simple booking (`POST /bookings`) ever succeeds, `db.begin()` raises (`TakeLock`);
  `tests/test_concurrency.py:86` wants one winner, its assertion accepts none;
* a cancelled booking is confirmed by its handler (`ConfirmLocally`), and a confirmed one may
  be cancelled (`CancelBooking`); the state diagram has both as terminal;
* a crash before PREPARED leaves a pending row for ever (`PickUp` looks for PREPARED only);
* a booking answered 201 may still end FAILED or CANCELLED: a recovery run that had read PREPARED
  before the handler finished, and whose commit call fails, rolls it back (`RecCallFails`,
  `recovery.py` 32-36; `tests/test_fault_tolerance.py` 114-133 has a booking answered 201 end so), and
  a cancellation tells the utilities nothing. So may a refused one end CONFIRMED, its utilities with it;
* the record of a transaction expires after 300 s; one that is still PREPARED then stays pending for
  ever (`ExpireTxn`);
* recovery announces nothing (`RecUpdateStatus`, `RecoveryWrites`), a failed publication is logged and
  dropped (`Publish`, `Announce`), and a refused request whose row cannot be marked FAILED leaves it
  pending or confirmed (`UpdateFails`, `BookingRefused`): browsers show old bookings until something
  else redraws them;
* a Redis failure inside `prepare_all` loses the collected ids, their utility rows stay pending
  (`SetTxnStateFails`);
* a hold is set over another user's hold, and released by anybody (`NextSlot`); a browser that
  learnt of a hold from an event has no timer for it, and expiry is silent;
* the timer of a hold, and the release after a confirmed booking, go to the field and date on
  the screen at that moment (`TimerFires`, `BookingAnswered`); the holds a redraw asked for are
  recorded under them, too (`DrawHolds`);
* a redraw that sees a pending row shows its slot as taken; when the row fails nobody redraws
  (`BookingFailed`);
* redraws that overlap may end with the bookings of the older one, or of another field, on the
  screen (`DrawBookings`), and while they do, a slot that one of them has learnt to be held can still be
  clicked on, on what the other one has drawn (`unmarked`);
* `isSlotTaken` reads hours and minutes: API, table and `check_availability` keep the seconds. Beside a
  booking from 08:15:00 to 08:30:30, which the interface does not make but the API accepts, the slot
  of 08:30 is free on the screen and refused by the server, although the comment at `app.js` 198
  says that it finds slots that overlap (`EndsInFirstMinute`, the exception of `GridAgreesWithServer`);
* a booking that ends at or after midnight, which the interface does not make but the API
  accepts, is shown as free because only the time of day is read of its end (`IsSlotTaken`);
* a subscription that has died is never noticed: the badge says LIVE (`SubscriptionDies`);
* two requests for one window with different UTC offsets use different lock keys, and the table is
  what keeps them apart (`KeyOf`); a window whose own two ends have different offsets may be stored
  with its end before its start, since the validator compares instants, and then overlaps nothing,
  not even itself (`Overlaps`): a second request for it succeeds, which `ExclusiveSlots` cannot see
  because it asks the same test.

## 6. Not modelled

Catalogue, settings, logging, layout: no behaviour that others depend on. `POST /utilities` and
`POST /fields` are inserts of one row. Prices: `calculateTotal` is displayed and never sent. The
feed is a list on the screen; that `loadFeedHistory` and the socket race at start can show an
entry twice or not at all, and nothing else reads it. Redis connections: every request opens a client
of its own and nobody closes it; running out of them would be the Redis failures of the models.
The utility node checks no conflict between bookings of one utility, so there is nothing to
model there. Browsers without a field and a date selected yet have no holds and no redraws.

## 7. Plan

1. Done: lock, booking handlers, connections, ledger, atomic commitment, recovery, holds and
   screens over several places, slot arithmetic; theorems on every safety property of the runs:
   lock, slots, votes, decisions, answers, recovery, both refinements, holds and screens.
2. Next, prove: `NoOverlap` of `SlotLedger` and, from `RecoveryAfterCrash`'s refinement, agreement of field
   and utilities stated over the rows themselves; what remains of the decisions and of
   `AllOrNothing` when a fault their hypotheses exclude does occur; the holds in Redis over several
   places, where a release may miss its key but a key still needs a message or a timer.
