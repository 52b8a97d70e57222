---------------------------- MODULE SlotGridProofs ----------------------------
(***************************************************************************)
(* The browser's view of the bookings and the server's agree on every      *)
(* grid: any opening hours, slot length and length of the day.             *)
(***************************************************************************)
EXTENDS SlotGrid, TLAPS

\* Rounding down to a multiple of d.
LEMMA Division ==
  ASSUME NEW a \in Nat, NEW d \in Nat \ {0}
  PROVE  /\ a \div d \in Nat
         /\ (a \div d) * d <= a
         /\ a < (a \div d + 1) * d
OBVIOUS

\* Multiples of d are ordered as their factors are.
LEMMA Ordered ==
  ASSUME NEW d \in Nat \ {0}, NEW x \in Int, NEW y \in Int
  PROVE  x * d < y * d <=> x < y
OBVIOUS

\* Slots start at integers, in the order of their numbers, Duration apart.
LEMMA Starts ==
  ASSUME NEW i \in Int, NEW j \in Int
  PROVE  /\ StartOf(i) \in Int
         /\ StartOf(i) + Duration = StartOf(i + 1)
         /\ StartOf(i) < StartOf(j) <=> i < j
         /\ i <= j => StartOf(i) <= StartOf(j)
<1>1. StartOf(i) \in Int /\ StartOf(i) + Duration = StartOf(i + 1)
  BY GridAssumption DEF StartOf
<1>2. StartOf(i) < StartOf(j) <=> i < j
  BY Ordered, i - 1 \in Int, j - 1 \in Int, GridAssumption DEF StartOf
<1>3. StartOf(j) < StartOf(i) <=> j < i
  BY Ordered, i - 1 \in Int, j - 1 \in Int, GridAssumption DEF StartOf
<1>4. StartOf(j) \in Int
  BY GridAssumption DEF StartOf
<1>. QED  BY <1>1, <1>2, <1>3, <1>4

\* Every time from the opening on lies in a slot.
LEMMA SlotOf ==
  ASSUME NEW t \in Nat, Opening <= t
  PROVE  \E k \in Nat \ {0} : StartOf(k) <= t /\ t < StartOf(k + 1)
<1>. DEFINE q == (t - Opening) \div Duration
<1>1. t - Opening \in Nat /\ Duration \in Nat \ {0} /\ Opening \in Nat
  BY GridAssumption
<1>2. q \in Nat /\ q * Duration <= t - Opening /\ t - Opening < (q + 1) * Duration
  BY <1>1, Division
<1>3. StartOf(q + 1) = Opening + q * Duration
  BY <1>2 DEF StartOf
<1>4. StartOf(q + 2) = Opening + (q + 1) * Duration
  BY <1>2 DEF StartOf
<1>5. StartOf(q + 1) <= t /\ t < StartOf((q + 1) + 1)
  BY <1>1, <1>2, <1>3, <1>4, (q + 1) + 1 = q + 2
<1>. QED  BY <1>2, <1>5, q + 1 \in Nat \ {0}


\* Slots start at whole minutes.
LEMMA WholeMinutes ==
  ASSUME NEW i \in Int
  PROVE  \E n \in Int : StartOf(i) = n * Minute
<1>1. Minute \in Nat \ {0} /\ Opening \in Nat /\ Duration \in Nat
  BY GridAssumption
<1>2. \A t \in Nat : t % Minute = 0 => t = (t \div Minute) * Minute /\ t \div Minute \in Int
  BY <1>1
<1>3. Opening % Minute = 0 /\ Duration % Minute = 0
  BY GridAssumption
<1>4. PICK a \in Int, d \in Int : Opening = a * Minute /\ Duration = d * Minute
  BY <1>1, <1>2, <1>3
<1>5. (a + (i - 1) * d) * Minute = a * Minute + (i - 1) * (d * Minute)
  BY <1>1
<1>. QED  BY <1>4, <1>5, a + (i - 1) * d \in Int DEF StartOf

\* What is read of a time of the day is the whole minute it lies in.
LEMMA Clock ==
  ASSUME NEW t \in 0 .. DayLength - 1
  PROVE  /\ ClockOf(t) \in Int
         /\ ClockOf(t) <= t /\ t < ClockOf(t) + Minute
         /\ \E n \in Int : ClockOf(t) = n * Minute
<1>. DEFINE q == t \div Minute
<1>1. t \in Nat /\ t % DayLength = t /\ Minute \in Nat \ {0}
  BY GridAssumption
<1>2. q \in Nat /\ q * Minute <= t /\ t < (q + 1) * Minute
  BY <1>1, Division
<1>3. ClockOf(t) = q * Minute
  BY <1>1 DEF ClockOf
<1>. HIDE DEF q
<1>4. (q + 1) * Minute = q * Minute + Minute /\ q * Minute \in Int
  BY <1>1, <1>2
<1>. QED  BY <1>1, <1>2, <1>3, <1>4

\* Between different whole minutes there is a minute.
LEMMA MinutesApart ==
  ASSUME NEW m \in Int, NEW n \in Int, m * Minute < n * Minute
  PROVE  m * Minute + Minute <= n * Minute
<1>1. Minute \in Nat \ {0}
  BY GridAssumption
<1>2. m + 1 <= n
  BY <1>1, Ordered
<1>3. ~ (n * Minute < (m + 1) * Minute)
  BY <1>1, <1>2, m + 1 \in Int, Ordered
<1>4. (m + 1) * Minute = m * Minute + Minute
  BY <1>1
<1>. QED  BY <1>1, <1>3, <1>4

\* A time is read as before a slot's start when it is, and as after it when it is so to
\* the minute.
LEMMA ClockAgainstSlot ==
  ASSUME NEW t \in 0 .. DayLength - 1, NEW i \in Int
  PROVE  /\ t < StartOf(i) <=> ClockOf(t) < StartOf(i)
         /\ StartOf(i) < ClockOf(t) => StartOf(i) < t
         /\ StartOf(i) < t /\ ~ (StartOf(i) < ClockOf(t)) => t < StartOf(i) + Minute
<1>1. PICK n \in Int : StartOf(i) = n * Minute
  BY WholeMinutes
<1>2. PICK m \in Int : ClockOf(t) = m * Minute
  BY Clock
<1>3. ClockOf(t) \in Int /\ ClockOf(t) <= t /\ t < ClockOf(t) + Minute /\ StartOf(i) \in Int
        /\ t \in Int /\ Minute \in Int
  BY Clock, Starts, GridAssumption
<1>4. ClockOf(t) < StartOf(i) => ClockOf(t) + Minute <= StartOf(i)
  BY <1>1, <1>2, MinutesApart
<1>. QED  BY <1>3, <1>4

\* What the browser finds in a slot is there; and it finds all there is, but for what
\* ends in the first minute.
LEMMA SlotAgreement ==
  ASSUME NEW k \in Int, NEW b, SameDay(b)
  PROVE  /\ IsSlotTaken(k, b) => StartOf(k) < b.end /\ b.start < StartOf(k) + Duration
         /\ StartOf(k) < b.end /\ b.start < StartOf(k) + Duration =>
              IsSlotTaken(k, b) \/ EndsInFirstMinute(k, b)
<1>1. b.start \in 0 .. DayLength - 1 /\ b.end \in 0 .. DayLength - 1
  BY DEF SameDay
<1>2. StartOf(k) + Duration = StartOf(k + 1) /\ k + 1 \in Int
  BY Starts
<1>3. {StartOf(k), StartOf(k + 1), ClockOf(b.start), ClockOf(b.end)} \subseteq Int
  BY <1>1, <1>2, Starts, Clock
<1>4. ClockOf(b.start) < StartOf(k + 1) <=> b.start < StartOf(k + 1)
  BY <1>1, <1>2, ClockAgainstSlot
<1>5. /\ StartOf(k) < ClockOf(b.end) => StartOf(k) < b.end
      /\ StartOf(k) < b.end /\ ~ (StartOf(k) < ClockOf(b.end)) => b.end < StartOf(k) + Minute
  BY <1>1, ClockAgainstSlot
<1>. QED  BY <1>2, <1>3, <1>4, <1>5 DEF IsSlotTaken, EndsInFirstMinute

\* Whatever range is selected and whatever booking of the day is looked at, a range
\* the browser refuses, slot by slot, the server refuses; and a range the server refuses
\* the browser refuses too, unless the booking ends in the first minute of a slot of it.
THEOREM GridAgreement ==
  ASSUME NEW i \in Calendar, NEW j \in Calendar, i <= j, NEW b, SameDay(b)
  PROVE  /\ RangeIsTaken(i, j, b) => Overlap(b, WindowOf(<<i, j>>))
         /\ Overlap(b, WindowOf(<<i, j>>)) =>
              RangeIsTaken(i, j, b) \/ \E k \in i .. j : EndsInFirstMinute(k, b)
<1>1. i \in Int /\ j \in Int /\ 1 <= i
  BY DEF Calendar
<1>2. b.start \in Nat /\ b.end \in Nat /\ b.start < b.end
  BY GridAssumption DEF SameDay
<1>3. Overlap(b, WindowOf(<<i, j>>)) <=> b.start < StartOf(j) + Duration /\ b.end > StartOf(i)
  BY DEF Overlap, WindowOf
<1>4. \A k \in Int : IsSlotTaken(k, b) => StartOf(k) < b.end /\ b.start < StartOf(k) + Duration
  BY SlotAgreement
<1>5. ASSUME NEW k \in i .. j, IsSlotTaken(k, b)
      PROVE  Overlap(b, WindowOf(<<i, j>>))
  <2>1. k \in Int /\ i <= k /\ k <= j
    BY <1>1
  <2>2. {StartOf(i), StartOf(j), StartOf(k), Duration} \subseteq Int
    BY <1>1, <2>1, Starts, GridAssumption
  <2>3. StartOf(i) <= StartOf(k) /\ StartOf(k) <= StartOf(j)
    BY <1>1, <2>1, Starts
  <2>4. StartOf(k) < b.end /\ b.start < StartOf(k) + Duration
    BY <2>1, <1>4, <1>5
  <2>. QED  BY <2>2, <2>3, <2>4, <1>2, <1>3
<1>6. ASSUME Overlap(b, WindowOf(<<i, j>>))
      PROVE  \E k \in i .. j : StartOf(k) < b.end /\ b.start < StartOf(k) + Duration
  <2>1. CASE b.start < StartOf(i + 1)
    <3>1. StartOf(i) + Duration = StartOf(i + 1)
      BY <1>1, Starts
    <3>2. i \in i .. j
      BY <1>1
    <3>. QED  BY <2>1, <3>1, <3>2, <1>3, <1>6
  <2>2. CASE b.start >= StartOf(i + 1)
    <3>1. Opening <= b.start
      <4>1. StartOf(1) = Opening /\ Opening \in Int
        BY GridAssumption DEF StartOf
      <4>2. StartOf(1) <= StartOf(i + 1) /\ StartOf(i + 1) \in Int
        BY <1>1, Starts, i + 1 \in Int
      <4>. QED  BY <2>2, <1>2, <4>1, <4>2
    <3>2. PICK k \in Nat \ {0} : StartOf(k) <= b.start /\ b.start < StartOf(k + 1)
      BY <3>1, <1>2, SlotOf
    <3>3. i < k + 1 /\ k < j + 1
      <4>1. {i + 1, j + 1, k, k + 1} \subseteq Int
        BY <1>1, <3>2
      <4>2. {StartOf(i + 1), StartOf(j + 1), StartOf(k), StartOf(k + 1)} \subseteq Int
        BY <4>1, Starts
      <4>3. StartOf(i + 1) < StartOf(k + 1)
        BY <4>2, <3>2, <2>2, <1>2
      <4>4. StartOf(k) < StartOf(j + 1)
        <5>1. StartOf(j) + Duration = StartOf(j + 1)
          BY <1>1, Starts
        <5>2. b.start < StartOf(j + 1)
          BY <5>1, <1>3, <1>6
        <5>. QED  BY <5>2, <4>2, <3>2, <1>2
      <4>5. i + 1 < k + 1
        BY <4>1, <4>3, Starts
      <4>6. k < j + 1
        BY <4>1, <4>4, Starts
      <4>. QED  BY <4>5, <4>6, <1>1, <3>2
    <3>4. StartOf(k) < b.end /\ b.start < StartOf(k) + Duration
      <4>1. StartOf(k) \in Int /\ StartOf(k) + Duration = StartOf(k + 1)
        BY <3>2, Starts
      <4>. QED  BY <4>1, <3>2, <1>2
    <3>. QED  BY <3>2, <3>3, <3>4, <1>1
  <2>3. StartOf(i + 1) \in Int
    BY <1>1, Starts, i + 1 \in Int
  <2>. QED  BY <2>1, <2>2, <2>3, <1>2
<1>7. ASSUME Overlap(b, WindowOf(<<i, j>>))
      PROVE  \E k \in i .. j : IsSlotTaken(k, b) \/ EndsInFirstMinute(k, b)
  <2>1. PICK k \in i .. j : StartOf(k) < b.end /\ b.start < StartOf(k) + Duration
    BY <1>6, <1>7
  <2>2. k \in Int
    BY <1>1
  <2>. QED  BY <2>1, <2>2, SlotAgreement
<1>. QED  BY <1>5, <1>7 DEF RangeIsTaken

\* The slots of a booked range, and no others, are read back as taken.
THEOREM RangeRoundTrip ==
  ASSUME NEW i \in Calendar, NEW j \in Calendar, NEW k \in Calendar, i <= j,
         NEW w, w.start = WindowOf(<<i, j>>).start, w.end = WindowOf(<<i, j>>).end,
         w.end < DayLength
  PROVE  IsSlotTaken(k, w) <=> k \in i .. j
<1>1. i \in Int /\ j \in Int /\ k \in Int /\ 1 <= i /\ j + 1 \in Int /\ k + 1 \in Int
  BY DEF Calendar
<1>2. w.start = StartOf(i) /\ w.end = StartOf(j + 1)
  BY <1>1, Starts DEF WindowOf
<1>3. StartOf(1) = Opening /\ Opening \in Nat /\ StartOf(i) >= StartOf(1)
  BY <1>1, Starts, GridAssumption DEF StartOf
<1>4. StartOf(i) < StartOf(j + 1) /\ StartOf(j + 1) \in Int /\ StartOf(i) \in Int
  <2>1. i < j + 1
    BY <1>1
  <2>. QED  BY <2>1, <1>1, Starts
<1>5. w.start \in 0 .. DayLength - 1 /\ w.end \in 0 .. DayLength - 1 /\ DayLength \in Int
  BY <1>2, <1>3, <1>4, GridAssumption
<1>6. \A n \in Int : StartOf(n) \in 0 .. DayLength - 1 => ClockOf(StartOf(n)) = StartOf(n)
  <2>. SUFFICES ASSUME NEW n \in Int, StartOf(n) \in 0 .. DayLength - 1
                PROVE  ClockOf(StartOf(n)) = StartOf(n)
    OBVIOUS
  <2>1. ~ (ClockOf(StartOf(n)) < StartOf(n))
    BY <1>5, ClockAgainstSlot
  <2>2. ClockOf(StartOf(n)) <= StartOf(n) /\ ClockOf(StartOf(n)) \in Int
    BY Clock
  <2>. QED  BY <2>1, <2>2, <1>5
<1>7. ClockOf(w.start) = StartOf(i) /\ ClockOf(w.end) = StartOf(j + 1)
  BY <1>1, <1>2, <1>5, <1>6
<1>8. StartOf(k) + Duration = StartOf(k + 1)
  BY <1>1, Starts
<1>9. IsSlotTaken(k, w) <=> StartOf(k) < StartOf(j + 1) /\ StartOf(i) < StartOf(k + 1)
  <2>1. StartOf(k + 1) \in Int
    BY <1>1, Starts
  <2>. QED  BY <1>4, <1>7, <1>8, <2>1 DEF IsSlotTaken
<1>10. (StartOf(k) < StartOf(j + 1) <=> k < j + 1) /\ (StartOf(i) < StartOf(k + 1) <=> i < k + 1)
  BY <1>1, Starts
<1>. QED  BY <1>1, <1>9, <1>10

=============================================================================
