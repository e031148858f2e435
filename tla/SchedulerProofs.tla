--------------------------- MODULE SchedulerProofs ---------------------------
(***************************************************************************)
(* Safety of Scheduler for every capacity, counter width, set of callbacks *)
(* and intervals and every bound: its type invariant, the order of its     *)
(* buffer, what needDefrag means, that no callback is early, that a pass    *)
(* that starts clean leaves nothing expired behind, that no call has two    *)
(* entries, and that every step of it is a step of TimerService.            *)
(***************************************************************************)
EXTENDS MCScheduler, RankingProofs

(* The extended tick counts as a number would *)

\* A sum of two u32 that is out of range comes back by one Word.
LEMMA WrapOnce ==
  ASSUME NEW n \in Nat, n < 2 * Word
  PROVE  n % Word = IF n < Word THEN n ELSE n - Word
<1>1. CASE n < Word
  BY <1>1, WordAssumption
<1>2. CASE n >= Word
  <2> DEFINE m == n - Word
  <2>1. m \in 0 .. Word - 1 /\ n = m + Word
    BY <1>2, WordAssumption
  <2> HIDE DEF m
  <2>2. (m + Word) % Word = m
    BY <2>1, WordAssumption
  <2> QED
    BY <1>2, <2>1, <2>2, WordAssumption DEF m
<1> QED
  BY <1>1, <1>2, WordAssumption

LEMMA TicksType ==
  ASSUME NEW t \in Tick
  PROVE  Ticks(t) \in Nat /\ t.cycle * Word \in Nat
BY WordAssumption DEF Tick, Ticks, U32, U32Max

LEMMA AddTicksType ==
  ASSUME NEW t \in Tick, NEW n \in U32
  PROVE  AddTicks(t, n) \in Tick
<1>1. t.tick \in Nat /\ n \in Nat /\ t.cycle \in Nat
  BY WordAssumption DEF Tick, U32, U32Max
<1>2. (t.tick + n) % Word \in 0 .. Word - 1 /\ (t.cycle + 1) % Word \in 0 .. Word - 1
  BY <1>1, WordAssumption
<1> QED
  BY <1>1, <1>2, WordAssumption DEF AddTicks, Tick, U32, U32Max

\* Below the last cycle, adding ticks to a pair of counters adds to the count:
\* the carry test of extick_add_ticks is right whatever the operands are.
THEOREM AddTicksCounts ==
  ASSUME NEW t \in Tick, NEW n \in U32, t.cycle < U32Max
  PROVE  Ticks(AddTicks(t, n)) = Ticks(t) + n
<1> DEFINE sum == t.tick + n
<1>1. t.tick \in 0 .. Word - 1 /\ n \in 0 .. Word - 1 /\ t.cycle \in Nat
  BY WordAssumption DEF Tick, U32, U32Max
<1>2. sum \in Nat /\ sum < 2 * Word
  BY <1>1, WordAssumption
<1>3. sum % Word = IF sum < Word THEN sum ELSE sum - Word
  BY <1>2, WrapOnce
<1>4. (t.cycle + 1) % Word = t.cycle + 1
  <2>1. t.cycle + 1 \in Nat /\ t.cycle + 1 < Word
    BY <1>1, WordAssumption DEF U32Max
  <2> QED
    BY <2>1, WrapOnce, WordAssumption
<1>5. (t.cycle + 1) * Word = t.cycle * Word + Word
  BY <1>1, WordAssumption
<1>6. CASE sum < Word
  <2>1. AddTicks(t, n) = [tick |-> sum, cycle |-> t.cycle]
    BY <1>1, <1>3, <1>6, WordAssumption DEF AddTicks
  <2>2. t.cycle * Word \in Nat
    BY TicksType
  <2> QED
    BY <1>1, <2>1, <2>2, WordAssumption DEF Ticks
<1>7. CASE sum >= Word
  <2>1. AddTicks(t, n) = [tick |-> sum - Word, cycle |-> t.cycle + 1]
    BY <1>1, <1>3, <1>4, <1>7, WordAssumption DEF AddTicks
  <2>2. t.cycle * Word \in Nat
    BY TicksType
  <2> QED
    BY <1>1, <1>5, <2>1, <2>2, WordAssumption DEF Ticks
<1> QED
  BY <1>1, <1>6, <1>7, WordAssumption

\* extick_greater_than orders pairs of counters as it orders their counts.
THEOREM GreaterThanOrders ==
  ASSUME NEW a \in Tick, NEW b \in Tick
  PROVE  GreaterThan(a, b) <=> Ticks(a) > Ticks(b)
<1>1. \A s, t \in Tick : s.cycle > t.cycle => Ticks(s) > Ticks(t)
  <2> SUFFICES ASSUME NEW s \in Tick, NEW t \in Tick, s.cycle > t.cycle
               PROVE  Ticks(s) > Ticks(t)
    OBVIOUS
  <2>1. s.cycle \in Nat /\ t.cycle \in Nat /\ s.tick \in Nat /\ t.tick \in 0 .. Word - 1
    BY WordAssumption DEF Tick, U32, U32Max
  <2> DEFINE d == s.cycle - (t.cycle + 1)
  <2>2. d \in Nat /\ s.cycle = (t.cycle + 1) + d
    BY <2>1
  <2> HIDE DEF d
  <2>3. s.cycle * Word = t.cycle * Word + Word + d * Word
    BY <2>1, <2>2, WordAssumption
  <2>4. d * Word \in Nat /\ t.cycle * Word \in Nat
    BY <2>1, <2>2, WordAssumption
  <2> QED
    BY <2>1, <2>3, <2>4, WordAssumption DEF Ticks
<1>2. a.cycle \in Nat /\ b.cycle \in Nat /\ a.tick \in Nat /\ b.tick \in Nat
  BY WordAssumption DEF Tick, U32, U32Max
<1>3. CASE a.cycle = b.cycle
  <2>1. a.cycle * Word \in Nat
    BY TicksType
  <2> QED
    BY <1>2, <1>3, <2>1 DEF GreaterThan, Ticks
<1>4. CASE a.cycle > b.cycle
  BY <1>1, <1>2, <1>4 DEF GreaterThan
<1>5. CASE b.cycle > a.cycle
  <2>1. Ticks(b) > Ticks(a) /\ Ticks(a) \in Nat /\ Ticks(b) \in Nat
    BY <1>1, <1>5, TicksType
  <2> QED
    BY <1>2, <1>5, <2>1 DEF GreaterThan
<1> QED
  BY <1>2, <1>3, <1>4, <1>5

-----------------------------------------------------------------------------
(* The inductive invariant *)

\* The entry of a call that was not torn keeps a timeout that is not before
\* the tick the call asked for.
NotBeforeDue(e) == Valid(e) /\ ~e.torn => e.due <= Ticks(e.timeoutTick)

DeadlinesKept ==
  /\ \A i \in DOMAIN eventBuffer : NotBeforeDue(eventBuffer[i])
  /\ \A i \in DOMAIN scheduleQueue : NotBeforeDue(scheduleQueue[i])

\* Between its two loads, schedule() holds a half of a clock that was.
HalfRead ==
  pc = "schedule" =>
    /\ Ticks(call.begun) <= Ticks(clock)
    /\ call.read = IF call.half = "tick" THEN call.begun.tick ELSE call.begun.cycle

IInv == TypeOK /\ LiveSorted /\ InvalidFlagged /\ DeadlinesKept /\ HalfRead /\ NeverEarly

-----------------------------------------------------------------------------
(* The clock and the timeouts *)

\* Within the horizon the cycle counter has not reached the mark of Unset.
LEMMA ClockBelowMark ==
  ASSUME TypeOK
  PROVE  clock.cycle < U32Max /\ clock.cycle \in Nat /\ Ticks(clock) \in Nat
<1>1. /\ clock \in Tick /\ Ticks(clock) <= Horizon /\ Horizon < U32Max * Word
      /\ Horizon \in Nat
  BY BoundAssumption DEF TypeOK
<1>2. clock.cycle \in 0 .. U32Max /\ clock.tick \in Nat /\ U32Max \in Nat
  BY <1>1, WordAssumption DEF Tick, U32, U32Max
<1>3. Ticks(clock) \in Nat
  BY <1>1, TicksType
<1>4. ASSUME clock.cycle = U32Max PROVE FALSE
  <2>1. Ticks(clock) = U32Max * Word + clock.tick
    BY <1>4 DEF Ticks
  <2>2. U32Max * Word \in Nat
    BY <1>2, WordAssumption
  <2> QED
    BY <1>1, <1>2, <2>1, <2>2
<1> QED
  BY <1>2, <1>3, <1>4

\* A count of ticks short of the last cycle is not marked.
LEMMA ShortOfMark ==
  ASSUME NEW t \in Tick, Ticks(t) < U32Max * Word
  PROVE  t.cycle < U32Max /\ t.cycle # U32Max
<1>1. t.cycle \in 0 .. U32Max /\ t.tick \in Nat /\ U32Max \in Nat
  BY WordAssumption DEF Tick, U32, U32Max
<1>2. ASSUME t.cycle = U32Max PROVE FALSE
  <2>1. Ticks(t) = U32Max * Word + t.tick
    BY <1>2 DEF Ticks
  <2>2. U32Max * Word \in Nat
    BY <1>1, WordAssumption
  <2> QED
    BY <1>1, <2>1, <2>2
<1> QED
  BY <1>1, <1>2

LEMMA IntervalType == \A iv \in Interval : iv \in Nat /\ iv \in U32
BY IntervalAssumption DEF U32

\* An interval added to a count within one Word of the horizon keeps it so.
LEMMA AddIntervalValid ==
  ASSUME NEW t \in Tick, Ticks(t) < Horizon + Word, t.cycle < U32Max, NEW iv \in Interval
  PROVE  /\ AddTicks(t, iv) \in Tick
         /\ AddTicks(t, iv).cycle # U32Max
         /\ Ticks(AddTicks(t, iv)) = Ticks(t) + iv
<1>1. iv \in U32 /\ iv \in Nat
  BY IntervalType
<1>2. AddTicks(t, iv) \in Tick /\ Ticks(AddTicks(t, iv)) = Ticks(t) + iv
  BY <1>1, AddTicksType, AddTicksCounts
<1>3. Horizon + Word + iv < U32Max * Word /\ Horizon \in Nat
  BY BoundAssumption
<1>4. Ticks(t) \in Nat /\ Word \in Nat /\ U32Max * Word \in Int
  BY TicksType, WordAssumption DEF U32Max
<1>5. Ticks(AddTicks(t, iv)) < U32Max * Word
  BY <1>1, <1>2, <1>3, <1>4
<1> QED
  BY <1>2, <1>5, ShortOfMark

\* What the check takes for expired is not marked, and the clock has reached
\* its timeout.
LEMMA ExpiredIsDue ==
  ASSUME TypeOK, NEW e \in Event, ~GreaterThan(e.timeoutTick, clock)
  PROVE  /\ Valid(e)
         /\ Ticks(e.timeoutTick) <= Ticks(clock)
         /\ e.timeoutTick.cycle < U32Max
<1>1. e.timeoutTick \in Tick /\ clock \in Tick
  BY DEF TypeOK, Event
<1>2. ~(Ticks(e.timeoutTick) > Ticks(clock))
  BY <1>1, GreaterThanOrders
<1>3. Ticks(e.timeoutTick) \in Nat /\ Ticks(clock) \in Nat
  BY <1>1, TicksType
<1>4. e.timeoutTick.cycle <= clock.cycle /\ e.timeoutTick.cycle \in Nat
  BY <1>1, WordAssumption DEF GreaterThan, Tick, U32, U32Max
<1>5. U32Max \in Nat
  BY WordAssumption DEF U32Max
<1> QED
  BY <1>2, <1>3, <1>4, <1>5, ClockBelowMark DEF Valid

\* What a routine is queued with is unmarked and keeps its deadline.
LEMMA RearmedIsGood ==
  ASSUME TypeOK, NEW e \in Event, ~GreaterThan(e.timeoutTick, clock), NotBeforeDue(e)
  PROVE  Rearmed(e) \in Event /\ Valid(Rearmed(e)) /\ NotBeforeDue(Rearmed(e))
<1>1. /\ Valid(e) /\ Ticks(e.timeoutTick) <= Ticks(clock)
      /\ e.timeoutTick.cycle < U32Max /\ e.timeoutTick \in Tick
      /\ e.intervalTick \in Interval /\ e.due \in Nat /\ e.torn \in BOOLEAN
  BY ExpiredIsDue DEF Event
<1>2. Ticks(e.timeoutTick) \in Nat /\ Ticks(clock) \in Nat /\ Ticks(clock) <= Horizon
  BY <1>1, ClockBelowMark, TicksType DEF TypeOK
<1>3. Ticks(e.timeoutTick) < Horizon + Word
  BY <1>1, <1>2, BoundAssumption, WordAssumption
<1>4. /\ AddTicks(e.timeoutTick, e.intervalTick) \in Tick
      /\ AddTicks(e.timeoutTick, e.intervalTick).cycle # U32Max
      /\ Ticks(AddTicks(e.timeoutTick, e.intervalTick)) = Ticks(e.timeoutTick) + e.intervalTick
  BY <1>1, <1>3, AddIntervalValid
<1>5. e.intervalTick \in Nat
  BY <1>1, IntervalType
<1>6. /\ Rearmed(e).timeoutTick = AddTicks(e.timeoutTick, e.intervalTick)
      /\ Rearmed(e).due = e.due + e.intervalTick
      /\ Rearmed(e).torn = e.torn
      /\ Rearmed(e) \in Event
  <2> DEFINE t == AddTicks(e.timeoutTick, e.intervalTick)
             d == e.due + e.intervalTick
  <2>1. t \in Tick /\ d \in Nat
    BY <1>1, <1>4, <1>5
  <2>2. Rearmed(e) = [e EXCEPT !.timeoutTick = t, !.due = d]
    BY DEF Rearmed
  <2> HIDE DEF t, d
  <2>3. Rearmed(e).timeoutTick = t /\ Rearmed(e).due = d /\ Rearmed(e).torn = e.torn
    BY <2>2 DEF Event
  <2>4. Rearmed(e) \in Event
    BY <2>1, <2>2 DEF Event
  <2> QED
    BY <2>3, <2>4 DEF t, d
<1>7. ~e.torn => e.due <= Ticks(e.timeoutTick)
  BY <1>1 DEF NotBeforeDue
<1> QED
  BY <1>1, <1>2, <1>4, <1>5, <1>6, <1>7 DEF Valid, NotBeforeDue

LEMMA MarkUnsetType ==
  ASSUME NEW e \in Event
  PROVE  MarkUnset(e) \in Event /\ ~Valid(MarkUnset(e)) /\ MarkUnset(e).due = e.due
         /\ MarkUnset(e).torn = e.torn /\ Unset \in Tick
<1>1. Unset \in Tick
  BY WordAssumption DEF Unset, Tick, U32, U32Max
<1> QED
  BY <1>1 DEF MarkUnset, Event, Valid, Unset

\* The order of timeouts, for an entry that comes no later than another.
LEMMA LaterStillToCome ==
  ASSUME NEW a \in Tick, NEW b \in Tick, NEW c \in Tick,
         GreaterThan(a, c), a = b \/ ~GreaterThan(a, b)
  PROVE  GreaterThan(b, c)
<1>1. Ticks(a) \in Nat /\ Ticks(b) \in Nat /\ Ticks(c) \in Nat
  BY TicksType
<1>2. Ticks(a) > Ticks(c)
  BY GreaterThanOrders
<1>3. ~(Ticks(a) > Ticks(b))
  BY <1>1, GreaterThanOrders
<1>4. Ticks(b) > Ticks(c)
  BY <1>1, <1>2, <1>3
<1> QED
  BY <1>4, GreaterThanOrders

-----------------------------------------------------------------------------
(* The sort and the check *)

LEMMA SortOrderPairs ==
  ASSUME NEW s, NEW i \in 1 .. Len(s), NEW j \in 1 .. Len(s)
  PROVE  <<i, j>> \in SortOrder(s) <=>
           \/ GreaterThan(s[j].timeoutTick, s[i].timeoutTick)
           \/ s[j].timeoutTick = s[i].timeoutTick /\ i < j
<1>1. \A p \in (1 .. Len(s)) \X (1 .. Len(s)) :
        p \in SortOrder(s) <=>
          \/ GreaterThan(s[p[2]].timeoutTick, s[p[1]].timeoutTick)
          \/ s[p[2]].timeoutTick = s[p[1]].timeoutTick /\ p[1] < p[2]
  BY DEF SortOrder
<1> DEFINE p == <<i, j>>
<1>2. p \in (1 .. Len(s)) \X (1 .. Len(s)) /\ p[1] = i /\ p[2] = j
  OBVIOUS
<1> HIDE DEF p
<1> QED
  BY <1>1, <1>2 DEF p

\* SortAscending returns the entries of its argument, each once, none before
\* one with a smaller timeout.
LEMMA SortAscendingProperties ==
  ASSUME NEW s \in Seq(Event)
  PROVE  \E f \in [1 .. Len(s) -> 1 .. Len(s)] :
           /\ SortAscending(s) \in Seq(Event)
           /\ Len(SortAscending(s)) = Len(s)
           /\ \A k \in 1 .. Len(s) : SortAscending(s)[k] = s[f[k]]
           /\ \A i \in 1 .. Len(s) : \E k \in 1 .. Len(s) : f[k] = i
           /\ \A k, l \in 1 .. Len(s) : f[k] = f[l] => k = l
           /\ \A k, l \in 1 .. Len(s) :
                k < l => ~GreaterThan(SortAscending(s)[k].timeoutTick,
                                      SortAscending(s)[l].timeoutTick)
<1> DEFINE I == 1 .. Len(s)
           t(i) == s[i].timeoutTick
           R == SortOrder(s)
           f == Ranked(I, R)
<1>1. Len(s) \in Nat /\ I = 1 .. Len(s) /\ IsFiniteSet(I) /\ Cardinality(I) = Len(s)
  <2>1. Len(s) \in Nat /\ I = 1 .. Len(s)
    OBVIOUS
  <2>2. IsFiniteSet(1 .. Len(s)) /\ Cardinality(1 .. Len(s)) = Len(s)
    BY <2>1, IndicesFinite
  <2> QED
    BY <2>1, <2>2
<1>2. \A i \in I : t(i) \in Tick /\ t(i).tick \in Nat /\ t(i).cycle \in Nat
                  /\ t(i) = [tick |-> t(i).tick, cycle |-> t(i).cycle]
  <2> TAKE i \in I
  <2>1. s[i] \in Event
    OBVIOUS
  <2>2. t(i) \in Tick
    BY <2>1 DEF Event
  <2> HIDE DEF t
  <2> QED
    BY <2>2, WordAssumption DEF Tick, U32, U32Max
<1>3. \A i, j \in I : <<i, j>> \in R <=> GreaterThan(t(j), t(i)) \/ (t(j) = t(i) /\ i < j)
  BY SortOrderPairs
<1>4. SortAscending(s) = Arrange(s, f)
  BY DEF SortAscending
<1> HIDE DEF R, t
<1>5. StrictOrder(I, R)
  <2>1. \A i \in I : i \in Nat
    BY <1>1
  <2>2. \A i \in I : <<i, i>> \notin R
    BY <1>2, <1>3, <2>1 DEF GreaterThan
  <2>3. \A i, j \in I : i = j \/ <<i, j>> \in R \/ <<j, i>> \in R
    <3> TAKE i, j \in I
    <3>1. GreaterThan(t(i), t(j)) \/ GreaterThan(t(j), t(i)) \/ t(i) = t(j)
      BY <1>2 DEF GreaterThan
    <3> QED
      BY <1>3, <2>1, <3>1
  <2>4. \A i, j, k \in I : <<i, j>> \in R /\ <<j, k>> \in R => <<i, k>> \in R
    <3> TAKE i, j, k \in I
    <3>1. GreaterThan(t(j), t(i)) /\ GreaterThan(t(k), t(j)) => GreaterThan(t(k), t(i))
      BY <1>2 DEF GreaterThan
    <3> QED
      BY <1>3, <2>1, <3>1
  <2> QED
    BY <2>2, <2>3, <2>4 DEF StrictOrder
<1>6. /\ f \in [1 .. Len(s) -> I]
      /\ \A i \in I : \E k \in 1 .. Len(s) : f[k] = i
      /\ \A k, l \in 1 .. Len(s) : k < l => <<f[k], f[l]>> \in R
  <2> HIDE DEF I
  <2>1. IsFiniteSet(I)
    BY <1>1
  <2>2. StrictOrder(I, R)
    BY <1>5
  <2>3. /\ Ranked(I, R) \in [1 .. Cardinality(I) -> I]
        /\ \A i \in I : \E k \in 1 .. Cardinality(I) : Ranked(I, R)[k] = i
        /\ \A k, l \in 1 .. Cardinality(I) :
             k < l => <<Ranked(I, R)[k], Ranked(I, R)[l]>> \in R
    BY <2>1, <2>2, RankedProperties
  <2>4. Cardinality(I) = Len(s)
    BY <1>1
  <2> QED
    BY <2>3, <2>4
<1> HIDE DEF f
<1>7. /\ SortAscending(s) \in Seq(Event)
      /\ Len(SortAscending(s)) = Len(s)
      /\ \A k \in 1 .. Len(s) : SortAscending(s)[k] = s[f[k]]
  <2> DEFINE n == Len(s)
  <2>1. n \in Nat /\ f \in [1 .. n -> 1 .. Len(s)]
    BY <1>1, <1>6
  <2> HIDE DEF n
  <2>2. /\ Arrange(s, f) \in Seq(Event)
        /\ Len(Arrange(s, f)) = n
        /\ \A k \in 1 .. n : Arrange(s, f)[k] = s[f[k]]
    BY <2>1, ArrangeProperties
  <2> QED
    BY <1>4, <2>2 DEF n
<1>8. ASSUME NEW k \in 1 .. Len(s), NEW l \in 1 .. Len(s), k < l
      PROVE  ~GreaterThan(SortAscending(s)[k].timeoutTick, SortAscending(s)[l].timeoutTick)
  <2>1. f[k] \in I /\ f[l] \in I /\ <<f[k], f[l]>> \in R
    BY <1>6, <1>8
  <2>2. GreaterThan(t(f[l]), t(f[k])) \/ t(f[l]) = t(f[k])
    BY <1>3, <2>1
  <2>3. \A a, b \in Tick : GreaterThan(b, a) \/ b = a => ~GreaterThan(a, b)
    BY WordAssumption DEF GreaterThan, Tick, U32, U32Max
  <2>4. ~GreaterThan(t(f[k]), t(f[l]))
    BY <1>2, <2>1, <2>2, <2>3
  <2> QED
    BY <1>7, <2>4 DEF t
<1>9. ASSUME NEW k \in 1 .. Len(s), NEW l \in 1 .. Len(s), f[k] = f[l] PROVE k = l
  <2>1. \A i \in I : <<i, i>> \notin R
    <3> HIDE DEF I
    <3> QED
      BY <1>5 DEF StrictOrder
  <2>2. ~(k < l) /\ ~(l < k)
    BY <1>6, <1>9, <2>1
  <2> QED
    BY <1>1, <2>2
<1> QED
  BY <1>6, <1>7, <1>8, <1>9

\* The buffer that the check of the timeouts walks through.
LEMMA SortedProperties ==
  ASSUME IInv, scheduleQueue # <<>> => Len(eventBuffer) + Len(scheduleQueue) <= BuffSize
  PROVE  /\ Sorted \in Seq(Event) /\ Len(Sorted) <= BuffSize
         /\ \A i \in DOMAIN Sorted :
              \/ \E j \in DOMAIN eventBuffer : Sorted[i] = eventBuffer[j]
              \/ \E j \in DOMAIN scheduleQueue : Sorted[i] = scheduleQueue[j]
         /\ \A i, j \in DOMAIN Sorted :
              i < j /\ Valid(Sorted[i]) /\ Valid(Sorted[j])
                => ~GreaterThan(Sorted[i].timeoutTick, Sorted[j].timeoutTick)
<1>1. /\ eventBuffer \in Seq(Event) /\ scheduleQueue \in Seq(Event)
      /\ Len(eventBuffer) <= BuffSize /\ BuffSize \in Nat
  BY SizeAssumption DEF IInv, TypeOK
<1>2. CASE scheduleQueue = <<>>
  <2>1. Sorted = eventBuffer
    BY <1>2 DEF Sorted
  <2> QED
    BY <1>1, <2>1 DEF IInv, LiveSorted
<1>3. CASE scheduleQueue # <<>>
  <2> DEFINE s == eventBuffer \o scheduleQueue
  <2>1. /\ s \in Seq(Event) /\ Len(s) = Len(eventBuffer) + Len(scheduleQueue)
        /\ \A i \in 1 .. Len(s) :
             \/ \E j \in DOMAIN eventBuffer : s[i] = eventBuffer[j]
             \/ \E j \in DOMAIN scheduleQueue : s[i] = scheduleQueue[j]
    BY <1>1
  <2>2. Sorted = SortAscending(s)
    BY <1>3 DEF Sorted
  <2> HIDE DEF s
  <2>3. PICK f \in [1 .. Len(s) -> 1 .. Len(s)] :
           /\ SortAscending(s) \in Seq(Event)
           /\ Len(SortAscending(s)) = Len(s)
           /\ \A k \in 1 .. Len(s) : SortAscending(s)[k] = s[f[k]]
           /\ \A i \in 1 .. Len(s) : \E k \in 1 .. Len(s) : f[k] = i
           /\ \A k, l \in 1 .. Len(s) : f[k] = f[l] => k = l
           /\ \A k, l \in 1 .. Len(s) :
                k < l => ~GreaterThan(SortAscending(s)[k].timeoutTick,
                                      SortAscending(s)[l].timeoutTick)
    BY <2>1, SortAscendingProperties
  <2>4. DOMAIN Sorted = 1 .. Len(s) /\ Sorted \in Seq(Event) /\ Len(Sorted) <= BuffSize
    BY <1>3, <2>1, <2>2, <2>3
  <2>5. \A i \in 1 .. Len(s) : f[i] \in 1 .. Len(s) /\ Sorted[i] = s[f[i]]
    BY <2>2, <2>3
  <2>6. \A i \in DOMAIN Sorted :
          \/ \E j \in DOMAIN eventBuffer : Sorted[i] = eventBuffer[j]
          \/ \E j \in DOMAIN scheduleQueue : Sorted[i] = scheduleQueue[j]
    BY <2>1, <2>4, <2>5
  <2> QED
    BY <2>2, <2>3, <2>4, <2>6
<1> QED
  BY <1>2, <1>3

\* Everything of the sorted buffer keeps its deadline, and if nothing is to be
\* defragmented all of it is to fire.
LEMMA SortedEntries ==
  ASSUME IInv, scheduleQueue # <<>> => Len(eventBuffer) + Len(scheduleQueue) <= BuffSize
  PROVE  /\ \A i \in DOMAIN Sorted : NotBeforeDue(Sorted[i])
         /\ ~needDefrag => \A i \in DOMAIN Sorted : Valid(Sorted[i])
BY SortedProperties DEF IInv, DeadlinesKept, InvalidFlagged

-----------------------------------------------------------------------------
(* The pass *)

\* f lists the n elements of I, in increasing order.
Lists(f, n, I) ==
  /\ f \in [1 .. n -> I]
  /\ \A k, l \in 1 .. n : k < l => f[k] < f[l]
  /\ \A i \in I : \E k \in 1 .. n : f[k] = i

\* The entries that a pass leaves in each of the three arrays, by their place
\* in the sorted buffer.
Fired == Expired(Sorted)

RoutinesFired == {i \in Fired : Sorted[i].isRoutine}

Left == {i \in LiveIds(Sorted) : i \notin Fired}

\* Keep in terms of such a list.
LEMMA KeepLists ==
  ASSUME NEW s \in Seq(Event), NEW I \in SUBSET DOMAIN s
  PROVE  \E f : /\ Keep(s, I) \in Seq(Event)
                /\ Len(Keep(s, I)) <= Len(s)
                /\ Lists(f, Len(Keep(s, I)), I)
                /\ \A k \in 1 .. Len(Keep(s, I)) : Keep(s, I)[k] = s[f[k]]
<1>1. PICK f \in [1 .. Cardinality(I) -> I] :
        /\ Cardinality(I) \in 0 .. Len(s)
        /\ Keep(s, I) \in Seq(Event)
        /\ Len(Keep(s, I)) = Cardinality(I)
        /\ \A k \in 1 .. Cardinality(I) : Keep(s, I)[k] = s[f[k]]
        /\ \A k, l \in 1 .. Cardinality(I) : k < l => f[k] < f[l]
        /\ \A i \in I : \E k \in 1 .. Cardinality(I) : f[k] = i
  BY KeepProperties
<1> DEFINE n == Len(Keep(s, I))
<1>2. n = Cardinality(I)
  BY <1>1
<1>3. Lists(f, n, I)
  BY <1>1, <1>2 DEF Lists
<1>4. Len(s) \in Nat /\ n <= Len(s)
  BY <1>1
<1> QED
  BY <1>1, <1>3, <1>4

\* Each of them is what the code puts together, in the order of the buffer.
LEMMA ProcessShape ==
  ASSUME IInv, Process
  PROVE  /\ timeoutQueue' \in Seq(Event) /\ Len(timeoutQueue') <= Len(Sorted)
         /\ DOMAIN scheduleQueue' = 1 .. Len(scheduleQueue')
         /\ scheduleQueue' = [k \in 1 .. Len(scheduleQueue') |-> scheduleQueue'[k]]
         /\ Len(scheduleQueue') \in Nat /\ Len(scheduleQueue') <= Len(Sorted)
         /\ eventBuffer' \in Seq(Event) /\ Len(eventBuffer') <= Len(Sorted)
         /\ ~needDefrag /\ Fired = {} => Left = DOMAIN Sorted
         /\ \E f : /\ Lists(f, Len(timeoutQueue'), Fired)
                  /\ \A k \in 1 .. Len(timeoutQueue') :
                       timeoutQueue'[k] = MarkUnset(Sorted[f[k]])
         /\ \E f : /\ Lists(f, Len(scheduleQueue'), RoutinesFired)
                  /\ \A k \in 1 .. Len(scheduleQueue') :
                       scheduleQueue'[k] = Rearmed(Sorted[f[k]])
         /\ \E f : /\ Lists(f, Len(eventBuffer'), Left)
                  /\ \A k \in 1 .. Len(eventBuffer') : eventBuffer'[k] = Sorted[f[k]]
         /\ Fired \subseteq LiveIds(Sorted)
<1> DEFINE s == Sorted
           n == Len(s)
           routines == Keep(s, RoutinesFired)
           expired == Keep(s, Fired)
           checked == [i \in DOMAIN s |-> IF i \in Fired THEN MarkUnset(s[i]) ELSE s[i]]
           kept == {i \in DOMAIN checked : Valid(checked[i])}
<1>1. /\ scheduleQueue' = [k \in DOMAIN routines |-> Rearmed(routines[k])]
      /\ timeoutQueue' = timeoutQueue \o [k \in DOMAIN expired |-> MarkUnset(expired[k])]
      /\ eventBuffer' = IF needDefrag \/ Fired # {} THEN Defrag(checked) ELSE checked
      /\ timeoutQueue = <<>> /\ TypeOK
      /\ scheduleQueue # <<>> => Len(eventBuffer) + Len(scheduleQueue) <= BuffSize
  BY DEF Process, IInv, TypeOK, Fired, RoutinesFired
<1>2. /\ s \in Seq(Event) /\ n \in Nat /\ DOMAIN s = 1 .. n
      /\ \A i \in 1 .. n : s[i] \in Event
      /\ ~needDefrag => \A i \in 1 .. n : Valid(s[i])
  BY <1>1, SortedProperties, SortedEntries
<1>3. /\ Fired \subseteq 1 .. n
      /\ \A i \in Fired : ~GreaterThan(s[i].timeoutTick, clock)
  BY <1>2 DEF Expired, Fired
<1>4. \A i \in Fired : i \in LiveIds(s)
  <2> TAKE i \in Fired
  <2>1. i \in DOMAIN s /\ s[i] \in Event /\ ~GreaterThan(s[i].timeoutTick, clock)
    BY <1>2, <1>3
  <2> QED
    BY <1>1, <2>1, ExpiredIsDue DEF LiveIds
<1>5. RoutinesFired \subseteq Fired /\ RoutinesFired \in SUBSET DOMAIN s /\ Fired \in SUBSET DOMAIN s
  BY <1>2, <1>3 DEF RoutinesFired
<1> HIDE DEF s, n
<1>6. /\ timeoutQueue' \in Seq(Event) /\ Len(timeoutQueue') <= Len(s)
      /\ \E f : /\ Lists(f, Len(timeoutQueue'), Fired)
                /\ \A k \in 1 .. Len(timeoutQueue') : timeoutQueue'[k] = MarkUnset(s[f[k]])
  <2> DEFINE m == Len(expired)
             q == [k \in DOMAIN expired |-> MarkUnset(expired[k])]
  <2>1. PICK f : /\ expired \in Seq(Event) /\ m <= Len(s)
                 /\ Lists(f, m, Fired)
                 /\ \A k \in 1 .. m : expired[k] = s[f[k]]
    BY <1>2, <1>5, KeepLists
  <2>2. DOMAIN expired = 1 .. m /\ m \in Nat
    BY <2>1
  <2> HIDE DEF expired, m
  <2>3. \A k \in 1 .. m : MarkUnset(expired[k]) \in Event
    <3> TAKE k \in 1 .. m
    <3>1. expired[k] \in Event
      BY <2>1, <2>2
    <3> QED
      BY <3>1, MarkUnsetType
  <2>4. q \in [1 .. m -> Event] /\ \A k \in 1 .. m : q[k] = MarkUnset(s[f[k]])
    BY <2>1, <2>2, <2>3
  <2>5. timeoutQueue' = <<>> \o q
    BY <1>1
  <2> HIDE DEF q
  <2>6. timeoutQueue' = q /\ Len(timeoutQueue') = m
    BY <2>2, <2>4, <2>5
  <2>7. /\ Lists(f, Len(timeoutQueue'), Fired)
        /\ \A k \in 1 .. Len(timeoutQueue') : timeoutQueue'[k] = MarkUnset(s[f[k]])
    BY <2>1, <2>4, <2>6
  <2>8. timeoutQueue' \in Seq(Event)
    BY <2>2, <2>4, <2>6
  <2> QED
    BY <2>1, <2>6, <2>7, <2>8
<1>7. /\ Len(scheduleQueue') \in Nat /\ DOMAIN scheduleQueue' = 1 .. Len(scheduleQueue')
      /\ scheduleQueue' = [k \in 1 .. Len(scheduleQueue') |-> scheduleQueue'[k]]
      /\ Len(scheduleQueue') <= Len(s)
      /\ \E f : /\ Lists(f, Len(scheduleQueue'), RoutinesFired)
                /\ \A k \in 1 .. Len(scheduleQueue') : scheduleQueue'[k] = Rearmed(s[f[k]])
  <2> DEFINE m == Len(routines)
  <2>1. PICK f : /\ routines \in Seq(Event) /\ m <= Len(s)
                 /\ Lists(f, m, RoutinesFired)
                 /\ \A k \in 1 .. m : routines[k] = s[f[k]]
    BY <1>2, <1>5, KeepLists
  <2>2. DOMAIN routines = 1 .. m /\ m \in Nat
    BY <2>1
  <2> HIDE DEF routines, m
  <2>3. Len(scheduleQueue') = m
    BY <1>1, <2>2
  <2>4. \A k \in 1 .. m : scheduleQueue'[k] = Rearmed(s[f[k]])
    BY <1>1, <2>1, <2>2
  <2>5. scheduleQueue' = [k \in 1 .. m |-> scheduleQueue'[k]]
    BY <1>1, <2>2
  <2> QED
    BY <2>1, <2>2, <2>3, <2>4, <2>5
<1>8. /\ DOMAIN checked = 1 .. n /\ checked \in Seq(Event)
      /\ \A i \in 1 .. n : i \in Fired => ~Valid(checked[i])
      /\ \A i \in 1 .. n : i \notin Fired => checked[i] = s[i]
  <2>1. \A i \in 1 .. n : /\ checked[i] \in Event
                          /\ i \in Fired => ~Valid(checked[i])
                          /\ i \notin Fired => checked[i] = s[i]
    <3> TAKE i \in 1 .. n
    <3>1. s[i] \in Event /\ i \in DOMAIN s
      BY <1>2
    <3>2. checked[i] = IF i \in Fired THEN MarkUnset(s[i]) ELSE s[i]
      BY <3>1
    <3> HIDE DEF checked
    <3> QED
      BY <3>1, <3>2, MarkUnsetType
  <2>2. checked = [i \in 1 .. n |-> checked[i]]
    BY <1>2
  <2> HIDE DEF checked
  <2>3. checked \in [1 .. n -> Event]
    BY <2>1, <2>2
  <2> QED
    BY <1>2, <2>1, <2>3
<1>9. \A i \in DOMAIN checked : Valid(checked[i]) <=> i \in Left
  <2>1. \A i \in 1 .. n : i \in LiveIds(s) <=> Valid(s[i])
    BY <1>2 DEF LiveIds
  <2>2. \A i : i \in Left <=> i \in LiveIds(s) /\ i \notin Fired
    BY DEF Left, s
  <2> HIDE DEF checked
  <2> QED
    BY <1>8, <2>1, <2>2
<1>10. Left \subseteq 1 .. n
  BY <1>2 DEF Left, LiveIds, s
<1>11. /\ eventBuffer' \in Seq(Event) /\ Len(eventBuffer') <= Len(s)
       /\ \E f : /\ Lists(f, Len(eventBuffer'), Left)
                 /\ \A k \in 1 .. Len(eventBuffer') : eventBuffer'[k] = s[f[k]]
  <2>1. CASE needDefrag \/ Fired # {}
    <3>1. kept \in SUBSET DOMAIN checked /\ eventBuffer' = Keep(checked, kept)
      BY <1>1, <2>1 DEF Defrag
    <3>2. kept = Left
      BY <1>8, <1>9, <1>10
    <3> HIDE DEF checked, kept
    <3>3. PICK f : /\ eventBuffer' \in Seq(Event) /\ Len(eventBuffer') <= n
                   /\ Lists(f, Len(eventBuffer'), Left)
                   /\ \A k \in 1 .. Len(eventBuffer') : eventBuffer'[k] = checked[f[k]]
      <4>1. checked \in Seq(Event) /\ Left \in SUBSET DOMAIN checked
        BY <1>8, <3>1, <3>2
      <4>2. \E f : /\ Keep(checked, Left) \in Seq(Event)
                   /\ Len(Keep(checked, Left)) <= Len(checked)
                   /\ Lists(f, Len(Keep(checked, Left)), Left)
                   /\ \A k \in 1 .. Len(Keep(checked, Left)) : Keep(checked, Left)[k] = checked[f[k]]
        BY <4>1, KeepLists
      <4>3. Len(checked) = n
        BY <1>2, <1>8
      <4> QED
        BY <3>1, <3>2, <4>2, <4>3
    <3>4. \A k \in 1 .. Len(eventBuffer') : f[k] \in Left
      BY <3>3 DEF Lists
    <3>5. \A k \in 1 .. Len(eventBuffer') : f[k] \in 1 .. n /\ f[k] \notin Fired
      BY <1>10, <3>4 DEF Left
    <3>6. \A k \in 1 .. Len(eventBuffer') : eventBuffer'[k] = s[f[k]]
      BY <1>8, <3>3, <3>5
    <3> QED
      BY <3>3, <3>6 DEF n
  <2>2. CASE ~(needDefrag \/ Fired # {})
    <3> DEFINE f == [k \in 1 .. n |-> k]
    <3>1. eventBuffer' = checked /\ Len(checked) = n
      BY <1>1, <1>2, <1>8, <2>2
    <3>2. Left = 1 .. n
      BY <1>2, <1>10, <2>2 DEF Left, LiveIds, s
    <3> HIDE DEF checked
    <3>3. \A k \in 1 .. n : f[k] = k /\ eventBuffer'[k] = s[f[k]]
      BY <1>8, <2>2, <3>1
    <3>4. f \in [1 .. n -> Left]
      BY <3>2
    <3> HIDE DEF f
    <3> QED
      BY <1>2, <1>8, <3>1, <3>2, <3>3, <3>4 DEF Lists, n
  <2> QED
    BY <2>1, <2>2
<1>12. ~needDefrag /\ Fired = {} => Left = DOMAIN s
  BY <1>2 DEF Left, LiveIds, s
<1> QED
  BY <1>4, <1>6, <1>7, <1>11, <1>12 DEF s

LEMMA EventIds == \A e \in Event : e.id \in Nat /\ MarkUnset(e).id = e.id
                    /\ MarkUnset(e).isRoutine = e.isRoutine
BY DEF Event, MarkUnset

LEMMA RearmedIds ==
  ASSUME NEW e \in Event
  PROVE  /\ Rearmed(e).id = e.id /\ Rearmed(e).isRoutine = e.isRoutine
         /\ Rearmed(e).callback = e.callback /\ Rearmed(e).intervalTick = e.intervalTick
         /\ Rearmed(e).timeoutTick = AddTicks(e.timeoutTick, e.intervalTick)
<1> DEFINE t == AddTicks(e.timeoutTick, e.intervalTick)
           d == e.due + e.intervalTick
<1>1. Rearmed(e) = [e EXCEPT !.timeoutTick = t, !.due = d]
  BY DEF Rearmed
<1> HIDE DEF t, d
<1>2. /\ Rearmed(e).id = e.id /\ Rearmed(e).isRoutine = e.isRoutine
      /\ Rearmed(e).callback = e.callback /\ Rearmed(e).intervalTick = e.intervalTick
      /\ Rearmed(e).timeoutTick = t
  BY <1>1 DEF Event
<1> QED
  BY <1>2 DEF t

\* After a pass nothing in the buffer or in the queue is marked, the buffer is
\* in order, everything queued for its callback is due, and a pass that had
\* nothing to defragment has left nothing expired behind.
LEMMA ProcessEffect ==
  ASSUME IInv, Process
  PROVE  /\ eventBuffer' \in Seq(Event) /\ Len(eventBuffer') <= BuffSize
         /\ \A i \in DOMAIN eventBuffer' :
              /\ Valid(eventBuffer'[i])
              /\ NotBeforeDue(eventBuffer'[i])
              /\ ~needDefrag => GreaterThan(eventBuffer'[i].timeoutTick, clock)
         /\ \A i, j \in DOMAIN eventBuffer' :
              i < j => ~GreaterThan(eventBuffer'[i].timeoutTick, eventBuffer'[j].timeoutTick)
         /\ scheduleQueue' \in Seq(Event) /\ Len(scheduleQueue') <= BuffSize
         /\ \A i \in DOMAIN scheduleQueue' :
              Valid(scheduleQueue'[i]) /\ NotBeforeDue(scheduleQueue'[i])
         /\ timeoutQueue' \in Seq(Event) /\ Len(timeoutQueue') <= BuffSize
         /\ \A i \in DOMAIN timeoutQueue' :
              ~timeoutQueue'[i].torn => timeoutQueue'[i].due <= Ticks(clock)
<1> DEFINE s == Sorted
           m == Len(timeoutQueue')
           n == Len(scheduleQueue')
           l == Len(eventBuffer')
<1>1. PICK f : Lists(f, m, Fired) /\ \A k \in 1 .. m : timeoutQueue'[k] = MarkUnset(s[f[k]])
  BY ProcessShape
<1>2. PICK g : Lists(g, n, RoutinesFired) /\ \A k \in 1 .. n : scheduleQueue'[k] = Rearmed(s[g[k]])
  BY ProcessShape
<1>3. PICK h : Lists(h, l, Left) /\ \A k \in 1 .. l : eventBuffer'[k] = s[h[k]]
  BY ProcessShape
<1>4. /\ s \in Seq(Event) /\ Len(s) <= BuffSize /\ BuffSize \in Nat /\ TypeOK
      /\ \A i \in DOMAIN s : NotBeforeDue(s[i])
      /\ ~needDefrag => \A i \in DOMAIN s : Valid(s[i])
      /\ \A i, j \in DOMAIN s : i < j /\ Valid(s[i]) /\ Valid(s[j])
           => ~GreaterThan(s[i].timeoutTick, s[j].timeoutTick)
  BY SortedProperties, SortedEntries, SizeAssumption DEF IInv, Process
<1>5. /\ timeoutQueue' \in Seq(Event) /\ m <= Len(s)
      /\ DOMAIN scheduleQueue' = 1 .. n /\ n \in Nat /\ n <= Len(s)
      /\ scheduleQueue' = [k \in 1 .. n |-> scheduleQueue'[k]]
      /\ eventBuffer' \in Seq(Event) /\ l <= Len(s)
      /\ Fired \subseteq LiveIds(s)
  BY ProcessShape
<1>6. /\ m \in Nat /\ l \in Nat /\ Len(s) \in Nat /\ DOMAIN s = 1 .. Len(s)
      /\ DOMAIN timeoutQueue' = 1 .. m /\ DOMAIN eventBuffer' = 1 .. l
      /\ m <= BuffSize /\ n <= BuffSize /\ l <= BuffSize
  BY <1>4, <1>5
<1>7. /\ \A i \in LiveIds(s) : i \in DOMAIN s /\ Valid(s[i])
      /\ \A i \in DOMAIN s : s[i] \in Event /\ i \in Nat
  BY <1>4 DEF LiveIds
<1>8. /\ \A i \in Fired : i \in DOMAIN s /\ ~GreaterThan(s[i].timeoutTick, clock)
      /\ \A i \in DOMAIN s : i \notin Fired =>
           \E j \in 1 .. i : j \in DOMAIN s /\ GreaterThan(s[j].timeoutTick, clock)
  <2>1. Fired = {i \in DOMAIN s : \A j \in 1 .. i : ~GreaterThan(s[j].timeoutTick, clock)}
    BY DEF Fired, Expired
  <2> HIDE DEF s
  <2>2. \A i \in DOMAIN s : i \in 1 .. i /\ \A j \in 1 .. i : j \in DOMAIN s
    BY <1>6
  <2> QED
    BY <2>1, <2>2
<1>9. \A i : i \in Left <=> i \in LiveIds(s) /\ i \notin Fired
  BY DEF Left
<1>10. \A i : i \in RoutinesFired => i \in Fired
  BY DEF RoutinesFired
<1> HIDE DEF s, m, n, l
<1>11. ASSUME NEW k \in 1 .. m, ~timeoutQueue'[k].torn
       PROVE  timeoutQueue'[k].due <= Ticks(clock)
  <2> DEFINE e == s[f[k]]
  <2>1. e \in Event /\ ~GreaterThan(e.timeoutTick, clock) /\ NotBeforeDue(e)
    BY <1>1, <1>4, <1>7, <1>8 DEF Lists
  <2>2. timeoutQueue'[k] = MarkUnset(e)
    BY <1>1
  <2> HIDE DEF e
  <2>3. timeoutQueue'[k].due = e.due /\ ~e.torn
    BY <1>11, <2>1, <2>2, MarkUnsetType
  <2>4. Valid(e) /\ Ticks(e.timeoutTick) <= Ticks(clock)
    BY <1>4, <2>1, ExpiredIsDue
  <2>5. e.due <= Ticks(e.timeoutTick)
    BY <2>1, <2>3, <2>4 DEF NotBeforeDue
  <2>6. e.due \in Nat /\ Ticks(e.timeoutTick) \in Nat /\ Ticks(clock) \in Nat
    BY <1>4, <2>1, TicksType, ClockBelowMark DEF Event
  <2> QED
    BY <2>3, <2>4, <2>5, <2>6
<1>12. \A k \in 1 .. n : /\ scheduleQueue'[k] \in Event
                         /\ Valid(scheduleQueue'[k]) /\ NotBeforeDue(scheduleQueue'[k])
  <2> TAKE k \in 1 .. n
  <2>1. g[k] \in Fired /\ scheduleQueue'[k] = Rearmed(s[g[k]])
    BY <1>2, <1>10 DEF Lists
  <2>2. s[g[k]] \in Event /\ ~GreaterThan(s[g[k]].timeoutTick, clock) /\ NotBeforeDue(s[g[k]])
    BY <1>4, <1>7, <1>8, <2>1
  <2> QED
    BY <1>4, <2>1, <2>2, RearmedIsGood
<1>13. scheduleQueue' \in Seq(Event)
  BY <1>5, <1>12
<1>14. \A k \in 1 .. l : /\ h[k] \in DOMAIN s /\ h[k] \notin Fired /\ eventBuffer'[k] = s[h[k]]
                         /\ Valid(eventBuffer'[k]) /\ NotBeforeDue(eventBuffer'[k])
  BY <1>3, <1>4, <1>7, <1>9 DEF Lists
<1>15. \A k, j \in 1 .. l :
         k < j => ~GreaterThan(eventBuffer'[k].timeoutTick, eventBuffer'[j].timeoutTick)
  <2> TAKE k, j \in 1 .. l
  <2>1. k < j => h[k] < h[j]
    BY <1>3 DEF Lists
  <2> QED
    BY <1>4, <1>14, <2>1
<1>16. ASSUME NEW k \in 1 .. l, ~needDefrag
       PROVE  GreaterThan(eventBuffer'[k].timeoutTick, clock)
  <2>1. PICK j \in 1 .. h[k] : j \in DOMAIN s /\ GreaterThan(s[j].timeoutTick, clock)
    BY <1>8, <1>14
  <2> DEFINE a == s[j].timeoutTick
             b == s[h[k]].timeoutTick
  <2>2. a \in Tick /\ b \in Tick /\ clock \in Tick
    BY <1>4, <1>7, <1>14, <2>1 DEF Event, TypeOK
  <2>3. GreaterThan(a, clock) /\ (a = b \/ ~GreaterThan(a, b))
    <3>1. j = h[k] \/ j < h[k]
      BY <1>7, <1>14, <2>1
    <3> QED
      BY <1>4, <1>14, <1>16, <2>1, <3>1
  <2> HIDE DEF a, b
  <2>4. GreaterThan(b, clock)
    BY <2>2, <2>3, LaterStillToCome
  <2> QED
    BY <1>14, <2>4 DEF b
<1> QED
  BY <1>5, <1>6, <1>11, <1>12, <1>13, <1>14, <1>15, <1>16 DEF m, n, l

-----------------------------------------------------------------------------
(* The calls *)

\* What schedule() has read of the clock when it has both halves: with no wrap
\* in between it is not before the tick at which the call began, and a torn
\* one is at most a word late.
LEMMA StampIsNear ==
  ASSUME IInv, pc = "schedule", NEW stamp,
         stamp = IF call.half = "tick" THEN [tick |-> call.read, cycle |-> clock.cycle]
                                       ELSE [tick |-> clock.tick, cycle |-> call.read]
  PROVE  /\ stamp \in Tick /\ stamp.cycle < U32Max
         /\ Ticks(stamp) < Horizon + Word
         /\ clock.cycle = call.begun.cycle => Ticks(call.begun) <= Ticks(stamp)
<1> DEFINE b == call.begun
<1>1. /\ b \in Tick /\ clock \in Tick /\ call.half \in {"tick", "cycle"}
      /\ Ticks(b) <= Ticks(clock) /\ Ticks(clock) <= Horizon /\ Horizon \in Nat
      /\ call.read = IF call.half = "tick" THEN b.tick ELSE b.cycle
  BY BoundAssumption DEF IInv, TypeOK, HalfRead, Call, Half
<1>2. clock.cycle < U32Max /\ Ticks(clock) \in Nat /\ Ticks(b) \in Nat
  BY <1>1, ClockBelowMark, TicksType DEF IInv
<1> HIDE DEF b
<1>3. /\ b.tick \in 0 .. Word - 1 /\ b.cycle \in Nat /\ clock.tick \in 0 .. Word - 1
      /\ clock.cycle \in Nat /\ Word \in Nat /\ b.cycle \in U32 /\ clock.cycle \in U32
      /\ b.tick \in U32 /\ clock.tick \in U32 /\ U32Max \in Nat
      /\ b = [tick |-> b.tick, cycle |-> b.cycle]
      /\ clock = [tick |-> clock.tick, cycle |-> clock.cycle]
  BY <1>1, WordAssumption DEF Tick, U32, U32Max
<1>4. b.cycle <= clock.cycle
  <2>1. ~GreaterThan(b, clock)
    BY <1>1, <1>2, GreaterThanOrders
  <2> QED
    BY <1>3, <2>1 DEF GreaterThan
<1>5. stamp \in Tick /\ stamp.cycle < U32Max
  BY <1>1, <1>2, <1>3, <1>4 DEF Tick
<1>6. Ticks(clock) = clock.cycle * Word + clock.tick /\ clock.cycle * Word \in Nat
  BY <1>3 DEF Ticks
<1>7. Ticks(b) = b.cycle * Word + b.tick /\ b.cycle * Word \in Nat
  BY <1>3 DEF Ticks
<1>8. CASE call.half = "tick"
  <2>1. stamp = [tick |-> b.tick, cycle |-> clock.cycle]
    BY <1>1, <1>8
  <2>2. Ticks(stamp) = clock.cycle * Word + b.tick
    BY <2>1 DEF Ticks
  <2>3. Ticks(stamp) < Horizon + Word
    BY <1>1, <1>3, <1>6, <2>2
  <2>4. clock.cycle = b.cycle => Ticks(b) <= Ticks(stamp)
    BY <1>3, <1>7, <2>2
  <2> QED
    BY <1>5, <2>3, <2>4 DEF b
<1>9. CASE call.half = "cycle"
  <2>1. stamp = [tick |-> clock.tick, cycle |-> b.cycle]
    BY <1>1, <1>9
  <2>2. Ticks(stamp) = b.cycle * Word + clock.tick
    BY <2>1 DEF Ticks
  <2>3. Ticks(stamp) < Horizon + Word
    BY <1>1, <1>2, <1>3, <1>7, <2>2
  <2>4. clock.cycle = b.cycle => Ticks(b) <= Ticks(stamp)
    BY <1>1, <1>3, <1>6, <2>2
  <2> QED
    BY <1>5, <2>3, <2>4 DEF b
<1> QED
  BY <1>1, <1>8, <1>9

\* The entry schedule() makes of such a reading is to fire, and not too early.
LEMMA NewEventIsGood ==
  ASSUME TypeOK, calls < MaxCalls,
         NEW c, c.intervalTick \in Interval, c.callback \in Callback, c.isRoutine \in BOOLEAN,
         NEW stamp \in Tick, stamp.cycle < U32Max, Ticks(stamp) < Horizon + Word,
         NEW begun \in Tick, NEW torn \in BOOLEAN, ~torn => Ticks(begun) <= Ticks(stamp)
  PROVE  /\ NewEvent(stamp, c, begun, torn) \in Event
         /\ Valid(NewEvent(stamp, c, begun, torn))
         /\ NotBeforeDue(NewEvent(stamp, c, begun, torn))
<1> DEFINE t == AddTicks(stamp, c.intervalTick)
           e == NewEvent(stamp, c, begun, torn)
<1>1. t \in Tick /\ t.cycle # U32Max /\ Ticks(t) = Ticks(stamp) + c.intervalTick
  BY AddIntervalValid
<1>2. /\ c.intervalTick \in Nat /\ Ticks(begun) \in Nat /\ Ticks(stamp) \in Nat
      /\ calls + 1 \in 1 .. MaxCalls
  BY IntervalType, TicksType, BoundAssumption DEF TypeOK
<1>3. e = [timeoutTick |-> t, intervalTick |-> c.intervalTick, callback |-> c.callback,
           isRoutine |-> c.isRoutine, id |-> calls + 1,
           due |-> Ticks(begun) + c.intervalTick, torn |-> torn]
  BY DEF NewEvent
<1> HIDE DEF t, e
<1>4. e \in Event
  BY <1>1, <1>2, <1>3 DEF Event
<1>5. Valid(e)
  BY <1>1, <1>3 DEF Valid
<1>6. ~torn => e.due <= Ticks(e.timeoutTick)
  BY <1>1, <1>2, <1>3
<1>7. e.torn = torn
  BY <1>3
<1> QED
  BY <1>4, <1>5, <1>6, <1>7 DEF e, NotBeforeDue

LEMMA PanicKeeps ==
  ASSUME IInv, Panic
  PROVE  IInv'
<1>1. TypeOK'
  BY DEF IInv, TypeOK, Panic, PC
<1>2. /\ LiveSorted' /\ InvalidFlagged' /\ DeadlinesKept' /\ NeverEarly'
  BY DEF IInv, Panic, LiveSorted, InvalidFlagged, DeadlinesKept, NeverEarly
<1>3. HalfRead'
  BY DEF Panic, HalfRead
<1> QED
  BY <1>1, <1>2, <1>3 DEF IInv

LEMMA EnqueueKeeps ==
  ASSUME IInv, calls < MaxCalls, NEW e \in Event, Valid(e), NotBeforeDue(e), NEW caller,
         \/ pc = "schedule" /\ caller = "app"
         \/ pc = "callback" /\ caller = "callback",
         Enqueue(e, caller)
  PROVE  IInv'
<1>1. CASE Panic
  BY <1>1, PanicKeeps DEF IInv, TypeOK
<1>2. CASE ~Panic
  <2>1. /\ Len(scheduleQueue) < BuffSize
        /\ scheduleQueue' = Append(scheduleQueue, e)
        /\ calls' = calls + 1
        /\ pc' = caller
        /\ UNCHANGED <<clock, eventBuffer, timeoutQueue, needDefrag, running, call>>
    BY <1>2 DEF Enqueue
  <2>2. /\ scheduleQueue' \in Seq(Event) /\ Len(scheduleQueue') <= BuffSize
        /\ \A i \in DOMAIN scheduleQueue' :
             \/ scheduleQueue'[i] = e
             \/ i \in DOMAIN scheduleQueue /\ scheduleQueue'[i] = scheduleQueue[i]
    BY <2>1, SizeAssumption DEF IInv, TypeOK
  <2>3. calls' \in 0 .. MaxCalls
    BY <2>1, BoundAssumption DEF IInv, TypeOK
  <2>4. TypeOK'
    BY <2>1, <2>2, <2>3 DEF IInv, TypeOK, PC
  <2>5. LiveSorted' /\ NeverEarly'
    BY <2>1 DEF IInv, LiveSorted, NeverEarly
  <2>6. InvalidFlagged'
    BY <2>1, <2>2 DEF IInv, InvalidFlagged
  <2>7. DeadlinesKept'
    BY <2>1, <2>2 DEF IInv, DeadlinesKept
  <2>8. HalfRead'
    BY <2>1 DEF HalfRead
  <2> QED
    BY <2>4, <2>5, <2>6, <2>7, <2>8 DEF IInv
<1> QED
  BY <1>1, <1>2

\* unschedule() marks entries where they are and touches no other.
LEMMA InvalidatedProperties ==
  ASSUME NEW s \in Seq(Event), NEW iv, NEW cb, NEW routine
  PROVE  /\ Invalidated(s, iv, cb, routine) \in Seq(Event)
         /\ Len(Invalidated(s, iv, cb, routine)) = Len(s)
         /\ \A i \in DOMAIN s :
              /\ Invalidated(s, iv, cb, routine)[i].id = s[i].id
              /\ \/ /\ Matches(s[i], iv, cb, routine) /\ Holds(s, iv, cb, routine)
                    /\ ~Valid(Invalidated(s, iv, cb, routine)[i])
                 \/ /\ ~Matches(s[i], iv, cb, routine)
                    /\ Invalidated(s, iv, cb, routine)[i] = s[i]
<1> DEFINE marked(e) == [e EXCEPT !.timeoutTick = Unset, !.isRoutine = FALSE]
           r == Invalidated(s, iv, cb, routine)
<1>1. \A e \in Event : marked(e) \in Event /\ ~Valid(marked(e)) /\ marked(e).id = e.id
  <2> TAKE e \in Event
  <2>1. Unset \in Tick /\ Unset.cycle = U32Max
    BY MarkUnsetType DEF Unset
  <2> QED
    BY <2>1 DEF Event, Valid
<1>2. r = [i \in 1 .. Len(s) |-> IF Matches(s[i], iv, cb, routine) THEN marked(s[i]) ELSE s[i]]
  BY DEF Invalidated
<1> HIDE DEF marked, r
<1>3. \A i \in 1 .. Len(s) :
        /\ r[i] \in Event /\ r[i].id = s[i].id
        /\ \/ /\ Matches(s[i], iv, cb, routine) /\ Holds(s, iv, cb, routine)
              /\ ~Valid(r[i])
           \/ ~Matches(s[i], iv, cb, routine) /\ r[i] = s[i]
  <2> TAKE i \in 1 .. Len(s)
  <2>1. s[i] \in Event /\ i \in DOMAIN s
    OBVIOUS
  <2>2. marked(s[i]) \in Event /\ ~Valid(marked(s[i])) /\ marked(s[i]).id = s[i].id
    BY <1>1, <2>1
  <2> QED
    BY <1>2, <2>1, <2>2 DEF Holds
<1>4. r \in Seq(Event) /\ Len(r) = Len(s)
  BY <1>2, <1>3
<1> QED
  BY <1>3, <1>4 DEF r

-----------------------------------------------------------------------------
(* Every step *)

LEMMA InitInv == Init => IInv
<1> SUFFICES ASSUME Init PROVE IInv
  OBVIOUS
<1>1. /\ clock = [tick |-> Start, cycle |-> 0] /\ Start \in U32 /\ 0 \in U32
      /\ Start \in Nat /\ Start <= Horizon
  BY BoundAssumption, WordAssumption DEF Init, U32, U32Max
<1>2. clock \in Tick /\ Ticks(clock) <= Horizon
  BY <1>1, WordAssumption DEF Tick, Ticks
<1>3. TypeOK
  <2>1. /\ eventBuffer \in Seq(Event) /\ Len(eventBuffer) = 0
        /\ timeoutQueue \in Seq(Event) /\ Len(timeoutQueue) = 0
        /\ scheduleQueue \in Seq(Event) /\ Len(scheduleQueue) = 0
    BY DEF Init
  <2>2. calls \in 0 .. MaxCalls /\ running \in 1 .. Len(timeoutQueue) + 1
    BY <2>1, BoundAssumption DEF Init
  <2>3. timeoutQueue = <<>> /\ pc = "app" /\ needDefrag \in BOOLEAN
    BY DEF Init
  <2> QED
    BY <1>2, <2>1, <2>2, <2>3, SizeAssumption DEF TypeOK, PC
<1> QED
  BY <1>3 DEF Init, IInv, LiveSorted, InvalidFlagged, DeadlinesKept, HalfRead, NeverEarly

LEMMA TimerInterruptKeeps == IInv /\ TimerInterrupt => IInv'
<1> SUFFICES ASSUME IInv, TimerInterrupt PROVE IInv'
  OBVIOUS
<1>1. 1 \in U32 /\ clock \in Tick /\ Ticks(clock) \in Nat /\ clock.cycle < U32Max
  BY ClockBelowMark, WordAssumption DEF IInv, TypeOK, U32, U32Max
<1>2. clock' \in Tick /\ Ticks(clock') = Ticks(clock) + 1
  BY <1>1, AddTicksType, AddTicksCounts DEF TimerInterrupt
<1>3. Ticks(clock') <= Horizon
  BY <1>1, <1>2, BoundAssumption DEF TimerInterrupt
<1>4. timeoutQueue = <<>> /\ timeoutQueue' = <<>>
  BY DEF IInv, TypeOK, TimerInterrupt, InterruptsEnabled
<1>5. TypeOK'
  BY <1>2, <1>3 DEF IInv, TypeOK, TimerInterrupt, PC
<1>6. LiveSorted' /\ InvalidFlagged' /\ DeadlinesKept' /\ NeverEarly'
  BY <1>4 DEF IInv, LiveSorted, InvalidFlagged, DeadlinesKept, NeverEarly, TimerInterrupt
<1>7. HalfRead'
  <2>1. pc' = "schedule" => pc = "schedule" /\ call' = call
    BY DEF TimerInterrupt
  <2>2. pc = "schedule" => Ticks(call.begun) \in Nat
    BY TicksType DEF IInv, TypeOK, Call
  <2> QED
    BY <1>1, <1>2, <2>1, <2>2 DEF IInv, HalfRead
<1> QED
  BY <1>5, <1>6, <1>7 DEF IInv

LEMMA ScheduleBeginKeeps ==
  ASSUME IInv, NEW iv \in Interval, NEW cb \in Callback, NEW routine \in BOOLEAN,
         NEW half \in Half, ScheduleBegin(iv, cb, routine, half)
  PROVE  IInv'
<1>1. clock \in Tick /\ Ticks(clock) \in Nat /\ clock.tick \in U32 /\ clock.cycle \in U32
  BY ClockBelowMark DEF IInv, TypeOK, Tick
<1>2. call' \in Call
  BY <1>1 DEF ScheduleBegin, Call
<1>3. TypeOK'
  BY <1>2 DEF IInv, TypeOK, ScheduleBegin, PC
<1>4. LiveSorted' /\ InvalidFlagged' /\ DeadlinesKept' /\ NeverEarly'
  BY DEF IInv, LiveSorted, InvalidFlagged, DeadlinesKept, NeverEarly, ScheduleBegin
<1>5. HalfRead'
  BY <1>1 DEF HalfRead, ScheduleBegin
<1> QED
  BY <1>3, <1>4, <1>5 DEF IInv

\* The reading of the clock with which schedule() ends.
Stamp == IF call.half = "tick" THEN [tick |-> call.read, cycle |-> clock.cycle]
                               ELSE [tick |-> clock.tick, cycle |-> call.read]

\* The entry of an app's call ...
LEMMA CallEventIsGood ==
  ASSUME IInv, ScheduleEnd,
         NEW e, e = NewEvent(Stamp, call, call.begun, clock.cycle # call.begun.cycle)
  PROVE  e \in Event /\ Valid(e) /\ NotBeforeDue(e) /\ Enqueue(e, "app") /\ pc = "schedule"
<1> DEFINE torn == clock.cycle # call.begun.cycle
<1>1. pc = "schedule" /\ Enqueue(e, "app")
  BY DEF ScheduleEnd, Stamp
<1>2. /\ TypeOK /\ calls < MaxCalls /\ torn \in BOOLEAN /\ call.begun \in Tick
      /\ call.intervalTick \in Interval /\ call.callback \in Callback
      /\ call.isRoutine \in BOOLEAN
  BY <1>1 DEF IInv, TypeOK, Call
<1>3. /\ Stamp \in Tick /\ Stamp.cycle < U32Max /\ Ticks(Stamp) < Horizon + Word
      /\ ~torn => Ticks(call.begun) <= Ticks(Stamp)
  BY <1>1, StampIsNear DEF Stamp
<1> HIDE DEF torn
<1>4. e = NewEvent(Stamp, call, call.begun, torn)
  BY DEF torn
<1>5. e \in Event /\ Valid(e) /\ NotBeforeDue(e)
  BY <1>2, <1>3, <1>4, NewEventIsGood
<1> QED
  BY <1>1, <1>5

LEMMA ScheduleEndKeeps == IInv /\ ScheduleEnd => IInv'
<1> SUFFICES ASSUME IInv, ScheduleEnd PROVE IInv'
  OBVIOUS
<1> DEFINE e == NewEvent(Stamp, call, call.begun, clock.cycle # call.begun.cycle)
<1>1. e \in Event /\ Valid(e) /\ NotBeforeDue(e) /\ Enqueue(e, "app") /\ pc = "schedule"
  BY CallEventIsGood
<1>2. calls < MaxCalls
  BY <1>1 DEF IInv, TypeOK
<1> HIDE DEF e
<1> QED
  BY <1>1, <1>2, EnqueueKeeps

\* ... and that of a callback's.
LEMMA CallbackEventIsGood ==
  ASSUME IInv, NEW iv \in Interval, NEW cb \in Callback, NEW routine \in BOOLEAN,
         ScheduleInCallback(iv, cb, routine),
         NEW e, e = NewEvent(clock, [intervalTick |-> iv, callback |-> cb, isRoutine |-> routine],
                             clock, FALSE)
  PROVE  /\ e \in Event /\ Valid(e) /\ NotBeforeDue(e) /\ Enqueue(e, "callback")
         /\ pc = "callback" /\ calls < MaxCalls
<1> DEFINE c == [intervalTick |-> iv, callback |-> cb, isRoutine |-> routine]
<1>1. pc = "callback" /\ calls < MaxCalls /\ Enqueue(e, "callback")
  BY DEF ScheduleInCallback
<1>2. c.intervalTick \in Interval /\ c.callback \in Callback /\ c.isRoutine \in BOOLEAN
  OBVIOUS
<1>3. TypeOK /\ clock \in Tick /\ clock.cycle < U32Max /\ Ticks(clock) <= Ticks(clock)
  BY ClockBelowMark DEF IInv, TypeOK
<1>4. Ticks(clock) < Horizon + Word
  BY <1>3, ClockBelowMark, BoundAssumption, WordAssumption DEF TypeOK
<1> HIDE DEF c
<1>5. e = NewEvent(clock, c, clock, FALSE)
  BY DEF c
<1>6. e \in Event /\ Valid(e) /\ NotBeforeDue(e)
  BY <1>1, <1>2, <1>3, <1>4, <1>5, NewEventIsGood
<1> QED
  BY <1>1, <1>6

LEMMA ScheduleInCallbackKeeps ==
  ASSUME IInv, NEW iv \in Interval, NEW cb \in Callback, NEW routine \in BOOLEAN,
         ScheduleInCallback(iv, cb, routine)
  PROVE  IInv'
<1> DEFINE e == NewEvent(clock, [intervalTick |-> iv, callback |-> cb, isRoutine |-> routine],
                         clock, FALSE)
<1>1. /\ e \in Event /\ Valid(e) /\ NotBeforeDue(e) /\ Enqueue(e, "callback")
      /\ pc = "callback" /\ calls < MaxCalls
  BY CallbackEventIsGood
<1> HIDE DEF e
<1> QED
  BY <1>1, EnqueueKeeps

LEMMA UnscheduleKeeps ==
  ASSUME IInv, NEW iv, NEW cb, NEW routine, Unschedule(iv, cb, routine)
  PROVE  IInv'
<1>1. /\ eventBuffer' = Invalidated(eventBuffer, iv, cb, routine)
      /\ scheduleQueue' = Invalidated(scheduleQueue, iv, cb, routine)
      /\ needDefrag' = (\/ needDefrag
                        \/ Holds(eventBuffer, iv, cb, routine)
                        \/ Holds(scheduleQueue, iv, cb, routine))
      /\ UNCHANGED <<clock, timeoutQueue, pc, running, call, calls>>
      /\ eventBuffer \in Seq(Event) /\ scheduleQueue \in Seq(Event)
  BY DEF Unschedule, IInv, TypeOK
<1>2. /\ eventBuffer' \in Seq(Event) /\ Len(eventBuffer') = Len(eventBuffer)
      /\ \A i \in DOMAIN eventBuffer :
           \/ ~Valid(eventBuffer'[i]) /\ needDefrag'
           \/ eventBuffer'[i] = eventBuffer[i]
  BY <1>1, InvalidatedProperties
<1>3. /\ scheduleQueue' \in Seq(Event) /\ Len(scheduleQueue') = Len(scheduleQueue)
      /\ \A i \in DOMAIN scheduleQueue :
           \/ ~Valid(scheduleQueue'[i]) /\ needDefrag'
           \/ scheduleQueue'[i] = scheduleQueue[i]
  BY <1>1, InvalidatedProperties
<1>4. DOMAIN eventBuffer' = DOMAIN eventBuffer /\ DOMAIN scheduleQueue' = DOMAIN scheduleQueue
  BY <1>1, <1>2, <1>3
<1>5. TypeOK'
  BY <1>1, <1>2, <1>3 DEF IInv, TypeOK
<1>6. LiveSorted'
  BY <1>2, <1>4 DEF IInv, LiveSorted
<1>7. InvalidFlagged'
  BY <1>1, <1>2, <1>3, <1>4 DEF IInv, InvalidFlagged
<1>8. DeadlinesKept'
  BY <1>2, <1>3, <1>4 DEF IInv, DeadlinesKept, NotBeforeDue
<1>9. HalfRead' /\ NeverEarly'
  BY <1>1 DEF IInv, HalfRead, NeverEarly
<1> QED
  BY <1>5, <1>6, <1>7, <1>8, <1>9 DEF IInv

LEMMA ProcessKeeps == IInv /\ Process => IInv'
<1> SUFFICES ASSUME IInv, Process PROVE IInv'
  OBVIOUS
<1>1. /\ UNCHANGED <<clock, running, call, calls>> /\ needDefrag' = FALSE
      /\ pc = "app" /\ timeoutQueue = <<>> /\ TypeOK
      /\ pc' = IF timeoutQueue' # <<>> THEN "batch" ELSE "hlt"
  BY DEF Process, IInv, TypeOK
<1>2. /\ eventBuffer' \in Seq(Event) /\ Len(eventBuffer') <= BuffSize
      /\ \A i \in DOMAIN eventBuffer' : Valid(eventBuffer'[i]) /\ NotBeforeDue(eventBuffer'[i])
      /\ \A i, j \in DOMAIN eventBuffer' :
           i < j => ~GreaterThan(eventBuffer'[i].timeoutTick, eventBuffer'[j].timeoutTick)
  BY ProcessEffect
<1>3. /\ scheduleQueue' \in Seq(Event) /\ Len(scheduleQueue') <= BuffSize
      /\ \A i \in DOMAIN scheduleQueue' :
           Valid(scheduleQueue'[i]) /\ NotBeforeDue(scheduleQueue'[i])
  BY ProcessEffect
<1>4. /\ timeoutQueue' \in Seq(Event) /\ Len(timeoutQueue') <= BuffSize
      /\ \A i \in DOMAIN timeoutQueue' :
           ~timeoutQueue'[i].torn => timeoutQueue'[i].due <= Ticks(clock)
  BY ProcessEffect
<1>5. running' \in 1 .. Len(timeoutQueue') + 1
  <2>1. running = 1
    BY <1>1 DEF TypeOK
  <2> QED
    BY <1>1, <1>4, <2>1
<1>6. TypeOK'
  BY <1>1, <1>2, <1>3, <1>4, <1>5 DEF TypeOK, PC
<1>7. LiveSorted' /\ InvalidFlagged' /\ DeadlinesKept'
  BY <1>2, <1>3 DEF LiveSorted, InvalidFlagged, DeadlinesKept
<1>8. HalfRead'
  BY <1>1 DEF HalfRead
<1>9. NeverEarly'
  BY <1>1, <1>4 DEF NeverEarly
<1> QED
  BY <1>6, <1>7, <1>8, <1>9 DEF IInv

\* The steps of the loop over the expired events, the end of a hlt and a full
\* buffer move the processor and nothing of the scheduler's arrays but the end
\* of the batch.
LEMMA OtherStepsKeep ==
  ASSUME IInv, OtherInterrupt \/ InvokeCallback \/ SkipNullCallback \/ CallbackReturns
                 \/ EndBatch \/ MoveOverflows \/ UNCHANGED vars
  PROVE  IInv'
<1>1. CASE OtherInterrupt \/ InvokeCallback \/ UNCHANGED vars
  <2>1. /\ UNCHANGED <<clock, eventBuffer, timeoutQueue, scheduleQueue, needDefrag, running,
                       call, calls>>
        /\ pc' = pc \/ (pc' = "app" /\ pc = "hlt")
             \/ (pc' = "callback" /\ running <= Len(timeoutQueue))
    BY <1>1 DEF OtherInterrupt, InvokeCallback, vars
  <2> QED
    BY <2>1 DEF IInv, TypeOK, PC, LiveSorted, InvalidFlagged, DeadlinesKept, HalfRead, NeverEarly
<1>2. CASE SkipNullCallback \/ CallbackReturns
  <2>1. /\ UNCHANGED <<clock, eventBuffer, timeoutQueue, scheduleQueue, needDefrag, call, calls>>
        /\ running' = running + 1 /\ running <= Len(timeoutQueue) /\ pc' = "batch"
    BY <1>2 DEF SkipNullCallback, CallbackReturns, IInv, TypeOK
  <2>2. Len(timeoutQueue) \in Nat
    BY DEF IInv, TypeOK
  <2>3. running' \in 1 .. Len(timeoutQueue') + 1
    BY <2>1, <2>2 DEF IInv, TypeOK
  <2> QED
    BY <2>1, <2>3 DEF IInv, TypeOK, PC, LiveSorted, InvalidFlagged, DeadlinesKept, HalfRead,
                      NeverEarly
<1>3. CASE EndBatch
  <2>1. /\ UNCHANGED <<clock, eventBuffer, scheduleQueue, needDefrag, call, calls>>
        /\ running' = 1 /\ timeoutQueue' = <<>> /\ pc' = "hlt"
    BY <1>3 DEF EndBatch
  <2>2. timeoutQueue' \in Seq(Event) /\ Len(timeoutQueue') = 0 /\ BuffSize \in Nat
    BY <2>1, SizeAssumption
  <2>3. TypeOK'
    BY <2>1, <2>2 DEF IInv, TypeOK, PC
  <2> QED
    BY <2>1, <2>3 DEF IInv, LiveSorted, InvalidFlagged, DeadlinesKept, HalfRead, NeverEarly
<1>4. CASE MoveOverflows
  BY <1>4, PanicKeeps DEF MoveOverflows
<1> QED
  BY <1>1, <1>2, <1>3, <1>4

LEMMA NextKeeps == IInv /\ [Next]_vars => IInv'
<1> SUFFICES ASSUME IInv, [Next]_vars PROVE IInv'
  OBVIOUS
<1>1. CASE TimerInterrupt
  BY <1>1, TimerInterruptKeeps
<1>2. CASE Schedule
  <2>1. PICK iv \in Interval, cb \in Callback, routine \in BOOLEAN :
          \/ \E half \in Half : ScheduleBegin(iv, cb, routine, half)
          \/ ScheduleInCallback(iv, cb, routine)
    BY <1>2 DEF Schedule
  <2> QED
    BY <2>1, ScheduleBeginKeeps, ScheduleInCallbackKeeps
<1>3. CASE ScheduleEnd
  BY <1>3, ScheduleEndKeeps
<1>4. CASE Cancel
  <2>1. PICK iv \in Interval, cb \in Callback, routine \in BOOLEAN : Unschedule(iv, cb, routine)
    BY <1>4 DEF Cancel
  <2> QED
    BY <2>1, UnscheduleKeeps
<1>5. CASE Process
  BY <1>5, ProcessKeeps
<1>6. CASE \/ OtherInterrupt \/ InvokeCallback \/ SkipNullCallback \/ CallbackReturns
           \/ EndBatch \/ MoveOverflows \/ UNCHANGED vars
  BY <1>6, OtherStepsKeep
<1> QED
  BY <1>1, <1>2, <1>3, <1>4, <1>5, <1>6 DEF Next, Interrupt, KernelProcess, ServeExpired

-----------------------------------------------------------------------------
(* One entry per call *)

\* No call of schedule() has two entries that are to fire among those of s.
Apart(s) == \A i, j \in LiveIds(s) : s[i].id = s[j].id => i = j

IssuedIn(s) == \A i \in DOMAIN s : s[i].id <= calls

\* NoDuplicates array by array, with what it needs: ids are numbers of calls
\* that were made.
OneEntryPerCall ==
  /\ IssuedIn(eventBuffer) /\ IssuedIn(scheduleQueue) /\ IssuedIn(timeoutQueue)
  /\ Apart(eventBuffer) /\ Apart(scheduleQueue)
  /\ \A i \in LiveIds(eventBuffer), j \in LiveIds(scheduleQueue) :
       eventBuffer[i].id # scheduleQueue[j].id
  /\ \A i, j \in DOMAIN timeoutQueue : timeoutQueue[i].id = timeoutQueue[j].id => i = j
  /\ \A i \in DOMAIN timeoutQueue, j \in LiveIds(eventBuffer) :
       timeoutQueue[i].id = eventBuffer[j].id =>
         timeoutQueue[i].isRoutine /\ eventBuffer[j].isRoutine
  /\ \A i \in DOMAIN timeoutQueue, j \in LiveIds(scheduleQueue) :
       timeoutQueue[i].id = scheduleQueue[j].id =>
         timeoutQueue[i].isRoutine /\ scheduleQueue[j].isRoutine

\* Where the live entries of a concatenation are.
LEMMA LiveOfBoth ==
  ASSUME NEW a \in Seq(Event), NEW b \in Seq(Event)
  PROVE  /\ \A i \in LiveIds(a) : i \in LiveIds(a \o b) /\ (a \o b)[i] = a[i]
         /\ \A j \in LiveIds(b) : Len(a) + j \in LiveIds(a \o b) /\ (a \o b)[Len(a) + j] = b[j]
         /\ \A i \in LiveIds(a \o b) :
              \/ i \in LiveIds(a) /\ (a \o b)[i] = a[i]
              \/ i > Len(a) /\ i - Len(a) \in LiveIds(b) /\ (a \o b)[i] = b[i - Len(a)]
<1> DEFINE s == a \o b
           m == Len(a)
           n == Len(b)
<1>1. m \in Nat /\ n \in Nat /\ DOMAIN s = 1 .. m + n /\ DOMAIN a = 1 .. m /\ DOMAIN b = 1 .. n
  OBVIOUS
<1>2. /\ \A i \in 1 .. m : s[i] = a[i]
      /\ \A j \in 1 .. n : s[m + j] = b[j]
      /\ \A i \in 1 .. m + n : i > m => s[i] = b[i - m]
  OBVIOUS
<1> HIDE DEF s, m, n
<1>3. /\ \A i : i \in LiveIds(a) <=> i \in 1 .. m /\ Valid(a[i])
      /\ \A i : i \in LiveIds(b) <=> i \in 1 .. n /\ Valid(b[i])
      /\ \A i : i \in LiveIds(s) <=> i \in 1 .. m + n /\ Valid(s[i])
  BY <1>1 DEF LiveIds
<1>4. ASSUME NEW i \in LiveIds(a) PROVE i \in LiveIds(s) /\ s[i] = a[i]
  <2>1. i \in 1 .. m /\ Valid(a[i]) /\ i \in 1 .. m + n
    BY <1>1, <1>3
  <2> QED
    BY <1>2, <1>3, <2>1
<1>5. ASSUME NEW j \in LiveIds(b) PROVE m + j \in LiveIds(s) /\ s[m + j] = b[j]
  <2>1. j \in 1 .. n /\ Valid(b[j]) /\ m + j \in 1 .. m + n
    BY <1>1, <1>3
  <2> QED
    BY <1>2, <1>3, <2>1
<1>6. ASSUME NEW i \in LiveIds(s)
      PROVE  \/ i \in LiveIds(a) /\ s[i] = a[i]
             \/ i > m /\ i - m \in LiveIds(b) /\ s[i] = b[i - m]
  <2>1. i \in 1 .. m + n /\ Valid(s[i])
    BY <1>3
  <2>2. CASE i <= m
    <3>1. i \in 1 .. m
      BY <1>1, <2>1, <2>2
    <3> QED
      BY <1>2, <1>3, <2>1, <3>1
  <2>3. CASE i > m
    <3>1. i - m \in 1 .. n
      BY <1>1, <2>1, <2>3
    <3> QED
      BY <1>2, <1>3, <2>1, <2>3, <3>1
  <2> QED
    BY <1>1, <2>1, <2>2, <2>3
<1> QED
  BY <1>4, <1>5, <1>6 DEF s, m

LEMMA ApartTogether ==
  ASSUME NEW a \in Seq(Event), NEW b \in Seq(Event), Apart(a), Apart(b),
         \A i \in LiveIds(a), j \in LiveIds(b) : a[i].id # b[j].id
  PROVE  Apart(a \o b)
<1> DEFINE s == a \o b
           m == Len(a)
<1>1. \A i \in LiveIds(s) :
        \/ i \in LiveIds(a) /\ s[i] = a[i]
        \/ i > m /\ i - m \in LiveIds(b) /\ s[i] = b[i - m]
  BY LiveOfBoth
<1>2. m \in Nat /\ \A i \in LiveIds(s) : i \in Nat
  BY DEF LiveIds
<1> HIDE DEF s, m
<1>3. ASSUME NEW i \in LiveIds(s), NEW j \in LiveIds(s), s[i].id = s[j].id PROVE i = j
  <2>1. CASE i \in LiveIds(a) /\ s[i] = a[i]
    BY <1>1, <1>3, <2>1 DEF Apart
  <2>2. CASE i > m /\ i - m \in LiveIds(b) /\ s[i] = b[i - m]
    <3>1. ~(j \in LiveIds(a) /\ s[j] = a[j])
      BY <1>3, <2>2
    <3>2. j - m \in LiveIds(b) /\ s[j] = b[j - m]
      BY <1>1, <3>1
    <3>3. i - m = j - m
      BY <1>3, <2>2, <3>2 DEF Apart
    <3> QED
      BY <1>2, <3>3
  <2> QED
    BY <1>1, <2>1, <2>2
<1> QED
  BY <1>3 DEF Apart, s

\* What the run checks is OneEntryPerCall without the numbers.
LEMMA OneEntryNoDuplicates == TypeOK /\ OneEntryPerCall => NoDuplicates
<1> SUFFICES ASSUME TypeOK, OneEntryPerCall PROVE NoDuplicates
  OBVIOUS
<1> DEFINE all == eventBuffer \o scheduleQueue
           m == Len(eventBuffer)
<1>1. eventBuffer \in Seq(Event) /\ scheduleQueue \in Seq(Event)
  BY DEF TypeOK
<1>2. \A i \in LiveIds(all) :
        \/ i \in LiveIds(eventBuffer) /\ all[i] = eventBuffer[i]
        \/ i - m \in LiveIds(scheduleQueue) /\ all[i] = scheduleQueue[i - m]
  BY <1>1, LiveOfBoth
<1>3. Apart(all)
  BY <1>1, ApartTogether DEF OneEntryPerCall
<1> HIDE DEF all, m
<1>4. \A i \in DOMAIN timeoutQueue, j \in LiveIds(all) :
        timeoutQueue[i].id = all[j].id => timeoutQueue[i].isRoutine /\ all[j].isRoutine
  <2> TAKE i \in DOMAIN timeoutQueue, j \in LiveIds(all)
  <2>1. CASE j \in LiveIds(eventBuffer) /\ all[j] = eventBuffer[j]
    BY <2>1 DEF OneEntryPerCall
  <2>2. CASE j - m \in LiveIds(scheduleQueue) /\ all[j] = scheduleQueue[j - m]
    BY <2>2 DEF OneEntryPerCall
  <2> QED
    BY <1>2, <2>1, <2>2
<1>5. \A i, j \in DOMAIN timeoutQueue : timeoutQueue[i].id = timeoutQueue[j].id => i = j
  BY DEF OneEntryPerCall
<1> QED
  BY <1>3, <1>4, <1>5 DEF NoDuplicates, Apart, all

-----------------------------------------------------------------------------
(* The pass, entry by entry *)

\* The sort keeps every entry, once.
LEMMA SortedPermutes ==
  ASSUME TypeOK
  PROVE  \E p \in [1 .. Len(Sorted) -> 1 .. Len(eventBuffer \o scheduleQueue)] :
           /\ Sorted \in Seq(Event)
           /\ \A k \in 1 .. Len(Sorted) : Sorted[k] = (eventBuffer \o scheduleQueue)[p[k]]
           /\ \A k, l \in 1 .. Len(Sorted) : p[k] = p[l] => k = l
           /\ \A i \in 1 .. Len(eventBuffer \o scheduleQueue) :
                \E k \in 1 .. Len(Sorted) : p[k] = i
<1> DEFINE all == eventBuffer \o scheduleQueue
<1>1. eventBuffer \in Seq(Event) /\ scheduleQueue \in Seq(Event) /\ all \in Seq(Event)
  BY DEF TypeOK
<1>2. CASE scheduleQueue # <<>>
  <2>1. Sorted = SortAscending(all)
    BY <1>2 DEF Sorted
  <2> HIDE DEF all
  <2>2. PICK f \in [1 .. Len(all) -> 1 .. Len(all)] :
          /\ SortAscending(all) \in Seq(Event)
          /\ Len(SortAscending(all)) = Len(all)
          /\ \A k \in 1 .. Len(all) : SortAscending(all)[k] = all[f[k]]
          /\ \A i \in 1 .. Len(all) : \E k \in 1 .. Len(all) : f[k] = i
          /\ \A k, l \in 1 .. Len(all) : f[k] = f[l] => k = l
    BY <1>1, SortAscendingProperties
  <2>3. Len(Sorted) = Len(all) /\ Sorted \in Seq(Event)
    BY <2>1, <2>2
  <2>4. \A k \in 1 .. Len(Sorted) : Sorted[k] = all[f[k]]
    BY <2>1, <2>2
  <2>6. f \in [1 .. Len(Sorted) -> 1 .. Len(all)]
    BY <2>2, <2>3
  <2>7. /\ \A k, l \in 1 .. Len(Sorted) : f[k] = f[l] => k = l
        /\ \A i \in 1 .. Len(all) : \E k \in 1 .. Len(Sorted) : f[k] = i
    BY <2>2, <2>3
  <2>5. \E p \in [1 .. Len(Sorted) -> 1 .. Len(all)] :
          /\ Sorted \in Seq(Event)
          /\ \A k \in 1 .. Len(Sorted) : Sorted[k] = all[p[k]]
          /\ \A k, l \in 1 .. Len(Sorted) : p[k] = p[l] => k = l
          /\ \A i \in 1 .. Len(all) : \E k \in 1 .. Len(Sorted) : p[k] = i
    BY <2>3, <2>4, <2>6, <2>7
  <2> QED
    BY <2>5 DEF all
<1>3. CASE scheduleQueue = <<>>
  <2>1. Sorted = eventBuffer /\ all = eventBuffer
    BY <1>1, <1>3 DEF Sorted
  <2> DEFINE f == [k \in 1 .. Len(Sorted) |-> k]
  <2> HIDE DEF all
  <2>2. /\ f \in [1 .. Len(Sorted) -> 1 .. Len(all)]
        /\ \A k \in 1 .. Len(Sorted) : f[k] = k
    BY <2>1
  <2> HIDE DEF f
  <2> QED
    BY <1>1, <2>1, <2>2 DEF all
<1> QED
  BY <1>2, <1>3

\* The live entries that the pass walks through are those of the two arrays.
LEMMA SortedLive ==
  ASSUME TypeOK, OneEntryPerCall
  PROVE  /\ Sorted \in Seq(Event)
         /\ Apart(Sorted)
         /\ \A i \in DOMAIN Sorted : Sorted[i].id <= calls
         /\ \A i \in LiveIds(Sorted) :
              \/ \E j \in LiveIds(eventBuffer) : Sorted[i] = eventBuffer[j]
              \/ \E j \in LiveIds(scheduleQueue) : Sorted[i] = scheduleQueue[j]
         /\ \A j \in LiveIds(eventBuffer) : \E i \in LiveIds(Sorted) : Sorted[i] = eventBuffer[j]
         /\ \A j \in LiveIds(scheduleQueue) : \E i \in LiveIds(Sorted) : Sorted[i] = scheduleQueue[j]
<1> DEFINE all == eventBuffer \o scheduleQueue
           n == Len(Sorted)
<1>1. eventBuffer \in Seq(Event) /\ scheduleQueue \in Seq(Event) /\ all \in Seq(Event)
  BY DEF TypeOK
<1>2. PICK p \in [1 .. n -> 1 .. Len(all)] :
        /\ Sorted \in Seq(Event)
        /\ \A k \in 1 .. n : Sorted[k] = all[p[k]]
        /\ \A k, l \in 1 .. n : p[k] = p[l] => k = l
        /\ \A i \in 1 .. Len(all) : \E k \in 1 .. n : p[k] = i
  BY SortedPermutes
<1>3. /\ \A i \in LiveIds(eventBuffer) : i \in LiveIds(all) /\ all[i] = eventBuffer[i]
      /\ \A j \in LiveIds(scheduleQueue) :
           Len(eventBuffer) + j \in LiveIds(all) /\ all[Len(eventBuffer) + j] = scheduleQueue[j]
      /\ \A i \in LiveIds(all) :
           \/ i \in LiveIds(eventBuffer) /\ all[i] = eventBuffer[i]
           \/ i - Len(eventBuffer) \in LiveIds(scheduleQueue)
              /\ all[i] = scheduleQueue[i - Len(eventBuffer)]
  BY <1>1, LiveOfBoth
<1>4. Apart(all)
  BY <1>1, ApartTogether DEF OneEntryPerCall
<1>5. \A i \in 1 .. Len(all) : all[i].id <= calls
  <2>1. \A i \in 1 .. Len(all) : \/ \E j \in DOMAIN eventBuffer : all[i] = eventBuffer[j]
                               \/ \E j \in DOMAIN scheduleQueue : all[i] = scheduleQueue[j]
    BY <1>1
  <2> HIDE DEF all
  <2> QED
    BY <2>1 DEF OneEntryPerCall, IssuedIn
<1> HIDE DEF all
<1>6. DOMAIN Sorted = 1 .. n /\ DOMAIN all = 1 .. Len(all) /\ \A k \in 1 .. n : p[k] \in 1 .. Len(all)
  BY <1>1, <1>2
<1> HIDE DEF n
<1>7. \A k \in 1 .. n : k \in LiveIds(Sorted) <=> p[k] \in LiveIds(all)
  BY <1>2, <1>6 DEF LiveIds
<1>8. \A k \in LiveIds(Sorted) : k \in 1 .. n /\ p[k] \in LiveIds(all) /\ Sorted[k] = all[p[k]]
  BY <1>2, <1>6, <1>7 DEF LiveIds
<1>9. \A i \in LiveIds(all) : \E k \in LiveIds(Sorted) : Sorted[k] = all[i]
  <2> TAKE i \in LiveIds(all)
  <2>1. i \in 1 .. Len(all)
    BY <1>6 DEF LiveIds
  <2>2. PICK k \in 1 .. n : p[k] = i
    BY <1>2, <2>1
  <2> QED
    BY <1>2, <1>7, <2>2
<1>10. Apart(Sorted)
  <2> SUFFICES ASSUME NEW i \in LiveIds(Sorted), NEW j \in LiveIds(Sorted), Sorted[i].id = Sorted[j].id
               PROVE  i = j
    BY DEF Apart
  <2>1. p[i] = p[j]
    BY <1>4, <1>8 DEF Apart
  <2> QED
    BY <1>2, <1>8, <2>1
<1>11. \A i \in DOMAIN Sorted : Sorted[i].id <= calls
  BY <1>2, <1>5, <1>6
<1>12. \A i \in LiveIds(Sorted) :
         \/ \E j \in LiveIds(eventBuffer) : Sorted[i] = eventBuffer[j]
         \/ \E j \in LiveIds(scheduleQueue) : Sorted[i] = scheduleQueue[j]
  BY <1>3, <1>8
<1>13. \A j \in LiveIds(eventBuffer) : \E i \in LiveIds(Sorted) : Sorted[i] = eventBuffer[j]
  BY <1>3, <1>9
<1>14. \A j \in LiveIds(scheduleQueue) : \E i \in LiveIds(Sorted) : Sorted[i] = scheduleQueue[j]
  <2> TAKE j \in LiveIds(scheduleQueue)
  <2>1. PICK i \in LiveIds(all) : all[i] = scheduleQueue[j]
    BY <1>3
  <2> QED
    BY <1>9, <2>1
<1> QED
  BY <1>2, <1>10, <1>11, <1>12, <1>13, <1>14

-----------------------------------------------------------------------------
(* Every step keeps one entry per call *)

LEMMA InitOneEntry == Init => OneEntryPerCall
BY DEF Init, OneEntryPerCall, Apart, LiveIds, IssuedIn

\* A new entry is the first one of its call.
LEMMA EnqueueOneEntry ==
  ASSUME TypeOK, OneEntryPerCall, NEW e \in Event, e.id = calls + 1, NEW caller,
         Enqueue(e, caller)
  PROVE  OneEntryPerCall'
<1>1. CASE Panic
  BY <1>1 DEF Panic, OneEntryPerCall, Apart, LiveIds, IssuedIn
<1>2. CASE ~Panic
  <2> DEFINE n == Len(scheduleQueue)
  <2>1. /\ scheduleQueue' = Append(scheduleQueue, e) /\ calls' = calls + 1
        /\ UNCHANGED <<eventBuffer, timeoutQueue>>
    BY <1>2 DEF Enqueue
  <2>2. calls \in Nat
    BY BoundAssumption DEF TypeOK
  <2>3. /\ n \in Nat /\ DOMAIN scheduleQueue = 1 .. n /\ DOMAIN scheduleQueue' = 1 .. n + 1
        /\ scheduleQueue'[n + 1] = e
        /\ \A i \in 1 .. n : scheduleQueue'[i] = scheduleQueue[i]
    BY <2>1 DEF TypeOK
  <2>4. /\ \A i \in DOMAIN eventBuffer : eventBuffer[i].id \in Nat /\ eventBuffer[i].id <= calls
        /\ \A i \in 1 .. n : scheduleQueue[i].id \in Nat /\ scheduleQueue[i].id <= calls
        /\ \A i \in DOMAIN timeoutQueue : timeoutQueue[i].id \in Nat /\ timeoutQueue[i].id <= calls
    <3>1. /\ \A i \in DOMAIN eventBuffer : eventBuffer[i] \in Event
          /\ \A i \in DOMAIN scheduleQueue : scheduleQueue[i] \in Event
          /\ \A i \in DOMAIN timeoutQueue : timeoutQueue[i] \in Event
      BY DEF TypeOK
    <3> QED
      BY <2>3, <3>1, EventIds DEF OneEntryPerCall, IssuedIn
  <2>5. \A i \in LiveIds(scheduleQueue') :
          \/ i \in LiveIds(scheduleQueue) /\ i \in 1 .. n /\ scheduleQueue'[i] = scheduleQueue[i]
          \/ i = n + 1 /\ scheduleQueue'[i] = e
    BY <2>3 DEF LiveIds
  <2> HIDE DEF n
  <2>6. \A i \in DOMAIN eventBuffer : eventBuffer[i].id # e.id
    BY <2>2, <2>4
  <2>7. \A i \in DOMAIN timeoutQueue : timeoutQueue[i].id # e.id
    BY <2>2, <2>4
  <2>8. \A i \in 1 .. n : scheduleQueue[i].id # e.id
    BY <2>2, <2>4
  <2>9. Apart(eventBuffer)' /\ IssuedIn(eventBuffer)' /\ IssuedIn(timeoutQueue)'
    BY <2>1, <2>2, <2>4 DEF OneEntryPerCall, Apart, IssuedIn, LiveIds
  <2>10. IssuedIn(scheduleQueue)'
    <3> SUFFICES ASSUME NEW i \in DOMAIN scheduleQueue' PROVE scheduleQueue'[i].id <= calls'
      BY DEF IssuedIn
    <3>1. i \in 1 .. n \/ i = n + 1
      BY <2>3
    <3> QED
      BY <2>1, <2>2, <2>3, <2>4, <3>1
  <2>11. Apart(scheduleQueue)'
    <3> SUFFICES ASSUME NEW i \in LiveIds(scheduleQueue'), NEW j \in LiveIds(scheduleQueue'),
                        scheduleQueue'[i].id = scheduleQueue'[j].id
                 PROVE  i = j
      BY DEF Apart, LiveIds
    <3> QED
      BY <2>5, <2>8 DEF OneEntryPerCall, Apart
  <2>12. \A i \in LiveIds(eventBuffer), j \in LiveIds(scheduleQueue') :
           eventBuffer[i].id # scheduleQueue'[j].id
    BY <2>5, <2>6 DEF OneEntryPerCall, LiveIds
  <2>13. \A i \in DOMAIN timeoutQueue, j \in LiveIds(scheduleQueue') :
           timeoutQueue[i].id = scheduleQueue'[j].id =>
             timeoutQueue[i].isRoutine /\ scheduleQueue'[j].isRoutine
    BY <2>5, <2>7 DEF OneEntryPerCall
  <2>14. /\ \A i, j \in DOMAIN timeoutQueue : timeoutQueue[i].id = timeoutQueue[j].id => i = j
         /\ \A i \in DOMAIN timeoutQueue, j \in LiveIds(eventBuffer) :
              timeoutQueue[i].id = eventBuffer[j].id =>
                timeoutQueue[i].isRoutine /\ eventBuffer[j].isRoutine
    BY DEF OneEntryPerCall
  <2>15. LiveIds(eventBuffer)' = LiveIds(eventBuffer) /\ LiveIds(scheduleQueue)' = LiveIds(scheduleQueue')
    BY <2>1 DEF LiveIds, Valid
  <2> QED
    BY <2>1, <2>9, <2>10, <2>11, <2>12, <2>13, <2>14, <2>15 DEF OneEntryPerCall
<1> QED
  BY <1>1, <1>2

\* unschedule() leaves the other entries as they are.
LEMMA UnscheduleOneEntry ==
  ASSUME TypeOK, OneEntryPerCall, NEW iv, NEW cb, NEW routine, Unschedule(iv, cb, routine)
  PROVE  OneEntryPerCall'
<1>1. /\ eventBuffer' = Invalidated(eventBuffer, iv, cb, routine)
      /\ scheduleQueue' = Invalidated(scheduleQueue, iv, cb, routine)
      /\ UNCHANGED <<timeoutQueue, calls>>
      /\ eventBuffer \in Seq(Event) /\ scheduleQueue \in Seq(Event)
  BY DEF Unschedule, TypeOK
<1>2. ASSUME NEW s \in Seq(Event), NEW r, r = Invalidated(s, iv, cb, routine)
      PROVE  /\ DOMAIN r = DOMAIN s
             /\ \A i \in DOMAIN s : r[i].id = s[i].id
             /\ \A i \in LiveIds(r) : i \in LiveIds(s) /\ r[i] = s[i]
  <2>1. /\ r \in Seq(Event) /\ Len(r) = Len(s)
        /\ \A i \in DOMAIN s : r[i].id = s[i].id /\ (~Valid(r[i]) \/ r[i] = s[i])
    BY <1>2, InvalidatedProperties
  <2>2. DOMAIN r = DOMAIN s
    BY <2>1
  <2> QED
    BY <2>1, <2>2 DEF LiveIds
<1>3. /\ DOMAIN eventBuffer' = DOMAIN eventBuffer
      /\ \A i \in DOMAIN eventBuffer : eventBuffer'[i].id = eventBuffer[i].id
      /\ \A i \in LiveIds(eventBuffer') : i \in LiveIds(eventBuffer) /\ eventBuffer'[i] = eventBuffer[i]
  BY <1>1, <1>2
<1>4. /\ DOMAIN scheduleQueue' = DOMAIN scheduleQueue
      /\ \A i \in DOMAIN scheduleQueue : scheduleQueue'[i].id = scheduleQueue[i].id
      /\ \A i \in LiveIds(scheduleQueue') :
           i \in LiveIds(scheduleQueue) /\ scheduleQueue'[i] = scheduleQueue[i]
  BY <1>1, <1>2
<1>5. LiveIds(eventBuffer)' = LiveIds(eventBuffer') /\ LiveIds(scheduleQueue)' = LiveIds(scheduleQueue')
  BY DEF LiveIds, Valid
<1>6. IssuedIn(eventBuffer)' /\ IssuedIn(scheduleQueue)' /\ IssuedIn(timeoutQueue)'
  BY <1>1, <1>3, <1>4 DEF OneEntryPerCall, IssuedIn
<1>7. Apart(eventBuffer)' /\ Apart(scheduleQueue)'
  BY <1>3, <1>4, <1>5 DEF OneEntryPerCall, Apart
<1> QED
  BY <1>1, <1>3, <1>4, <1>5, <1>6, <1>7 DEF OneEntryPerCall

\* A pass parts the live entries between the buffer and the batch, and of the
\* batch queues only the routines again.
LEMMA ProcessOneEntry ==
  ASSUME IInv, OneEntryPerCall, Process
  PROVE  OneEntryPerCall'
<1> DEFINE s == Sorted
           m == Len(timeoutQueue')
           n == Len(scheduleQueue')
           l == Len(eventBuffer')
<1>1. PICK f : Lists(f, m, Fired) /\ \A k \in 1 .. m : timeoutQueue'[k] = MarkUnset(s[f[k]])
  BY ProcessShape
<1>2. PICK g : Lists(g, n, RoutinesFired) /\ \A k \in 1 .. n : scheduleQueue'[k] = Rearmed(s[g[k]])
  BY ProcessShape
<1>3. PICK h : Lists(h, l, Left) /\ \A k \in 1 .. l : eventBuffer'[k] = s[h[k]]
  BY ProcessShape
<1>4. /\ s \in Seq(Event) /\ Apart(s) /\ \A i \in DOMAIN s : s[i].id <= calls
      /\ Fired \subseteq LiveIds(s) /\ calls' = calls
      /\ \A i \in LiveIds(s) : i \in DOMAIN s
  BY SortedLive, ProcessShape DEF IInv, Process, LiveIds
<1>5. \A i \in DOMAIN s : s[i] \in Event
  BY <1>4
<1>6. DOMAIN timeoutQueue' = 1 .. m /\ DOMAIN scheduleQueue' = 1 .. n /\ DOMAIN eventBuffer' = 1 .. l
  BY ProcessEffect
<1> HIDE DEF s, m, n, l
<1>7. \A k \in 1 .. m : /\ f[k] \in Fired /\ f[k] \in LiveIds(s) /\ f[k] \in DOMAIN s
                       /\ timeoutQueue'[k].id = s[f[k]].id
                       /\ timeoutQueue'[k].isRoutine = s[f[k]].isRoutine
  <2> TAKE k \in 1 .. m
  <2>1. f[k] \in Fired /\ f[k] \in DOMAIN s /\ s[f[k]] \in Event
    BY <1>1, <1>4, <1>5 DEF Lists
  <2> QED
    BY <1>1, <1>4, <2>1, EventIds
<1>8. \A k \in 1 .. n : /\ g[k] \in Fired /\ g[k] \in LiveIds(s) /\ g[k] \in DOMAIN s
                       /\ s[g[k]].isRoutine
                       /\ scheduleQueue'[k].id = s[g[k]].id
                       /\ scheduleQueue'[k].isRoutine = s[g[k]].isRoutine
  <2> TAKE k \in 1 .. n
  <2>1. g[k] \in Fired /\ s[g[k]].isRoutine /\ g[k] \in DOMAIN s /\ s[g[k]] \in Event
    BY <1>2, <1>4, <1>5 DEF Lists, RoutinesFired, s
  <2> QED
    BY <1>2, <1>4, <2>1, RearmedIds
<1>9. \A k \in 1 .. l : /\ h[k] \notin Fired /\ h[k] \in LiveIds(s) /\ h[k] \in DOMAIN s
                       /\ eventBuffer'[k].id = s[h[k]].id
  BY <1>3, <1>4 DEF Lists, Left, s
<1>10. /\ \A i, j \in 1 .. m : f[i] = f[j] => i = j
       /\ \A i, j \in 1 .. n : g[i] = g[j] => i = j
       /\ \A i, j \in 1 .. l : h[i] = h[j] => i = j
  <2>1. \A i \in DOMAIN s : i \in Nat
    BY <1>4
  <2>2. ASSUME NEW F, NEW p \in Nat, NEW I, Lists(F, p, I), \A k \in 1 .. p : F[k] \in DOMAIN s
        PROVE  \A i, j \in 1 .. p : F[i] = F[j] => i = j
    <3> SUFFICES ASSUME NEW i \in 1 .. p, NEW j \in 1 .. p, i # j PROVE F[i] # F[j]
      OBVIOUS
    <3>1. i < j \/ j < i
      OBVIOUS
    <3>2. F[i] < F[j] \/ F[j] < F[i]
      BY <2>2, <3>1 DEF Lists
    <3>3. F[i] \in Nat /\ F[j] \in Nat
      BY <2>1, <2>2
    <3> QED
      BY <3>2, <3>3
  <2>3. m \in Nat /\ n \in Nat /\ l \in Nat
    BY ProcessEffect DEF m, n, l
  <2>4. \A i, j \in 1 .. m : f[i] = f[j] => i = j
    BY <1>1, <1>7, <2>2, <2>3
  <2>5. \A i, j \in 1 .. n : g[i] = g[j] => i = j
    BY <1>2, <1>8, <2>2, <2>3
  <2>6. \A i, j \in 1 .. l : h[i] = h[j] => i = j
    BY <1>3, <1>9, <2>2, <2>3
  <2> QED
    BY <2>4, <2>5, <2>6
<1>11. \A i, j \in LiveIds(s) : s[i].id = s[j].id => i = j
  BY <1>4 DEF Apart
<1>12. IssuedIn(eventBuffer)' /\ IssuedIn(scheduleQueue)' /\ IssuedIn(timeoutQueue)'
  BY <1>4, <1>6, <1>7, <1>8, <1>9 DEF IssuedIn
<1>13. \A k \in LiveIds(scheduleQueue)' : k \in 1 .. n
  BY <1>6 DEF LiveIds
<1>14. \A k \in LiveIds(eventBuffer)' : k \in 1 .. l
  BY <1>6 DEF LiveIds
<1>15. Apart(eventBuffer)' /\ Apart(scheduleQueue)'
  <2>1. \A i, j \in LiveIds(eventBuffer)' : eventBuffer'[i].id = eventBuffer'[j].id => i = j
    BY <1>9, <1>10, <1>11, <1>14
  <2>2. \A i, j \in LiveIds(scheduleQueue)' : scheduleQueue'[i].id = scheduleQueue'[j].id => i = j
    BY <1>8, <1>10, <1>11, <1>13
  <2> QED
    BY <2>1, <2>2 DEF Apart
<1>16. \A i \in LiveIds(eventBuffer)', j \in LiveIds(scheduleQueue)' :
         eventBuffer'[i].id # scheduleQueue'[j].id
  BY <1>8, <1>9, <1>11, <1>13, <1>14
<1>17. \A i, j \in DOMAIN timeoutQueue' : timeoutQueue'[i].id = timeoutQueue'[j].id => i = j
  BY <1>6, <1>7, <1>10, <1>11
<1>18. \A i \in DOMAIN timeoutQueue', j \in LiveIds(eventBuffer)' :
         timeoutQueue'[i].id # eventBuffer'[j].id
  BY <1>6, <1>7, <1>9, <1>11, <1>14
<1>19. \A i \in DOMAIN timeoutQueue', j \in LiveIds(scheduleQueue)' :
         timeoutQueue'[i].id = scheduleQueue'[j].id =>
           timeoutQueue'[i].isRoutine /\ scheduleQueue'[j].isRoutine
  <2> TAKE i \in DOMAIN timeoutQueue', j \in LiveIds(scheduleQueue)'
  <2>1. ASSUME timeoutQueue'[i].id = scheduleQueue'[j].id
        PROVE  timeoutQueue'[i].isRoutine /\ scheduleQueue'[j].isRoutine
    <3>1. f[i] = g[j]
      BY <1>6, <1>7, <1>8, <1>11, <1>13, <2>1
    <3> QED
      BY <1>6, <1>7, <1>8, <1>13, <3>1
  <2> QED
    BY <2>1
<1> QED
  BY <1>12, <1>15, <1>16, <1>17, <1>18, <1>19 DEF OneEntryPerCall

LEMMA NextOneEntry == IInv /\ OneEntryPerCall /\ [Next]_vars => OneEntryPerCall'
<1> SUFFICES ASSUME IInv, OneEntryPerCall, [Next]_vars PROVE OneEntryPerCall'
  OBVIOUS
<1>1. CASE Schedule
  <2>1. PICK iv \in Interval, cb \in Callback, routine \in BOOLEAN :
          \/ \E half \in Half : ScheduleBegin(iv, cb, routine, half)
          \/ ScheduleInCallback(iv, cb, routine)
    BY <1>1 DEF Schedule
  <2>2. CASE \E half \in Half : ScheduleBegin(iv, cb, routine, half)
    BY <2>2 DEF ScheduleBegin, OneEntryPerCall, Apart, LiveIds, IssuedIn
  <2>3. CASE ScheduleInCallback(iv, cb, routine)
    <3> DEFINE c == [intervalTick |-> iv, callback |-> cb, isRoutine |-> routine]
               e == NewEvent(clock, c, clock, FALSE)
    <3>1. e \in Event /\ Enqueue(e, "callback")
      BY <2>3, CallbackEventIsGood
    <3>2. e.id = calls + 1
      BY DEF NewEvent
    <3> HIDE DEF e
    <3> QED
      BY <3>1, <3>2, EnqueueOneEntry DEF IInv
  <2> QED
    BY <2>1, <2>2, <2>3
<1>2. CASE ScheduleEnd
  <2> DEFINE e == NewEvent(Stamp, call, call.begun, clock.cycle # call.begun.cycle)
  <2>1. e \in Event /\ Enqueue(e, "app")
    BY <1>2, CallEventIsGood
  <2>2. e.id = calls + 1
    BY DEF NewEvent
  <2> HIDE DEF e
  <2> QED
    BY <2>1, <2>2, EnqueueOneEntry DEF IInv
<1>3. CASE Cancel
  <2>1. PICK iv \in Interval, cb \in Callback, routine \in BOOLEAN : Unschedule(iv, cb, routine)
    BY <1>3 DEF Cancel
  <2> QED
    BY <2>1, UnscheduleOneEntry DEF IInv
<1>4. CASE Process
  BY <1>4, ProcessOneEntry
<1>5. CASE EndBatch
  <2>1. timeoutQueue' = <<>> /\ UNCHANGED <<eventBuffer, scheduleQueue, calls>>
    BY <1>5 DEF EndBatch
  <2> QED
    BY <2>1 DEF OneEntryPerCall, Apart, LiveIds, IssuedIn
<1>6. CASE \/ TimerInterrupt \/ OtherInterrupt \/ InvokeCallback \/ SkipNullCallback \/ CallbackReturns
           \/ MoveOverflows \/ UNCHANGED vars
  <2>1. UNCHANGED <<eventBuffer, scheduleQueue, timeoutQueue, calls>>
    BY <1>6 DEF TimerInterrupt, OtherInterrupt, InvokeCallback, SkipNullCallback, CallbackReturns,
                MoveOverflows, Panic, vars
  <2> QED
    BY <2>1 DEF OneEntryPerCall, Apart, LiveIds, IssuedIn
<1> QED
  BY <1>1, <1>2, <1>3, <1>4, <1>5, <1>6 DEF Next, Interrupt, KernelProcess, ServeExpired

-----------------------------------------------------------------------------
(* The contract, step by step *)

\* The cycle is what is left of a count when the words are taken out.
LEMMA CycleOfTicks ==
  ASSUME NEW t \in Tick
  PROVE  Ticks(t) \div Word = t.cycle
<1> DEFINE n == Ticks(t)
           q == n \div Word
           r == n % Word
           c == t.cycle
           k == t.tick
<1>1. /\ Word \in Nat /\ Word > 0 /\ c \in Nat /\ k \in 0 .. Word - 1
      /\ n = c * Word + k /\ c * Word \in Nat
  BY WordAssumption DEF Tick, U32, U32Max, Ticks
<1>2. n \in Nat
  BY <1>1
<1> HIDE DEF n, c, k
<1>3. q \in Nat /\ r \in 0 .. Word - 1 /\ n = Word * q + r
  BY <1>1, <1>2
<1> HIDE DEF q, r
<1>4. ~(c < q)
  <2> SUFFICES ASSUME c < q PROVE FALSE
    OBVIOUS
  <2>1. PICK d \in Nat : q = c + 1 + d
    BY <1>1, <1>3
  <2>2. Word * q = c * Word + Word + Word * d /\ Word * d \in Nat
    BY <1>1, <2>1
  <2> QED
    BY <1>1, <1>3, <2>2
<1>5. ~(q < c)
  <2> SUFFICES ASSUME q < c PROVE FALSE
    OBVIOUS
  <2>1. PICK d \in Nat : c = q + 1 + d
    BY <1>1, <1>3
  <2>2. c * Word = Word * q + Word + Word * d /\ Word * d \in Nat /\ Word * q \in Nat
    BY <1>1, <1>3, <2>1
  <2> QED
    BY <1>1, <1>3, <2>2
<1> QED
  BY <1>1, <1>3, <1>4, <1>5 DEF n, q, c

\* Outside of a batch nothing is being served, in a callback something is.
LEMMA FiringIdle ==
  ASSUME TypeOK
  PROVE  /\ pc \in {"app", "schedule", "hlt"} => Firing = <<>>
         /\ Firing \in Seq(Nat) /\ Len(Firing) = Len(timeoutQueue) - running + 1
         /\ pc = "callback" => Firing # <<>>
<1>1. timeoutQueue \in Seq(Event) /\ Len(timeoutQueue) \in Nat /\ running \in 1 .. Len(timeoutQueue) + 1
  BY DEF TypeOK
<1> DEFINE n == Len(timeoutQueue) - running + 1
<1>2. n \in Nat
  BY <1>1
<1>3. \A k \in 1 .. n : timeoutQueue[running + k - 1].id \in Nat
  <2> TAKE k \in 1 .. n
  <2>1. running + k - 1 \in 1 .. Len(timeoutQueue)
    BY <1>1
  <2>2. timeoutQueue[running + k - 1] \in Event
    BY <1>1, <2>1
  <2> QED
    BY <2>2, EventIds
<1>4. Firing = [k \in 1 .. n |-> timeoutQueue[running + k - 1].id]
  BY DEF Firing
<1> HIDE DEF n
<1>5. Firing \in Seq(Nat) /\ Len(Firing) = n
  BY <1>2, <1>3, <1>4
<1>6. pc \in {"app", "schedule", "hlt"} => n = 0
  BY <1>1 DEF TypeOK, n
<1>7. pc = "callback" => n # 0
  BY <1>1 DEF TypeOK, n
<1> QED
  BY <1>5, <1>6, <1>7 DEF n

\* The requests that the pass finds pending.
LEMMA PendingSorted ==
  ASSUME TypeOK, OneEntryPerCall
  PROVE  Pending = PendingOf(Sorted)
<1>1. \A r \in Pending : r \in PendingOf(Sorted)
  BY SortedLive DEF Pending, PendingOf
<1>2. \A r \in PendingOf(Sorted) : r \in Pending
  BY SortedLive DEF Pending, PendingOf
<1> QED
  BY <1>1, <1>2

\* What an entry that is to fire stands for.
LEMMA RequestType ==
  ASSUME NEW e \in Event, Valid(e)
  PROVE  /\ RequestOf(e) \in Service!Request
         /\ RequestOf(e).id = e.id /\ RequestOf(e).callback = e.callback
         /\ RequestOf(e).interval = e.intervalTick /\ RequestOf(e).isRoutine = e.isRoutine
         /\ RequestOf(e).due = Ticks(e.timeoutTick)
<1> DEFINE t == e.timeoutTick
<1>1. /\ t \in Tick /\ t.cycle # U32Max /\ e.id \in 1 .. MaxCalls /\ e.callback \in Callback
      /\ e.intervalTick \in Interval /\ e.isRoutine \in BOOLEAN
  BY DEF Event, Valid
<1> HIDE DEF t
<1>2. /\ t.cycle \in Nat /\ t.cycle + 1 <= U32Max /\ t.tick \in Nat /\ t.tick < Word
      /\ U32Max \in Nat /\ Word \in Nat /\ Ticks(t) = t.cycle * Word + t.tick
  BY <1>1, WordAssumption DEF Tick, U32, U32Max, Ticks
<1>3. PICK d \in Nat : U32Max = t.cycle + 1 + d
  <2>1. U32Max - t.cycle - 1 \in Nat /\ U32Max = t.cycle + 1 + (U32Max - t.cycle - 1)
    BY <1>2
  <2> QED
    BY <2>1
<1>4. /\ U32Max * Word = t.cycle * Word + Word + d * Word
      /\ d * Word \in Nat /\ t.cycle * Word \in Nat /\ U32Max * Word \in Nat
  BY <1>2, <1>3
<1>5. Ticks(t) \in 0 .. U32Max * Word
  BY <1>2, <1>4
<1>6. RequestOf(e) = [id |-> e.id, callback |-> e.callback, interval |-> e.intervalTick,
                      isRoutine |-> e.isRoutine, due |-> Ticks(t)]
  BY DEF RequestOf, t
<1>7. RequestOf(e) \in Service!Request
  BY <1>1, <1>5, <1>6 DEF Service!Request
<1> QED
  BY <1>6, <1>7 DEF t

\* The id of a pending request is that of a call that was made.
LEMMA PendingIssued ==
  ASSUME TypeOK, OneEntryPerCall, NEW q \in Pending
  PROVE  q.id \in Nat /\ q.id <= calls
<1>1. \/ \E i \in LiveIds(eventBuffer) : q = RequestOf(eventBuffer[i])
      \/ \E i \in LiveIds(scheduleQueue) : q = RequestOf(scheduleQueue[i])
  BY DEF Pending, PendingOf
<1>2. ASSUME NEW s \in Seq(Event), IssuedIn(s), NEW i \in LiveIds(s), q = RequestOf(s[i])
      PROVE  q.id \in Nat /\ q.id <= calls
  <2>1. i \in DOMAIN s /\ s[i] \in Event
    BY <1>2 DEF LiveIds
  <2>2. q.id = s[i].id
    BY <1>2 DEF RequestOf
  <2> QED
    BY <1>2, <2>1, <2>2, EventIds DEF IssuedIn
<1> QED
  BY <1>1, <1>2 DEF TypeOK, OneEntryPerCall

\* A call that finds room makes one new request pending.
LEMMA EnqueueAdds ==
  ASSUME TypeOK, OneEntryPerCall, NEW e \in Event, Valid(e), e.id = calls + 1,
         NEW caller, Enqueue(e, caller)
  PROVE  \/ Panic
         \/ /\ RequestOf(e) \in Service!Request
            /\ Service!Fresh(RequestOf(e))
            /\ Pending' = Pending \cup {RequestOf(e)}
            /\ UNCHANGED <<clock, timeoutQueue, running, call>>
            /\ pc' = caller
<1> SUFFICES ASSUME ~Panic
             PROVE  /\ RequestOf(e) \in Service!Request
                    /\ Service!Fresh(RequestOf(e))
                    /\ Pending' = Pending \cup {RequestOf(e)}
                    /\ UNCHANGED <<clock, timeoutQueue, running, call>>
                    /\ pc' = caller
  OBVIOUS
<1>1. /\ scheduleQueue' = Append(scheduleQueue, e) /\ eventBuffer' = eventBuffer
      /\ UNCHANGED <<clock, timeoutQueue, running, call>> /\ pc' = caller
  BY DEF Enqueue
<1>2. RequestOf(e) \in Service!Request /\ RequestOf(e).id = calls + 1
  BY RequestType
<1>3. calls \in Nat
  BY BoundAssumption DEF TypeOK
<1>4. \A q \in Pending : q.id # RequestOf(e).id
  BY <1>2, <1>3, PendingIssued
<1>5. PendingOf(scheduleQueue)' = PendingOf(scheduleQueue) \cup {RequestOf(e)}
  <2> DEFINE n == Len(scheduleQueue)
             t == scheduleQueue'
  <2>1. /\ n \in Nat /\ DOMAIN scheduleQueue = 1 .. n /\ DOMAIN t = 1 .. n + 1 /\ t[n + 1] = e
        /\ \A i \in 1 .. n : t[i] = scheduleQueue[i]
    BY <1>1 DEF TypeOK
  <2>2. PendingOf(scheduleQueue)' = PendingOf(t)
    BY DEF PendingOf, RequestOf, LiveIds, Valid, Ticks
  <2> HIDE DEF n, t
  <2>3. /\ \A i : i \in LiveIds(t) <=> i \in 1 .. n + 1 /\ Valid(t[i])
        /\ \A i : i \in LiveIds(scheduleQueue) <=> i \in 1 .. n /\ Valid(scheduleQueue[i])
    BY <2>1 DEF LiveIds
  <2>4. \A i \in LiveIds(t) : (i \in LiveIds(scheduleQueue) /\ t[i] = scheduleQueue[i]) \/ t[i] = e
    <3> TAKE i \in LiveIds(t)
    <3>1. i \in 1 .. n \/ i = n + 1
      BY <2>1, <2>3
    <3> QED
      BY <2>1, <2>3, <3>1
  <2>5. n + 1 \in LiveIds(t)
    BY <2>1, <2>3
  <2>6. \A i \in LiveIds(scheduleQueue) : i \in LiveIds(t) /\ t[i] = scheduleQueue[i]
    <3> TAKE i \in LiveIds(scheduleQueue)
    <3>1. i \in 1 .. n /\ i \in 1 .. n + 1
      BY <2>1, <2>3
    <3> QED
      BY <2>1, <2>3, <3>1
  <2>7. \A r \in PendingOf(t) : r \in PendingOf(scheduleQueue) \cup {RequestOf(e)}
    BY <2>4 DEF PendingOf
  <2>8. \A r \in PendingOf(scheduleQueue) \cup {RequestOf(e)} : r \in PendingOf(t)
    BY <2>1, <2>5, <2>6 DEF PendingOf
  <2> QED
    BY <2>2, <2>7, <2>8
<1>6. PendingOf(eventBuffer)' = PendingOf(eventBuffer)
  BY <1>1 DEF PendingOf, RequestOf, LiveIds, Valid, Ticks
<1>7. Pending' = Pending \cup {RequestOf(e)}
  BY <1>5, <1>6 DEF Pending
<1>8. Service!Fresh(RequestOf(e))
  BY <1>4 DEF Service!Fresh
<1> QED
  BY <1>1, <1>2, <1>7, <1>8

\* Nothing of the contract sees what these steps do.
LEMMA MappedAlone ==
  ASSUME UNCHANGED <<clock, eventBuffer, timeoutQueue, scheduleQueue, running, call>>
  PROVE  /\ Ticks(clock)' = Ticks(clock) /\ Pending' = Pending /\ Firing' = Firing
         /\ pc' # "schedule" => Adding' = NoRequest
         /\ pc # "schedule" => Adding = NoRequest
         /\ (pc' = "schedule" <=> pc = "schedule") => Adding' = Adding
BY DEF Pending, PendingOf, RequestOf, LiveIds, Valid, Ticks, Firing, Adding

LEMMA InitMaps == Init => Service!Init
<1> SUFFICES ASSUME Init PROVE Service!Init
  OBVIOUS
<1>1. Ticks(clock) = Start
  BY BoundAssumption, WordAssumption DEF Init, Ticks, U32
<1>2. Pending = {}
  BY DEF Init, Pending, PendingOf, LiveIds
<1>3. Firing = <<>>
  <2>1. TypeOK /\ pc = "app"
    BY InitInv DEF Init, IInv
  <2> QED
    BY <2>1, FiringIdle
<1>4. Adding = NoRequest
  BY DEF Init, Adding
<1> QED
  BY <1>1, <1>2, <1>3, <1>4 DEF Service!Init

LEMMA TimerInterruptMaps == IInv /\ TimerInterrupt => Service!Tick
<1> SUFFICES ASSUME IInv, TimerInterrupt PROVE Service!Tick
  OBVIOUS
<1>1. Firing = <<>>
  BY FiringIdle DEF IInv, TimerInterrupt, InterruptsEnabled
<1>2. /\ clock' = AddTicks(clock, 1) /\ (pc' = "schedule" <=> pc = "schedule")
      /\ UNCHANGED <<eventBuffer, timeoutQueue, scheduleQueue, running, call>>
  BY DEF TimerInterrupt
<1>3. Ticks(clock)' = Ticks(clock) + 1
  <2>1. 1 \in U32 /\ clock \in Tick /\ clock.cycle < U32Max
    BY ClockBelowMark, WordAssumption DEF IInv, TypeOK, U32, U32Max
  <2>2. Ticks(AddTicks(clock, 1)) = Ticks(clock) + 1
    BY <2>1, AddTicksCounts
  <2> QED
    BY <1>2, <2>2 DEF Ticks
<1>4. Pending' = Pending /\ Firing' = Firing /\ Adding' = Adding
  BY <1>2 DEF Pending, PendingOf, RequestOf, LiveIds, Valid, Ticks, Firing, Adding
<1> QED
  BY <1>1, <1>3, <1>4 DEF Service!Tick

LEMMA ScheduleBeginMaps ==
  ASSUME IInv, NEW iv \in Interval, NEW cb \in Callback, NEW routine \in BOOLEAN,
         NEW half \in Half, ScheduleBegin(iv, cb, routine, half)
  PROVE  Service!BeginAdd
<1>1. Firing = <<>> /\ Adding = NoRequest
  BY FiringIdle DEF IInv, ScheduleBegin, Adding
<1>2. /\ pc' = "schedule" /\ call'.begun = clock
      /\ UNCHANGED <<clock, eventBuffer, timeoutQueue, scheduleQueue, running>>
  BY DEF ScheduleBegin
<1>3. Adding' = Ticks(clock) /\ Ticks(clock)' = Ticks(clock)
  BY <1>2 DEF Adding, Ticks
<1>4. Pending' = Pending /\ Firing' = Firing
  BY <1>2 DEF Pending, PendingOf, RequestOf, LiveIds, Valid, Ticks, Firing
<1> QED
  BY <1>1, <1>3, <1>4 DEF Service!BeginAdd

\* The reading is a moment of the call unless the tick counter wrapped in it.
LEMMA ScheduleEndMaps ==
  ASSUME IInv, OneEntryPerCall, ScheduleEnd
  PROVE  (\E r \in Service!Request : Service!EndAdd(r)) \/ Service!Abort
<1> DEFINE e == NewEvent(Stamp, call, call.begun, clock.cycle # call.begun.cycle)
           b == call.begun
           iv == call.intervalTick
<1>1. e \in Event /\ Valid(e) /\ Enqueue(e, "app") /\ pc = "schedule"
  BY CallEventIsGood
<1>2. /\ b \in Tick /\ clock \in Tick /\ iv \in Interval /\ TypeOK
      /\ Ticks(b) <= Ticks(clock) /\ Ticks(clock) <= Horizon
      /\ call.read = IF call.half = "tick" THEN b.tick ELSE b.cycle
  BY <1>1 DEF IInv, TypeOK, HalfRead, Call
<1>3. e.id = calls + 1 /\ e.timeoutTick = AddTicks(Stamp, iv) /\ e.intervalTick = iv
  BY DEF NewEvent
<1>4. Ticks(e.timeoutTick) = Ticks(Stamp) + iv
  <2>1. Stamp \in Tick /\ Stamp.cycle < U32Max /\ Ticks(Stamp) < Horizon + Word
    BY <1>1, StampIsNear DEF Stamp
  <2> QED
    BY <1>2, <1>3, <2>1, AddIntervalValid
<1>5. Adding = Ticks(b) /\ Ticks(b) \in Nat /\ Adding # NoRequest
  BY <1>1, <1>2, TicksType, NoRequestAssumption DEF Adding
<1> HIDE DEF e, b, iv
<1>6. CASE Panic
  <2>1. /\ UNCHANGED <<clock, eventBuffer, timeoutQueue, scheduleQueue, running, call>>
        /\ pc' = "panic"
    BY <1>6 DEF Panic
  <2> QED
    BY <1>5, <2>1, MappedAlone DEF Service!Abort
<1>7. CASE ~Panic
  <2> DEFINE r == RequestOf(e)
  <2>1. /\ r \in Service!Request /\ Service!Fresh(r) /\ Pending' = Pending \cup {r}
        /\ UNCHANGED <<clock, timeoutQueue, running, call>> /\ pc' = "app"
    BY <1>1, <1>2, <1>3, <1>7, EnqueueAdds
  <2>2. r.due = Ticks(Stamp) + iv /\ r.interval = iv
    BY <1>1, <1>3, <1>4, RequestType
  <2> HIDE DEF r
  <2>3. ASSUME Ticks(b) \div Word = Ticks(clock) \div Word
        PROVE  Ticks(Stamp) \in Ticks(b) .. Ticks(clock)
    <3>1. b.cycle = clock.cycle
      BY <1>2, <2>3, CycleOfTicks
    <3>2. b = [tick |-> b.tick, cycle |-> b.cycle] /\ clock = [tick |-> clock.tick, cycle |-> clock.cycle]
      BY <1>2 DEF Tick
    <3>3. Stamp = b \/ Stamp = clock
      BY <1>2, <3>1, <3>2 DEF Stamp
    <3>4. Ticks(b) \in Nat /\ Ticks(clock) \in Nat
      BY <1>2, TicksType
    <3> QED
      BY <1>2, <3>3, <3>4
  <2>4. iv \in Nat /\ Ticks(clock) \in Nat
    BY <1>2, IntervalType, TicksType
  <2>5. Adding \div Word = Ticks(clock) \div Word =>
          r.due \in Adding + r.interval .. Ticks(clock) + r.interval
    BY <1>5, <2>2, <2>3, <2>4
  <2>6. Adding' = NoRequest /\ Ticks(clock)' = Ticks(clock) /\ Firing' = Firing
    BY <2>1 DEF Adding, Ticks, Firing
  <2>7. Service!EndAdd(r)
    BY <1>5, <2>1, <2>5, <2>6 DEF Service!EndAdd
  <2> QED
    BY <2>1, <2>7
<1> QED
  BY <1>6, <1>7

LEMMA ScheduleInCallbackMaps ==
  ASSUME IInv, OneEntryPerCall, NEW iv \in Interval, NEW cb \in Callback, NEW routine \in BOOLEAN,
         ScheduleInCallback(iv, cb, routine)
  PROVE  (\E r \in Service!Request : Service!AddWhileServing(r)) \/ UNCHANGED Service!vars
<1> DEFINE c == [intervalTick |-> iv, callback |-> cb, isRoutine |-> routine]
           e == NewEvent(clock, c, clock, FALSE)
<1>1. e \in Event /\ Valid(e) /\ Enqueue(e, "callback") /\ pc = "callback"
  BY CallbackEventIsGood
<1>2. clock \in Tick /\ TypeOK /\ Firing # <<>> /\ Adding = NoRequest
  BY <1>1, FiringIdle DEF IInv, TypeOK, Adding
<1>3. e.id = calls + 1 /\ e.timeoutTick = AddTicks(clock, iv) /\ e.intervalTick = iv
  BY DEF NewEvent
<1>4. Ticks(e.timeoutTick) = Ticks(clock) + iv
  <2>1. clock.cycle < U32Max /\ Ticks(clock) < Horizon + Word
    BY <1>2, ClockBelowMark, BoundAssumption, WordAssumption DEF TypeOK
  <2> QED
    BY <1>2, <1>3, <2>1, AddIntervalValid
<1> HIDE DEF e
<1>5. CASE Panic
  <2>1. /\ UNCHANGED <<clock, eventBuffer, timeoutQueue, scheduleQueue, running, call>>
        /\ pc' = "panic"
    BY <1>5 DEF Panic
  <2> QED
    BY <1>1, <2>1, MappedAlone DEF Service!vars
<1>6. CASE ~Panic
  <2> DEFINE r == RequestOf(e)
  <2>1. /\ r \in Service!Request /\ Service!Fresh(r) /\ Pending' = Pending \cup {r}
        /\ UNCHANGED <<clock, timeoutQueue, running, call>> /\ pc' = "callback"
    BY <1>1, <1>2, <1>3, <1>6, EnqueueAdds
  <2>2. r.due = Ticks(clock) + iv /\ r.interval = iv
    BY <1>1, <1>3, <1>4, RequestType
  <2> HIDE DEF r
  <2>3. Adding' = Adding /\ Ticks(clock)' = Ticks(clock) /\ Firing' = Firing
    BY <1>1, <2>1 DEF Adding, Ticks, Firing
  <2>4. Service!AddWhileServing(r)
    BY <1>2, <2>1, <2>2, <2>3 DEF Service!AddWhileServing
  <2> QED
    BY <2>1, <2>4
<1> QED
  BY <1>5, <1>6

\* unschedule() withdraws the requests with the signature and no others.
LEMMA UnscheduleMaps ==
  ASSUME IInv, NEW iv, NEW cb, NEW routine, Unschedule(iv, cb, routine)
  PROVE  Service!Remove(iv, cb, routine)
<1> DEFINE Asked(r) == r.callback = cb /\ r.interval = iv /\ r.isRoutine = routine
<1>1. /\ eventBuffer' = Invalidated(eventBuffer, iv, cb, routine)
      /\ scheduleQueue' = Invalidated(scheduleQueue, iv, cb, routine)
      /\ UNCHANGED <<clock, timeoutQueue, running, pc>>
      /\ eventBuffer \in Seq(Event) /\ scheduleQueue \in Seq(Event) /\ pc \in {"app", "callback"}
  BY DEF Unschedule, IInv, TypeOK
<1>2. ASSUME NEW s \in Seq(Event), NEW t, t = Invalidated(s, iv, cb, routine)
      PROVE  PendingOf(t) = {r \in PendingOf(s) : ~Asked(r)}
  <2>1. /\ t \in Seq(Event) /\ Len(t) = Len(s)
        /\ \A i \in DOMAIN s :
             \/ Matches(s[i], iv, cb, routine) /\ ~Valid(t[i])
             \/ ~Matches(s[i], iv, cb, routine) /\ t[i] = s[i]
    BY <1>2, InvalidatedProperties
  <2>2. DOMAIN t = DOMAIN s
    BY <2>1
  <2>3. \A i \in LiveIds(t) : i \in LiveIds(s) /\ t[i] = s[i] /\ ~Matches(s[i], iv, cb, routine)
    BY <2>1, <2>2 DEF LiveIds
  <2>4. \A i \in LiveIds(s) : ~Matches(s[i], iv, cb, routine) => i \in LiveIds(t) /\ t[i] = s[i]
    BY <2>1, <2>2 DEF LiveIds
  <2>5. \A i : Asked(RequestOf(s[i])) <=> Matches(s[i], iv, cb, routine)
    BY DEF RequestOf, Matches
  <2> HIDE DEF Asked
  <2>6. \A r \in PendingOf(t) : r \in PendingOf(s) /\ ~Asked(r)
    BY <2>3, <2>5 DEF PendingOf
  <2>7. \A r \in PendingOf(s) : ~Asked(r) => r \in PendingOf(t)
    BY <2>4, <2>5 DEF PendingOf
  <2> QED
    BY <2>6, <2>7
<1>3. /\ PendingOf(eventBuffer') = {r \in PendingOf(eventBuffer) : ~Asked(r)}
      /\ PendingOf(scheduleQueue') = {r \in PendingOf(scheduleQueue) : ~Asked(r)}
  BY <1>1, <1>2
<1>4. Pending' = PendingOf(eventBuffer') \cup PendingOf(scheduleQueue')
  BY DEF Pending, PendingOf, RequestOf, LiveIds, Valid, Ticks
<1>5. Ticks(clock)' = Ticks(clock) /\ Firing' = Firing /\ Adding' = Adding /\ Adding = NoRequest
  BY <1>1 DEF Ticks, Firing, Adding
<1>6. Pending' = {r \in Pending : ~Asked(r)}
  <2> HIDE DEF Asked
  <2> QED
    BY <1>3, <1>4 DEF Pending
<1> QED
  BY <1>5, <1>6 DEF Service!Remove

\* The contract counts as the scheduler's proofs do.
LEMMA SameCardinality == \A S : Service!Cardinality(S) = Cardinality(S)
BY DEF Service!Cardinality, Cardinality

\* A pass takes a batch out of what is pending, in the order of the deadlines,
\* and makes its routines pending again.
LEMMA ProcessMaps ==
  ASSUME IInv, OneEntryPerCall, Process
  PROVE  (\E S \in SUBSET Pending : Service!Expire(S)) \/ UNCHANGED Service!vars
<1> DEFINE s == Sorted
           m == Len(timeoutQueue')
           n == Len(scheduleQueue')
           l == Len(eventBuffer')
           req(i) == RequestOf(s[i])
           S == {req(i) : i \in Fired}
<1>1. PICK f : Lists(f, m, Fired) /\ \A k \in 1 .. m : timeoutQueue'[k] = MarkUnset(s[f[k]])
  BY ProcessShape
<1>2. PICK g : Lists(g, n, RoutinesFired) /\ \A k \in 1 .. n : scheduleQueue'[k] = Rearmed(s[g[k]])
  BY ProcessShape
<1>3. PICK h : Lists(h, l, Left) /\ \A k \in 1 .. l : eventBuffer'[k] = s[h[k]]
  BY ProcessShape
<1>4. /\ TypeOK /\ s \in Seq(Event) /\ Fired \subseteq LiveIds(s)
      /\ \A i, j \in LiveIds(s) : s[i].id = s[j].id => i = j
      /\ \A i, j \in DOMAIN s : i < j /\ Valid(s[i]) /\ Valid(s[j])
           => ~GreaterThan(s[i].timeoutTick, s[j].timeoutTick)
  BY SortedLive, ProcessShape, SortedProperties DEF IInv, Process, Apart
<1>5. /\ Pending = {req(i) : i \in LiveIds(s)}
      /\ clock' = clock /\ pc = "app" /\ pc' \in {"batch", "hlt"} /\ running = 1 /\ running' = 1
      /\ clock \in Tick
  <2>1. Pending = PendingOf(s)
    BY <1>4, PendingSorted
  <2> QED
    BY <1>4, <2>1 DEF PendingOf, Process, TypeOK
<1>6. /\ \A i \in LiveIds(s) : i \in DOMAIN s /\ Valid(s[i]) /\ s[i] \in Event /\ i \in Nat
      /\ \A i \in DOMAIN s : \A j \in Fired : i <= j => i \in Fired
      /\ \A i \in Fired : ~GreaterThan(s[i].timeoutTick, clock)
  <2>1. \A i \in LiveIds(s) : i \in DOMAIN s /\ Valid(s[i]) /\ s[i] \in Event /\ i \in Nat
    BY <1>4 DEF LiveIds
  <2>2. Fired = {i \in DOMAIN s : \A j \in 1 .. i : ~GreaterThan(s[j].timeoutTick, clock)}
    BY DEF Fired, Expired
  <2>3. DOMAIN s = 1 .. Len(s) /\ Len(s) \in Nat
    BY <1>4
  <2> HIDE DEF s
  <2>4. ASSUME NEW i \in DOMAIN s, NEW j \in Fired, i <= j PROVE i \in Fired
    <3>1. \A k \in 1 .. i : k \in 1 .. j
      BY <2>2, <2>3, <2>4
    <3> QED
      BY <2>2, <3>1
  <2>5. ASSUME NEW i \in Fired PROVE ~GreaterThan(s[i].timeoutTick, clock)
    <3>1. i \in 1 .. i
      BY <2>2, <2>3
    <3> QED
      BY <2>2, <3>1
  <2> QED
    BY <2>1, <2>4, <2>5
<1>7. DOMAIN timeoutQueue' = 1 .. m /\ DOMAIN scheduleQueue' = 1 .. n /\ DOMAIN eventBuffer' = 1 .. l
      /\ m \in Nat /\ n \in Nat /\ l \in Nat
  BY ProcessEffect
<1>8. Firing' = [k \in 1 .. m |-> timeoutQueue'[k].id]
  <2>1. Firing' = [k \in 1 .. m - 1 + 1 |-> timeoutQueue'[1 + k - 1].id]
    BY <1>5 DEF Firing
  <2>2. m - 1 + 1 = m /\ \A k \in 1 .. m : 1 + k - 1 = k
    BY <1>7
  <2> HIDE DEF m
  <2> QED
    BY <2>1, <2>2
<1>9. Firing = <<>> /\ Adding = NoRequest /\ Adding' = NoRequest /\ Ticks(clock)' = Ticks(clock)
  BY <1>4, <1>5, FiringIdle DEF Adding, Ticks
<1>10. Pending' = PendingOf(eventBuffer') \cup PendingOf(scheduleQueue')
  BY DEF Pending, PendingOf, RequestOf, LiveIds, Valid, Ticks
<1> HIDE DEF s, m, n, l
<1>11. \A k \in 1 .. m : f[k] \in Fired /\ timeoutQueue'[k].id = s[f[k]].id
  <2> TAKE k \in 1 .. m
  <2>1. f[k] \in Fired /\ s[f[k]] \in Event
    BY <1>1, <1>4, <1>6 DEF Lists
  <2> QED
    BY <1>1, <2>1, EventIds
<1>12. \A i \in LiveIds(s) : /\ req(i).id = s[i].id /\ req(i).due = Ticks(s[i].timeoutTick)
                            /\ req(i).isRoutine = s[i].isRoutine
                            /\ req(i).interval = s[i].intervalTick
                            /\ req(i).due \in Nat /\ s[i].timeoutTick \in Tick
  <2> TAKE i \in LiveIds(s)
  <2>1. s[i] \in Event /\ s[i].timeoutTick \in Tick
    BY <1>6 DEF Event
  <2> QED
    BY <2>1, TicksType DEF RequestOf
<1>13. \A i, j \in LiveIds(s) : i < j => req(i).due <= req(j).due
  <2> TAKE i, j \in LiveIds(s)
  <2>1. ASSUME i < j PROVE ~(Ticks(s[i].timeoutTick) > Ticks(s[j].timeoutTick))
    BY <1>4, <1>6, <1>12, <2>1, GreaterThanOrders
  <2> QED
    BY <1>12, <2>1
<1>14. PendingOf(eventBuffer') = {req(i) : i \in Left}
  <2>1. LiveIds(eventBuffer') = 1 .. l
    BY <1>7, ProcessEffect DEF LiveIds
  <2>2. PendingOf(eventBuffer') = {RequestOf(eventBuffer'[k]) : k \in 1 .. l}
    BY <2>1 DEF PendingOf
  <2>3. \A k \in 1 .. l : h[k] \in Left /\ RequestOf(eventBuffer'[k]) = req(h[k])
    BY <1>3 DEF Lists
  <2>4. \A i \in Left : \E k \in 1 .. l : h[k] = i
    BY <1>3 DEF Lists
  <2> HIDE DEF req
  <2> QED
    BY <2>2, <2>3, <2>4
<1>15. Left = {i \in LiveIds(s) : i \notin Fired}
  BY DEF Left, s
<1>16. {req(i) : i \in Left} = Pending \ S
  <2>1. \A i, j \in LiveIds(s) : req(i) = req(j) => i = j
    BY <1>4, <1>12
  <2> HIDE DEF req
  <2> QED
    BY <1>4, <1>5, <1>15, <2>1
<1>17. PendingOf(scheduleQueue') = {[r EXCEPT !.due = @ + r.interval] : r \in {q \in S : q.isRoutine}}
  <2> DEFINE again(r) == [r EXCEPT !.due = @ + r.interval]
  <2>1. LiveIds(scheduleQueue') = 1 .. n
    BY <1>7, ProcessEffect DEF LiveIds
  <2>2. PendingOf(scheduleQueue') = {RequestOf(scheduleQueue'[k]) : k \in 1 .. n}
    BY <2>1 DEF PendingOf
  <2>3. ASSUME NEW i \in Fired PROVE RequestOf(Rearmed(s[i])) = again(req(i))
    <3> DEFINE e == s[i]
    <3>1. e \in Event /\ e.timeoutTick \in Tick /\ ~GreaterThan(e.timeoutTick, clock)
      BY <1>4, <1>6, <1>12
    <3>2. Ticks(e.timeoutTick) <= Ticks(clock) /\ e.timeoutTick.cycle < U32Max
      BY <1>4, <3>1, ExpiredIsDue
    <3>3. Ticks(e.timeoutTick) < Horizon + Word
      <4>1. Ticks(clock) \in Nat /\ Ticks(clock) <= Horizon /\ Ticks(e.timeoutTick) \in Nat
        BY <1>4, <3>1, ClockBelowMark, TicksType DEF TypeOK
      <4> QED
        BY <3>2, <4>1, BoundAssumption, WordAssumption
    <3>4. e.intervalTick \in Interval
      BY <3>1 DEF Event
    <3> HIDE DEF e
    <3>5. Ticks(AddTicks(e.timeoutTick, e.intervalTick)) = Ticks(e.timeoutTick) + e.intervalTick
      BY <3>1, <3>2, <3>3, <3>4, AddIntervalValid
    <3>6. /\ Rearmed(e).id = e.id /\ Rearmed(e).isRoutine = e.isRoutine
          /\ Rearmed(e).callback = e.callback /\ Rearmed(e).intervalTick = e.intervalTick
          /\ Rearmed(e).timeoutTick = AddTicks(e.timeoutTick, e.intervalTick)
      BY <3>1, RearmedIds
    <3>7. RequestOf(Rearmed(e)) =
            [id |-> e.id, callback |-> e.callback, interval |-> e.intervalTick,
             isRoutine |-> e.isRoutine, due |-> Ticks(e.timeoutTick) + e.intervalTick]
      BY <3>5, <3>6 DEF RequestOf
    <3>8. again(RequestOf(e)) =
            [id |-> e.id, callback |-> e.callback, interval |-> e.intervalTick,
             isRoutine |-> e.isRoutine, due |-> Ticks(e.timeoutTick) + e.intervalTick]
      BY DEF RequestOf
    <3>9. req(i) = RequestOf(e)
      BY DEF e
    <3> HIDE DEF req, again
    <3> QED
      BY <3>7, <3>8, <3>9 DEF e
  <2>4. \A k \in 1 .. n : g[k] \in RoutinesFired /\ scheduleQueue'[k] = Rearmed(s[g[k]])
    BY <1>2 DEF Lists
  <2>5. \A i \in RoutinesFired : \E k \in 1 .. n : g[k] = i
    BY <1>2 DEF Lists
  <2>6. \A i : i \in RoutinesFired <=> i \in Fired /\ req(i).isRoutine
    <3>1. \A i : i \in RoutinesFired <=> i \in Fired /\ s[i].isRoutine
      BY DEF RoutinesFired, s
    <3> QED
      BY <1>4, <1>12, <3>1
  <2>7. {q \in S : q.isRoutine} = {req(i) : i \in RoutinesFired}
    <3> HIDE DEF req
    <3> QED
      BY <2>6
  <2>8. \A k \in 1 .. n : RequestOf(scheduleQueue'[k]) = again(req(g[k]))
    BY <2>3, <2>4, <2>6
  <2> HIDE DEF req, again, S
  <2>9. {again(r) : r \in {q \in S : q.isRoutine}} = {again(req(i)) : i \in RoutinesFired}
    BY <2>7
  <2>10. {again(req(i)) : i \in RoutinesFired} = {RequestOf(scheduleQueue'[k]) : k \in 1 .. n}
    <3>1. \A i \in RoutinesFired : \E k \in 1 .. n : again(req(i)) = RequestOf(scheduleQueue'[k])
      BY <2>5, <2>8
    <3>2. \A k \in 1 .. n : \E i \in RoutinesFired : RequestOf(scheduleQueue'[k]) = again(req(i))
      BY <2>4, <2>8
    <3> QED
      BY <3>1, <3>2
  <2>11. PendingOf(scheduleQueue') = {again(r) : r \in {q \in S : q.isRoutine}}
    BY <2>2, <2>9, <2>10
  <2> QED
    BY <2>11 DEF again
<1>18. CASE Fired = {}
  <2>1. S = {} /\ m = 0
    BY <1>1, <1>7, <1>18 DEF Lists
  <2>2. Firing' = <<>>
    BY <1>8, <2>1
  <2>3. {[r EXCEPT !.due = @ + r.interval] : r \in {q \in S : q.isRoutine}} = {}
    BY <2>1
  <2>4. Pending' = Pending
    BY <1>10, <1>14, <1>16, <1>17, <2>1, <2>3
  <2> QED
    BY <1>9, <2>2, <2>4 DEF Service!vars
<1>19. CASE Fired # {}
  <2>1. S \in SUBSET Pending /\ S # {}
    BY <1>4, <1>5, <1>19
  <2>2. \A r \in S : r.due <= Ticks(clock)
    <3> SUFFICES ASSUME NEW i \in Fired PROVE req(i).due <= Ticks(clock)
      OBVIOUS
    <3>1. s[i] \in Event /\ ~GreaterThan(s[i].timeoutTick, clock) /\ i \in LiveIds(s)
      BY <1>4, <1>6
    <3> QED
      BY <1>4, <1>12, <3>1, ExpiredIsDue
  <2>3. \A r \in S, q \in Pending : q.due < r.due => q \in S
    <3> SUFFICES ASSUME NEW i \in Fired, NEW j \in LiveIds(s), req(j).due < req(i).due
                 PROVE  j \in Fired
      BY <1>5
    <3>1. i \in LiveIds(s) /\ ~(i < j)
      BY <1>4, <1>12, <1>13
    <3> QED
      BY <1>6, <3>1
  <2>4. Len(Firing') = m /\ DOMAIN Firing' = 1 .. m /\ \A k \in 1 .. m : Firing'[k] = req(f[k]).id
    BY <1>4, <1>7, <1>8, <1>11, <1>12
  <2>5. \A i \in Fired : \E k \in 1 .. m : f[k] = i
    BY <1>1 DEF Lists
  <2>6. Cardinality(S) = m
    <3> DEFINE F == [k \in 1 .. m |-> req(f[k])]
    <3>1. F \in [1 .. m -> S]
      BY <1>11
    <3>2. \A r \in S : \E k \in 1 .. m : F[k] = r
      BY <2>5
    <3>3. ASSUME NEW i \in 1 .. m, NEW j \in 1 .. m, F[i] = F[j] PROVE i = j
      <4>1. s[f[i]].id = s[f[j]].id /\ f[i] \in LiveIds(s) /\ f[j] \in LiveIds(s)
        BY <1>4, <1>11, <1>12, <3>3
      <4>2. f[i] = f[j] /\ f[i] \in Nat
        BY <1>4, <1>6, <4>1
      <4>3. i < j => f[i] < f[j]
        BY <1>1 DEF Lists
      <4>4. j < i => f[j] < f[i]
        BY <1>1 DEF Lists
      <4> QED
        BY <1>7, <4>2, <4>3, <4>4
    <3> HIDE DEF F, S
    <3>4. F \in Injection(1 .. m, S)
      BY <3>1, <3>3, Fun_IsInj
    <3>5. F \in Surjection(1 .. m, S)
      BY <3>1, <3>2, Fun_IsSurj
    <3>6. ExistsBijection(1 .. m, S)
      BY <3>4, <3>5 DEF Bijection, ExistsBijection
    <3> QED
      BY <1>7, <3>6, FS_CountingElements
  <2>7. {Firing'[i] : i \in DOMAIN Firing'} = {r.id : r \in S}
    <3>1. \A k \in 1 .. m : req(f[k]) \in S
      BY <1>11
    <3>2. \A r \in S : \E k \in 1 .. m : r = req(f[k])
      BY <2>5
    <3> HIDE DEF S, req
    <3> QED
      BY <2>4, <3>1, <3>2
  <2>8. \A i, j \in DOMAIN Firing' : \A r, q \in S :
          i < j /\ r.id = Firing'[i] /\ q.id = Firing'[j] => r.due <= q.due
    <3> SUFFICES ASSUME NEW i \in 1 .. m, NEW j \in 1 .. m, NEW a \in Fired, NEW b \in Fired,
                        i < j, req(a).id = Firing'[i], req(b).id = Firing'[j]
                 PROVE  req(a).due <= req(b).due
      BY <2>4
    <3>1. a = f[i] /\ b = f[j]
      <4>1. s[a].id = s[f[i]].id /\ s[b].id = s[f[j]].id
        BY <1>4, <1>11, <1>12, <2>4
      <4> QED
        BY <1>4, <1>11, <4>1
    <3>2. a < b
      BY <1>1, <3>1 DEF Lists
    <3> QED
      BY <1>4, <1>13, <3>2
  <2>9. Pending' = (Pending \ S) \cup {[r EXCEPT !.due = @ + r.interval] : r \in {q \in S : q.isRoutine}}
    BY <1>10, <1>14, <1>16, <1>17
  <2> HIDE DEF S
  <2>10. Service!Expire(S)
    <3>1. /\ Firing = <<>> /\ Adding = NoRequest /\ Len(Firing') = Service!Cardinality(S)
          /\ UNCHANGED <<Ticks(clock), Adding>>
      BY <1>9, <2>4, <2>6, SameCardinality
    <3>2. /\ S # {}
          /\ \A r \in S : r.due <= Ticks(clock)
          /\ \A r \in S, q \in Pending : q.due < r.due => q \in S
      BY <2>1, <2>2, <2>3
    <3> QED
      BY <2>7, <2>8, <2>9, <3>1, <3>2 DEF Service!Expire
  <2> QED
    BY <2>1, <2>10
<1> QED
  BY <1>18, <1>19

\* The loop over the batch serves one request at a time.
LEMMA ServedMaps == IInv /\ (SkipNullCallback \/ CallbackReturns) => Service!Served
<1> SUFFICES ASSUME IInv, SkipNullCallback \/ CallbackReturns PROVE Service!Served
  OBVIOUS
<1> DEFINE n == Len(timeoutQueue) - running + 1
<1>1. /\ UNCHANGED <<clock, eventBuffer, timeoutQueue, scheduleQueue>>
      /\ running' = running + 1 /\ running <= Len(timeoutQueue)
      /\ pc \in {"batch", "callback"} /\ pc' = "batch" /\ TypeOK
  BY DEF SkipNullCallback, CallbackReturns, IInv, TypeOK
<1>2. /\ Len(timeoutQueue) \in Nat /\ running \in Nat /\ n \in Nat /\ n > 0
      /\ Len(timeoutQueue') - running' + 1 = n - 1
  BY <1>1 DEF TypeOK
<1>3. Firing \in Seq(Nat) /\ Len(Firing) = n
  BY <1>1, FiringIdle
<1>4. Firing = [k \in 1 .. n |-> timeoutQueue[running + k - 1].id]
  BY DEF Firing
<1>5. Firing' = [k \in 1 .. n - 1 |-> timeoutQueue[running + k].id]
  <2>1. Firing' = [k \in 1 .. n - 1 |-> timeoutQueue[running' + k - 1].id]
    BY <1>1, <1>2 DEF Firing
  <2>2. \A k \in 1 .. n - 1 : running' + k - 1 = running + k
    BY <1>1, <1>2
  <2> HIDE DEF n
  <2> QED
    BY <2>1, <2>2
<1> HIDE DEF n
<1>6. Tail(Firing) = [k \in 1 .. n - 1 |-> Firing[k + 1]]
  <2> DEFINE t == Tail(Firing)
  <2>1. t \in Seq(Nat) /\ Len(t) = n - 1 /\ \A k \in 1 .. n - 1 : t[k] = Firing[k + 1]
    BY <1>2, <1>3
  <2> HIDE DEF t
  <2>2. t = [k \in 1 .. n - 1 |-> t[k]]
    BY <1>2, <2>1
  <2> QED
    BY <2>1, <2>2 DEF t
<1>7. \A k \in 1 .. n - 1 : Firing[k + 1] = timeoutQueue[running + k].id
  <2> TAKE k \in 1 .. n - 1
  <2>1. k + 1 \in 1 .. n /\ running + (k + 1) - 1 = running + k
    BY <1>2
  <2> QED
    BY <1>4, <2>1
<1>8. Firing' = Tail(Firing)
  BY <1>5, <1>6, <1>7
<1>9. Firing # <<>>
  BY <1>2, <1>3
<1>10. Ticks(clock)' = Ticks(clock) /\ Pending' = Pending /\ Adding' = Adding
  BY <1>1 DEF Pending, PendingOf, RequestOf, LiveIds, Valid, Ticks, Adding
<1> QED
  BY <1>8, <1>9, <1>10 DEF Service!Served

\* What else the processor does the contract does not see.
LEMMA OthersMap ==
  ASSUME IInv, OtherInterrupt \/ InvokeCallback \/ EndBatch \/ MoveOverflows \/ UNCHANGED vars
  PROVE  UNCHANGED Service!vars
<1>1. CASE OtherInterrupt \/ InvokeCallback \/ MoveOverflows \/ UNCHANGED vars
  <2>1. /\ UNCHANGED <<clock, eventBuffer, timeoutQueue, scheduleQueue, running, call>>
        /\ pc' = "schedule" <=> pc = "schedule"
    BY <1>1 DEF OtherInterrupt, InvokeCallback, MoveOverflows, Panic, vars
  <2> QED
    BY <2>1, MappedAlone DEF Service!vars
<1>2. CASE EndBatch
  <2>1. /\ UNCHANGED <<clock, eventBuffer, scheduleQueue>> /\ timeoutQueue' = <<>> /\ running' = 1
        /\ pc = "batch" /\ pc' = "hlt" /\ running > Len(timeoutQueue)
    BY <1>2 DEF EndBatch
  <2>2. Ticks(clock)' = Ticks(clock) /\ Pending' = Pending /\ Adding' = Adding
    BY <2>1 DEF Pending, PendingOf, RequestOf, LiveIds, Valid, Ticks, Adding
  <2>3. Firing = <<>>
    <3>1. Firing \in Seq(Nat) /\ Len(Firing) = Len(timeoutQueue) - running + 1
      BY FiringIdle DEF IInv
    <3>2. Len(Firing) = 0
      BY <2>1, <3>1 DEF IInv, TypeOK
    <3> QED
      BY <3>1, <3>2
  <2>4. Firing' = <<>>
    <3>1. IInv'
      BY <1>2, OtherStepsKeep
    <3>2. Len(timeoutQueue') - running' + 1 = 0
      BY <2>1
    <3> QED
      BY <3>2 DEF Firing
  <2> QED
    BY <2>2, <2>3, <2>4 DEF Service!vars
<1> QED
  BY <1>1, <1>2

LEMMA NextMaps == IInv /\ OneEntryPerCall /\ [Next]_vars => [Service!Next]_Service!vars
<1> SUFFICES ASSUME IInv, OneEntryPerCall, [Next]_vars PROVE [Service!Next]_Service!vars
  OBVIOUS
<1>1. CASE TimerInterrupt
  BY <1>1, TimerInterruptMaps DEF Service!Next
<1>2. CASE Schedule
  <2>1. PICK iv \in Interval, cb \in Callback, routine \in BOOLEAN :
          \/ \E half \in Half : ScheduleBegin(iv, cb, routine, half)
          \/ ScheduleInCallback(iv, cb, routine)
    BY <1>2 DEF Schedule
  <2> QED
    BY <2>1, ScheduleBeginMaps, ScheduleInCallbackMaps DEF Service!Next
<1>3. CASE ScheduleEnd
  BY <1>3, ScheduleEndMaps DEF Service!Next
<1>4. CASE Cancel
  <2>1. PICK iv \in Interval, cb \in Callback, routine \in BOOLEAN : Unschedule(iv, cb, routine)
    BY <1>4 DEF Cancel
  <2> QED
    BY <2>1, UnscheduleMaps DEF Service!Next
<1>5. CASE Process
  BY <1>5, ProcessMaps DEF Service!Next
<1>6. CASE SkipNullCallback \/ CallbackReturns
  BY <1>6, ServedMaps DEF Service!Next
<1>7. CASE OtherInterrupt \/ InvokeCallback \/ EndBatch \/ MoveOverflows \/ UNCHANGED vars
  BY <1>7, OthersMap
<1> QED
  BY <1>1, <1>2, <1>3, <1>4, <1>5, <1>6, <1>7 DEF Next, Interrupt, KernelProcess, ServeExpired

-----------------------------------------------------------------------------
(* The theorems *)

LEMMA Invariance == Spec => []IInv
BY InitInv, NextKeeps, PTL DEF Spec

\* Every variable stays within its type: no array overflows its capacity, and
\* the processor is never in a callback without an entry to serve.
THEOREM TypeCorrect == Spec => []TypeOK
<1>1. IInv => TypeOK
  BY DEF IInv
<1> QED
  BY <1>1, Invariance, PTL

\* No callback is called before its interval has passed, for any width of the
\* tick counter and any set of intervals, unless the clock was torn.
THEOREM NeverFiresEarly == Spec => []NeverEarly
<1>1. IInv => NeverEarly
  BY DEF IInv
<1> QED
  BY <1>1, Invariance, PTL

\* The entries that are to fire stay in the order of their timeouts, whatever
\* schedule(), unschedule() and the callbacks do between two passes.
THEOREM BufferStaysSorted == Spec => []LiveSorted
<1>1. IInv => LiveSorted
  BY DEF IInv
<1> QED
  BY <1>1, Invariance, PTL

\* A marked entry is never forgotten: needDefrag is set as long as there is one.
THEOREM MarkedEntriesAreFlagged == Spec => []InvalidFlagged
<1>1. IInv => InvalidFlagged
  BY DEF IInv
<1> QED
  BY <1>1, Invariance, PTL

\* A pass that starts with nothing to defragment leaves no expired entry in the
\* buffer: its early return misses none.
THEOREM CleanPassFiresAllDue == Spec => PassFiresAllDue
<1>1. IInv /\ [Next]_vars =>
        [Process /\ ~needDefrag =>
           \A i \in DOMAIN eventBuffer' : GreaterThan(eventBuffer'[i].timeoutTick, clock)]_vars
  BY ProcessEffect
<1> QED
  BY <1>1, Invariance, PTL DEF Spec, PassFiresAllDue

LEMMA EntriesInvariance == Spec => [](IInv /\ OneEntryPerCall)
BY InitInv, InitOneEntry, NextKeeps, NextOneEntry, PTL DEF Spec

\* No entry is in two places: of each call at most one is to fire, and an event whose
\* callback is due is nowhere else, for every capacity of the arrays.
THEOREM NoEntryTwice == Spec => []NoDuplicates
<1>1. IInv /\ OneEntryPerCall => NoDuplicates
  BY OneEntryNoDuplicates DEF IInv
<1> QED
  BY <1>1, EntriesInvariance, PTL

\* The scheduler implements the contract, step by step.
THEOREM SchedulerImplementsService == Spec => ImplementsTimerService
<1>1. Init => Service!Init
  BY InitMaps
<1>2. IInv /\ OneEntryPerCall /\ [Next]_vars => [Service!Next]_Service!vars
  BY NextMaps
<1> QED
  BY <1>1, <1>2, EntriesInvariance, PTL DEF Spec, Service!Spec, ImplementsTimerService
=============================================================================
