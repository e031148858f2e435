-------------------------------- MODULE Clock --------------------------------
(***************************************************************************)
(* time_utc() of kernel/time.h and kernel/drivers/rtc_time.h: the clock's          *)
(* registers, which are read one by one while the clock goes on, and the time        *)
(* that is kept for ten ticks of the timer.  Seconds are counted from the start;       *)
(* a register holds one digit of them.                                      *)
(***************************************************************************)
EXTENDS Integers, Sequences

CONSTANTS
  Word,       \* number of values of the tick counter
  Window,     \* the ticks for which the time is kept, 10 in the code
  PerSecond,  \* ticks in a second
  Base,       \* values of a register
  Fields,     \* registers that are read
  Margin,     \* registers that can be read between the update flag and the update
  MaxQuiet,   \* the longest time without a call; the header is drawn every 250 ms
  LastSecond  \* bound: the last second

\* What a one in register k counts
Weight[k \in 0 .. Fields] == IF k = 0 THEN 1 ELSE Base * Weight[k - 1]

ClockAssumption ==
  /\ Word \in Nat /\ PerSecond \in Nat /\ Window \in 1 .. PerSecond - 1
  /\ MaxQuiet \in Nat /\ MaxQuiet < Word \div 2 - 1 /\ Window < Word \div 2
  /\ Base \in Nat /\ Base > 1 /\ Fields \in Nat /\ Margin \in Nat /\ Margin >= Fields
  /\ LastSecond \in 1 .. Weight[Fields] - 1

VARIABLES
  tick,       \* timing.tick.tick
  phase,      \* ticks since the last second was due
  now,        \* the clock's time
  due,        \* the next second is due in this tick
  updating,   \* the clock's update flag
  since,      \* registers that can have been read since the flag was set
  hit,        \* a tick has come while the registers are read, which takes microseconds
  cached, cacheTick,  \* timing.cachedUtcTime, timing.utcCacheTick
  pc, got,    \* where time_utc() is, and the registers it has read
  result, began,  \* history: what it returned last, and when it was called
  quiet       \* ticks since it was called

clock == <<tick, phase, now, due, updating>>
vars == <<clock, since, hit, cached, cacheTick, pc, got, result, began, quiet>>

Register(k, t) == (t \div Weight[k]) % Base
Value(digits) == LET v[k \in 0 .. Len(digits)] == IF k = 0 THEN 0 ELSE v[k - 1] + digits[k] * Weight[k - 1]
                 IN v[Len(digits)]

Init ==
  /\ tick = 0 /\ phase = 0 /\ now = 1 /\ due = FALSE /\ updating = FALSE /\ since = 0 /\ hit = FALSE
  /\ cached = 0 /\ cacheTick = Word \div 2 - 1
  /\ pc = "idle" /\ got = <<>> /\ result = 1 /\ began = 1 /\ quiet = 0

Tick ==
  /\ ~due /\ quiet < MaxQuiet /\ ~hit
  /\ hit' = (pc = "read")
  /\ tick' = (tick + 1) % Word /\ phase' = (phase + 1) % PerSecond
  /\ due' = (phase' = 0) /\ quiet' = quiet + 1
  /\ UNCHANGED <<now, updating, since, cached, cacheTick, pc, got, result, began>>

RaiseFlag ==
  /\ due /\ ~updating /\ now < LastSecond
  /\ updating' = TRUE /\ since' = (IF pc = "read" THEN 0 ELSE Margin)
  /\ UNCHANGED <<tick, phase, now, due, hit, cached, cacheTick, pc, got, result, began, quiet>>

\* A read that is in progress when the flag is set is over before the update.
Update ==
  /\ updating /\ (pc = "read" => since >= Margin)
  /\ now' = now + 1 /\ updating' = FALSE /\ due' = FALSE
  /\ UNCHANGED <<tick, phase, since, hit, cached, cacheTick, pc, got, result, began, quiet>>

\* The time that is kept is taken, by the difference of wrapping ticks.
Kept == (tick - cacheTick) % Word < Window

Call ==
  /\ pc = "idle" /\ began' = now /\ quiet' = 0
  /\ IF Kept THEN result' = cached /\ UNCHANGED pc ELSE pc' = "wait" /\ UNCHANGED result
  /\ UNCHANGED <<clock, since, hit, cached, cacheTick, got>>

\* Mutant: the update flag is not waited for.
StartAtOnce ==
  /\ pc = "wait" /\ pc' = "read" /\ got' = <<>>
  /\ UNCHANGED <<clock, since, hit, cached, cacheTick, result, began, quiet>>
\* rtc_is_updating() is false.
StartReading ==
  /\ pc = "wait" /\ ~updating /\ pc' = "read" /\ got' = <<>>
  /\ UNCHANGED <<clock, since, hit, cached, cacheTick, result, began, quiet>>

\* rtc_get_time(), register after register
ReadRegister ==
  /\ pc = "read" /\ Len(got) < Fields
  /\ got' = Append(got, Register(Len(got), now)) /\ since' = since + 1
  /\ UNCHANGED <<clock, hit, cached, cacheTick, pc, result, began, quiet>>

Return ==
  /\ pc = "read" /\ Len(got) = Fields
  /\ cached' = Value(got) /\ cacheTick' = tick /\ result' = Value(got) /\ pc' = "idle"
  /\ hit' = FALSE
  /\ UNCHANGED <<clock, since, got, began, quiet>>

Next == Tick \/ RaiseFlag \/ Update \/ Call \/ StartReading \/ ReadRegister \/ Return

Spec == Init /\ [][Next]_vars

FairSpec == Spec /\ WF_vars(Tick) /\ WF_vars(RaiseFlag) /\ WF_vars(Update)
                 /\ WF_vars(StartReading) /\ WF_vars(ReadRegister) /\ WF_vars(Return)

-----------------------------------------------------------------------------
(* Properties *)

TypeOK ==
  /\ tick \in 0 .. Word - 1 /\ cacheTick \in 0 .. Word - 1
  /\ cached \in 0 .. Weight[Fields] - 1 /\ got \in UNION {[1 .. n -> 0 .. Base - 1] : n \in 0 .. Fields}

\* What is read from the clock is a time that it showed during the call, not the
\* registers of two.
NotTorn == [][Return => result' \in began .. now]_vars

\* A time that is returned, kept or read, is at most one second old, also when the tick
\* counter has wrapped since it was read.
Recent == [][pc' = "idle" /\ (Call \/ Return) => result' \in {now - 1, now}]_vars

\* Time does not go back from one call to the next.
Monotonic == [][result' >= result]_vars

\* A call does not wait for ever.
Returns == pc # "idle" ~> pc = "idle"
=============================================================================
