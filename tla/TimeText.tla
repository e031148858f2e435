------------------------------ MODULE TimeText ------------------------------
(***************************************************************************)
(* The conversions of kernel/time.h: ticks to milliseconds and back, in words       *)
(* that wrap, and the clock's registers to the text of a date and a time, in           *)
(* buffers of a fixed size.  A text is a sequence of ASCII codes.              *)
(***************************************************************************)
EXTENDS Integers, Sequences

CONSTANTS
  Word,      \* number of values of a u32
  Freq,      \* timing.tickFreq
  Ms,        \* the times that are converted
  Reg        \* what the clock's registers hold, [century, year, month, day, hours, minutes, seconds]

TimeTextAssumption ==
  /\ Word \in Nat \ {0} /\ Freq \in 1 .. 1000 /\ Ms \subseteq Nat
  /\ Reg \subseteq [{"century", "year", "month", "day", "hours", "minutes", "seconds"} -> 0 .. 255]

VARIABLES call, out

vars == <<call, out>>

Ascii0 == 48
Dash == 45
Colon == 58
Space == 32

\* ms_to_ticks, ticks_to_ms
MsToTicks(ms) == ((ms * Freq) % Word) \div 1000
TicksToMs(ticks) == ((ticks * 1000) % Word) \div Freq

\* bcd_to_binary
Bcd(b) == ((b \div 16) * 10 + (b % 16)) % 256

\* What the digits of a u32 count, from the last
Tens == <<1, 10, 100, 1000, 10000, 100000, 1000000, 10000000, 100000000, 1000000000>>

\* writer_write_uint
Uint(n) ==
  LET size == CHOOSE k \in 1 .. 10 : (k = 1 \/ n >= Tens[k]) /\ (k = 10 \/ n < Tens[k + 1])
  IN [k \in 1 .. size |-> Ascii0 + ((n \div Tens[size + 1 - k]) % 10)]

Padded(b) == (IF Bcd(b) < 10 THEN <<Ascii0>> ELSE <<>>) \o Uint(Bcd(b))

DateOf(t) == Uint(Bcd(t.year) + Bcd(t.century) * 100) \o <<Dash>> \o Padded(t.month)
               \o <<Dash>> \o Padded(t.day)
TimeOf(t) == Padded(t.hours) \o <<Colon>> \o Padded(t.minutes) \o <<Colon>> \o Padded(t.seconds)

\* The writer refuses the first byte past its buffer, and then there is no text.
Fits(text, size) == IF Len(text) + 1 <= size THEN text ELSE <<>>

\* time_to_datetime_string, time_to_date_string, time_to_time_string
DatetimeString(t) == Fits(DateOf(t) \o <<Space>> \o TimeOf(t), 20)
DateString(t) == Fits(DateOf(t), 11)
TimeString(t) == Fits(TimeOf(t), 9)

Init == call = [op |-> "none"] /\ out = <<>>

\* A behaviour is one call: nothing is kept from one to the next.
Convert(ms) ==
  /\ call.op = "none" /\ call' = [op |-> "ms", ms |-> ms]
  /\ out' = <<MsToTicks(ms), TicksToMs(MsToTicks(ms))>>

PrintTime(t) ==
  /\ call.op = "none" /\ call' = [op |-> "print", t |-> t]
  /\ out' = <<DatetimeString(t), DateString(t), TimeString(t)>>

Next == (\E ms \in Ms : Convert(ms)) \/ (\E t \in Reg : PrintTime(t))

Spec == Init /\ [][Next]_vars

-----------------------------------------------------------------------------
(* Properties *)

\* Below the time at which the product wraps, the conversion to ticks and back is never
\* longer than what was asked for, and less than a tick shorter.
LosesLessThanATick ==
  call.op = "ms" =>
    (call.ms * Freq < Word /\ out[1] * 1000 < Word =>
       out[2] <= call.ms /\ (call.ms - out[2]) * Freq < 1000 + Freq)

Plausible(t) ==
  /\ t.century \in 16 .. 153 /\ \A f \in DOMAIN t : t[f] % 16 < 10 /\ t[f] \div 16 < 10

Two(text, k) == (text[k] - Ascii0) * 10 + text[k + 1] - Ascii0
BcdOf(n) == (n \div 10) * 16 + (n % 10)

\* For what a clock can show, each text fills its buffer exactly and can be read back to
\* the registers, each field at its place.
ReadsBack ==
  call.op = "print" /\ Plausible(call.t) =>
    LET d == out[1]  t == call.t
    IN /\ Len(d) = 19 /\ Len(out[2]) = 10 /\ Len(out[3]) = 8
       /\ <<t.century, t.year, t.month, t.day>> =
            <<BcdOf(Two(d, 1)), BcdOf(Two(d, 3)), BcdOf(Two(d, 6)), BcdOf(Two(d, 9))>>
       /\ <<t.hours, t.minutes, t.seconds>> =
            <<BcdOf(Two(d, 12)), BcdOf(Two(d, 15)), BcdOf(Two(d, 18))>>
       /\ d = out[2] \o <<Space>> \o out[3]

\* Whatever the registers hold, a text leaves room for its terminator in its buffer.
Terminated ==
  call.op = "print" => Len(out[1]) < 20 /\ Len(out[2]) < 11 /\ Len(out[3]) < 9
=============================================================================
