----------------------------- MODULE Arithmetic -----------------------------
(***************************************************************************)
(* The checked arithmetic of xstd/xstd_math.h in words of Bits bits: the functions   *)
(* that a macro makes for a type, which compute in a second type and compare, and    *)
(* those of u64 and i64, which have to foresee an overflow.  The second type is twice  *)
(* as wide for 8 and 16 bits.  For u32 and i32 it is u64 and i64, which in the 32-bit   *)
(* build of the repository are u32 and i32 (xstd_core.h): there the functions compute   *)
(* in a word that is no wider than the result.  A behaviour is one call.          *)
(***************************************************************************)
EXTENDS Powers

CONSTANTS Bits, MaxExponent

\* The types have 8 bits or more; with one bit 1 would not be a signed number.
ArithmeticAssumption == Bits \in Nat /\ Bits > 1 /\ MaxExponent \in Nat

VARIABLES args, answer

mathVars == <<args, answer>>

\* The values of a type, and what a conversion to it makes of a number
Lowest(signed) == IF signed THEN -Power(2, Bits - 1) ELSE 0
Highest(signed) == IF signed THEN Power(2, Bits - 1) - 1 ELSE Power(2, Bits) - 1
Values(signed) == Lowest(signed) .. Highest(signed)
Wrapped(x, bits, signed) ==
  LET word == Power(2, bits)
      u == x % word
  IN IF signed /\ u >= Power(2, bits - 1) THEN u - word ELSE u
Narrow(x, signed) == Wrapped(x, Bits, signed)

\* Division in C goes towards zero.
Quotient(x, y) ==
  LET q == (IF x < 0 THEN -x ELSE x) \div (IF y < 0 THEN -y ELSE y)
  IN IF (x < 0) = (y < 0) THEN q ELSE -q

Ok(x) == [err |-> "ok", value |-> x]
Refused(e) == [err |-> e, value |-> 0]
\* The processor stops a division that has no quotient: the call does not return.
Fault == Refused("fault")

-----------------------------------------------------------------------------
(* The functions of the macros, which compute in a word of so many bits *)

\* res != (T)res
Compared(x, signed, bits) ==
  LET res == Wrapped(x, bits, signed)
  IN IF res = Narrow(res, signed) THEN Ok(Narrow(x, signed)) ELSE Refused("would_overflow")

\* __addNoOfwT, __substractNoOfwT, __multiplyNoOfwT, __divideNoOfwT
NarrowAdd(x, y, signed, bits) == Compared(x + y, signed, bits)
NarrowSub(x, y, signed, bits) == Compared(x - y, signed, bits)
NarrowMul(x, y, signed, bits) == Compared(x * y, signed, bits)
\* A build may divide by -1 without the division, which stops at the lowest number.
NarrowDiv(x, y, signed, bits, optimized) ==
  IF y = 0 THEN Refused("invalid_parameter")
  ELSE IF Wrapped(Quotient(x, y), bits, signed) # Quotient(x, y) /\ ~optimized THEN Fault
  ELSE Compared(Quotient(x, y), signed, bits)

\* The loop of __UpowNoOfwT and of __IpowNoOfwT
NarrowPowers(x, n, signed, bits) ==
  LET r[i \in 0 .. n] ==
        IF i = 0 THEN Ok(1)
        ELSE IF r[i - 1].err # "ok" THEN r[i - 1] ELSE Compared(r[i - 1].value * x, signed, bits)
  IN r[n]
\* A negative exponent gives one divided by the power, which a build may do by comparing
\* the power with 1 and -1.
NarrowPow(x, n, signed, bits, optimized) ==
  LET r == NarrowPowers(x, IF n < 0 THEN -n ELSE n, signed, bits)
  IN IF n >= 0 \/ r.err # "ok" THEN r
     ELSE IF r.value # 0 THEN Ok(Quotient(1, r.value))
     ELSE IF optimized THEN Ok(0) ELSE Fault

-----------------------------------------------------------------------------
(* u64 and i64 *)

\* math_u64_add_nooverflow, math_i64_add_nooverflow
LongAdd(x, y, signed) ==
  IF ~signed
    THEN LET res == Narrow(x + y, signed)
         IN IF res < x \/ res < y THEN Refused("would_overflow") ELSE Ok(res)
  ELSE IF \/ y > 0 /\ x > Highest(signed) - y
          \/ y < 0 /\ x < Lowest(signed) - y
    THEN Refused("would_overflow") ELSE Ok(x + y)

\* math_u64_substract_nooverflow, math_i64_substract_nooverflow
LongSub(x, y, signed) ==
  IF \/ ~signed /\ y > x
     \/ signed /\ y < 0 /\ x > Highest(signed) + y
     \/ signed /\ y > 0 /\ x < Lowest(signed) + y
    THEN Refused("would_overflow") ELSE Ok(x - y)

\* math_u64_multiply_nooverflow; math_i64_multiply_nooverflow, which multiplies before it
\* looks: a build may leave out what a signed overflow alone can make true, and says so.
LongMul(x, y, signed, optimized) ==
  IF x = 0 \/ y = 0 THEN Ok(0)
  ELSE IF ~signed THEN IF x > Quotient(Highest(signed), y) THEN Refused("would_overflow") ELSE Ok(x * y)
  ELSE IF {x, y} = {-1, Lowest(signed)} THEN Refused("would_overflow")
  ELSE LET res == Narrow(x * y, signed)
       IN IF ~optimized /\ Quotient(res, y) # x THEN Refused("would_overflow") ELSE Ok(res)

\* math_u64_divide_nooverflow, math_i64_divide_nooverflow
LongDiv(x, y, signed) ==
  IF y = 0 THEN Refused("invalid_parameter")
  ELSE IF signed /\ x = Lowest(signed) /\ y = -1 THEN Refused("would_overflow")
  ELSE Ok(Quotient(x, y))

\* math_u64_power_nooverflow, math_i64_power_nooverflow
LongPow(x, n, signed) ==
  LET Over(r) == x # 0 /\ \/ r > Quotient(Highest(signed), x)
                          \/ signed /\ r < Quotient(Lowest(signed), x)
      r[i \in 0 .. (IF n < 0 THEN -n ELSE n)] ==
        IF i = 0 THEN Ok(1)
        ELSE IF r[i - 1].err # "ok" THEN r[i - 1]
        ELSE IF Over(r[i - 1].value) THEN Refused("would_overflow") ELSE Ok(r[i - 1].value * x)
      last == r[IF n < 0 THEN -n ELSE n]
  IN IF n < 0 /\ last.err = "ok" THEN Refused("invalid_parameter") ELSE last

-----------------------------------------------------------------------------

Ops == {"add", "sub", "mul", "div", "pow"}
Exponents(signed) == Values(signed) \cap (-MaxExponent .. MaxExponent)

Kinds == {"double", "single", "long"}
\* The word that the function of a macro computes in
WordOf(kind) == IF kind = "single" THEN Bits ELSE 2 * Bits

\* What a call answers in a build
Answer(op, x, y, signed, kind, optimized) ==
  LET bits == WordOf(kind)
  IN IF kind = "long"
       THEN IF op = "add" THEN LongAdd(x, y, signed)
            ELSE IF op = "sub" THEN LongSub(x, y, signed)
            ELSE IF op = "mul" THEN LongMul(x, y, signed, optimized)
            ELSE IF op = "div" THEN LongDiv(x, y, signed) ELSE LongPow(x, y, signed)
       ELSE IF op = "add" THEN NarrowAdd(x, y, signed, bits)
            ELSE IF op = "sub" THEN NarrowSub(x, y, signed, bits)
            ELSE IF op = "mul" THEN NarrowMul(x, y, signed, bits)
            ELSE IF op = "div" THEN NarrowDiv(x, y, signed, bits, optimized)
            ELSE NarrowPow(x, y, signed, bits, optimized)

MathInit == args = [op |-> "none"] /\ answer = Refused("none")

\* One call. The most negative exponent is left out, whose absolute value is no number of
\* the type.
Compute ==
  /\ args.op = "none"
  /\ \E op \in Ops, signed \in BOOLEAN, kind \in Kinds, optimized \in BOOLEAN :
       \E x \in Values(signed), y \in IF op = "pow" THEN Exponents(signed) ELSE Values(signed) :
         /\ op = "pow" => y # Lowest(TRUE)
         /\ args' = [op |-> op, x |-> x, y |-> y, signed |-> signed, kind |-> kind]
         /\ answer' = Answer(op, x, y, signed, kind, optimized)

-----------------------------------------------------------------------------
(* Properties *)

Exact(op, x, y) ==
  IF op = "add" THEN x + y ELSE IF op = "sub" THEN x - y ELSE IF op = "mul" THEN x * y
  ELSE IF op = "div" THEN Quotient(x, y)
  ELSE IF y >= 0 THEN Power(x, y) ELSE IF x \in {1, -1} THEN Power(x, -y) ELSE 0

\* A function that is said not to overflow returns the exact result if the type has it, and
\* else would_overflow. The exceptions:
\* - u32 and i32 in the 32-bit build report no overflow: they return the result cut to the
\*   type, and the processor may stop the quotient that i32 does not have;
\* - products of i64 that overflow, which a build may let pass;
\* - powers of i64 with a negative base or exponent, which are refused;
\* - powers with a negative exponent, of 0, which divide by zero, and those where the
\*   positive power overflows.
ArithmeticExact ==
  args.op # "none" =>
    LET op == args.op  x == args.x  y == args.y  signed == args.signed
        single == args.kind = "single"
        widest == signed /\ args.kind = "long"
        inverse == op = "pow" /\ y < 0
        exact == Exact(op, x, y)
    IN IF op = "div" /\ y = 0 THEN answer = Refused("invalid_parameter")
       ELSE IF inverse /\ widest THEN answer.err # "ok"
       ELSE IF inverse /\ x = 0 THEN answer \in {Fault, Ok(0)}
       ELSE IF inverse /\ Power(x, -y) \notin Values(signed)
         THEN IF single THEN answer.err \in {"ok", "fault"} ELSE answer = Refused("would_overflow")
       ELSE IF exact \in Values(signed)
         THEN answer = Ok(exact) \/ (op = "pow" /\ widest /\ x < 0 /\ answer = Refused("would_overflow"))
       ELSE IF single THEN answer = Ok(Narrow(exact, signed)) \/ (op = "div" /\ answer = Fault)
       ELSE answer = Refused("would_overflow") \/ (widest /\ op = "mul")
=============================================================================
