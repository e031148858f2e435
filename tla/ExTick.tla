------------------------------- MODULE ExTick -------------------------------
(***************************************************************************)
(* The extended tick of kernel/types/extended_tick.h: two u32 counters, the *)
(* tick and the number of times the tick has wrapped.  Word is the number   *)
(* of values of a u32 (2^32 in the kernel, small when model-checking).      *)
(***************************************************************************)
EXTENDS Naturals

CONSTANT Word

ASSUME WordAssumption == Word \in Nat /\ Word > 1

U32Max == Word - 1

U32 == 0 .. U32Max

Tick == [tick : U32, cycle : U32]

\* extick_add_ticks: the sum wraps, and a wrapped sum carries into the cycle.
AddTicks(a, b) ==
  LET res == (a.tick + b) % Word
  IN  [tick  |-> res,
       cycle |-> IF res < a.tick \/ res < b THEN (a.cycle + 1) % Word ELSE a.cycle]

\* Mutant: the number of wraps is ignored.
GreaterThanInCycle(a, b) == a.tick > b.tick

\* extick_greater_than
GreaterThan(a, b) ==
  \/ a.cycle > b.cycle
  \/ a.cycle = b.cycle /\ a.tick > b.tick

\* The unbounded count of ticks an ExTick stands for (not in the code: what
\* the pair of counters is meant to represent).
Ticks(t) == t.cycle * Word + t.tick
=============================================================================
