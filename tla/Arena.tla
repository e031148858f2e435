------------------------------- MODULE Arena -------------------------------
(***************************************************************************)
(* xstd/xstd_alloc_arena.h: an allocator that only moves an offset.  Offsets   *)
(* are relative to the buffer; sizes are words of the machine and wrap.       *)
(***************************************************************************)
EXTENDS Integers

CONSTANTS
  Word,       \* the numbers of a machine word are 0 .. Word - 1
  Align,      \* _X_ARENA_ALLOC_DEFAULT_ALIGN
  StateSize,  \* sizeof(ArenaAllocatorState)
  Capacity,   \* the size of the buffer
  Base,       \* the addresses at which the buffer may start
  Size        \* the sizes that callers ask for

ArenaAssumption ==
  /\ Word \in Nat /\ Align \in 1 .. Word - 1 /\ Word % Align = 0
  /\ StateSize \in 1 .. Word - 1 /\ Capacity \in 1 .. Word - Align
  /\ Base \subseteq 0 .. Word - Capacity - Align /\ Size \subseteq 0 .. Word - 1

VARIABLES
  base,      \* where the buffer starts
  ready,     \* the arena was made
  headerSize, offset,
  held,      \* the blocks that callers hold: offset -> size
  grownOver  \* history: a block was grown over one that is held

vars == <<base, ready, headerSize, offset, held, grownOver>>

Empty == [b \in {} |-> 0]
With(f, b, n) == [c \in DOMAIN f \cup {b} |-> IF c = b THEN n ELSE f[c]]
Without(f, b) == [c \in DOMAIN f \ {b} |-> f[c]]
Bytes(b, n) == b .. b + n - 1

Init ==
  /\ base \in Base /\ ready = FALSE
  /\ headerSize = 0 /\ offset = 0
  /\ held = Empty /\ grownOver = FALSE

\* __arena_offset_to_aligned
Aligned(o) == (((o + Align - 1) % Word) \div Align) * Align

\* __arena_offset_invalid
Invalid(total, aligned, n) ==
  \/ (aligned + n) % Word > total
  \/ aligned > Word - 1 - n

\* arena_allocator: its state lives in the buffer, at an aligned address.
Make ==
  /\ ~ready
  /\ ~Invalid(Capacity, Aligned(base) - base, StateSize)
  /\ ready' = TRUE
  /\ headerSize' = Aligned(base) - base + StateSize
  /\ offset' = headerSize'
  /\ UNCHANGED <<base, held, grownOver>>

\* __arena_alloc for a caller that lets go of the blocks that are not in old.
Place(old, n) ==
  /\ n # 0
  /\ ~Invalid(Capacity, Aligned(offset), n)
  /\ held' = With(old, Aligned(offset), n)
  /\ offset' = Aligned(offset) + n
  /\ UNCHANGED <<base, ready, headerSize, grownOver>>

Alloc(n) == ready /\ Place(held, n)

\* "If block is at end"
AtEnd(b, n) == b = (Aligned(offset) - n) % Word

InPlace(b, n) ==
  /\ ~Invalid(Capacity, Aligned(b), n)
  /\ offset' = Aligned(b) + n
  /\ held' = With(held, b, n)
  /\ grownOver' = (grownOver \/ \E c \in DOMAIN held : c > b)
  /\ UNCHANGED <<base, ready, headerSize>>

\* __arena_realloc; nothing is copied when the block moves.
Realloc(b, n) ==
  /\ n # 0
  /\ \/ AtEnd(b, n) /\ InPlace(b, n)
     \/ ~AtEnd(b, n) /\ Place(Without(held, b), n)

\* __arena_free
Free(b) ==
  /\ held' = Without(held, b)
  /\ UNCHANGED <<base, ready, headerSize, offset, grownOver>>

\* arena_allocator_clear: "Make sure no dangling pointers are pointing to arena memory"
Clear ==
  /\ ready
  /\ offset' = headerSize
  /\ held' = Empty
  /\ UNCHANGED <<base, ready, headerSize, grownOver>>

\* A call that returns NULL.
Refuse == UNCHANGED vars

Next ==
  \/ Make
  \/ \E n \in Size : Alloc(n)
  \/ \E b \in DOMAIN held, n \in Size : Realloc(b, n)
  \/ \E b \in DOMAIN held : Free(b)
  \/ Clear
  \/ Refuse

Spec == Init /\ [][Next]_vars

-----------------------------------------------------------------------------
(* Properties *)

\* The offset stays inside the buffer, past the allocator's own state, so that
\* computing with it never wraps.
TypeOK ==
  /\ base \in Base /\ headerSize \in 0 .. Capacity
  /\ offset \in headerSize .. Capacity
  /\ DOMAIN held \subseteq 0 .. Capacity

\* Every block that a caller holds is in the buffer, past the state and below
\* the offset, whatever size was asked for and even when blocks were grown over
\* one another.
HeldInside ==
  \A b \in DOMAIN held :
    held[b] > 0 /\ Bytes(b, held[b]) \subseteq 0 .. offset - 1
    /\ b >= Aligned(base) - base + StateSize

\* While no block was grown over another one, blocks do not share bytes, across
\* frees that give nothing back, moves and clearing.
HeldApart ==
  ~grownOver =>
    \A b, c \in DOMAIN held :
      b # c => Bytes(b, held[b]) \cap Bytes(c, held[c]) = {}

\* The offset falls only by clearing: no realloc gives bytes back under a block.
OffsetGrows == [][offset' >= offset \/ DOMAIN held' = {}]_vars

\* xstd_alloc_arena.h:66: "If block is at end": a block keeps its place and changes
\* its size only if no block is after it.
GrownAtEnd ==
  [][\A b \in DOMAIN held \cap DOMAIN held' :
       held'[b] # held[b] => \A c \in DOMAIN held : c <= b]_vars
=============================================================================
