---------------------------- MODULE BufferAllocator ----------------------------
(***************************************************************************)
(* xstd/xstd_alloc_buffer.h, the heap of the kernel: a buffer cut into       *)
(* blocks, each behind a header with its size, whether it is free, and the  *)
(* next one.  First fit, the rest split off; free coalesces neighbours.     *)
(***************************************************************************)
EXTENDS Integers, Sequences, Ranking

CONSTANTS
  Word,        \* number of values of u64 (a u32 in this build)
  Align,       \* _X_BUFFALLOC_DEFAULT_ALIGN
  StateSize,   \* sizeof(BufferAllocatorState)
  BlockSize,   \* sizeof(_BufferBlockHeader)
  Skew,        \* bytes from the buffer's address to an aligned one
  Capacity,    \* size of the buffer
  Size         \* the sizes callers ask for

VARIABLES
  blocks,  \* the list from state->head; addresses count from the buffer's
  ret,     \* what the last call returned
  held     \* history: the pointers callers hold, with the size they asked for

vars == <<blocks, ret, held>>

Null == 0

\* __buffalloc_offset_to_aligned
Aligned(offset) == LET top == (offset + Align - 1) % Word IN top - (top % Align)

Header == Aligned(BlockSize)

TotalSize(n) == (Aligned(n) + Header) % Word

First == Skew + StateSize

\* The checks of buffer_allocator(); and the buffer has room for the header of
\* the first block.
ASSUME BufferAssumption ==
  /\ Word \in Nat /\ Align \in Nat \ {0} /\ BlockSize \in Nat \ {0}
  /\ StateSize \in Nat \ {0} /\ Skew \in Nat /\ Capacity \in Nat
  /\ BlockSize + Align <= Word
  /\ First + Header <= Capacity
ASSUME SizeAssumption == Size \subseteq Nat

Block == [addr : Nat, size : Nat, free : BOOLEAN]

Init == /\ blocks = <<[addr |-> First, size |-> Capacity - First, free |-> TRUE]>>
        /\ ret = Null
        /\ held = <<>>

-----------------------------------------------------------------------------
(* The list of blocks *)

\* Mutant: a block of exactly the size wanted is passed over.
FitsLarger(b, total) == b.free /\ b.size > total

Fits(b, total) == b.free /\ b.size >= total

FirstFit(bs, i, total) ==
  /\ Fits(bs[i], total)
  /\ \A j \in 1 .. i - 1 : ~Fits(bs[j], total)

\* Mutant: the block keeps its size when its rest is split off.
TakenWhole(bs, i, total) ==
  [bs EXCEPT ![i].free = FALSE]
    \o IF bs[i].size - total > Header + 16
       THEN <<[addr |-> bs[i].addr + total, size |-> bs[i].size - total, free |-> TRUE]>>
       ELSE <<>>

\* Mutant: only a block that is split is marked.
TakenWhenSplit(bs, i, total) ==
  IF bs[i].size - total > Header + 16
  THEN SubSeq(bs, 1, i - 1)
         \o <<[addr |-> bs[i].addr, size |-> total, free |-> FALSE],
              [addr |-> bs[i].addr + total, size |-> bs[i].size - total, free |-> TRUE]>>
         \o SubSeq(bs, i + 1, Len(bs))
  ELSE bs

\* The list once block i is in use; what is left of it, when enough, is a block
\* of its own.
Taken(bs, i, total) ==
  IF bs[i].size - total > Header + 16
  THEN SubSeq(bs, 1, i - 1)
         \o <<[addr |-> bs[i].addr, size |-> total, free |-> FALSE],
              [addr |-> bs[i].addr + total, size |-> bs[i].size - total, free |-> TRUE]>>
         \o SubSeq(bs, i + 1, Len(bs))
  ELSE [bs EXCEPT ![i].free = FALSE]

\* Mutant: a free block is joined to the one before it whether that is free or not.
AbsorbedIntoUsed(bs, i) ==
  /\ i > 1
  /\ bs[i].free
  /\ bs[i - 1].addr + bs[i - 1].size = bs[i].addr

\* Mutant: the loop goes on to the next block once it has joined two.
AbsorbedOnce(bs, i) ==
  /\ i > 1
  /\ bs[i - 1].free /\ bs[i].free
  /\ bs[i - 1].addr + bs[i - 1].size = bs[i].addr
  /\ i > 2 => ~bs[i - 2].free

\* Block i becomes part of the one before it.
Absorbed(bs, i) ==
  /\ i > 1
  /\ bs[i - 1].free /\ bs[i].free
  /\ bs[i - 1].addr + bs[i - 1].size = bs[i].addr

\* What the loop of __buffalloc_free makes of the list: a run of free neighbours
\* becomes one block, from the first one's header to the end of the last.
Coalesced(bs) ==
  LET heads   == {i \in DOMAIN bs : ~Absorbed(bs, i)}
      order   == Ranked(heads, {p \in heads \X heads : p[1] < p[2]})
      last(k) == bs[IF k < Len(order) THEN order[k + 1] - 1 ELSE Len(bs)]
  IN  [k \in DOMAIN order |->
         [bs[order[k]] EXCEPT !.size = last(k).addr + last(k).size - bs[order[k]].addr]]

Freed(bs, p) ==
  [i \in DOMAIN bs |->
     IF bs[i].addr = p - Header THEN [bs[i] EXCEPT !.free = TRUE] ELSE bs[i]]

\* The block whose header is before the pointer p.
BlockOf(p) == blocks[CHOOSE i \in DOMAIN blocks : blocks[i].addr = p - Header]

-----------------------------------------------------------------------------
(* The calls; held follows what their callers were told *)

Holding(h, p, n) == [q \in DOMAIN h \cup {p} |-> IF q = p THEN n ELSE h[q]]

Without(h, p) == [q \in DOMAIN h \ {p} |-> h[q]]

NoFit(n) == \A i \in DOMAIN blocks : ~Fits(blocks[i], TotalSize(n))

Fail == ret' = Null /\ UNCHANGED <<blocks, held>>

\* __buffalloc_alloc
Alloc(n) ==
  \/ n = 0 /\ Fail
  \/ n > 0 /\ NoFit(n) /\ Fail
  \/ /\ n > 0
     /\ \E i \in DOMAIN blocks :
          /\ FirstFit(blocks, i, TotalSize(n))
          /\ blocks' = Taken(blocks, i, TotalSize(n))
          /\ ret' = blocks[i].addr + Header
     /\ held' = Holding(held, ret', n)

\* __buffalloc_free
Free(p) ==
  /\ blocks' = Coalesced(Freed(blocks, p))
  /\ ret' = Null
  /\ held' = Without(held, p)

\* Mutant: the old block is freed before the new one is looked for.
ReallocFreesFirst(p, n) ==
  \/ n = 0 /\ Free(p)
  \/ n > 0 /\ n + Header <= BlockOf(p).size
     /\ ret' = p /\ held' = Holding(held, p, n) /\ UNCHANGED blocks
  \/ /\ n + Header > BlockOf(p).size
     /\ LET bs == Coalesced(Freed(blocks, p))
        IN  \E i \in DOMAIN bs :
              /\ FirstFit(bs, i, TotalSize(n))
              /\ blocks' = Taken(bs, i, TotalSize(n))
              /\ ret' = bs[i].addr + Header
     /\ held' = Holding(Without(held, p), ret', n)

\* __buffalloc_realloc; with a null pointer it is Alloc.
Realloc(p, n) ==
  \/ n = 0 /\ Free(p)
  \/ n > 0 /\ n + Header <= BlockOf(p).size
     /\ ret' = p /\ held' = Holding(held, p, n) /\ UNCHANGED blocks
  \/ n + Header > BlockOf(p).size /\ NoFit(n) /\ Fail
  \/ /\ n + Header > BlockOf(p).size
     /\ \E i \in DOMAIN blocks :
          /\ FirstFit(blocks, i, TotalSize(n))
          /\ blocks' = Coalesced(Freed(Taken(blocks, i, TotalSize(n)), p))
          /\ ret' = blocks[i].addr + Header
     /\ held' = Holding(Without(held, p), ret', n)

Next == \/ \E n \in Size : Alloc(n)
        \/ \E p \in DOMAIN held : Free(p)
        \/ \E p \in DOMAIN held, n \in Size : Realloc(p, n)

Spec == Init /\ [][Next]_vars

-----------------------------------------------------------------------------
(* Properties *)

TypeOK ==
  /\ blocks \in Seq(Block)
  /\ \A i \in DOMAIN blocks : blocks[i].size >= Header
  /\ ret \in Nat
  /\ DOMAIN held \subseteq Nat \ {Null}
  /\ \A p \in DOMAIN held : held[p] \in Size \ {0}

\* Whatever is split and joined, the blocks of the list follow one another in
\* memory without gap or overlap, and no byte of the buffer is ever lost.
Tiling ==
  /\ blocks # <<>>
  /\ blocks[1].addr = First
  /\ \A i \in 1 .. Len(blocks) - 1 : blocks[i].addr + blocks[i].size = blocks[i + 1].addr
  /\ blocks[Len(blocks)].addr + blocks[Len(blocks)].size = Capacity

InUse(bs) == {bs[i] : i \in {j \in DOMAIN bs : ~bs[j].free}}

\* The callers and the list agree: what is marked in use is what somebody holds,
\* under one pointer, and it is as large as was asked for.
HeldIsInUse ==
  /\ {b.addr + Header : b \in InUse(blocks)} = DOMAIN held
  /\ \A b \in InUse(blocks) : held[b.addr + Header] <= b.size - Header

\* Free memory is never left in two pieces that touch.
NoFreeNeighbours ==
  \A i \in 1 .. Len(blocks) - 1 : ~(blocks[i].free /\ blocks[i + 1].free)

\* Somewhere in the buffer n bytes and a header fit beside all blocks in use.
Room(n) ==
  \E a \in First .. Capacity :
    /\ a + TotalSize(n) <= Capacity
    /\ \A b \in InUse(blocks) :
         a + TotalSize(n) <= b.addr \/ b.addr + b.size <= a

\* A request is refused only when no gap between the blocks in use can take it,
\* whatever allocations and frees have fragmented the buffer before.
RefusedOnlyWhenFull ==
  [][\A n \in Size :
       n > 0 /\ (Alloc(n) \/ \E p \in DOMAIN held : Realloc(p, n)) /\ ret' = Null
         => ~Room(n)]_vars

\* What callers see of the blocks in use.
Live == {[ptr |-> b.addr + Header, size |-> b.size - Header] : b \in InUse(blocks)}

H == INSTANCE Heap WITH Lowest <- First, Beyond <- Capacity, live <- Live

\* Callers see an allocator that hands out disjoint regions and keeps their
\* contents when it moves them.
ImplementsHeap == H!Spec
=============================================================================
