---------------------------- MODULE DebugAllocator ----------------------------
(***************************************************************************)
(* xstd/xstd_alloc_debug.h: an allocator that forwards to another one and    *)
(* counts.  It keeps the size of each block in a hash map whose memory may     *)
(* run out; the error is ignored.                                           *)
(***************************************************************************)
EXTENDS Integers, FiniteSets

CONSTANTS
  Ptr,       \* the addresses that the wrapped allocator hands out
  Size,      \* the sizes that callers ask for
  Null,
  CallBound  \* how many calls succeed

DebugAssumption == Size \subseteq Nat /\ Null \notin Ptr

VARIABLES
  live,         \* the wrapped allocator: the sizes of the blocks that callers hold
  ptrAllocMap,  \* what is in the hash map
  activeBytes, activeAllocs,
  mallocCalls, freeCalls, allocBytes,  \* total...
  missed,       \* history: an entry could not be made, or a block was freed by realloc
  nullFreed,    \* history: the null pointer was freed
  surplus       \* history: how many blocks realloc moved, kept or freed

vars == <<live, ptrAllocMap, activeBytes, activeAllocs, mallocCalls, freeCalls,
          allocBytes, missed, nullFreed, surplus>>

With(f, p, n) == [q \in DOMAIN f \cup {p} |-> IF q = p THEN n ELSE f[q]]
Without(f, p) == [q \in DOMAIN f \ {p} |-> f[q]]

\* The bytes of the blocks in f
Bytes(f) == UNION {{p} \X (1 .. f[p]) : p \in DOMAIN f}
Total(f) == Cardinality(Bytes(f))

\* debug_allocator
Init ==
  /\ live = [p \in {} |-> 0] /\ ptrAllocMap = [p \in {} |-> 0]
  /\ activeBytes = 0 /\ activeAllocs = 0
  /\ mallocCalls = 0 /\ freeCalls = 0 /\ allocBytes = 0
  /\ missed = FALSE /\ nullFreed = FALSE /\ surplus = 0

\* hashmap_set in the map m: it may find no memory, to grow the map or for the entry.
Enter(m, p, n) ==
  \/ ptrAllocMap' = With(m, p, n) /\ UNCHANGED missed
  \/ ptrAllocMap' = m /\ missed' = TRUE

\* What alloc and realloc count.
Count(n) ==
  /\ mallocCalls' = mallocCalls + 1
  /\ allocBytes' = allocBytes + n
  /\ activeAllocs' = activeAllocs + 1

\* The wrapped allocator has no block.
Refuse == UNCHANGED vars

Alloc(n) ==
  \/ Refuse
  \/ \E p \in Ptr \ DOMAIN live :
       /\ mallocCalls < CallBound
       /\ live' = With(live, p, n)
       /\ Count(n)
       /\ activeBytes' = activeBytes + n
       /\ Enter(ptrAllocMap, p, n)
       /\ UNCHANGED <<freeCalls, nullFreed, surplus>>

Known(p) == IF p \in DOMAIN ptrAllocMap THEN ptrAllocMap[p] ELSE 0

\* __debug_realloc to a size that is not 0; the block may be null.  The block comes
\* back where it was or moves, and is counted as one more.
Realloc(block, n) ==
  \/ Refuse
  \/ \E p \in Ptr \ (DOMAIN live \ {block}) :
       /\ mallocCalls < CallBound
       /\ live' = With(Without(live, block), p, n)
       /\ Count(n)
       /\ activeBytes' = activeBytes - Known(block) + n
       /\ Enter(Without(ptrAllocMap, block), p, n)
       /\ surplus' = IF block = Null THEN surplus ELSE surplus + 1
       /\ UNCHANGED <<freeCalls, nullFreed>>

\* __debug_realloc to size 0: the block is freed and null returned, which is taken
\* for a failure.
ReallocToNothing(block) ==
  /\ live' = Without(live, block)
  /\ missed' = TRUE
  /\ surplus' = surplus + 1
  /\ UNCHANGED <<ptrAllocMap, activeBytes, activeAllocs, mallocCalls, freeCalls,
                 allocBytes, nullFreed>>

\* Mutant: a free counts twice.
FreeCountsTwice(block) ==
  /\ freeCalls' = freeCalls + 1
  /\ activeAllocs' = IF activeAllocs > 1 THEN activeAllocs - 2 ELSE 0
  /\ activeBytes' = activeBytes - Known(block)
  /\ ptrAllocMap' = Without(ptrAllocMap, block)
  /\ live' = Without(live, block)
  /\ nullFreed' = (nullFreed \/ block = Null)
  /\ UNCHANGED <<mallocCalls, allocBytes, missed, surplus>>

\* __debug_free; the block may be null.
Free(block) ==
  /\ freeCalls' = freeCalls + 1
  /\ activeAllocs' = IF activeAllocs > 0 THEN activeAllocs - 1 ELSE 0
  /\ activeBytes' = activeBytes - Known(block)
  /\ ptrAllocMap' = Without(ptrAllocMap, block)
  /\ live' = Without(live, block)
  /\ nullFreed' = (nullFreed \/ block = Null)
  /\ UNCHANGED <<mallocCalls, allocBytes, missed, surplus>>

Next ==
  \/ \E n \in Size : Alloc(n)
  \/ \E block \in DOMAIN live \cup {Null}, n \in Size : Realloc(block, n)
  \/ \E block \in DOMAIN live : ReallocToNothing(block)
  \/ \E block \in DOMAIN live \cup {Null} : freeCalls < CallBound /\ Free(block)

Spec == Init /\ [][Next]_vars

-----------------------------------------------------------------------------
(* Properties *)

TypeOK ==
  /\ DOMAIN live \subseteq Ptr /\ DOMAIN ptrAllocMap \subseteq Ptr
  /\ activeBytes \in Nat /\ activeAllocs \in Nat

\* activeBytes, which the header line of the screen shows, covers the entries of the
\* map, so that subtracting one of them never wraps, whatever was missed.
BytesCoverEntries == activeBytes >= Total(ptrAllocMap)

\* The map says nothing wrong of a block that is held, and while nothing was
\* missed it has them all and activeBytes is exact.
BytesExact ==
  /\ \A p \in DOMAIN live \cap DOMAIN ptrAllocMap : missed \/ ptrAllocMap[p] = live[p]
  /\ ~missed => ptrAllocMap = live /\ activeBytes = Total(live)

\* Whatever is forgotten, activeBytes leaves out no byte that is held. activeAllocs is one
\* more than the blocks that are held for each block that realloc got, and less only
\* after the null pointer was freed.
CountsCoverHeld ==
  /\ activeBytes >= Total(live)
  /\ activeAllocs <= Cardinality(DOMAIN live) + surplus
  /\ ~nullFreed => activeAllocs = Cardinality(DOMAIN live) + surplus
=============================================================================
