---------------------------- MODULE MCAllocators ----------------------------
(***************************************************************************)
(* The allocators that stand beside the heap: the page allocator, the debug    *)
(* allocator over any other, and the arena.  They share no state: in a           *)
(* behaviour one of them is at work and the others stay as they started.  The     *)
(* instance that TLC checks has sizes of a few pages and at the edges of the       *)
(* word, fewer descriptors than pages, and a map that may refuse any entry.       *)
(***************************************************************************)
EXTENDS Integers, Sequences, FiniteSets, TLC

CONSTANTS
  Pages, Descriptors, PageSize, HeaderSize, PageWord, Caller, PageBytes,  \* PageAllocator
  Ptr, DebugBytes, CallBound,                                 \* DebugAllocator
  Word, Align, StateSize, Capacity, Base, ArenaBytes,         \* Arena
  Null

VARIABLES
  atWork,                                          \* the allocator of this behaviour
  table, region, aliased, astray, lost, ret,       \* PageAllocator
  live, ptrAllocMap, activeBytes, activeAllocs, mallocCalls, freeCalls, allocBytes,
  missed, nullFreed, surplus,                      \* DebugAllocator
  base, ready, headerSize, offset, held, grownOver \* Arena

pageVars == <<table, region, aliased, astray, lost, ret>>
debugVars == <<live, ptrAllocMap, activeBytes, activeAllocs, mallocCalls, freeCalls,
               allocBytes, missed, nullFreed, surplus>>
arenaVars == <<base, ready, headerSize, offset, held, grownOver>>
vars == <<atWork, pageVars, debugVars, arenaVars>>

Symmetry == Permutations(Caller) \cup Permutations(Ptr)

Page == INSTANCE PageAllocator WITH Word <- PageWord, Size <- PageBytes, held <- region
Debug == INSTANCE DebugAllocator WITH Size <- DebugBytes
Arena == INSTANCE Arena WITH Size <- ArenaBytes

ASSUME AllocatorAssumption ==
  Page!PageAssumption /\ Debug!DebugAssumption /\ Arena!ArenaAssumption

Init ==
  /\ atWork \in {"pages", "debug", "arena"}
  /\ Page!Init /\ Debug!Init /\ Arena!Init

Next ==
  /\ \/ atWork = "pages" /\ Page!Next /\ UNCHANGED <<debugVars, arenaVars>>
     \/ atWork = "debug" /\ Debug!Next /\ UNCHANGED <<pageVars, arenaVars>>
     \/ atWork = "arena" /\ Arena!Next /\ UNCHANGED <<pageVars, debugVars>>
  /\ UNCHANGED atWork

Spec == Init /\ [][Next]_vars

-----------------------------------------------------------------------------
(* Properties *)

\* As long as nobody wrote over the page allocator's table, which stands on the first page
\* it hands out: its blocks cover the pages from the first to the last without gap or
\* overlap over every sequence of splits, joins and moves, and, until a block is
\* handed out twice, free neighbours are one block and no request is refused that
\* would fit (kernel_page_allocator.h).
PagesTiled ==
  Page!TypeOK /\ Page!Tiling /\ Page!NoFreeNeighbours /\ Page!RoomIsFound

\* No two callers hold the same page, until a block was handed out twice or the table was
\* written over, or the same byte of an arena, until a block was grown over the next.
\* A page that is held is one of the memory's; what is held of an arena is inside it and
\* past the arena's own state.
HeldApart ==
  Page!HeldApart /\ Arena!TypeOK /\ Arena!HeldInside /\ Arena!HeldApart

\* The debug allocator's count of bytes never falls below what is held, nor below the
\* entries of its map, whatever the map had no memory for, and is exact while nothing
\* was missed. Its count of blocks has one too many for each realloc of a block, and is
\* below what is held only after a free of the null pointer (xstd_alloc_debug.h).
CountsCoverHeld ==
  Debug!TypeOK /\ Debug!BytesCoverEntries /\ Debug!BytesExact /\ Debug!CountsCoverHeld

\* kernel_page_allocator.h:188 grows a region in place when there are "enough free
\* pages" behind it: nobody holds those.
GrowsIntoFree == Page!GrowsIntoFree

\* xstd_alloc_arena.h:66: "If block is at end": a block keeps its place and changes
\* its size only if no block is after it.
GrownAtEnd == Arena!GrownAtEnd
=============================================================================
