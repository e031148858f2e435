-------------------------------- MODULE List --------------------------------
(***************************************************************************)
(* xstd/xstd_list.h: a growing array.  No call of it looks at what realloc      *)
(* returned: when there is no memory the list has a null pointer, and what it    *)
(* reads and writes from then on is the memory at address 0.                 *)
(***************************************************************************)
EXTENDS Integers

CONSTANTS
  Item,
  NullItem,    \* the null pointer, as an item
  Junk,        \* what memory holds that the list has not written
  RangeError,  \* ERR_RANGE_ERROR, as the outcome of a call
  InitSize,    \* _X_LIST_INIT_SIZE
  Index,       \* the indices that callers ask for
  Request,     \* the initial sizes that callers ask for
  MayFail,     \* whether a realloc may fail
  CapBound     \* bound: the list does not grow past it

ASSUME ListAssumption ==
  /\ InitSize \in Nat \ {0} /\ Request \subseteq Nat /\ MayFail \in BOOLEAN
  /\ CapBound \in Nat /\ Index \subseteq Nat

VARIABLES
  data,      \* _data is not null
  cells,     \* the memory there, item by item
  allocCnt,  \* _allocCnt
  itemCnt,   \* _itemCnt
  result     \* the outcome of the last list_get or list_pop

vars == <<data, cells, allocCnt, itemCnt, result>>

Fresh(n) == [i \in 0 .. n - 1 |-> Junk]

\* list_init; a list that could not be made is not used
Init ==
  \E n \in Request :
    /\ allocCnt = IF n < InitSize THEN InitSize ELSE n
    /\ data = TRUE /\ cells = Fresh(allocCnt)
    /\ itemCnt = 0 /\ result = RangeError

Kept(n) == [i \in 0 .. n - 1 |-> IF data /\ i \in DOMAIN cells THEN cells[i] ELSE Junk]

\* _allocator.realloc to n items; a null pointer may become a block too.
Reallocated(n) ==
  {[data |-> TRUE, cells |-> Kept(n)]}
    \cup IF MayFail THEN {[data |-> FALSE, cells |-> Fresh(n)]} ELSE {}

Move(n) ==
  /\ allocCnt' = n
  /\ \E r \in Reallocated(n) : data' = r.data /\ cells' = r.cells

\* _list_expand, for an item that is pushed
ExpandAndWrite(x) ==
  /\ allocCnt' = allocCnt * 2
  /\ \E r \in Reallocated(allocCnt * 2) :
       data' = r.data /\ cells' = [r.cells EXCEPT ![itemCnt] = x]

\* list_push
Push(x) ==
  /\ \/ itemCnt >= allocCnt /\ allocCnt * 2 <= CapBound /\ ExpandAndWrite(x)
     \/ /\ itemCnt < allocCnt
        /\ cells' = [cells EXCEPT ![itemCnt] = x]
        /\ UNCHANGED <<allocCnt, data>>
  /\ itemCnt' = itemCnt + 1
  /\ UNCHANGED result

Half == allocCnt \div 2

\* Mutant: a list that is half full shrinks.
ShouldShrinkFull(n) == Half >= InitSize /\ n <= Half
\* _list_should_shrink, with n items
ShouldShrink(n) == Half >= InitSize /\ n < Half

\* Mutant: the item is read after the block has shrunk, one further on.
PopAfterShrink ==
  \/ itemCnt = 0 /\ result' = RangeError /\ UNCHANGED <<data, cells, allocCnt, itemCnt>>
  \/ /\ itemCnt > 0
     /\ itemCnt' = itemCnt - 1
     /\ \/ ShouldShrink(itemCnt') /\ Move(Half)
        \/ ~ShouldShrink(itemCnt') /\ UNCHANGED <<data, cells, allocCnt>>
     /\ result' = IF itemCnt \in DOMAIN cells' THEN cells'[itemCnt] ELSE Junk

\* list_pop, with _list_shrink
Pop ==
  \/ itemCnt = 0 /\ result' = RangeError /\ UNCHANGED <<data, cells, allocCnt, itemCnt>>
  \/ /\ itemCnt > 0
     /\ itemCnt' = itemCnt - 1
     /\ result' = cells[itemCnt']
     /\ \/ ShouldShrink(itemCnt') /\ Move(Half)
        \/ ~ShouldShrink(itemCnt') /\ UNCHANGED <<data, cells, allocCnt>>

\* list_get; list_getref and list_get_as_ptr find the same item
Get(i) ==
  /\ result' = IF i < itemCnt THEN cells[i] ELSE RangeError
  /\ UNCHANGED <<data, cells, allocCnt, itemCnt>>

\* list_set
Set(i, x) ==
  /\ cells' = IF i < itemCnt THEN [cells EXCEPT ![i] = x] ELSE cells
  /\ UNCHANGED <<data, allocCnt, itemCnt, result>>

\* list_clear, with _list_wipe
Wipe == Move(InitSize) /\ itemCnt' = 0 /\ UNCHANGED result

\* list_clear_nofree
ClearNoFree == itemCnt' = 0 /\ UNCHANGED <<data, cells, allocCnt, result>>

\* list_free_items of a list of pointers; list_for_each with a callback that writes
\* is the same loop
FreeItems ==
  /\ cells' = [i \in DOMAIN cells |-> IF data /\ i < itemCnt THEN NullItem ELSE cells[i]]
  /\ UNCHANGED <<data, allocCnt, itemCnt, result>>

Next ==
  \/ \E x \in Item : Push(x)
  \/ Pop
  \/ \E i \in Index : Get(i)
  \/ \E i \in Index, x \in Item : Set(i, x)
  \/ Wipe
  \/ ClearNoFree
  \/ FreeItems

Spec == Init /\ [][Next]_vars

-----------------------------------------------------------------------------
(* Properties *)

\* What the list holds, for those who call it.
Contents == [k \in 1 .. itemCnt |-> cells[k - 1]]

\* The counts agree with the block: no item is written or read past its end, also
\* after reallocs that failed.
TypeOK ==
  /\ data \in BOOLEAN /\ result \in Item \cup {NullItem, Junk, RangeError}
  /\ allocCnt \in Nat /\ allocCnt >= InitSize
  /\ cells \in [0 .. allocCnt - 1 -> Item \cup {NullItem, Junk}]
  /\ itemCnt \in 0 .. allocCnt

\* A reallocation is not undone by the next call: after growing one pop does not
\* shrink the list, after shrinking one push does not grow it.
SettledAfterResize ==
  [][/\ allocCnt' > allocCnt => itemCnt' - 1 >= allocCnt' \div 2
     /\ allocCnt' < allocCnt => itemCnt' < allocCnt']_vars

\* While every realloc succeeds, callers never read what they did not write.
NothingForeign == ~MayFail => \A i \in DOMAIN cells : i < itemCnt => cells[i] # Junk

\* While every realloc succeeds the list is the sequence that callers expect, over
\* growing, shrinking and wiping.
Promise == INSTANCE ItemList WITH items <- Contents
Refines == Promise!Spec
=============================================================================
