------------------------------ MODULE ItemList ------------------------------
(***************************************************************************)
(* What xstd/xstd_list.h promises: a sequence of items that is added to and    *)
(* taken from at its end, and read and written in place.                    *)
(***************************************************************************)
EXTENDS Integers, Sequences

CONSTANTS Item, Index, NullItem, RangeError

VARIABLES items, result

vars == <<items, result>>

Init == items = <<>> /\ result = RangeError

Push(x) == items' = Append(items, x) /\ UNCHANGED result

Pop ==
  \/ items = <<>> /\ result' = RangeError /\ UNCHANGED items
  \/ /\ items # <<>>
     /\ result' = items[Len(items)]
     /\ items' = [k \in 1 .. Len(items) - 1 |-> items[k]]

Get(i) ==
  /\ result' = IF i < Len(items) THEN items[i + 1] ELSE RangeError
  /\ UNCHANGED items

Set(i, x) ==
  /\ items' = IF i < Len(items) THEN [items EXCEPT ![i + 1] = x] ELSE items
  /\ UNCHANGED result

Clear == items' = <<>> /\ UNCHANGED result

FreeItems ==
  /\ items' = [k \in 1 .. Len(items) |-> NullItem]
  /\ UNCHANGED result

Next ==
  \/ \E x \in Item : Push(x)
  \/ Pop
  \/ \E i \in Index : Get(i)
  \/ \E i \in Index, x \in Item : Set(i, x)
  \/ Clear
  \/ FreeItems

Spec == Init /\ [][Next]_vars
=============================================================================
